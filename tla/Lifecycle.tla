------------------------------ MODULE Lifecycle ------------------------------
(***************************************************************************)
(* The life of the objects behind the connections: `struct pop3' of        *)
(* pop3_client_nio.c and `struct pop3_admin' of pop3_admin_nio.c, their    *)
(* references, the pool they are reused from, the resolution threads that  *)
(* hold a pointer to one, and the end of the process on SIGTERM.           *)
(*                                                                         *)
(* The two files hold the same pool; they differ in what becomes of an     *)
(* object the pool has no room for.  What a session relays is in           *)
(* Pop3Session, the descriptors and their numbers in Selector.  An abort() *)
(* on behalf of a session (Pop3Session) ends all of this at once and is    *)
(* not a step here.                                                        *)
(***************************************************************************)
EXTENDS Naturals, Sequences, FiniteSets

CONSTANTS
  Objects,    \* the addresses malloc may return
  Services,   \* which of "client" and "admin" to model
  max_pool

ASSUME ServicesAssumption == Services \subseteq {"client", "admin"}
ASSUME MaxPoolAssumption  == max_pool \in Nat

VARIABLES
  service,    \* which of the two pools this is
  obj,        \* none (not allocated, or freed), session, pooled or lost
  regs,       \* the descriptors registered with the object as their data
  refs,       \* references
  pool,       \* the list `pool', its first element first
  pool_size,
  stage,      \* new (PROCESS_CONNECTION), resolving or linked
  resolver,   \* the object's resolv_connection_blocking thread
  done,       \* SIGTERM or SIGINT was received
  phase       \* serving, blocked (in the filter's read), destroying
              \* (selector_destroy) or closed

heap == <<obj, regs, refs, pool, pool_size>>
vars == <<service, heap, stage, resolver, done, phase>>

------------------------------------------------------------------------------
(* The pool.                                                               *)

Init ==
  /\ service \in Services
  /\ obj = [o \in Objects |-> "none"]
  /\ regs = [o \in Objects |-> {}]
  /\ refs = [o \in Objects |-> 0]
  /\ pool = <<>> /\ pool_size = 0
  /\ stage = [o \in Objects |-> "new"]
  /\ resolver = [o \in Objects |-> "idle"]
  /\ done = FALSE /\ phase = "serving"

\* pop3_new takes the first object of the pool, or memory from malloc.  It does
\* not touch pool_size.
pop3_new(o) == IF pool = <<>> THEN obj[o] = "none" ELSE o = Head(pool)
taken       == IF pool = <<>> THEN pool ELSE Tail(pool)

\* An object whose last reference goes is kept while pool_size is below max_pool.
pooled == pool_size < max_pool

\* (slip) the reference count is not looked at
last_reference_any(r) == TRUE

last_reference(r) == r = 1

\* (slip) an object the pool has no room for is forgotten by both services
overflow_forgotten == "lost"

\* What becomes of an object the pool has no room for: pop3_client_nio.c frees it,
\* pop3_admin_nio.c has no such branch.
overflow == IF service = "client" THEN "none" ELSE "lost"

\* destroy_suscription of o when it has r references; l is the pool's list.
destroy_suscription(o, r, l) ==
  IF ~last_reference(r)
  THEN obj' = [obj EXCEPT ![o] = "session"] /\ refs' = [refs EXCEPT ![o] = r - 1]
       /\ pool' = l /\ UNCHANGED pool_size
  ELSE /\ refs' = [refs EXCEPT ![o] = 0]
       /\ IF pooled
          THEN obj' = [obj EXCEPT ![o] = "pooled"] /\ pool' = <<o>> \o l /\ pool_size' = pool_size + 1
          ELSE obj' = [obj EXCEPT ![o] = overflow] /\ pool' = l /\ UNCHANGED pool_size

------------------------------------------------------------------------------
(* A session, from its acceptance to its end.                              *)

serving == phase = "serving"

\* The accepted descriptor is registered, or the selector has no room for it and
\* the new object is given back at once.
pop3_passive_accept ==
  /\ serving
  /\ \E o \in Objects :
       /\ pop3_new(o)
       /\ stage' = [stage EXCEPT ![o] = "new"]
       /\ \/ /\ obj'  = [obj EXCEPT ![o] = "session"]
             /\ refs' = [refs EXCEPT ![o] = 1]
             /\ regs' = [regs EXCEPT ![o] = {"client"}]
             /\ pool' = taken /\ UNCHANGED pool_size
          \/ destroy_suscription(o, 1, taken) /\ UNCHANGED regs
  /\ UNCHANGED <<service, resolver, done, phase>>

\* process_connection with a name: a thread gets a pointer to the object.  When
\* pthread_create fails it returns a positive number, which the comparison with -1
\* does not see, and the session waits for a thread that does not exist.
start_resolution(o) ==
  /\ serving /\ service = "client" /\ obj[o] = "session" /\ stage[o] = "new"
  /\ stage'    = [stage EXCEPT ![o] = "resolving"]
  /\ resolver' \in {[resolver EXCEPT ![o] = "running"], resolver}
  /\ UNCHANGED <<service, heap, done, phase>>

\* (slip) a thread whose getaddrinfo fails returns without notifying
resolv_connection_blocking_silent(o) ==
  /\ resolver[o] = "running"
  /\ resolver' \in {[resolver EXCEPT ![o] = "notified"], [resolver EXCEPT ![o] = "idle"]}
  /\ UNCHANGED <<service, heap, stage, done, phase>>

\* The thread writes origin_resolution and notifies the selector.
resolv_connection_blocking(o) ==
  /\ resolver[o] = "running"
  /\ resolver' = [resolver EXCEPT ![o] = "notified"]
  /\ UNCHANGED <<service, heap, stage, done, phase>>

\* attempt_connection, at once or after the resolution: the origin's descriptor is
\* registered with the same object, or could not be.
attempt_connection(o) ==
  /\ serving /\ service = "client" /\ obj[o] = "session"
  /\ stage[o] = "new" \/ (stage[o] = "resolving" /\ resolver[o] = "notified")
  /\ stage'    = [stage EXCEPT ![o] = "linked"]
  /\ resolver' = [resolver EXCEPT ![o] = "idle"]
  /\ \/ regs' = [regs EXCEPT ![o] = {"client", "origin"}] /\ refs' = [refs EXCEPT ![o] = @ + 1]
     \/ UNCHANGED <<regs, refs>>
  /\ UNCHANGED <<service, obj, pool, pool_size, done, phase>>

\* (slip) the client is polled while its name is resolved
interested_always(o) == TRUE

\* The selector may call a handler of the session: its client is not polled while
\* the name is resolved.
interested(o) == stage[o] # "resolving"

\* The first unregistration of a session that has two leaves one reference, the
\* second is the last: finished_suscription does both in one callback.
finished_suscription(o) ==
  /\ serving /\ obj[o] = "session" /\ interested(o)
  /\ regs' = [regs EXCEPT ![o] = {}]
  /\ destroy_suscription(o, refs[o] - (Cardinality(regs[o]) - 1), pool)
  /\ UNCHANGED <<service, stage, resolver, done, phase>>

\* response_sread or dot_data_sread reads the filter's output and nothing comes:
\* the selector's thread, which serves both services, stays there.  A signal does
\* not interrupt the read (signal(3) restarts it).
read_filter ==
  /\ serving
  /\ service = "client" => \E o \in Objects : regs[o] = {"client", "origin"}
  /\ phase' = "blocked"
  /\ UNCHANGED <<service, heap, stage, resolver, done>>

------------------------------------------------------------------------------
(* The end of the process.                                                 *)

sigterm_handler ==
  /\ ~done
  /\ done' = TRUE
  /\ UNCHANGED <<service, heap, stage, resolver, phase>>

\* (slip) the loop goes on until the sessions have ended
leave_loop_idle ==
  /\ serving /\ done /\ \A o \in Objects : regs[o] = {}
  /\ phase' = "destroying"
  /\ UNCHANGED <<service, heap, stage, resolver, done>>

\* The main loop looks at `done' after each selector_select.
leave_loop ==
  /\ serving /\ done
  /\ phase' = "destroying"
  /\ UNCHANGED <<service, heap, stage, resolver, done>>

\* What selector_unregister_fd leaves registered.
cleared(o, fd) == regs[o] \ {fd}

\* selector_destroy unregisters every descriptor, in the order of their numbers,
\* which is any order here; each handle_close drops a reference.
selector_destroy ==
  /\ phase = "destroying"
  /\ \E o \in Objects : \E fd \in regs[o] :
       /\ regs' = [regs EXCEPT ![o] = cleared(o, fd)]
       /\ destroy_suscription(o, refs[o], pool)
  /\ UNCHANGED <<service, stage, resolver, done, phase>>

\* destroy_suscription_pool frees what is in the list.
destroy_suscription_pool ==
  /\ phase = "destroying" /\ \A o \in Objects : regs[o] = {}
  /\ obj' = [o \in Objects |-> IF \E i \in 1..Len(pool) : pool[i] = o THEN "none" ELSE obj[o]]
  /\ phase' = "closed"
  /\ UNCHANGED <<service, regs, refs, pool, pool_size, stage, resolver, done>>

Next ==
  \/ pop3_passive_accept
  \/ \E o \in Objects : start_resolution(o)
  \/ \E o \in Objects : resolv_connection_blocking(o)
  \/ \E o \in Objects : attempt_connection(o)
  \/ \E o \in Objects : finished_suscription(o)
  \/ read_filter
  \/ sigterm_handler
  \/ leave_loop
  \/ selector_destroy
  \/ destroy_suscription_pool

Spec == Init /\ [][Next]_vars

\* pselect returns at the latest with its timeout, so unless a handler waits for
\* the filter (read_filter, of which nothing is assumed) the loop looks at `done'
\* again and again; what follows the loop is sequential code.  getaddrinfo
\* returns, and every round of the loop takes the notifications.
Fairness ==
  /\ WF_vars(leave_loop) /\ WF_vars(selector_destroy) /\ WF_vars(destroy_suscription_pool)
  /\ \A o \in Objects : /\ WF_vars(resolv_connection_blocking(o))
                        /\ WF_vars(stage[o] = "resolving" /\ attempt_connection(o))

FairSpec == Spec /\ Fairness

------------------------------------------------------------------------------
(* Properties.                                                             *)

\* No object is released while a descriptor still has it as its data, and none is
\* released twice: the objects in the pool are distinct, unreferenced and not in
\* use, and the sessions are those with registered descriptors.
ReleasedOnce ==
  phase # "closed" =>
    /\ \A i, j \in 1..Len(pool) : pool[i] = pool[j] => i = j
    /\ \A o \in Objects : obj[o] = "pooled" <=> \E i \in 1..Len(pool) : pool[i] = o
    /\ \A o \in Objects : obj[o] = "session" <=> regs[o] # {}
    /\ \A o \in Objects : refs[o] = Cardinality(regs[o])

\* A resolution thread only ever writes to the session that started it: until the
\* loop is left, also while the selector's thread is blocked, the object is not
\* released before the thread has notified and the selector has taken the
\* notification.
ResolverSessionHeld ==
  phase \in {"serving", "blocked"} =>
    \A o \in Objects : resolver[o] # "idle" => obj[o] = "session"

\* Every object is accounted for: once the process has closed, all memory of the
\* client service has been freed; the administration service loses an object
\* only when as many as max_pool have been released before.
NothingLost ==
  /\ phase = "closed" => \A o \in Objects : obj[o] \in {"none", "lost"}
  /\ \A o \in Objects : obj[o] = "lost" => service = "admin" /\ pool_size = max_pool

\* A signal ends the process normally, as main.c registers the handler for: every
\* descriptor is unregistered and every pooled object freed.
SignalCloses == done ~> phase = "closed"

\* A signal ends the process normally, whatever the sessions and the resolution
\* threads are doing, unless a handler waits for the filter: neither a stranded
\* session nor a thread that still resolves keeps the loop or the shutdown waiting.
SignalClosesUnlessBlocked == done ~> (phase \in {"closed", "blocked"})

\* A session for which a thread resolves a name is woken, whatever its neighbours
\* do with the pool meanwhile: its connection is attempted, unless the loop ends or
\* its thread waits for the filter.
ResolutionCompletes ==
  \A o \in Objects :
    (stage[o] = "resolving" /\ resolver[o] # "idle") ~> (stage[o] # "resolving" \/ phase # "serving")
==============================================================================

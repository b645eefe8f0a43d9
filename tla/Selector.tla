------------------------------- MODULE Selector -------------------------------
(***************************************************************************)
(* The multiplexer of selector.c, with the sessions of pop3_client_nio.c   *)
(* as its users and the name resolution threads that notify it.            *)
(*                                                                         *)
(* A session has a client descriptor and, once it connects, an origin      *)
(* descriptor; what it relays is left out (Pop3Session has it).  One       *)
(* selector callback is one action: callbacks run to completion in the     *)
(* selector's thread, and the resolution threads only touch the list of    *)
(* finished jobs.  Descriptor 0 stands for the listening socket.           *)
(***************************************************************************)
EXTENDS Integers, Sequences, FiniteSets

CONSTANTS
  Sessions,         \* the struct pop3 objects
  ITEMS_MAX_SIZE,   \* FD_SETSIZE
  InitialElements   \* the argument of selector_new

UNUSED   == "FD_UNUSED"
Listener == "listener"

ASSUME SessionsAssumption == UNUSED \notin Sessions /\ Listener \notin Sessions
ASSUME SizesAssumption    == /\ ITEMS_MAX_SIZE \in Nat \ {0}
                             /\ InitialElements \in 0..ITEMS_MAX_SIZE

VARIABLES
  (* struct fdselector *)
  fd_size,    \* how many items are allocated
  owner,      \* item->data; UNUSED when item->fd is FD_UNUSED
  interest,   \* item->interest
  max_fd,
  master,     \* master_r and master_w
  slave,      \* slave_r and slave_w
  jobs,       \* resolution_jobs, the last notified first
  (* the selector's thread *)
  pc,         \* "select", "scan" (handle_iteration) or "drain" (notifications)
  last,       \* n in handle_iteration
  cur,        \* the next Place handle_iteration looks at
  fresh,      \* descriptors registered since pselect returned (history)
  (* the sessions *)
  sess        \* free, active, resolving (thread running), notified or stuck

vars == <<fd_size, owner, interest, max_fd, master, slave, jobs, pc, last, cur, fresh, sess>>

Fds == 0..(ITEMS_MAX_SIZE - 1)
Dir == {"R", "W"}

Used   == {fd \in Fds : owner[fd] # UNUSED}
Own(s) == {fd \in Fds : owner[fd] = s}

\* The place of a descriptor and direction in the order of handle_iteration:
\* ascending descriptors, reading before writing.
Place(fd, d) == 2 * fd + (IF d = "R" THEN 0 ELSE 1)

------------------------------------------------------------------------------
(* The table of items.                                                     *)

\* The least power of two above m, at most ITEMS_MAX_SIZE, and one more.
next_capacity(m) ==
  LET powers == {p \in 1..ITEMS_MAX_SIZE : p > m /\ \E b \in 0..p : p = 2^b}
  IN  (IF powers = {} THEN ITEMS_MAX_SIZE ELSE CHOOSE p \in powers : \A o \in powers : p <= o) + 1

\* selector_register asks for room only when fd is greater than fd_size: the item
\* of a descriptor equal to it is just past the table.
grown(fd) == IF fd > fd_size THEN next_capacity(fd) ELSE fd_size

\* (slip) only the sets of the directions that are set are touched
updated_without_clearing(m, F, int) ==
  [d \in Dir |-> IF \E fd \in F : d \in int[fd] THEN m[d] \cup {fd \in F : d \in int[fd]} ELSE m[d]]

\* items_update_fdset_for_fd on the descriptors F with the interests int.
items_update_fdset(m, F, int) ==
  [d \in Dir |-> (m[d] \ F) \cup {fd \in F : d \in int[fd]}]

\* items_max_fd: the greatest used descriptor up to max_fd, 0 without one.
items_max_fd(own) ==
  LET used == {fd \in Fds : fd <= max_fd /\ own[fd] # UNUSED}
  IN  {m \in used \cup {0} : \A fd \in used : fd <= m}

\* selector_set_interest on every descriptor of F.
selector_set_interest(F, int) ==
  /\ interest' = [fd \in Fds |-> IF fd \in F THEN int[fd] ELSE interest[fd]]
  /\ master' = items_update_fdset(master, F, int)
  /\ UNCHANGED <<fd_size, owner, max_fd, fresh>>

\* selector_register of fd for s with one interest, while the descriptors of F
\* get the interests of int.
selector_register(fd, s, d, F, int) ==
  LET int2 == [f \in Fds |-> IF f = fd THEN {d} ELSE IF f \in F THEN int[f] ELSE interest[f]]
  IN  /\ fd_size'  = grown(fd)
      /\ owner'    = [owner EXCEPT ![fd] = s]
      /\ interest' = int2
      /\ max_fd'   = IF fd > max_fd THEN fd ELSE max_fd
      /\ master'   = items_update_fdset(master, F \cup {fd}, int2)
      /\ fresh'    = fresh \cup {fd}

\* selector_unregister_fd of the descriptors of F.
selector_unregister_fd(F) ==
  LET own == [fd \in Fds |-> IF fd \in F THEN UNUSED ELSE owner[fd]]
      int == [fd \in Fds |-> IF fd \in F THEN {} ELSE interest[fd]]
  IN  /\ owner'    = own
      /\ interest' = int
      /\ master'   = items_update_fdset(master, F, int)
      /\ max_fd' \in items_max_fd(own)
      /\ UNCHANGED <<fd_size, fresh>>

\* The kernel gives a new descriptor the least free number; one that is not below
\* ITEMS_MAX_SIZE is refused by selector_register.
LeastFree == {fd \in Fds \ Used : \A g \in Fds \ Used : fd <= g}

------------------------------------------------------------------------------
(* What a callback does with the table.                                    *)

Silent == [fd \in Fds |-> {}]

\* (slip) the other descriptor of the session stays polled
polling_both(s, fd, d) == [f \in Fds |-> IF f = fd THEN {d} ELSE interest[f]]

\* The interests of a session's descriptors when it waits for d on fd alone.
polling(s, fd, d) == [Silent EXCEPT ![fd] = {d}]

\* pop3_passive_accept: a new session waits for its client to be writable.
accept ==
  \/ \E s \in Sessions, fd \in LeastFree :
       /\ sess[s] = "free"
       /\ sess' = [sess EXCEPT ![s] = "active"]
       /\ selector_register(fd, s, "W", {}, Silent)
  \/ \* accept(2) failed, or there is no room for the descriptor
     UNCHANGED <<fd_size, owner, interest, max_fd, master, fresh, sess>>

\* A handler that goes on with one of its session's descriptors.
poll(s) ==
  /\ \E fd \in Own(s), d \in Dir : selector_set_interest(Own(s), polling(s, fd, d))
  /\ sess' = [sess EXCEPT ![s] = "active"]

\* attempt_connection: stop polling the client and register the origin.  When the
\* registration fails the session is left without any interest; when the socket
\* or the connection fails, with those it had.
connect(s) ==
  /\ Cardinality(Own(s)) = 1
  /\ \/ \E fd \in LeastFree :
          /\ selector_register(fd, s, "W", Own(s), Silent)
          /\ sess' = [sess EXCEPT ![s] = "active"]
     \/ /\ LeastFree = {}
        /\ selector_set_interest(Own(s), Silent)
        /\ sess' = [sess EXCEPT ![s] = "stuck"]
     \/ /\ UNCHANGED <<fd_size, owner, interest, max_fd, master, fresh>>
        /\ \E fd \in Own(s) :
             sess' = [sess EXCEPT ![s] = IF interest[fd] = {} THEN "stuck" ELSE "active"]

\* (slip) the client stays polled
resolve_polled(s) ==
  /\ Cardinality(Own(s)) = 1
  /\ selector_set_interest(Own(s), interest)
  /\ sess' = [sess EXCEPT ![s] = "resolving"]

\* process_connection with a name: the client is not polled while a thread
\* resolves it.
resolve(s) ==
  /\ Cardinality(Own(s)) = 1
  /\ selector_set_interest(Own(s), Silent)
  /\ sess' = [sess EXCEPT ![s] = "resolving"]

\* finished_suscription.
finish(s) ==
  /\ selector_unregister_fd(Own(s))
  /\ sess' = [sess EXCEPT ![s] = "free"]

callback(s) ==
  \/ s = Listener /\ accept
  \/ s \in Sessions /\ (poll(s) \/ connect(s) \/ resolve(s) \/ finish(s))

------------------------------------------------------------------------------
(* The selector's thread.                                                  *)

Init ==
  /\ fd_size = next_capacity(InitialElements)
  /\ owner = [fd \in Fds |-> IF fd = 0 THEN Listener ELSE UNUSED]
  /\ interest = [fd \in Fds |-> IF fd = 0 THEN {"R"} ELSE {}]
  /\ max_fd = 0
  /\ master = [d \in Dir |-> IF d = "R" THEN {0} ELSE {}]
  /\ slave = [d \in Dir |-> {}]
  /\ jobs = <<>>
  /\ pc = "select" /\ last = 0 /\ cur = 0 /\ fresh = {}
  /\ sess = [s \in Sessions |-> "free"]

table == <<fd_size, owner, interest, max_fd, master>>

\* selector_select up to the return of pselect: any of the polled descriptors
\* may be ready, none after the timeout, and a signal skips the iteration.
selector_select ==
  /\ pc = "select"
  /\ \/ /\ slave' \in {f \in [Dir -> SUBSET Fds] : \A d \in Dir : f[d] \subseteq master[d]}
        /\ pc' = "scan"
     \/ slave' = master /\ pc' = "drain"
  /\ last' = max_fd /\ cur' = 0 /\ fresh' = {}
  /\ UNCHANGED <<table, jobs, sess>>

\* handle_iteration will find the descriptor ready and, still, interested.
Event(fd, d) ==
  /\ Place(fd, d) >= cur /\ fd <= last
  /\ owner[fd] # UNUSED
  /\ fd \in slave[d]
  /\ d \in interest[fd]

\* The next event is handled: every earlier one is gone.
handle_iteration ==
  /\ pc = "scan"
  /\ \E fd \in Fds, d \in Dir :
       /\ Event(fd, d)
       /\ \A g \in Fds, e \in Dir : Event(g, e) => Place(fd, d) <= Place(g, e)
       /\ callback(owner[fd])
       /\ cur' = Place(fd, d) + 1
  /\ UNCHANGED <<slave, jobs, pc, last>>

iteration_done ==
  /\ pc = "scan" /\ \A fd \in Fds, d \in Dir : ~Event(fd, d)
  /\ pc' = "drain"
  /\ UNCHANGED <<table, slave, jobs, last, cur, fresh, sess>>

\* (slip) the list is freed after its first job
handle_block_notification_once ==
  /\ pc = "drain" /\ jobs # <<>>
  /\ IF owner[Head(jobs)] = UNUSED THEN UNCHANGED <<table, fresh, sess>>
     ELSE connect(owner[Head(jobs)])
  /\ jobs' = <<>>
  /\ UNCHANGED <<slave, pc, last, cur>>

\* handle_block_notifications, which holds resolution_mutex until the list is
\* empty; a job whose descriptor is not registered any more is dropped.
handle_block_notification ==
  /\ pc = "drain" /\ jobs # <<>>
  /\ IF owner[Head(jobs)] = UNUSED THEN UNCHANGED <<table, fresh, sess>>
     ELSE connect(owner[Head(jobs)])
  /\ jobs' = Tail(jobs)
  /\ UNCHANGED <<slave, pc, last, cur>>

notifications_done ==
  /\ pc = "drain" /\ jobs = <<>>
  /\ pc' = "select"
  /\ UNCHANGED <<table, slave, jobs, last, cur, fresh, sess>>

\* selector_notify_block, in the thread of resolv_connection_blocking.
selector_notify_block(s) ==
  /\ sess[s] = "resolving" /\ pc # "drain"
  /\ \E fd \in Own(s) : jobs' = <<fd>> \o jobs
  /\ sess' = [sess EXCEPT ![s] = "notified"]
  /\ UNCHANGED <<table, slave, pc, last, cur, fresh>>

Loop == \/ selector_select
        \/ handle_iteration
        \/ iteration_done
        \/ handle_block_notification
        \/ notifications_done

Next == Loop \/ \E s \in Sessions : selector_notify_block(s)

Spec == Init /\ [][Next]_vars

------------------------------------------------------------------------------
(* Properties.                                                             *)

\* The types of the selector's variables; the table is never asked to be larger than
\* select(2) supports (next_capacity). Proved in SelectorProofs for every instance.
TypeOK ==
  /\ fd_size \in 1..(ITEMS_MAX_SIZE + 1)
  /\ owner \in [Fds -> Sessions \cup {UNUSED, Listener}]
  /\ interest \in [Fds -> SUBSET Dir]
  /\ max_fd \in Fds /\ last \in Fds /\ cur \in Nat
  /\ master \in [Dir -> SUBSET Fds] /\ slave \in [Dir -> SUBSET Fds]
  /\ jobs \in Seq(Fds)
  /\ pc \in {"select", "scan", "drain"}
  /\ fresh \subseteq Fds
  /\ sess \in [Sessions -> {"free", "active", "resolving", "notified", "stuck"}]

\* The sets handed to pselect are those of the items: every interest of a used
\* item is polled, nothing else is, and max_fd is the greatest used descriptor:
\* pselect is called with max_fd + 1 and handle_iteration stops at it.
PolledIsInterest ==
  /\ \A d \in Dir : master[d] = {fd \in Used : d \in interest[fd]}
  /\ \A fd \in Used : fd <= max_fd
  /\ max_fd \in Used \cup {0}

\* Every item in use is inside the allocated table, as fd_size is documented: the
\* number of elements fds can hold.
ItemsInBounds == \A fd \in Used : fd < fd_size

\* No descriptor registered by a callback receives, in the same iteration, an
\* event that pselect reported for the connection that had its number before.
NoStaleEvent ==
  pc = "scan" => \A fd \in Fds, d \in Dir : Event(fd, d) => fd \notin fresh

\* A finished resolution is delivered to the session that asked for it: its
\* descriptor is still registered, and its session still waits.
NotificationReachesSession ==
  \A k \in 1..Len(jobs) : /\ owner[jobs[k]] \in Sessions
                          /\ sess[owner[jobs[k]]] = "notified"

\* No finished resolution is forgotten: a session whose thread has notified has
\* its job in the list until handle_block_notifications has connected it, however
\* many threads notify between two rounds.
NotificationKept ==
  \A s \in Sessions : sess[s] = "notified" => \E k \in 1..Len(jobs) : owner[jobs[k]] = s
==============================================================================

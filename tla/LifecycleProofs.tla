--------------------------- MODULE LifecycleProofs ---------------------------
(***************************************************************************)
(* For every number of objects and every max_pool: an object is released   *)
(* once and only when nothing refers to it, a resolution thread never      *)
(* holds a pointer to a released one, and only the administration service  *)
(* loses memory.                                                           *)
(***************************************************************************)
EXTENDS Lifecycle, FiniteSetTheorems, TLAPS

------------------------------------------------------------------------------
(* The inductive invariant.                                                  *)

Descriptors == {"client", "origin"}

Typed ==
  /\ service \in {"client", "admin"}
  /\ obj \in [Objects -> {"none", "session", "pooled", "lost"}]
  /\ regs \in [Objects -> SUBSET Descriptors]
  /\ refs \in [Objects -> Nat]
  /\ pool \in Seq(Objects)
  /\ pool_size \in 0..max_pool
  /\ stage \in [Objects -> {"new", "resolving", "linked"}]
  /\ resolver \in [Objects -> {"idle", "running", "notified"}]
  /\ phase \in {"serving", "blocked", "destroying", "closed"}

\* Until the loop is left, the first registration of a session is its client's and
\* the second is made when its stage becomes linked; a resolution thread exists
\* only for a session that waits for it.
Staged ==
  phase \in {"serving", "blocked"} =>
    \A o \in Objects :
      /\ obj[o] = "session" => "client" \in regs[o]
      /\ obj[o] = "session" /\ stage[o] # "linked" => regs[o] = {"client"}
      /\ resolver[o] # "idle" => obj[o] = "session" /\ stage[o] = "resolving"

\* Memory is lost only by the administration service, and only past max_pool.
LostLate == \A o \in Objects : obj[o] = "lost" => service = "admin" /\ pool_size = max_pool

\* When the process has closed, nothing is in use or pooled.
AllFreed == phase = "closed" => \A o \in Objects : obj[o] \in {"none", "lost"}

IInv == Typed /\ ReleasedOnce /\ Staged /\ LostLate /\ AllFreed

------------------------------------------------------------------------------
(* Registrations and the pool.                                               *)

\* The registrations an object can have, and their number.
LEMMA RegistrationCounts ==
  /\ Cardinality({}) = 0 /\ Cardinality({"client"}) = 1
  /\ Cardinality({"origin"}) = 1 /\ Cardinality(Descriptors) = 2
  /\ \A R \in SUBSET Descriptors : R \in {{}, {"client"}, {"origin"}, Descriptors}
<1>1. /\ Cardinality({}) = 0 /\ Cardinality({"client"}) = 1 /\ Cardinality({"origin"}) = 1
      /\ IsFiniteSet({"client"})
  BY FS_EmptySet, FS_Singleton
<1>2. Cardinality({"client"} \cup {"origin"}) = 2
  BY <1>1, FS_AddElement
<1>3. Descriptors = {"client"} \cup {"origin"}
  BY DEF Descriptors
<1>4. \A R \in SUBSET Descriptors : R \in {{}, {"client"}, {"origin"}, Descriptors}
  BY DEF Descriptors
<1> QED
  BY <1>1, <1>2, <1>3, <1>4

\* One registration is the client's or the origin's.
LEMMA OneRegistration ==
  ASSUME NEW R \in SUBSET Descriptors, Cardinality(R) = 1
  PROVE  R \in {{"client"}, {"origin"}}
<1>1. R \in {{}, {"client"}, {"origin"}, Descriptors}
  BY RegistrationCounts
<1>2. Cardinality({}) # 1 /\ Cardinality(Descriptors) # 1
  BY RegistrationCounts
<1>3. R # {} /\ R # Descriptors
  BY <1>2, Zenon
<1> QED
  BY <1>1, <1>3

\* What a list holds, and that it holds it once.
Lists(l, o) == \E i \in 1..Len(l) : l[i] = o
Distinct(l) == \A i, j \in 1..Len(l) : l[i] = l[j] => i = j

\* ReleasedOnce, in these words.
LEMMA ReleasedOnceParts ==
  ReleasedOnce <=>
    (phase # "closed" =>
       /\ Distinct(pool)
       /\ \A o \in Objects : obj[o] = "pooled" <=> Lists(pool, o)
       /\ \A o \in Objects : obj[o] = "session" <=> regs[o] # {}
       /\ \A o \in Objects : refs[o] = Cardinality(regs[o]))
BY DEF ReleasedOnce, Distinct, Lists

\* An object put before a list that does not hold it.
LEMMA Pushed ==
  ASSUME NEW l \in Seq(Objects), NEW o \in Objects, Distinct(l), ~Lists(l, o)
  PROVE  /\ <<o>> \o l \in Seq(Objects) /\ Distinct(<<o>> \o l)
         /\ \A p : Lists(<<o>> \o l, p) <=> p = o \/ Lists(l, p)
<1> DEFINE m == <<o>> \o l
<1>1. /\ m \in Seq(Objects) /\ Len(m) = Len(l) + 1 /\ Len(l) \in Nat
      /\ m[1] = o /\ \A i \in 1..Len(l) : m[i + 1] = l[i]
  OBVIOUS
<1> HIDE DEF m
<1>2. \A i \in 1..Len(m) : i = 1 \/ (i - 1 \in 1..Len(l) /\ m[i] = l[i - 1])
  BY <1>1
<1>3. Distinct(m)
  <2>1. ASSUME NEW i \in 1..Len(m), NEW j \in 1..Len(m), m[i] = m[j], i # j PROVE FALSE
    <3>1. CASE i = 1 \/ j = 1
      BY <1>1, <1>2, <2>1, <3>1 DEF Lists
    <3>2. CASE i # 1 /\ j # 1
      <4>1. i - 1 \in 1..Len(l) /\ j - 1 \in 1..Len(l) /\ l[i - 1] = l[j - 1]
        BY <1>2, <2>1, <3>2
      <4>2. i - 1 = j - 1
        BY <4>1 DEF Distinct
      <4> QED
        BY <2>1, <4>2
    <3> QED
      BY <3>1, <3>2
  <2> QED
    BY <2>1 DEF Distinct
<1>4. ASSUME NEW p PROVE Lists(m, p) <=> p = o \/ Lists(l, p)
  <2>1. Lists(m, p) => p = o \/ Lists(l, p)
    BY <1>1, <1>2 DEF Lists
  <2>2. p = o => Lists(m, p)
    BY <1>1 DEF Lists
  <2>3. ASSUME NEW i \in 1..Len(l), l[i] = p PROVE Lists(m, p)
    BY <1>1, <2>3 DEF Lists
  <2> QED
    BY <2>1, <2>2, <2>3 DEF Lists
<1> QED
  BY <1>1, <1>3, <1>4 DEF m

\* A list without its head.
LEMMA Popped ==
  ASSUME NEW l \in Seq(Objects), l # <<>>, Distinct(l)
  PROVE  /\ Head(l) \in Objects /\ Tail(l) \in Seq(Objects) /\ Distinct(Tail(l))
         /\ Lists(l, Head(l)) /\ ~Lists(Tail(l), Head(l))
         /\ \A p : p # Head(l) => (Lists(Tail(l), p) <=> Lists(l, p))
<1> DEFINE m == Tail(l)
<1>1. /\ m \in Seq(Objects) /\ Len(l) \in Nat /\ Len(l) > 0 /\ Len(m) = Len(l) - 1
      /\ l[1] = Head(l) /\ Head(l) \in Objects
      /\ \A i \in 1..Len(m) : m[i] = l[i + 1]
  OBVIOUS
<1> HIDE DEF m
<1>2. Distinct(m) /\ Lists(l, Head(l)) /\ ~Lists(m, Head(l))
  BY <1>1 DEF Distinct, Lists
<1>3. ASSUME NEW p, p # Head(l) PROVE Lists(m, p) <=> Lists(l, p)
  <2>1. Lists(m, p) => Lists(l, p)
    BY <1>1 DEF Lists
  <2>2. ASSUME NEW i \in 1..Len(l), l[i] = p PROVE Lists(m, p)
    <3>1. i # 1 /\ i - 1 \in 1..Len(m) /\ m[i - 1] = p
      BY <1>1, <1>3, <2>2
    <3> QED
      BY <3>1 DEF Lists
  <2> QED
    BY <2>1, <2>2 DEF Lists
<1> QED
  BY <1>1, <1>2, <1>3 DEF m

\* destroy_suscription at the last reference of o, with a list that holds the other
\* pooled objects: o is pooled, freed or lost, and no other object is touched.
LEMMA LastReference ==
  ASSUME Typed, LostLate, NEW o \in Objects, NEW l \in Seq(Objects), Distinct(l), ~Lists(l, o),
         \A p \in Objects : p # o => (obj[p] = "pooled" <=> Lists(l, p)),
         destroy_suscription(o, 1, l), service' = service
  PROVE  /\ obj' \in [Objects -> {"none", "session", "pooled", "lost"}]
         /\ refs' = [refs EXCEPT ![o] = 0]
         /\ pool' \in Seq(Objects) /\ pool_size' \in 0..max_pool
         /\ Distinct(pool')
         /\ \A p \in Objects : obj'[p] = "pooled" <=> Lists(pool', p)
         /\ obj'[o] # "session" /\ \A p \in Objects : p # o => obj'[p] = obj[p]
         /\ LostLate'
<1>1. refs' = [refs EXCEPT ![o] = 0]
  BY DEF destroy_suscription, last_reference
<1>2. CASE pooled
  <2>1. /\ obj' = [obj EXCEPT ![o] = "pooled"] /\ pool' = <<o>> \o l
        /\ pool_size' = pool_size + 1 /\ pool_size < max_pool
    BY <1>2 DEF destroy_suscription, last_reference, pooled
  <2>2. /\ obj' \in [Objects -> {"none", "session", "pooled", "lost"}]
        /\ obj'[o] = "pooled" /\ \A p \in Objects : p # o => obj'[p] = obj[p]
    BY <2>1 DEF Typed
  <2>3. LostLate' /\ pool_size' \in 0..max_pool
    BY <2>1, <2>2, MaxPoolAssumption DEF LostLate, Typed
  <2> QED
    BY <1>1, <2>1, <2>2, <2>3, Pushed
<1>3. CASE ~pooled
  <2>1. /\ obj' = [obj EXCEPT ![o] = overflow] /\ pool' = l /\ pool_size' = pool_size
        /\ pool_size = max_pool
    BY <1>3, MaxPoolAssumption DEF destroy_suscription, last_reference, pooled, Typed
  <2>2. /\ obj' \in [Objects -> {"none", "session", "pooled", "lost"}]
        /\ obj'[o] = overflow /\ \A p \in Objects : p # o => obj'[p] = obj[p]
        /\ overflow \in {"none", "lost"}
    BY <2>1 DEF Typed, overflow
  <2>3. LostLate' /\ pool_size' \in 0..max_pool
    BY <2>1, <2>2 DEF LostLate, Typed, overflow
  <2>4. \A p \in Objects : obj'[p] = "pooled" <=> Lists(pool', p)
    BY <2>1, <2>2
  <2> QED
    BY <1>1, <2>1, <2>2, <2>3, <2>4
<1> QED
  BY <1>2, <1>3

------------------------------------------------------------------------------
(* The steps.                                                                *)

\* IInv holds initially.
LEMMA InitIInv == Init => IInv
<1> SUFFICES ASSUME Init PROVE IInv
  OBVIOUS
<1>1. Typed /\ Staged /\ LostLate /\ AllFreed
  BY ServicesAssumption, MaxPoolAssumption DEF Init, Typed, Staged, LostLate, AllFreed
<1>2. Distinct(pool) /\ \A o : ~Lists(pool, o)
  BY DEF Init, Distinct, Lists
<1>3. ReleasedOnce
  BY <1>2, ReleasedOnceParts, RegistrationCounts DEF Init
<1> QED
  BY <1>1, <1>3 DEF IInv

\* pop3_passive_accept: the object is new, or was in the pool.
LEMMA AcceptKeeps ==
  ASSUME IInv, pop3_passive_accept
  PROVE  IInv'
<1> USE DEF IInv
<1>1. PICK o \in Objects :
        /\ pop3_new(o)
        /\ stage' = [stage EXCEPT ![o] = "new"]
        /\ \/ /\ obj'  = [obj EXCEPT ![o] = "session"]
              /\ refs' = [refs EXCEPT ![o] = 1]
              /\ regs' = [regs EXCEPT ![o] = {"client"}]
              /\ pool' = taken /\ UNCHANGED pool_size
           \/ destroy_suscription(o, 1, taken) /\ UNCHANGED regs
  BY DEF pop3_passive_accept
<1>2. phase = "serving" /\ UNCHANGED <<service, resolver, phase>>
  BY DEF pop3_passive_accept, serving
<1>3. /\ Distinct(pool)
      /\ \A p \in Objects : obj[p] = "pooled" <=> Lists(pool, p)
      /\ \A p \in Objects : obj[p] = "session" <=> regs[p] # {}
      /\ \A p \in Objects : refs[p] = Cardinality(regs[p])
  BY <1>2, ReleasedOnceParts
<1>4. /\ obj[o] \in {"none", "pooled"} /\ regs[o] = {} /\ resolver[o] = "idle"
      /\ taken \in Seq(Objects) /\ Distinct(taken) /\ ~Lists(taken, o)
      /\ \A p \in Objects : p # o => (obj[p] = "pooled" <=> Lists(taken, p))
  <2>1. CASE pool = <<>>
    <3>1. obj[o] = "none" /\ taken = pool
      BY <1>1, <2>1 DEF pop3_new, taken
    <3> QED
      BY <1>2, <1>3, <3>1 DEF Typed, Staged
  <2>2. CASE pool # <<>>
    <3>1. o = Head(pool) /\ taken = Tail(pool)
      BY <1>1, <2>2 DEF pop3_new, taken
    <3>2. /\ taken \in Seq(Objects) /\ Distinct(taken) /\ ~Lists(taken, o) /\ Lists(pool, o)
          /\ \A p : p # o => (Lists(taken, p) <=> Lists(pool, p))
      BY <1>3, <2>2, <3>1, Popped DEF Typed
    <3>3. obj[o] = "pooled"
      BY <1>3, <3>2
    <3> QED
      BY <1>2, <1>3, <3>2, <3>3 DEF Typed, Staged
  <2> QED
    BY <2>1, <2>2
<1>5. stage' \in [Objects -> {"new", "resolving", "linked"}]
  BY <1>1 DEF Typed
<1>6. CASE /\ obj'  = [obj EXCEPT ![o] = "session"]
           /\ refs' = [refs EXCEPT ![o] = 1]
           /\ regs' = [regs EXCEPT ![o] = {"client"}]
           /\ pool' = taken /\ UNCHANGED pool_size
  <2>1. Typed'
    BY <1>2, <1>4, <1>5, <1>6 DEF Typed, Descriptors
  <2>2. ReleasedOnce'
    <3>1. \A p \in Objects : obj'[p] = "pooled" <=> Lists(pool', p)
      BY <1>4, <1>6 DEF Typed
    <3>2. \A p \in Objects : obj'[p] = "session" <=> regs'[p] # {}
      BY <1>3, <1>6 DEF Typed
    <3>3. \A p \in Objects : refs'[p] = Cardinality(regs'[p])
      BY <1>3, <1>6, RegistrationCounts DEF Typed
    <3> QED
      BY <1>4, <1>6, <3>1, <3>2, <3>3 DEF ReleasedOnce, Distinct, Lists
  <2>3. Staged'
    BY <1>1, <1>2, <1>4, <1>6 DEF Typed, Staged
  <2>4. LostLate' /\ AllFreed'
    BY <1>2, <1>6 DEF Typed, LostLate, AllFreed
  <2> QED
    BY <2>1, <2>2, <2>3, <2>4
<1>7. CASE destroy_suscription(o, 1, taken) /\ UNCHANGED regs
  <2>1. /\ obj' \in [Objects -> {"none", "session", "pooled", "lost"}]
        /\ refs' = [refs EXCEPT ![o] = 0]
        /\ pool' \in Seq(Objects) /\ pool_size' \in 0..max_pool
        /\ Distinct(pool')
        /\ \A p \in Objects : obj'[p] = "pooled" <=> Lists(pool', p)
        /\ obj'[o] # "session" /\ \A p \in Objects : p # o => obj'[p] = obj[p]
        /\ LostLate'
    BY <1>2, <1>4, <1>7, LastReference
  <2>2. Typed' /\ AllFreed'
    BY <1>2, <1>5, <1>7, <2>1 DEF Typed, AllFreed
  <2>3. ReleasedOnce'
    <3>1. \A p \in Objects : obj'[p] = "session" <=> regs'[p] # {}
      BY <1>3, <1>4, <1>7, <2>1
    <3>2. \A p \in Objects : refs'[p] = Cardinality(regs'[p])
      BY <1>3, <1>4, <1>7, <2>1, RegistrationCounts DEF Typed
    <3> QED
      BY <2>1, <3>1, <3>2 DEF ReleasedOnce, Distinct, Lists
  <2>4. Staged'
    BY <1>1, <1>2, <1>4, <1>7, <2>1 DEF Typed, Staged
  <2> QED
    BY <2>1, <2>2, <2>3, <2>4
<1> QED
  BY <1>1, <1>6, <1>7

\* A thread starts for a session, and notifies: nothing of the heap changes.
LEMMA ResolutionKeeps ==
  ASSUME IInv, NEW o \in Objects, start_resolution(o) \/ resolv_connection_blocking(o)
  PROVE  IInv'
<1>1. UNCHANGED <<service, obj, regs, refs, pool, pool_size, phase>>
  BY DEF start_resolution, resolv_connection_blocking, heap
<1>2. ReleasedOnce' /\ LostLate' /\ AllFreed'
  BY <1>1 DEF IInv, ReleasedOnce, LostLate, AllFreed
<1>3. Typed' /\ Staged'
  <2>1. CASE start_resolution(o)
    BY <1>1, <2>1 DEF IInv, start_resolution, Typed, Staged
  <2>2. CASE resolv_connection_blocking(o)
    BY <1>1, <2>2 DEF IInv, resolv_connection_blocking, Typed, Staged
  <2> QED
    BY <2>1, <2>2
<1> QED
  BY <1>2, <1>3 DEF IInv

\* attempt_connection adds the second registration and the second reference.
LEMMA AttemptKeeps ==
  ASSUME IInv, NEW o \in Objects, attempt_connection(o)
  PROVE  IInv'
<1>1. /\ phase = "serving" /\ obj[o] = "session" /\ stage[o] # "linked"
      /\ stage' = [stage EXCEPT ![o] = "linked"] /\ resolver' = [resolver EXCEPT ![o] = "idle"]
      /\ UNCHANGED <<service, obj, pool, pool_size, phase>>
  BY DEF attempt_connection, serving
<1>2. regs[o] = {"client"} /\ refs[o] = 1
  BY <1>1, ReleasedOnceParts, RegistrationCounts DEF IInv, Staged
<1>3. LostLate' /\ AllFreed'
  BY <1>1 DEF IInv, LostLate, AllFreed
<1>4. CASE regs' = [regs EXCEPT ![o] = {"client", "origin"}] /\ refs' = [refs EXCEPT ![o] = @ + 1]
  <2>1. Typed' /\ Staged'
    BY <1>1, <1>4 DEF IInv, Typed, Staged, Descriptors
  <2>2. \A p \in Objects : (obj'[p] = "session" <=> regs'[p] # {})
    BY <1>1, <1>4, ReleasedOnceParts DEF IInv, Typed
  <2>3. \A p \in Objects : refs'[p] = Cardinality(regs'[p])
    <3>1. \A p \in Objects : refs[p] = Cardinality(regs[p])
      BY <1>1, ReleasedOnceParts DEF IInv
    <3>2. regs'[o] = Descriptors /\ refs'[o] = 2
      BY <1>2, <1>4 DEF IInv, Typed, Descriptors
    <3> QED
      BY <1>4, <3>1, <3>2, RegistrationCounts DEF IInv, Typed
  <2>4. ReleasedOnce'
    BY <1>1, <2>2, <2>3 DEF IInv, ReleasedOnce
  <2> QED
    BY <1>3, <2>1, <2>4 DEF IInv
<1>5. CASE UNCHANGED <<regs, refs>>
  BY <1>1, <1>3, <1>5 DEF IInv, Typed, Staged, ReleasedOnce
<1> QED
  BY <1>4, <1>5 DEF attempt_connection

\* The last registration of o goes, in finished_suscription or in selector_destroy.
LEMMA ReleaseKeeps ==
  ASSUME IInv, phase # "closed", NEW o \in Objects, obj[o] = "session",
         phase \in {"serving", "blocked"} => resolver[o] = "idle",
         regs' = [regs EXCEPT ![o] = {}], destroy_suscription(o, 1, pool),
         UNCHANGED <<service, stage, resolver, phase>>
  PROVE  IInv'
<1> USE DEF IInv
<1>1. /\ Distinct(pool)
      /\ \A p \in Objects : obj[p] = "pooled" <=> Lists(pool, p)
      /\ \A p \in Objects : obj[p] = "session" <=> regs[p] # {}
      /\ \A p \in Objects : refs[p] = Cardinality(regs[p])
  BY ReleasedOnceParts
<1>2. /\ obj' \in [Objects -> {"none", "session", "pooled", "lost"}]
      /\ refs' = [refs EXCEPT ![o] = 0]
      /\ pool' \in Seq(Objects) /\ pool_size' \in 0..max_pool
      /\ Distinct(pool')
      /\ \A p \in Objects : obj'[p] = "pooled" <=> Lists(pool', p)
      /\ obj'[o] # "session" /\ \A p \in Objects : p # o => obj'[p] = obj[p]
      /\ LostLate'
  <2>1. ~Lists(pool, o) /\ pool \in Seq(Objects)
    BY <1>1 DEF Typed
  <2> QED
    BY <1>1, <2>1, LastReference
<1>3. Typed' /\ AllFreed'
  BY <1>2 DEF Typed, AllFreed
<1>4. Staged'
  BY <1>2 DEF Typed, Staged
<1>5. \A p \in Objects : obj'[p] = "session" <=> regs'[p] # {}
  BY <1>1, <1>2 DEF Typed
<1>6. \A p \in Objects : refs'[p] = Cardinality(regs'[p])
  BY <1>1, <1>2, RegistrationCounts DEF Typed
<1>7. ReleasedOnce'
  BY <1>2, <1>5, <1>6 DEF ReleasedOnce, Distinct, Lists
<1> QED
  BY <1>2, <1>3, <1>4, <1>7

\* finished_suscription takes both registrations; its last call is for the last
\* reference.
LEMMA FinishKeeps ==
  ASSUME IInv, NEW o \in Objects, finished_suscription(o)
  PROVE  IInv'
<1>1. /\ phase = "serving" /\ obj[o] = "session" /\ stage[o] # "resolving"
      /\ regs' = [regs EXCEPT ![o] = {}]
      /\ destroy_suscription(o, refs[o] - (Cardinality(regs[o]) - 1), pool)
      /\ UNCHANGED <<service, stage, resolver, phase>>
  BY DEF finished_suscription, serving, interested
<1>2. refs[o] = Cardinality(regs[o]) /\ refs[o] \in Nat
  BY <1>1, ReleasedOnceParts DEF IInv, Typed
<1>3. refs[o] - (Cardinality(regs[o]) - 1) = 1
  BY <1>2
<1>4. resolver[o] = "idle"
  BY <1>1 DEF IInv, Staged
<1> QED
  BY <1>1, <1>3, <1>4, ReleaseKeeps

\* selector_destroy takes one registration: the object keeps its other one, or goes.
LEMMA DestroyKeeps ==
  ASSUME IInv, selector_destroy
  PROVE  IInv'
<1> USE DEF IInv
<1>0. PICK o \in Objects : \E fd \in regs[o] :
        /\ regs' = [regs EXCEPT ![o] = cleared(o, fd)]
        /\ destroy_suscription(o, refs[o], pool)
  BY DEF selector_destroy
<1>1. PICK fd \in regs[o] :
        /\ regs' = [regs EXCEPT ![o] = cleared(o, fd)]
        /\ destroy_suscription(o, refs[o], pool)
  BY <1>0
<1>2. phase = "destroying" /\ UNCHANGED <<service, stage, resolver, phase>>
  BY DEF selector_destroy
<1>3. /\ obj[o] = "session" /\ regs[o] \in SUBSET Descriptors /\ regs[o] # {}
      /\ refs[o] = Cardinality(regs[o])
  BY <1>1, <1>2, ReleasedOnceParts DEF Typed
<1>4. CASE refs[o] = 1
  <2>1. regs[o] \in {{"client"}, {"origin"}}
    BY <1>3, <1>4, OneRegistration
  <2>2. cleared(o, fd) = {}
    BY <1>1, <2>1 DEF cleared
  <2> QED
    BY <1>1, <1>2, <1>3, <1>4, <2>2, ReleaseKeeps
<1>5. CASE refs[o] # 1
  <2>1. regs[o] = Descriptors /\ refs[o] = 2
    BY <1>3, <1>5, RegistrationCounts
  <2>2. cleared(o, fd) \in {{"client"}, {"origin"}}
    BY <1>1, <2>1 DEF cleared, Descriptors
  <2>3. /\ obj' = [obj EXCEPT ![o] = "session"] /\ refs' = [refs EXCEPT ![o] = 1]
        /\ pool' = pool /\ pool_size' = pool_size
    BY <1>1, <2>1 DEF destroy_suscription, last_reference
  <2>4. obj' = obj
    BY <1>3, <2>3 DEF Typed
  <2>5. Typed' /\ Staged' /\ LostLate' /\ AllFreed'
    BY <1>1, <1>2, <2>2, <2>3, <2>4 DEF Typed, Descriptors, Staged, LostLate, AllFreed
  <2>6. \A p \in Objects : obj'[p] = "session" <=> regs'[p] # {}
    BY <1>1, <1>2, <1>3, <2>2, <2>4, ReleasedOnceParts DEF Typed
  <2>7. \A p \in Objects : refs'[p] = Cardinality(regs'[p])
    <3>1. \A p \in Objects : refs[p] = Cardinality(regs[p])
      BY <1>2, ReleasedOnceParts
    <3>2. regs'[o] \in {{"client"}, {"origin"}} /\ refs'[o] = 1
      BY <1>1, <2>2, <2>3 DEF Typed
    <3> QED
      BY <1>1, <2>3, <3>1, <3>2, RegistrationCounts DEF Typed
  <2>8. ReleasedOnce'
    BY <1>2, <2>3, <2>4, <2>6, <2>7 DEF ReleasedOnce
  <2> QED
    BY <2>5, <2>8
<1> QED
  BY <1>4, <1>5

\* destroy_suscription_pool frees every pooled object, and there is no session left.
LEMMA ClosePoolKeeps ==
  ASSUME IInv, destroy_suscription_pool
  PROVE  IInv'
<1>1. /\ phase = "destroying" /\ \A o \in Objects : regs[o] = {}
      /\ obj' = [o \in Objects |-> IF Lists(pool, o) THEN "none" ELSE obj[o]]
      /\ phase' = "closed"
      /\ UNCHANGED <<service, regs, refs, pool, pool_size, stage, resolver>>
  BY DEF destroy_suscription_pool, Lists
<1>2. \A o \in Objects : obj[o] # "session" /\ (obj[o] = "pooled" <=> Lists(pool, o))
  BY <1>1, ReleasedOnceParts DEF IInv
<1>3. Typed'
  BY <1>1 DEF IInv, Typed
<1>4. LostLate' /\ AllFreed'
  BY <1>1, <1>2 DEF IInv, Typed, LostLate, AllFreed
<1> QED
  BY <1>1, <1>3, <1>4 DEF IInv, ReleasedOnce, Staged

\* The signal, the end of the loop and the filter's read change `done' and the phase.
LEMMA SignalKeeps ==
  ASSUME IInv, sigterm_handler \/ leave_loop \/ read_filter
  PROVE  IInv'
<1>1. /\ UNCHANGED <<service, obj, regs, refs, pool, pool_size, stage, resolver>>
      /\ phase' = phase \/ (phase = "serving" /\ phase' \in {"destroying", "blocked"})
  BY DEF sigterm_handler, leave_loop, read_filter, heap, serving
<1> QED
  BY <1>1 DEF IInv, Typed, ReleasedOnce, Staged, LostLate, AllFreed

\* IInv is inductive.
LEMMA StepKeeps == IInv /\ [Next]_vars => IInv'
<1> SUFFICES ASSUME IInv, [Next]_vars PROVE IInv'
  OBVIOUS
<1>1. CASE UNCHANGED vars
  BY <1>1 DEF vars, heap, IInv, Typed, ReleasedOnce, Staged, LostLate, AllFreed
<1>2. CASE Next
  BY <1>2, AcceptKeeps, ResolutionKeeps, AttemptKeeps, FinishKeeps, SignalKeeps,
     DestroyKeeps, ClosePoolKeeps DEF Next
<1> QED
  BY <1>1, <1>2

------------------------------------------------------------------------------
(* The theorems.                                                             *)

\* No object is in the pool twice, in the pool while in use, or in use without a
\* registered descriptor, and its references count those descriptors.
THEOREM ObjectsReleasedOnce == Spec => []ReleasedOnce
<1>1. IInv => ReleasedOnce
  BY DEF IInv
<1> QED
  BY <1>1, InitIInv, StepKeeps, PTL DEF Spec

\* Until the loop is left, the object a resolution thread points to is the session
\* that started it.
THEOREM ResolverHoldsSession == Spec => []ResolverSessionHeld
<1>1. IInv => ResolverSessionHeld
  BY DEF IInv, Staged, ResolverSessionHeld
<1> QED
  BY <1>1, InitIInv, StepKeeps, PTL DEF Spec

\* The client service frees all its objects; the administration service loses one
\* only once max_pool have been released before it.
THEOREM ObjectsNotLost == Spec => []NothingLost
<1>1. IInv => NothingLost
  BY DEF IInv, LostLate, AllFreed, NothingLost
<1> QED
  BY <1>1, InitIInv, StepKeeps, PTL DEF Spec
==============================================================================

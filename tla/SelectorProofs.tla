---------------------------- MODULE SelectorProofs ----------------------------
(***************************************************************************)
(* For every set of sessions and every size of the table, the multiplexer  *)
(* polls what its items say, no callback receives an event reported for an *)
(* earlier owner of its descriptor, and every finished name resolution     *)
(* finds the session that asked for it.                                    *)
(***************************************************************************)
EXTENDS Selector, WellFoundedInduction, TLAPS

------------------------------------------------------------------------------
(* The inductive invariant.                                                  *)

Owners == Sessions \cup {UNUSED, Listener}

\* A session, and the listener, polls one direction of one descriptor at most;
\* an unused item has no interest.
OneInterest ==
  /\ \A f, g \in Fds : \A d, e \in Dir :
       owner[f] = owner[g] /\ d \in interest[f] /\ e \in interest[g] => f = g /\ d = e
  /\ \A f \in Fds : owner[f] = UNUSED => interest[f] = {}

\* A free session owns no descriptor; one that waits for its name polls none.
SessionsTidy ==
  \A f \in Fds : owner[f] \in Sessions =>
    /\ sess[owner[f]] # "free"
    /\ sess[owner[f]] \in {"resolving", "notified"} => interest[f] = {}

\* What pselect reported and handle_iteration has not looked at yet.
Ready(f, d) == f \in slave[d] /\ Place(f, d) >= cur

\* During an iteration each owner has one such event at most, on a descriptor it
\* had when pselect was called.
OneReady ==
  pc = "scan" =>
    /\ \A f, g \in Fds : \A d, e \in Dir :
         Ready(f, d) /\ Ready(g, e) /\ owner[f] = owner[g] => f = g /\ d = e
    /\ \A f \in Fds : \A d \in Dir :
         Ready(f, d) => owner[f] # UNUSED /\ f \notin fresh

\* Two jobs of the list belong to two sessions.
JobsDistinct ==
  \A k, l \in 1..Len(jobs) : owner[jobs[k]] = owner[jobs[l]] => k = l

IInv == /\ TypeOK /\ PolledIsInterest /\ OneInterest /\ SessionsTidy
        /\ OneReady /\ NotificationReachesSession /\ JobsDistinct

------------------------------------------------------------------------------
(* The table.                                                                *)

\* A non-empty set of numbers has a least element.
LEMMA LeastNumber ==
  ASSUME NEW T, T \subseteq Nat, T # {}
  PROVE  \E x \in T : \A y \in T : x <= y
<1>1. PICK x \in T : \A y \in T : ~(<<y, x>> \in OpToRel(<, Nat))
  BY WFMin, NatLessThanWellFounded
<1>2. \A y \in T : <<y, x>> \in Nat \X Nat
  OBVIOUS
<1>3. \A y \in T : ~(y < x)
  BY <1>1, <1>2 DEF OpToRel
<1> QED
  BY <1>3

\* The capacity next_capacity computes is within what select(2) supports.
LEMMA CapacityBounded ==
  ASSUME NEW m \in Nat
  PROVE  next_capacity(m) \in 1..(ITEMS_MAX_SIZE + 1)
<1> DEFINE powers == {p \in 1..ITEMS_MAX_SIZE : p > m /\ \E b \in 0..p : p = 2^b}
           least  == CHOOSE p \in powers : \A o \in powers : p <= o
<1>1. CASE powers = {}
  BY <1>1, SizesAssumption DEF next_capacity
<1>2. CASE powers # {}
  <2>1. powers \subseteq Nat /\ powers \subseteq 1..ITEMS_MAX_SIZE
    BY SizesAssumption
  <2>2. next_capacity(m) = least + 1
    BY <1>2 DEF next_capacity
  <2> HIDE DEF powers
  <2>3. \E p \in powers : \A o \in powers : p <= o
    BY <1>2, <2>1, LeastNumber
  <2>4. least \in powers
    BY <2>3
  <2> HIDE DEF least
  <2> QED
    BY <2>1, <2>2, <2>4, SizesAssumption
<1> QED
  BY <1>1, <1>2

\* The part of the invariant that is about the items and the sets of pselect.
TableOK ==
  /\ fd_size \in 1..(ITEMS_MAX_SIZE + 1)
  /\ owner \in [Fds -> Owners]
  /\ interest \in [Fds -> SUBSET Dir]
  /\ max_fd \in Fds
  /\ master \in [Dir -> SUBSET Fds]
  /\ PolledIsInterest
  /\ OneInterest

\* selector_set_interest on the descriptors of one session, one of them polled
\* at most, keeps the table in order.
LEMMA SetInterestKeepsTable ==
  ASSUME TableOK, NEW s \in Sessions, NEW int \in [Fds -> SUBSET Dir],
         \A f, g \in Own(s) : \A d, e \in Dir :
            d \in int[f] /\ e \in int[g] => f = g /\ d = e,
         selector_set_interest(Own(s), int)
  PROVE  TableOK'
<1>1. /\ interest' = [fd \in Fds |-> IF fd \in Own(s) THEN int[fd] ELSE interest[fd]]
      /\ master' = [d \in Dir |-> (master[d] \ Own(s)) \cup {fd \in Own(s) : d \in int[fd]}]
      /\ fd_size' = fd_size /\ owner' = owner /\ max_fd' = max_fd
  BY DEF selector_set_interest, items_update_fdset
<1>2. /\ fd_size' \in 1..(ITEMS_MAX_SIZE + 1) /\ owner' \in [Fds -> Owners]
      /\ interest' \in [Fds -> SUBSET Dir] /\ max_fd' \in Fds
      /\ master' \in [Dir -> SUBSET Fds]
  BY <1>1 DEF TableOK, Own
<1>3. s # UNUSED
  BY SessionsAssumption
<1>4. PolledIsInterest'
  <2>1. Used' = Used
    BY <1>1 DEF Used
  <2>2. ASSUME NEW d \in Dir
        PROVE  master'[d] = {fd \in Used : d \in interest'[fd]}
    BY <1>1, <1>3 DEF TableOK, PolledIsInterest, Own, Used
  <2> QED
    BY <1>1, <2>1, <2>2 DEF TableOK, PolledIsInterest
<1>5. OneInterest'
  BY <1>1, <1>3 DEF TableOK, OneInterest, Own
<1> QED
  BY <1>2, <1>4, <1>5 DEF TableOK

\* So does selector_register of a free descriptor for a session whose other
\* descriptors are silenced.
LEMMA RegisterKeepsTable ==
  ASSUME TableOK, NEW s \in Sessions, NEW fd \in LeastFree,
         selector_register(fd, s, "W", Own(s), Silent)
  PROVE  TableOK' /\ fresh' = fresh \cup {fd} /\ owner' = [owner EXCEPT ![fd] = s]
<1> DEFINE int2 == [f \in Fds |-> IF f = fd THEN {"W"} ELSE IF f \in Own(s) THEN {} ELSE interest[f]]
<1>1. /\ fd \in Fds /\ owner[fd] = UNUSED /\ fd \in Nat
      /\ s # UNUSED /\ s \in Owners /\ {"W"} \in SUBSET Dir
  BY SessionsAssumption DEF LeastFree, Used, Owners, Dir, Fds
<1>2. /\ interest' = int2
      /\ master' = [d \in Dir |-> (master[d] \ (Own(s) \cup {fd})) \cup
                                   {f \in Own(s) \cup {fd} : d \in int2[f]}]
      /\ owner' = [owner EXCEPT ![fd] = s]
      /\ max_fd' = IF fd > max_fd THEN fd ELSE max_fd
      /\ fd_size' = grown(fd) /\ fresh' = fresh \cup {fd}
  <2>1. interest' = int2
    BY DEF selector_register, Silent, Own
  <2> QED
    BY <2>1 DEF selector_register, items_update_fdset
<1>3. fd_size' \in 1..(ITEMS_MAX_SIZE + 1)
  BY <1>1, <1>2, CapacityBounded DEF grown, TableOK
<1>4. /\ owner' \in [Fds -> Owners] /\ max_fd' \in Fds
      /\ interest' \in [Fds -> SUBSET Dir] /\ master' \in [Dir -> SUBSET Fds]
  BY <1>1, <1>2 DEF TableOK, Own
<1>5. Used' = Used \cup {fd}
  BY <1>1, <1>2 DEF Used, TableOK
<1>6. PolledIsInterest'
  <2>1. ASSUME NEW d \in Dir
        PROVE  master'[d] = {f \in Used' : d \in interest'[f]}
    <3>1. Own(s) \subseteq Used
      BY <1>1 DEF Own, Used
    <3>2. master[d] = {f \in Used : d \in interest[f]}
      BY DEF TableOK, PolledIsInterest
    <3>3. \A f \in Used : f \in Fds
      BY DEF Used
    <3> QED
      BY <1>1, <1>2, <1>5, <3>1, <3>2, <3>3
  <2>2. \A f \in Used' : f <= max_fd'
    <3>1. \A f \in Used : f <= max_fd /\ f \in Nat
      BY DEF TableOK, PolledIsInterest, Used, Fds
    <3>2. max_fd \in Nat
      BY DEF TableOK, Fds
    <3> QED
      BY <1>1, <1>2, <1>5, <3>1, <3>2
  <2>3. max_fd' \in Used' \cup {0}
    BY <1>2, <1>5 DEF TableOK, PolledIsInterest
  <2> QED
    BY <2>1, <2>2, <2>3 DEF PolledIsInterest
<1>7. OneInterest'
  <2>1. ASSUME NEW f \in Fds, NEW g \in Fds, NEW d \in Dir, NEW e \in Dir,
               owner'[f] = owner'[g], d \in interest'[f], e \in interest'[g]
        PROVE  f = g /\ d = e
    <3>1. \A h \in Fds : owner'[h] = s /\ interest'[h] # {} => h = fd /\ interest'[h] = {"W"}
      BY <1>1, <1>2 DEF Own, TableOK
    <3>2. CASE owner'[f] = s
      <4>1. owner'[g] = s /\ interest'[f] # {} /\ interest'[g] # {}
        BY <2>1, <3>2
      <4>2. f = fd /\ g = fd /\ interest'[f] = {"W"} /\ interest'[g] = {"W"}
        BY <3>1, <3>2, <4>1
      <4> QED
        BY <2>1, <4>2
    <3>3. CASE owner'[f] # s
      <4>1. f # fd /\ g # fd /\ f \notin Own(s) /\ g \notin Own(s)
        BY <1>1, <1>2, <2>1, <3>3 DEF Own, TableOK
      <4>2. /\ owner[f] = owner[g] /\ d \in interest[f] /\ e \in interest[g]
        BY <1>2, <2>1, <4>1 DEF TableOK
      <4> QED
        BY <4>2 DEF TableOK, OneInterest
    <3> QED
      BY <3>2, <3>3
  <2>2. \A f \in Fds : owner'[f] = UNUSED => interest'[f] = {}
    BY <1>1, <1>2 DEF TableOK, OneInterest
  <2> QED
    BY <2>1, <2>2 DEF OneInterest
<1> QED
  BY <1>2, <1>3, <1>4, <1>6, <1>7 DEF TableOK

\* So does selector_unregister_fd of all descriptors of a session.
LEMMA UnregisterKeepsTable ==
  ASSUME TableOK, NEW s \in Sessions, selector_unregister_fd(Own(s))
  PROVE  /\ TableOK' /\ fresh' = fresh
         /\ \A f \in Fds : owner'[f] = IF owner[f] = s THEN UNUSED ELSE owner[f]
<1>1. /\ owner' = [fd \in Fds |-> IF fd \in Own(s) THEN UNUSED ELSE owner[fd]]
      /\ interest' = [fd \in Fds |-> IF fd \in Own(s) THEN {} ELSE interest[fd]]
      /\ master' = [d \in Dir |-> master[d] \ Own(s)]
      /\ max_fd' \in items_max_fd(owner')
      /\ fd_size' = fd_size /\ fresh' = fresh
  BY DEF selector_unregister_fd, items_update_fdset, Own
<1>2. UNUSED \in Owners /\ s # UNUSED
  BY SessionsAssumption DEF Owners
<1>3. /\ owner' \in [Fds -> Owners] /\ interest' \in [Fds -> SUBSET Dir]
      /\ master' \in [Dir -> SUBSET Fds]
  BY <1>1, <1>2 DEF TableOK, Own
<1>4. Used' = {fd \in Used : fd \notin Own(s)}
  BY <1>1, <1>2 DEF Used, Own
<1>5. PolledIsInterest' /\ max_fd' \in Fds
  <2>1. \A d \in Dir : master'[d] = {fd \in Used' : d \in interest'[fd]}
    BY <1>1, <1>4 DEF TableOK, PolledIsInterest, Used
  <2>2. Used' = {fd \in Fds : fd <= max_fd /\ owner'[fd] # UNUSED}
    BY <1>4 DEF TableOK, PolledIsInterest, Used
  <2>3. max_fd' \in Used' \cup {0} /\ \A fd \in Used' : fd <= max_fd'
    BY <1>1, <2>2 DEF items_max_fd
  <2>4. Used' \cup {0} \subseteq Fds
    BY SizesAssumption DEF Used, Fds
  <2> QED
    BY <2>1, <2>3, <2>4 DEF PolledIsInterest
<1>6. OneInterest'
  BY <1>1, <1>2 DEF TableOK, OneInterest, Own
<1> QED
  BY <1>1, <1>3, <1>5, <1>6 DEF TableOK, Own

------------------------------------------------------------------------------
(* The callbacks.                                                            *)

SessionStates == {"free", "active", "resolving", "notified", "stuck"}

\* What the callback of the owner s leaves alone: the descriptors of the others,
\* and the sessions that are in use.
Frame(s) ==
  /\ \A f \in Fds : owner[f] \notin {s, UNUSED} => owner'[f] = owner[f]
  /\ \A f \in fresh' : f \in Fds /\ (f \in fresh \/ owner[f] = UNUSED)
  /\ \A t \in Sessions : t # s /\ sess[t] # "free" => sess'[t] = sess[t]

\* What the proofs need of the callback of s.
Effect(s) ==
  /\ TableOK' /\ SessionsTidy' /\ Frame(s)
  /\ sess' \in [Sessions -> SessionStates]

\* The parts of IInv a callback starts from.
Before == /\ TableOK /\ SessionsTidy
          /\ sess \in [Sessions -> SessionStates] /\ fresh \subseteq Fds

\* pop3_passive_accept.
LEMMA AcceptEffect ==
  ASSUME Before, accept
  PROVE  Effect(Listener)
<1>1. CASE UNCHANGED <<fd_size, owner, interest, max_fd, master, fresh, sess>>
  <2>1. TableOK' /\ SessionsTidy'
    BY <1>1 DEF Before, TableOK, PolledIsInterest, OneInterest, Used, SessionsTidy
  <2> QED
    BY <1>1, <2>1 DEF Before, Effect, Frame
<1>2. ASSUME NEW s \in Sessions, NEW fd \in LeastFree, sess[s] = "free",
             sess' = [sess EXCEPT ![s] = "active"],
             selector_register(fd, s, "W", {}, Silent)
      PROVE  Effect(Listener)
  <2>1. Own(s) = {}
    BY <1>2, SessionsAssumption DEF Before, SessionsTidy, Own
  <2>2. selector_register(fd, s, "W", Own(s), Silent)
    BY <1>2, <2>1
  <2>3. TableOK' /\ fresh' = fresh \cup {fd} /\ owner' = [owner EXCEPT ![fd] = s]
    BY <2>2, RegisterKeepsTable DEF Before
  <2>4. fd \in Fds /\ owner[fd] = UNUSED
    BY DEF LeastFree, Used
  <2>5. interest' = [f \in Fds |-> IF f = fd THEN {"W"} ELSE interest[f]]
    BY <1>2 DEF selector_register
  <2>6. SessionsTidy'
    <3>1. SUFFICES ASSUME NEW f \in Fds, owner'[f] \in Sessions
                   PROVE  /\ sess'[owner'[f]] # "free"
                          /\ sess'[owner'[f]] \in {"resolving", "notified"} => interest'[f] = {}
      BY DEF SessionsTidy
    <3>2. CASE f = fd
      BY <1>2, <2>3, <2>4, <3>2 DEF Before, TableOK
    <3>3. CASE f # fd
      <4>1. owner'[f] = owner[f] /\ owner[f] # s /\ interest'[f] = interest[f]
        BY <2>1, <2>3, <2>5, <3>3 DEF Before, TableOK, Own
      <4>2. sess'[owner[f]] = sess[owner[f]]
        BY <1>2, <3>1, <4>1 DEF Before
      <4> QED
        BY <3>1, <4>1, <4>2 DEF Before, SessionsTidy
    <3> QED
      BY <3>2, <3>3
  <2>7. Frame(Listener)
    BY <1>2, <2>3, <2>4 DEF Before, TableOK, Frame
  <2>8. sess' \in [Sessions -> SessionStates]
    BY <1>2 DEF Before, SessionStates
  <2> QED
    BY <2>3, <2>6, <2>7, <2>8 DEF Effect
<1> QED
  BY <1>1, <1>2 DEF accept

\* A callback that only changes the interests and the state of s.
LEMMA SetInterestEffect ==
  ASSUME Before, NEW s \in Sessions, NEW int \in [Fds -> SUBSET Dir],
         \A f, g \in Own(s) : \A d, e \in Dir :
            d \in int[f] /\ e \in int[g] => f = g /\ d = e,
         selector_set_interest(Own(s), int),
         NEW st \in SessionStates \ {"free"}, sess' = [sess EXCEPT ![s] = st],
         st \in {"resolving", "notified"} => \A f \in Fds : int[f] = {}
  PROVE  Effect(s)
<1>1. TableOK'
  BY SetInterestKeepsTable DEF Before
<1>2. /\ owner' = owner /\ fresh' = fresh
      /\ interest' = [fd \in Fds |-> IF fd \in Own(s) THEN int[fd] ELSE interest[fd]]
  BY DEF selector_set_interest
<1>3. SessionsTidy'
  <2>1. SUFFICES ASSUME NEW f \in Fds, owner[f] \in Sessions
                 PROVE  /\ sess'[owner[f]] # "free"
                        /\ sess'[owner[f]] \in {"resolving", "notified"} => interest'[f] = {}
    BY <1>2 DEF SessionsTidy
  <2>2. CASE owner[f] = s
    BY <1>2, <2>2 DEF Before, Own
  <2>3. CASE owner[f] # s
    BY <1>2, <2>1, <2>3 DEF Before, SessionsTidy, Own
  <2> QED
    BY <2>2, <2>3
<1>4. Frame(s)
  BY <1>2 DEF Before, Frame
<1>5. sess' \in [Sessions -> SessionStates]
  BY DEF Before
<1> QED
  BY <1>1, <1>3, <1>4, <1>5 DEF Effect

\* A handler that goes on, with one of its descriptors polled.
LEMMA PollEffect ==
  ASSUME Before, NEW s \in Sessions, poll(s)
  PROVE  Effect(s)
<1>1. PICK fd \in Own(s), d \in Dir : selector_set_interest(Own(s), polling(s, fd, d))
  BY DEF poll
<1>2. polling(s, fd, d) = [f \in Fds |-> IF f = fd THEN {d} ELSE {}]
  BY DEF polling, Silent, Own
<1>3. polling(s, fd, d) \in [Fds -> SUBSET Dir]
  BY <1>2
<1>4. \A f, g \in Own(s) : \A e, h \in Dir :
         e \in polling(s, fd, d)[f] /\ h \in polling(s, fd, d)[g] => f = g /\ e = h
  BY <1>2 DEF Own
<1>5. sess' = [sess EXCEPT ![s] = "active"] /\ "active" \in SessionStates \ {"free"}
  BY DEF poll, SessionStates
<1> QED
  BY <1>1, <1>3, <1>4, <1>5, SetInterestEffect

\* No interest at all is an interest of one descriptor at most.
LEMMA SilentType ==
  ASSUME NEW s
  PROVE  /\ Silent \in [Fds -> SUBSET Dir] /\ \A f \in Fds : Silent[f] = {}
         /\ \A f, g \in Own(s) : \A d, e \in Dir :
              d \in Silent[f] /\ e \in Silent[g] => f = g /\ d = e
BY DEF Silent, Own

\* process_connection with a name.
LEMMA ResolveEffect ==
  ASSUME Before, NEW s \in Sessions, resolve(s)
  PROVE  Effect(s)
<1>1. "resolving" \in SessionStates \ {"free"}
  BY DEF SessionStates
<1> QED
  BY <1>1, SilentType, SetInterestEffect DEF resolve

\* attempt_connection.
LEMMA ConnectEffect ==
  ASSUME Before, NEW s \in Sessions, connect(s)
  PROVE  Effect(s)
<1>1. ASSUME NEW fd \in LeastFree, selector_register(fd, s, "W", Own(s), Silent),
             sess' = [sess EXCEPT ![s] = "active"]
      PROVE  Effect(s)
  <2>1. TableOK' /\ fresh' = fresh \cup {fd} /\ owner' = [owner EXCEPT ![fd] = s]
    BY <1>1, RegisterKeepsTable DEF Before
  <2>2. fd \in Fds /\ owner[fd] = UNUSED
    BY DEF LeastFree, Used
  <2>3. SessionsTidy'
    <3>1. SUFFICES ASSUME NEW f \in Fds, owner'[f] \in Sessions
                   PROVE  /\ sess'[owner'[f]] # "free"
                          /\ sess'[owner'[f]] \in {"resolving", "notified"} => interest'[f] = {}
      BY DEF SessionsTidy
    <3>2. CASE owner'[f] = s
      BY <1>1, <3>2 DEF Before
    <3>3. CASE owner'[f] # s
      <4>1. f # fd /\ owner'[f] = owner[f] /\ f \notin Own(s)
        BY <2>1, <2>2, <3>3 DEF Before, TableOK, Own
      <4>2. interest'[f] = interest[f]
        BY <1>1, <4>1 DEF selector_register
      <4>3. sess'[owner[f]] = sess[owner[f]]
        BY <1>1, <3>1, <3>3, <4>1 DEF Before
      <4> QED
        BY <3>1, <4>1, <4>2, <4>3 DEF Before, SessionsTidy
    <3> QED
      BY <3>2, <3>3
  <2>4. Frame(s)
    BY <1>1, <2>1, <2>2 DEF Before, TableOK, Frame
  <2>5. sess' \in [Sessions -> SessionStates]
    BY <1>1 DEF Before, SessionStates
  <2> QED
    BY <2>1, <2>3, <2>4, <2>5 DEF Effect
<1>2. ASSUME selector_set_interest(Own(s), Silent), sess' = [sess EXCEPT ![s] = "stuck"]
      PROVE  Effect(s)
  <2>1. "stuck" \in SessionStates \ {"free"}
    BY DEF SessionStates
  <2> QED
    BY <1>2, <2>1, SilentType, SetInterestEffect
<1>3. ASSUME UNCHANGED <<fd_size, owner, interest, max_fd, master, fresh>>,
             NEW fd \in Own(s),
             sess' = [sess EXCEPT ![s] = IF interest[fd] = {} THEN "stuck" ELSE "active"]
      PROVE  Effect(s)
  <2>1. TableOK'
    BY <1>3 DEF Before, TableOK, PolledIsInterest, OneInterest, Used
  <2>2. SessionsTidy'
    BY <1>3 DEF Before, SessionsTidy
  <2>3. Frame(s) /\ sess' \in [Sessions -> SessionStates]
    BY <1>3 DEF Before, Frame, SessionStates
  <2> QED
    BY <2>1, <2>2, <2>3 DEF Effect
<1> QED
  BY <1>1, <1>2, <1>3 DEF connect

\* finished_suscription.
LEMMA FinishEffect ==
  ASSUME Before, NEW s \in Sessions, finish(s)
  PROVE  Effect(s)
<1>1. /\ TableOK' /\ fresh' = fresh
      /\ \A f \in Fds : owner'[f] = IF owner[f] = s THEN UNUSED ELSE owner[f]
  BY UnregisterKeepsTable DEF Before, finish
<1>2. sess' = [sess EXCEPT ![s] = "free"]
  BY DEF finish
<1>3. SessionsTidy'
  <2>1. SUFFICES ASSUME NEW f \in Fds, owner'[f] \in Sessions
                 PROVE  /\ sess'[owner'[f]] # "free"
                        /\ sess'[owner'[f]] \in {"resolving", "notified"} => interest'[f] = {}
    BY DEF SessionsTidy
  <2>2. owner[f] # s /\ owner'[f] = owner[f]
    BY <1>1, <2>1, SessionsAssumption
  <2>3. interest'[f] = interest[f]
    BY <2>2 DEF finish, selector_unregister_fd, Own
  <2> QED
    BY <1>2, <2>1, <2>2, <2>3 DEF Before, SessionsTidy
<1>4. Frame(s) /\ sess' \in [Sessions -> SessionStates]
  BY <1>1, <1>2 DEF Before, Frame, SessionStates
<1> QED
  BY <1>1, <1>3, <1>4 DEF Effect

\* Any callback of handle_iteration.
LEMMA CallbackEffect ==
  ASSUME Before, NEW s, callback(s)
  PROVE  Effect(s)
BY AcceptEffect, PollEffect, ConnectEffect, ResolveEffect, FinishEffect DEF callback

------------------------------------------------------------------------------
(* The steps of the selector's thread and of the resolvers.                  *)

\* IInv gives what a callback starts from.
LEMMA IInvBefore == IInv => Before
BY DEF IInv, TypeOK, Before, TableOK, SessionStates, Owners

\* The variables a callback and the loop around it may change are typed again.
LEMMA TypedAgain ==
  ASSUME TableOK', sess' \in [Sessions -> SessionStates], fresh' \subseteq Fds,
         last' \in Fds, cur' \in Nat, slave' \in [Dir -> SUBSET Fds], jobs' \in Seq(Fds),
         pc' \in {"select", "scan", "drain"}
  PROVE  TypeOK'
BY DEF TypeOK, TableOK, SessionStates, Owners

\* The initial state.
LEMMA InitIInv == Init => IInv
<1> SUFFICES ASSUME Init PROVE IInv
  OBVIOUS
<1>1. 0 \in Fds /\ UNUSED # Listener /\ InitialElements \in Nat
  BY SizesAssumption DEF Fds, UNUSED, Listener
<1>2. TypeOK
  BY <1>1, CapacityBounded DEF Init, TypeOK, Dir
<1>3. Used = {0}
  BY <1>1 DEF Init, Used
<1>4. PolledIsInterest
  BY <1>1, <1>3 DEF Init, PolledIsInterest, Dir
<1>5. OneInterest
  BY <1>1 DEF Init, OneInterest, Dir
<1>6. SessionsTidy
  BY <1>1, SessionsAssumption DEF Init, SessionsTidy
<1>7. OneReady
  BY DEF Init, OneReady
<1>8. NotificationReachesSession /\ JobsDistinct
  BY DEF Init, NotificationReachesSession, JobsDistinct
<1> QED
  BY <1>2, <1>4, <1>5, <1>6, <1>7, <1>8 DEF IInv

\* pselect reports events of polled descriptors only, one per owner.
LEMMA SelectKeeps ==
  ASSUME IInv, selector_select
  PROVE  IInv'
<1>1. /\ UNCHANGED <<fd_size, owner, interest, max_fd, master, jobs, sess>>
      /\ last' = max_fd /\ cur' = 0 /\ fresh' = {}
      /\ pc' \in {"scan", "drain"}
      /\ slave' \in [Dir -> SUBSET Fds] /\ \A d \in Dir : slave'[d] \subseteq master[d]
  BY DEF selector_select, table, IInv, TypeOK
<1>2. TypeOK'
  BY <1>1 DEF IInv, TypeOK
<1>3. PolledIsInterest' /\ OneInterest' /\ SessionsTidy'
  BY <1>1 DEF IInv, PolledIsInterest, Used, OneInterest, SessionsTidy
<1>4. NotificationReachesSession' /\ JobsDistinct'
  BY <1>1 DEF IInv, NotificationReachesSession, JobsDistinct
<1>5. \A f \in Fds : \A d \in Dir : f \in slave'[d] => owner[f] # UNUSED /\ d \in interest[f]
  BY <1>1 DEF IInv, PolledIsInterest, Used
<1>6. OneReady'
  <2>1. ASSUME NEW f \in Fds, NEW g \in Fds, NEW d \in Dir, NEW e \in Dir,
               f \in slave'[d], g \in slave'[e], owner'[f] = owner'[g]
        PROVE  f = g /\ d = e
    BY <1>1, <1>5, <2>1 DEF IInv, OneInterest
  <2> QED
    BY <1>1, <1>5, <2>1 DEF OneReady, Ready
<1> QED
  BY <1>2, <1>3, <1>4, <1>6 DEF IInv

\* A callback takes the one event its owner had.
LEMMA IterationKeeps ==
  ASSUME IInv, handle_iteration
  PROVE  IInv'
<1>1. PICK fd \in Fds, d \in Dir :
        Event(fd, d) /\ callback(owner[fd]) /\ cur' = Place(fd, d) + 1
  BY DEF handle_iteration
<1>2. pc = "scan" /\ UNCHANGED <<slave, jobs, pc, last>>
  BY DEF handle_iteration
<1> DEFINE s == owner[fd]
<1>3. Effect(s)
  BY <1>1, IInvBefore, CallbackEffect
<1>4. Ready(fd, d) /\ s # UNUSED /\ d \in interest[fd]
  BY <1>1 DEF Event, Ready
<1>5. Place(fd, d) \in Nat /\ cur \in Nat /\ \A f \in Fds : \A e \in Dir : Place(f, e) \in Nat
  BY DEF Place, Fds, IInv, TypeOK
<1>6. TypeOK'
  <2>1. fresh' \subseteq Fds
    BY <1>3 DEF Effect, Frame
  <2>2. cur' \in Nat
    BY <1>1, <1>5
  <2> QED
    BY <1>2, <1>3, <2>1, <2>2, TypedAgain DEF Effect, IInv, TypeOK
<1>7. \A f \in Fds : \A e \in Dir :
         Ready(f, e)' => Ready(f, e) /\ owner[f] \notin {s, UNUSED}
  <2>1. SUFFICES ASSUME NEW f \in Fds, NEW e \in Dir, Ready(f, e)'
                 PROVE  Ready(f, e) /\ owner[f] \notin {s, UNUSED}
    OBVIOUS
  <2>2. f \in slave[e] /\ Place(f, e) >= Place(fd, d) + 1
    BY <1>1, <1>2, <2>1 DEF Ready, Place
  <2>3. Place(fd, d) >= cur
    BY <1>4 DEF Ready
  <2>4. Ready(f, e)
    BY <1>5, <2>2, <2>3 DEF Ready
  <2>5. owner[f] # UNUSED
    BY <1>2, <2>4 DEF IInv, OneReady
  <2>6. ASSUME owner[f] = s PROVE FALSE
    <3>1. f = fd /\ e = d
      BY <1>2, <1>4, <2>4, <2>6 DEF IInv, OneReady
    <3> QED
      BY <1>5, <2>2, <3>1
  <2> QED
    BY <2>4, <2>5, <2>6
<1>8. OneReady'
  <2>1. \A f \in Fds : \A e \in Dir : Ready(f, e)' => owner'[f] = owner[f]
    BY <1>3, <1>7 DEF Effect, Frame
  <2>2. ASSUME NEW f \in Fds, NEW g \in Fds, NEW e \in Dir, NEW h \in Dir,
               Ready(f, e)', Ready(g, h)', owner'[f] = owner'[g]
        PROVE  f = g /\ e = h
    BY <1>2, <1>7, <2>1, <2>2 DEF IInv, OneReady
  <2>3. ASSUME NEW f \in Fds, NEW e \in Dir, Ready(f, e)'
        PROVE  owner'[f] # UNUSED /\ f \notin fresh'
    <3>1. Ready(f, e) /\ owner[f] # UNUSED /\ owner'[f] = owner[f]
      BY <1>7, <2>1, <2>3
    <3>2. f \notin fresh
      BY <1>2, <3>1 DEF IInv, OneReady
    <3> QED
      BY <1>3, <3>1, <3>2 DEF Effect, Frame
  <2> QED
    BY <2>2, <2>3 DEF OneReady
<1>9. \A k \in 1..Len(jobs) : /\ owner'[jobs[k]] = owner[jobs[k]] /\ owner[jobs[k]] \in Sessions
                              /\ sess'[owner[jobs[k]]] = "notified"
  <2>1. SUFFICES ASSUME NEW k \in 1..Len(jobs)
                 PROVE  /\ owner'[jobs[k]] = owner[jobs[k]] /\ owner[jobs[k]] \in Sessions
                        /\ sess'[owner[jobs[k]]] = "notified"
    OBVIOUS
  <2>2. jobs[k] \in Fds /\ owner[jobs[k]] \in Sessions /\ sess[owner[jobs[k]]] = "notified"
    BY DEF IInv, NotificationReachesSession, TypeOK
  <2>3. owner[jobs[k]] # s
    BY <1>4, <2>2 DEF IInv, SessionsTidy
  <2> QED
    BY <1>3, <2>2, <2>3, SessionsAssumption DEF Effect, Frame
<1>10. NotificationReachesSession' /\ JobsDistinct'
  BY <1>2, <1>9 DEF IInv, NotificationReachesSession, JobsDistinct
<1> QED
  BY <1>3, <1>6, <1>8, <1>10 DEF IInv, Effect, TableOK

\* The end of handle_iteration and of handle_block_notifications.
LEMMA LoopKeeps ==
  ASSUME IInv, iteration_done \/ notifications_done
  PROVE  IInv'
<1>1. UNCHANGED <<table, slave, jobs, last, cur, fresh, sess>> /\ pc' \in {"select", "drain"}
  BY DEF iteration_done, notifications_done
<1> QED
  BY <1>1 DEF table, IInv, TypeOK, PolledIsInterest, Used, OneInterest, SessionsTidy, OneReady,
              NotificationReachesSession, JobsDistinct

\* A notification is delivered to its session, and the others keep theirs.
LEMMA NotificationKeeps ==
  ASSUME IInv, handle_block_notification
  PROVE  IInv'
<1> DEFINE s == owner[Head(jobs)]
<1>1. /\ pc = "drain" /\ jobs # <<>> /\ jobs' = Tail(jobs)
      /\ UNCHANGED <<slave, pc, last, cur>>
  BY DEF handle_block_notification
<1>2. /\ jobs \in Seq(Fds) /\ Len(jobs) \in Nat /\ Len(jobs) # 0
      /\ Head(jobs) = jobs[1] /\ Head(jobs) \in Fds
      /\ Tail(jobs) \in Seq(Fds) /\ Len(Tail(jobs)) = Len(jobs) - 1
      /\ \A k \in 1..(Len(jobs) - 1) : Tail(jobs)[k] = jobs[k + 1]
  BY <1>1 DEF IInv, TypeOK
<1>3. s \in Sessions /\ sess[s] = "notified"
  BY <1>2 DEF IInv, NotificationReachesSession
<1>4. Effect(s)
  BY <1>3, IInvBefore, ConnectEffect, SessionsAssumption DEF handle_block_notification
<1>5. TypeOK'
  <2>1. fresh' \subseteq Fds
    BY <1>4 DEF Effect, Frame
  <2> QED
    BY <1>1, <1>2, <1>4, <2>1, TypedAgain DEF Effect, IInv, TypeOK
<1>6. OneReady'
  BY <1>1 DEF OneReady
<1>7. \A k \in 1..Len(jobs') :
         /\ k + 1 \in 1..Len(jobs) /\ jobs'[k] = jobs[k + 1]
         /\ owner[jobs[k + 1]] \in Sessions
         /\ owner'[jobs[k + 1]] = owner[jobs[k + 1]]
         /\ sess'[owner[jobs[k + 1]]] = "notified"
  <2>1. SUFFICES ASSUME NEW k \in 1..Len(jobs')
                 PROVE  /\ k + 1 \in 1..Len(jobs) /\ jobs'[k] = jobs[k + 1]
                        /\ owner[jobs[k + 1]] \in Sessions
                        /\ owner'[jobs[k + 1]] = owner[jobs[k + 1]]
                        /\ sess'[owner[jobs[k + 1]]] = "notified"
    OBVIOUS
  <2>2. k + 1 \in 1..Len(jobs) /\ jobs'[k] = jobs[k + 1] /\ k + 1 # 1 /\ 1 \in 1..Len(jobs)
    BY <1>1, <1>2
  <2>3. /\ jobs[k + 1] \in Fds /\ owner[jobs[k + 1]] \in Sessions
        /\ sess[owner[jobs[k + 1]]] = "notified"
    BY <1>2, <2>2 DEF IInv, NotificationReachesSession
  <2>4. owner[jobs[k + 1]] # s
    BY <1>2, <2>2 DEF IInv, JobsDistinct
  <2> QED
    BY <1>4, <2>2, <2>3, <2>4, SessionsAssumption DEF Effect, Frame
<1>8. NotificationReachesSession'
  BY <1>7 DEF NotificationReachesSession
<1>9. JobsDistinct'
  <2>1. ASSUME NEW k \in 1..Len(jobs'), NEW l \in 1..Len(jobs'),
               owner'[jobs'[k]] = owner'[jobs'[l]]
        PROVE  k = l
    <3>1. k + 1 = l + 1
      BY <1>7, <2>1 DEF IInv, JobsDistinct
    <3> QED
      BY <1>1, <1>2, <3>1
  <2> QED
    BY <2>1 DEF JobsDistinct
<1> QED
  BY <1>4, <1>5, <1>6, <1>8, <1>9 DEF IInv, Effect, TableOK

\* A resolver adds its session's descriptor to the list, once.
LEMMA NotifyKeeps ==
  ASSUME IInv, NEW s \in Sessions, selector_notify_block(s)
  PROVE  IInv'
<1>1. PICK fd \in Own(s) : jobs' = <<fd>> \o jobs
  BY DEF selector_notify_block
<1>2. /\ sess[s] = "resolving" /\ sess' = [sess EXCEPT ![s] = "notified"]
      /\ UNCHANGED <<fd_size, owner, interest, max_fd, master, slave, pc, last, cur, fresh>>
  BY DEF selector_notify_block, table
<1>3. fd \in Fds /\ owner[fd] = s
  BY DEF Own
<1>4. /\ jobs' \in Seq(Fds) /\ Len(jobs') = Len(jobs) + 1 /\ Len(jobs) \in Nat
      /\ jobs'[1] = fd /\ \A k \in 2..(Len(jobs) + 1) : jobs'[k] = jobs[k - 1]
  BY <1>1, <1>3 DEF IInv, TypeOK
<1>5. TypeOK'
  BY <1>2, <1>4 DEF IInv, TypeOK
<1>6. PolledIsInterest' /\ OneInterest' /\ OneReady'
  BY <1>2 DEF IInv, PolledIsInterest, Used, OneInterest, OneReady, Ready, Place
<1>7. SessionsTidy'
  BY <1>2 DEF IInv, SessionsTidy, TypeOK
<1>8. \A k \in 1..Len(jobs) : /\ owner[jobs[k]] \in Sessions /\ owner[jobs[k]] # s
                              /\ sess'[owner[jobs[k]]] = "notified"
  BY <1>2 DEF IInv, NotificationReachesSession, TypeOK
<1>9. \A k \in 2..(Len(jobs) + 1) : k - 1 \in 1..Len(jobs)
  BY <1>4
<1>10. ASSUME NEW k \in 1..Len(jobs')
       PROVE  k = 1 \/ k \in 2..(Len(jobs) + 1)
  BY <1>4
<1>11. NotificationReachesSession'
  <2>1. sess'[s] = "notified"
    BY <1>2 DEF IInv, TypeOK
  <2> QED
    BY <1>2, <1>3, <1>4, <1>8, <1>9, <1>10, <2>1 DEF NotificationReachesSession
<1>12. JobsDistinct'
  <2>1. ASSUME NEW k \in 1..Len(jobs'), NEW l \in 1..Len(jobs'),
               owner[jobs'[k]] = owner[jobs'[l]]
        PROVE  k = l
    <3>1. CASE k = 1 /\ l = 1
      BY <3>1
    <3>2. CASE k # 1 /\ l # 1
      <4>1. k - 1 \in 1..Len(jobs) /\ l - 1 \in 1..Len(jobs)
            /\ owner[jobs[k - 1]] = owner[jobs[l - 1]]
        BY <1>4, <1>9, <1>10, <2>1, <3>2
      <4>2. k - 1 = l - 1
        BY <4>1 DEF IInv, JobsDistinct
      <4> QED
        BY <4>1, <4>2, <1>4
    <3>3. CASE k = 1 /\ l # 1
      BY <1>3, <1>4, <1>8, <1>9, <1>10, <2>1, <3>3
    <3>4. CASE k # 1 /\ l = 1
      BY <1>3, <1>4, <1>8, <1>9, <1>10, <2>1, <3>4
    <3> QED
      BY <3>1, <3>2, <3>3, <3>4
  <2> QED
    BY <1>2, <2>1 DEF JobsDistinct
<1> QED
  BY <1>5, <1>6, <1>7, <1>11, <1>12 DEF IInv

\* IInv is inductive.
LEMMA StepKeeps == IInv /\ [Next]_vars => IInv'
<1> SUFFICES ASSUME IInv, [Next]_vars PROVE IInv'
  OBVIOUS
<1>1. CASE UNCHANGED vars
  BY <1>1 DEF vars, IInv, TypeOK, PolledIsInterest, Used, OneInterest, SessionsTidy, OneReady,
              Ready, Place, NotificationReachesSession, JobsDistinct
<1>2. CASE Loop
  BY <1>2, SelectKeeps, IterationKeeps, LoopKeeps, NotificationKeeps DEF Loop
<1>3. ASSUME NEW s \in Sessions, selector_notify_block(s)
      PROVE  IInv'
  BY <1>3, NotifyKeeps
<1> QED
  BY <1>1, <1>2, <1>3 DEF Next

------------------------------------------------------------------------------
(* Notifications are kept.                                                   *)

\* The callback of s leaves nobody notified who was not, and not s itself.
LEMMA CallbackNotifiesNobody ==
  ASSUME IInv, NEW s, callback(s), NEW t \in Sessions, sess'[t] = "notified"
  PROVE  t # s /\ sess[t] = "notified"
<1>1. sess \in [Sessions -> SessionStates]
  BY DEF IInv, TypeOK, SessionStates
<1>2. CASE s = Listener /\ accept
  BY <1>1, <1>2, SessionsAssumption DEF accept
<1>3. ASSUME NEW v \in {"active", "resolving", "free", "stuck"}, s \in Sessions,
             sess' = [sess EXCEPT ![s] = v]
      PROVE  t # s /\ sess[t] = "notified"
  BY <1>1, <1>3
<1> QED
  BY <1>2, <1>3 DEF callback, poll, connect, resolve, finish

\* The same of a delivered notification.
LEMMA ConnectNotifiesNobody ==
  ASSUME IInv, NEW s \in Sessions, connect(s), NEW t \in Sessions, sess'[t] = "notified"
  PROVE  t # s /\ sess[t] = "notified"
BY CallbackNotifiesNobody DEF callback

\* The job of a session other than s is still there, and its own, after the
\* callback of s.
LEMMA JobSurvives ==
  ASSUME IInv, NEW s, Effect(s), NEW t \in Sessions, t # s, NEW k \in 1..Len(jobs),
         owner[jobs[k]] = t
  PROVE  owner'[jobs[k]] = t
<1>1. jobs[k] \in Fds
  BY DEF IInv, TypeOK
<1> QED
  BY <1>1, SessionsAssumption DEF Effect, Frame

\* A step of the loop or of a resolver forgets no notification.
LEMMA KeptStep == IInv /\ NotificationKept /\ [Next]_vars => NotificationKept'
<1> SUFFICES ASSUME IInv, NotificationKept, [Next]_vars, NEW t \in Sessions, sess'[t] = "notified"
             PROVE  \E k \in 1..Len(jobs') : owner'[jobs'[k]] = t
  BY DEF NotificationKept
<1>1. CASE UNCHANGED <<owner, jobs, sess>>
  BY <1>1 DEF NotificationKept
<1>2. CASE handle_iteration
  <2>1. PICK fd \in Fds : callback(owner[fd])
    BY <1>2 DEF handle_iteration
  <2>2. t # owner[fd] /\ sess[t] = "notified"
    BY <2>1, CallbackNotifiesNobody
  <2>3. PICK k \in 1..Len(jobs) : owner[jobs[k]] = t
    BY <2>2 DEF NotificationKept
  <2>4. owner'[jobs[k]] = t /\ jobs' = jobs
    BY <1>2, <2>1, <2>2, <2>3, CallbackEffect, IInvBefore, JobSurvives DEF handle_iteration
  <2> QED
    BY <2>3, <2>4
<1>3. CASE handle_block_notification
  <2> DEFINE s == owner[Head(jobs)]
  <2>1. /\ jobs # <<>> /\ jobs' = Tail(jobs) /\ Head(jobs) = jobs[1] /\ Len(jobs) \in Nat
        /\ Len(Tail(jobs)) = Len(jobs) - 1 /\ 1 \in 1..Len(jobs)
        /\ \A k \in 2..Len(jobs) : k - 1 \in 1..(Len(jobs) - 1) /\ Tail(jobs)[k - 1] = jobs[k]
    BY <1>3 DEF handle_block_notification, IInv, TypeOK
  <2>2. s \in Sessions /\ connect(s)
    BY <1>3, <2>1, SessionsAssumption
       DEF handle_block_notification, IInv, NotificationReachesSession
  <2>3. t # s /\ sess[t] = "notified"
    BY <2>2, ConnectNotifiesNobody
  <2>4. PICK k \in 1..Len(jobs) : owner[jobs[k]] = t
    BY <2>3 DEF NotificationKept
  <2>5. k # 1 /\ owner'[jobs[k]] = t
    BY <2>1, <2>2, <2>3, <2>4, ConnectEffect, IInvBefore, JobSurvives
  <2>6. k - 1 \in 1..Len(jobs') /\ jobs'[k - 1] = jobs[k]
    BY <2>1, <2>4, <2>5
  <2> QED
    BY <2>5, <2>6
<1>4. ASSUME NEW s \in Sessions, selector_notify_block(s)
      PROVE  \E k \in 1..Len(jobs') : owner'[jobs'[k]] = t
  <2>1. PICK fd \in Own(s) : jobs' = <<fd>> \o jobs
    BY <1>4 DEF selector_notify_block
  <2>2. owner' = owner /\ sess' = [sess EXCEPT ![s] = "notified"]
    BY <1>4 DEF selector_notify_block, table
  <2>3. /\ fd \in Fds /\ owner[fd] = s /\ jobs \in Seq(Fds)
        /\ Len(jobs') = Len(jobs) + 1 /\ Len(jobs) \in Nat /\ jobs'[1] = fd
        /\ \A k \in 1..Len(jobs) : k + 1 \in 1..Len(jobs') /\ jobs'[k + 1] = jobs[k]
    BY <2>1 DEF Own, IInv, TypeOK
  <2>4. CASE t = s
    BY <2>2, <2>3, <2>4
  <2>5. CASE t # s
    <3>1. sess[t] = "notified"
      BY <2>2, <2>5 DEF IInv, TypeOK
    <3>2. PICK k \in 1..Len(jobs) : owner[jobs[k]] = t
      BY <3>1 DEF NotificationKept
    <3> QED
      BY <2>2, <2>3, <3>2
  <2> QED
    BY <2>4, <2>5
<1> QED
  BY <1>1, <1>2, <1>3, <1>4
     DEF Next, Loop, selector_select, iteration_done, notifications_done, table, vars

------------------------------------------------------------------------------
(* The size of the table.                                                    *)

\* A step may register one descriptor, for which it asks for room; no other step
\* changes the size, and none puts another item into use.
LEMMA RoomAsked ==
  ASSUME IInv, [Next]_vars
  PROVE  \/ fd_size' = fd_size /\ Used' \subseteq Used
         \/ \E fd \in Fds : fd_size' = grown(fd) /\ Used' \subseteq Used \cup {fd}
<1>1. ASSUME NEW fd \in Fds, NEW s, NEW d, NEW F, NEW int, selector_register(fd, s, d, F, int)
      PROVE  fd_size' = grown(fd) /\ Used' \subseteq Used \cup {fd}
  BY <1>1 DEF selector_register, Used, IInv, TypeOK
<1>2. ASSUME NEW F, NEW int, selector_set_interest(F, int)
      PROVE  fd_size' = fd_size /\ Used' \subseteq Used
  BY <1>2 DEF selector_set_interest, Used
<1>3. ASSUME NEW F, selector_unregister_fd(F)
      PROVE  fd_size' = fd_size /\ Used' \subseteq Used
  BY <1>3 DEF selector_unregister_fd, Used
<1>4. CASE UNCHANGED <<fd_size, owner>>
  BY <1>4 DEF Used
<1>5. LeastFree \subseteq Fds
  BY DEF LeastFree
<1>6. ASSUME NEW s, connect(s)
      PROVE  \/ fd_size' = fd_size /\ Used' \subseteq Used
             \/ \E fd \in Fds : fd_size' = grown(fd) /\ Used' \subseteq Used \cup {fd}
  BY <1>1, <1>2, <1>4, <1>5, <1>6 DEF connect
<1>7. ASSUME NEW s, callback(s)
      PROVE  \/ fd_size' = fd_size /\ Used' \subseteq Used
             \/ \E fd \in Fds : fd_size' = grown(fd) /\ Used' \subseteq Used \cup {fd}
  <2>1. CASE accept
    BY <1>1, <1>4, <1>5, <2>1 DEF accept
  <2>2. CASE poll(s) \/ resolve(s)
    BY <1>2, <2>2 DEF poll, resolve
  <2>3. CASE finish(s)
    BY <1>3, <2>3 DEF finish
  <2> QED
    BY <1>6, <1>7, <2>1, <2>2, <2>3 DEF callback
<1>8. CASE handle_iteration
  BY <1>7, <1>8 DEF handle_iteration
<1>9. CASE handle_block_notification
  <2>1. CASE owner[Head(jobs)] = UNUSED
    BY <1>4, <1>9, <2>1 DEF handle_block_notification, table
  <2>2. CASE owner[Head(jobs)] # UNUSED
    BY <1>6, <1>9, <2>2 DEF handle_block_notification
  <2> QED
    BY <2>1, <2>2
<1> QED
  BY <1>4, <1>8, <1>9
     DEF Next, Loop, selector_select, iteration_done, notifications_done, selector_notify_block,
         table, vars

\* next_capacity always makes room for the descriptor it was asked for.
LEMMA CapacityEnough ==
  ASSUME NEW m \in 0..ITEMS_MAX_SIZE
  PROVE  next_capacity(m) > m
<1> DEFINE powers == {p \in 1..ITEMS_MAX_SIZE : p > m /\ \E b \in 0..p : p = 2^b}
           least  == CHOOSE p \in powers : \A o \in powers : p <= o
<1>1. CASE powers = {}
  BY <1>1, SizesAssumption DEF next_capacity
<1>2. CASE powers # {}
  <2>1. powers \subseteq Nat /\ \A p \in powers : p > m
    BY SizesAssumption
  <2>2. next_capacity(m) = least + 1
    BY <1>2 DEF next_capacity
  <2> HIDE DEF powers
  <2>3. \E p \in powers : \A o \in powers : p <= o
    BY <1>2, <2>1, LeastNumber
  <2>4. least \in powers
    BY <2>3
  <2> HIDE DEF least
  <2> QED
    BY <2>1, <2>2, <2>4, SizesAssumption
<1> QED
  BY <1>1, <1>2

\* A table that starts with room for every descriptor is as large as it can be.
LEMMA FullCapacity == next_capacity(ITEMS_MAX_SIZE) = ITEMS_MAX_SIZE + 1
<1>1. {p \in 1..ITEMS_MAX_SIZE : p > ITEMS_MAX_SIZE /\ \E b \in 0..p : p = 2^b} = {}
  BY SizesAssumption
<1> QED
  BY <1>1 DEF next_capacity

\* Every item in use is at most the one just past the table.
OnePastAtMost == \A fd \in Used : fd <= fd_size

------------------------------------------------------------------------------
\* The fields of struct fdselector keep their types, fd_size within what
\* select(2) supports.
THEOREM SelectorTyped == Spec => []TypeOK
<1>1. IInv => TypeOK
  BY DEF IInv
<1> QED
  BY <1>1, InitIInv, StepKeeps, PTL DEF Spec

\* pselect is always called with exactly the interests of the items.
THEOREM SelectorPollsItems == Spec => []PolledIsInterest
<1>1. IInv => PolledIsInterest
  BY DEF IInv
<1> QED
  BY <1>1, InitIInv, StepKeeps, PTL DEF Spec

\* handle_iteration gives no callback an event that was reported for the previous
\* owner of a reused descriptor number, because no session ever polls two.
THEOREM SelectorNoStaleEvent == Spec => []NoStaleEvent
<1>1. IInv => NoStaleEvent
  BY DEF IInv, OneReady, Ready, NoStaleEvent, Event
<1> QED
  BY <1>1, InitIInv, StepKeeps, PTL DEF Spec

\* handle_block_notifications finds each job's descriptor registered, and owned
\* by the session that started the resolution.
THEOREM SelectorDeliversToSession == Spec => []NotificationReachesSession
<1>1. IInv => NotificationReachesSession
  BY DEF IInv
<1> QED
  BY <1>1, InitIInv, StepKeeps, PTL DEF Spec

\* Every session that was notified is still in the list of jobs: none waits for a
\* connection that nobody will make.
THEOREM SelectorKeepsNotifications == Spec => []NotificationKept
<1>1. Init => NotificationKept
  BY DEF Init, NotificationKept
<1> QED
  BY <1>1, InitIInv, StepKeeps, KeptStep, PTL DEF Spec

\* With the argument the program gives to selector_new, which leaves room for every
\* descriptor select(2) supports, no item in use is outside the table.
THEOREM SelectorItemsInBounds ==
  ASSUME InitialElements = ITEMS_MAX_SIZE
  PROVE  Spec => []ItemsInBounds
<1> DEFINE Full == fd_size = ITEMS_MAX_SIZE + 1
<1>1. Init => Full
  BY FullCapacity DEF Init
<1>2. IInv /\ Full /\ [Next]_vars => Full'
  <2> SUFFICES ASSUME IInv, Full, [Next]_vars PROVE Full'
    OBVIOUS
  <2>1. \A fd \in Fds : grown(fd) = fd_size
    BY SizesAssumption DEF grown, Fds
  <2> QED
    BY <2>1, RoomAsked
<1>3. Full => ItemsInBounds
  BY SizesAssumption DEF ItemsInBounds, Used, Fds
<1> QED
  BY <1>1, <1>2, <1>3, InitIInv, StepKeeps, PTL DEF Spec

\* With any other argument, selector_register's `fd > fd_size' lets an item be used
\* just past the end of the table, and never further out.
THEOREM SelectorOnePastAtMost == Spec => []OnePastAtMost
<1>1. Init => OnePastAtMost
  <2> SUFFICES ASSUME Init PROVE OnePastAtMost
    OBVIOUS
  <2>1. Used \subseteq {0}
    BY DEF Init, Used
  <2>2. fd_size \in 1..(ITEMS_MAX_SIZE + 1)
    BY CapacityBounded, SizesAssumption DEF Init
  <2> QED
    BY <2>1, <2>2, SizesAssumption DEF OnePastAtMost
<1>2. IInv /\ OnePastAtMost /\ [Next]_vars => OnePastAtMost'
  <2> SUFFICES ASSUME IInv, OnePastAtMost, [Next]_vars PROVE OnePastAtMost'
    OBVIOUS
  <2>1. fd_size \in 1..(ITEMS_MAX_SIZE + 1) /\ Used \subseteq Fds
    BY DEF IInv, TypeOK, Used
  <2>2. ASSUME NEW fd \in Fds PROVE fd <= grown(fd) /\ fd_size <= grown(fd)
    <3>1. fd \in 0..ITEMS_MAX_SIZE /\ next_capacity(fd) \in 1..(ITEMS_MAX_SIZE + 1)
      BY CapacityBounded, SizesAssumption DEF Fds
    <3>2. next_capacity(fd) > fd
      BY <3>1, CapacityEnough
    <3> QED
      BY <2>1, <3>1, <3>2, SizesAssumption DEF grown
  <2>3. CASE fd_size' = fd_size /\ Used' \subseteq Used
    BY <2>3 DEF OnePastAtMost
  <2>4. ASSUME NEW fd \in Fds, fd_size' = grown(fd), Used' \subseteq Used \cup {fd}
        PROVE  OnePastAtMost'
    <3>1. grown(fd) \in Nat
      BY <2>1, <2>2, CapacityBounded, SizesAssumption DEF grown, Fds
    <3>2. \A g \in Used : g \in Nat /\ g <= fd_size
      BY <2>1, SizesAssumption DEF OnePastAtMost, Fds
    <3>3. \A g \in Used \cup {fd} : g <= grown(fd)
      BY <2>1, <2>2, <3>1, <3>2
    <3> QED
      BY <2>4, <3>3 DEF OnePastAtMost
  <2> QED
    BY <2>3, <2>4, RoomAsked
<1> QED
  BY <1>1, <1>2, InitIInv, StepKeeps, PTL DEF Spec
==============================================================================

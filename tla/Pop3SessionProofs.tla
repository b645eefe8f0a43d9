-------------------------- MODULE Pop3SessionProofs --------------------------
(***************************************************************************)
(* For every set of commands, size of the buffers and combination of       *)
(* faults: a session polls one descriptor at a time, counts its references *)
(* right, does not abort the proxy once its client has been greeted, and   *)
(* blocks it for mail only.                                                *)
(***************************************************************************)
EXTENDS Pop3Session, TLAPS

------------------------------------------------------------------------------
(* The inductive invariant.  A session in use is in one of two phases.       *)

\* No origin descriptor is registered: the session is still connecting, or
\* attempt_connection failed and the state machine went on regardless.
Unconnected ==
  /\ refs = 1 /\ conn \in {"none", "idle"}
  /\ got = <<>> /\ oin = <<>>
  /\ \/ st = "PROCESS_CONNECTION" /\ interest = Polls("WRITE", "NONE") /\ conn = "none"
     \/ st = "RESOLV_CONNECTION"  /\ interest = Polls("NOOP", "NONE") /\ conn = "none"
     \/ st = "ESTABL_CONNECTION"  /\ interest \in {Polls("WRITE", "NONE"), Polls("NOOP", "NONE")}
     \/ st \in {"GREETING_SREAD", "GREETING_CWRITE"} /\ interest = Polls("READ", "NONE")

\* Both descriptors are registered, and the one the state waits for is polled.
\* After a failed recv of the greeting GREETING_CWRITE waits for the wrong one.
Connected ==
  /\ refs = 2 /\ conn \in {"pending", "up", "refused", "eof"}
  /\ \/ st = "ESTABL_CONNECTION" /\ interest = Polls("NOOP", "WRITE") /\ got = <<>>
     \/ st = "GREETING_SREAD"    /\ interest = Polls("NOOP", "READ")  /\ got = <<>>
     \/ st = "GREETING_CWRITE"   /\ interest = Polls("NOOP", "READ")  /\ got = <<>>
     \/ st = "GREETING_CWRITE"   /\ interest = Polls("WRITE", "NOOP")
     \/ st \in Relaying          /\ interest = Duty[st]

\* The reply that is being relayed in pieces is filtered only if it is a mail.
FilterIsForMail ==
  st \in {"DOT_DATA_SREAD", "DOT_DATA_CWRITE"} /\ transform => cmd.kw \in {"RETR", "TOP"}

IInv ==
  \/ fate = "live"    /\ (Unconnected \/ Connected) /\ FilterIsForMail
  \/ fate = "blocked" /\ Connected /\ cmd.kw \in {"RETR", "TOP"}
  \/ fate = "closed"  /\ refs = 0 /\ interest = Polls("NONE", "NONE")
  \/ fate = "aborted" /\ got = <<>>

------------------------------------------------------------------------------
(* Interests and events.                                                     *)

\* The interest of each descriptor in a pair of interests.
LEMMA PollsParts ==
  \A c, o : Polls(c, o)["client"] = c /\ Polls(c, o)["origin"] = o
BY DEF Polls, Peers

\* What the relaying states poll.
LEMMA DutyParts ==
  /\ Duty["COMMAND_CREAD"] = Polls("READ", "NOOP")
  /\ Duty["COMMAND_SWRITE"] = Polls("NOOP", "WRITE")
  /\ Duty["RESPONSE_SREAD"] = Polls("NOOP", "READ")
  /\ Duty["DOT_DATA_SREAD"] = Polls("NOOP", "READ")
  /\ Duty["DOT_DATA_CWRITE"] = Polls("WRITE", "NOOP")
  /\ Duty["RESPONSE_CWRITE"] = Polls("WRITE", "NOOP")
BY DEF Duty, Relaying

\* selector_set_interest on one descriptor of a pair of interests.
LEMMA PollsExcept ==
  \A c, o, i : /\ [Polls(c, o) EXCEPT !["client"] = i] = Polls(i, o)
               /\ [Polls(c, o) EXCEPT !["origin"] = i] = Polls(c, i)
BY DEF Polls, Peers

\* A live session, in one of its two phases.
InUse == fate = "live" /\ (Unconnected \/ Connected) /\ FilterIsForMail

\* An event only reaches a live session.
LEMMA EventInUse ==
  ASSUME IInv, NEW fd, ReadEvent(fd) \/ WriteEvent(fd)
  PROVE  InUse
BY DEF IInv, InUse, ReadEvent, WriteEvent

\* finished_suscription closes the session, or aborts before the greeting.
LEMMA FinishKeeps ==
  ASSUME InUse, finished_suscription, got' = got
  PROVE  IInv'
<1>1. CASE Unconnected
  <2>1. interest["origin"] = "NONE"
    BY <1>1, PollsParts DEF Unconnected
  <2>2. CASE conn = "none"
    BY <1>1, <2>1, <2>2 DEF Unconnected, finished_suscription, IInv
  <2>3. CASE conn # "none"
    BY <1>1, <2>1, <2>3 DEF Unconnected, finished_suscription, IInv
  <2> QED
    BY <2>2, <2>3
<1>2. CASE Connected
  <2>1. interest["origin"] # "NONE"
    BY <1>2, PollsParts, DutyParts DEF Connected, Relaying
  <2> QED
    BY <1>2, <2>1 DEF Connected, finished_suscription, IInv
<1> QED
  BY <1>1, <1>2 DEF InUse

------------------------------------------------------------------------------
(* Connecting.                                                               *)

\* attempt_connection: whatever fails, the session stays in a known phase.
LEMMA AttemptKeeps ==
  ASSUME InUse, Unconnected, st \in {"PROCESS_CONNECTION", "RESOLV_CONNECTION"},
         NEW b \in BOOLEAN, attempt_connection(b), got' = got, oin' = oin
  PROVE  IInv'
<1>1. /\ refs = 1 /\ conn = "none" /\ got = <<>> /\ oin = <<>>
      /\ interest \in {Polls("WRITE", "NONE"), Polls("NOOP", "NONE")}
  BY DEF Unconnected
<1>2. CASE fate' = "aborted"
  BY <1>1, <1>2 DEF IInv
<1>3. CASE fate' = fate /\ st' = "ESTABL_CONNECTION" /\ refs' = refs /\ conn' \in {"none", "idle"}
           /\ interest' \in {interest, Polls("NOOP", "NONE")}
  BY <1>1, <1>3 DEF InUse, IInv, Unconnected, FilterIsForMail
<1>4. CASE fate' = fate /\ st' = "ESTABL_CONNECTION" /\ refs' = refs + 1 /\ conn' = "pending"
           /\ interest' = Polls("NOOP", "WRITE")
  BY <1>1, <1>4 DEF InUse, IInv, Connected, FilterIsForMail
<1> QED
  BY <1>1, <1>2, <1>3, <1>4 DEF attempt_connection, abort, jump, continue

\* PROCESS_CONNECTION.
LEMMA ProcessKeeps ==
  ASSUME IInv, process_connection
  PROVE  IInv'
<1>1. InUse /\ st = "PROCESS_CONNECTION"
  BY EventInUse DEF process_connection
<1>2. Unconnected
  BY <1>1 DEF InUse, Connected, Relaying
<1>3. got' = got /\ oin' = oin
  BY DEF process_connection, wires
<1>4. CASE attempt_connection(FALSE)
  BY <1>1, <1>2, <1>3, <1>4, AttemptKeeps
<1>5. CASE jump("RESOLV_CONNECTION", cmd, rbuf, wbuf, tbuf) /\ continue(Polls("NOOP", "NONE"))
  BY <1>1, <1>2, <1>3, <1>5 DEF jump, continue, InUse, Unconnected, IInv, FilterIsForMail
<1> QED
  BY <1>4, <1>5 DEF process_connection

\* RESOLV_CONNECTION.
LEMMA ResolvKeeps ==
  ASSUME IInv, resolv_connection
  PROVE  IInv'
<1>1. InUse /\ st = "RESOLV_CONNECTION"
  BY DEF resolv_connection, IInv, InUse
<1>2. Unconnected
  BY <1>1 DEF InUse, Connected, Relaying
<1>3. got' = got /\ oin' = oin /\ attempt_connection(resolver = "failed")
  BY DEF resolv_connection, wires
<1>4. (resolver = "failed") \in BOOLEAN
  OBVIOUS
<1> QED
  BY <1>1, <1>2, <1>3, <1>4, AttemptKeeps

\* ESTABL_CONNECTION, with the key of either descriptor.
LEMMA EstablKeeps ==
  ASSUME IInv, NEW fd \in Peers, establ_connection(fd)
  PROVE  IInv'
<1>1. InUse /\ st = "ESTABL_CONNECTION" /\ interest[fd] = "WRITE"
  BY EventInUse DEF establ_connection, WriteEvent
<1>2. /\ st' = "GREETING_SREAD" /\ UNCHANGED <<refs, conn, fate, got, oin>>
      /\ interest' = [Polls("NOOP", interest["origin"]) EXCEPT ![fd] = "READ"]
  BY DEF establ_connection, jump, continue, wires
<1>3. CASE Unconnected
  <2>1. fd = "client" /\ interest["origin"] = "NONE"
    BY <1>1, <1>3, PollsParts DEF Unconnected, Peers
  <2>2. interest' = Polls("READ", "NONE")
    BY <1>2, <2>1, PollsExcept
  <2> QED
    BY <1>1, <1>2, <1>3, <2>2 DEF Unconnected, IInv, InUse, FilterIsForMail
<1>4. CASE Connected
  <2>1. fd = "origin" /\ interest["origin"] = "WRITE" /\ got = <<>>
    BY <1>1, <1>4, PollsParts DEF Connected, Peers, Relaying
  <2>2. interest' = Polls("NOOP", "READ")
    BY <1>2, <2>1, PollsExcept
  <2> QED
    BY <1>1, <1>2, <1>4, <2>1, <2>2 DEF Connected, IInv, InUse, FilterIsForMail
<1> QED
  BY <1>1, <1>3, <1>4 DEF InUse

------------------------------------------------------------------------------
(* The greeting.                                                             *)

\* A recv from an empty stream returns no length.
LEMMA NothingToReceive == \A cut : Lengths(<<>>, BufSize, cut) = {}
BY BoundsAssumption DEF Lengths

\* GREETING_SREAD, with the key of either descriptor.
LEMMA GreetingReadKeeps ==
  ASSUME IInv, NEW fd \in Peers, greeting_sread(fd)
  PROVE  IInv'
<1>1. InUse /\ st = "GREETING_SREAD" /\ interest[fd] = "READ" /\ got' = got
  BY EventInUse DEF greeting_sread, ReadEvent
<1>2. CASE finished_suscription
  BY <1>1, <1>2, FinishKeeps
<1>3. ASSUME NEW n \in Lengths(oin, BufSize, "segments" \in Faults),
             jump("GREETING_CWRITE", cmd, rbuf, wbuf, tbuf), continue(to_client)
      PROVE  IInv'
  <2>1. Connected
    BY <1>1, <1>3, NothingToReceive DEF InUse, Unconnected
  <2> QED
    BY <1>1, <1>3, <2>1 DEF jump, continue, to_client, Connected, IInv, InUse, FilterIsForMail
<1>4. ASSUME jump("GREETING_CWRITE", cmd, rbuf, wbuf, tbuf), continue(interest), oin' = oin
      PROVE  IInv'
  <2>1. st' = "GREETING_CWRITE" /\ UNCHANGED <<interest, refs, conn, fate, got, oin>>
    BY <1>1, <1>4 DEF jump, continue
  <2>2. CASE Unconnected
    BY <1>1, <2>1, <2>2 DEF Unconnected, IInv, InUse, FilterIsForMail
  <2>3. CASE Connected
    BY <1>1, <2>1, <2>3 DEF Connected, Relaying, IInv, InUse, FilterIsForMail
  <2> QED
    BY <1>1, <2>2, <2>3 DEF InUse
<1>5. ASSUME jump(st, cmd, rbuf, wbuf, tbuf), continue(interest), oin' = oin
      PROVE  IInv'
  <2>1. UNCHANGED <<st, interest, refs, conn, fate, got, oin>>
    BY <1>1, <1>5 DEF jump, continue
  <2> QED
    BY <1>1, <2>1 DEF Unconnected, Connected, IInv, InUse, FilterIsForMail
<1> QED
  BY <1>2, <1>3, <1>4, <1>5 DEF greeting_sread

\* A session whose client is polled for writing, in a state that writes to it, has
\* both descriptors registered.
LEMMA WritesConnected ==
  ASSUME InUse, st \in {"GREETING_CWRITE", "DOT_DATA_CWRITE", "RESPONSE_CWRITE"},
         WriteEvent("client")
  PROVE  Connected /\ interest = Polls("WRITE", "NOOP")
<1>1. interest["client"] = "WRITE"
  BY DEF WriteEvent
<1>2. ~Unconnected
  BY <1>1, PollsParts DEF Unconnected
<1> QED
  BY <1>1, <1>2, PollsParts, DutyParts DEF InUse, Connected, Relaying

\* GREETING_CWRITE.
LEMMA GreetingWriteKeeps ==
  ASSUME IInv, greeting_cwrite
  PROVE  IInv'
<1>1. InUse /\ st = "GREETING_CWRITE" /\ WriteEvent("client")
  BY EventInUse DEF greeting_cwrite
<1>2. Connected /\ interest = Polls("WRITE", "NOOP")
  BY <1>1, WritesConnected
<1>3. CASE finished_suscription /\ UNCHANGED got
  BY <1>1, <1>3, FinishKeeps
<1>4. ASSUME NEW left, jump(after_send(left, "COMMAND_CREAD"), cmd, rbuf, left, tbuf),
             continue(IF left = <<>> THEN [interest EXCEPT !["client"] = "READ"] ELSE interest)
      PROVE  IInv'
  <2>1. CASE left = <<>>
    <3>1. st' = "COMMAND_CREAD" /\ interest' = Polls("READ", "NOOP") /\ UNCHANGED <<refs, conn, fate>>
      BY <1>2, <1>4, <2>1, PollsExcept DEF jump, continue, after_send
    <3> QED
      BY <1>1, <1>2, <3>1, DutyParts DEF Connected, Relaying, IInv, InUse, FilterIsForMail
  <2>2. CASE left # <<>>
    <3>1. UNCHANGED <<st, interest, refs, conn, fate>>
      BY <1>4, <2>2 DEF jump, continue, after_send
    <3> QED
      BY <1>1, <1>2, <3>1 DEF Connected, IInv, InUse, FilterIsForMail
  <2> QED
    BY <2>1, <2>2
<1> QED
  BY <1>3, <1>4 DEF greeting_cwrite

------------------------------------------------------------------------------
(* Commands and replies.                                                     *)

\* A relaying session has both descriptors registered.
LEMMA RelayingConnected ==
  ASSUME InUse, st \in Relaying
  PROVE  Connected /\ interest = Duty[st]
BY DEF InUse, Unconnected, Connected, Relaying

\* A relaying session that goes to a relaying state, with what that state polls.
LEMMA RelayKeeps ==
  ASSUME InUse, st \in Relaying, st' \in Relaying, interest' = Duty[st'],
         UNCHANGED <<refs, conn, fate>>, FilterIsForMail'
  PROVE  IInv'
<1>1. Connected
  BY RelayingConnected
<1> QED
  BY <1>1 DEF Connected, InUse, IInv

\* COMMAND_CREAD.
LEMMA CommandReadKeeps ==
  ASSUME IInv, command_cread
  PROVE  IInv'
<1>1. InUse /\ st = "COMMAND_CREAD" /\ st \in Relaying /\ got' = got
  BY EventInUse DEF command_cread, Relaying
<1>2. interest = Duty[st]
  BY <1>1, RelayingConnected
<1>3. CASE finished_suscription
  BY <1>1, <1>3, FinishKeeps
<1>4. ASSUME NEW c, NEW r, jump("COMMAND_SWRITE", c, r, wbuf, tbuf),
             continue(Polls("NOOP", "WRITE"))
      PROVE  IInv'
  <2>1. st' = "COMMAND_SWRITE" /\ interest' = Duty[st'] /\ UNCHANGED <<refs, conn, fate>>
    BY <1>4, DutyParts DEF jump, continue
  <2> QED
    BY <1>1, <2>1, RelayKeeps DEF Relaying, FilterIsForMail
<1>5. ASSUME NEW c, NEW r, jump(st, c, r, wbuf, tbuf), continue(interest)
      PROVE  IInv'
  <2>1. st' = st /\ interest' = Duty[st'] /\ UNCHANGED <<refs, conn, fate>>
    BY <1>2, <1>5 DEF jump, continue
  <2> QED
    BY <1>1, <2>1, RelayKeeps DEF FilterIsForMail
<1> QED
  BY <1>3, <1>4, <1>5 DEF command_cread

\* COMMAND_SWRITE.
LEMMA CommandWriteKeeps ==
  ASSUME IInv, command_swrite
  PROVE  IInv'
<1>1. InUse /\ st = "COMMAND_SWRITE" /\ st \in Relaying /\ got' = got
  BY EventInUse DEF command_swrite, Relaying
<1>2. interest = Duty[st] /\ interest = Polls("NOOP", "WRITE")
  BY <1>1, RelayingConnected, DutyParts
<1>3. CASE finished_suscription
  BY <1>1, <1>3, FinishKeeps
<1>4. ASSUME NEW left, jump(after_send(left, "RESPONSE_SREAD"), cmd, left, wbuf, tbuf),
             continue(IF left = <<>> THEN [interest EXCEPT !["origin"] = "READ"] ELSE interest)
      PROVE  IInv'
  <2>1. CASE left = <<>>
    <3>1. st' = "RESPONSE_SREAD" /\ interest' = Duty[st'] /\ UNCHANGED <<refs, conn, fate>>
      BY <1>2, <1>4, <2>1, PollsExcept, DutyParts DEF jump, continue, after_send
    <3> QED
      BY <1>1, <3>1, RelayKeeps DEF Relaying, FilterIsForMail
  <2>2. CASE left # <<>>
    <3>1. st' = st /\ interest' = Duty[st'] /\ UNCHANGED <<refs, conn, fate>>
      BY <1>2, <1>4, <2>2 DEF jump, continue, after_send
    <3> QED
      BY <1>1, <3>1, RelayKeeps DEF FilterIsForMail
  <2> QED
    BY <2>1, <2>2
<1> QED
  BY <1>3, <1>4 DEF command_swrite

\* The filter blocks a relaying session: it keeps its registrations.
LEMMA BlockKeeps ==
  ASSUME InUse, st \in Relaying, NEW w, block(w), UNCHANGED got, cmd.kw \in {"RETR", "TOP"}
  PROVE  IInv'
<1>1. Connected
  BY RelayingConnected
<1> QED
  BY <1>1 DEF Connected, block, IInv

\* RESPONSE_SREAD.
LEMMA ResponseReadKeeps ==
  ASSUME IInv, response_sread
  PROVE  IInv'
<1>1. InUse /\ st = "RESPONSE_SREAD" /\ st \in Relaying /\ got' = got
  BY EventInUse DEF response_sread, Relaying
<1>2. CASE finished_suscription
  BY <1>1, <1>2, FinishKeeps
<1>3. ASSUME NEW w, jump("RESPONSE_CWRITE", cmd, rbuf, w, tbuf), continue(to_client)
      PROVE  IInv'
  <2>1. st' = "RESPONSE_CWRITE" /\ interest' = Duty[st'] /\ UNCHANGED <<refs, conn, fate>>
    BY <1>3, DutyParts DEF jump, continue, to_client
  <2> QED
    BY <1>1, <2>1, RelayKeeps DEF Relaying, FilterIsForMail
<1>4. ASSUME NEW w, NEW out, NEW next \in {"RESPONSE_CWRITE", "DOT_DATA_CWRITE"},
             jump(next, cmd, rbuf, w, out), continue(to_client), transform' = to_filter(cmd)
      PROVE  IInv'
  <2>1. /\ st' = next /\ st' \in Relaying /\ interest' = Duty[st']
        /\ UNCHANGED <<refs, conn, fate, cmd>>
    BY <1>4, DutyParts DEF jump, continue, to_client, Relaying
  <2>2. FilterIsForMail'
    BY <1>4, <2>1 DEF FilterIsForMail, to_filter
  <2> QED
    BY <1>1, <2>1, <2>2, RelayKeeps
<1>5. ASSUME NEW w, to_filter(cmd), block(w)
      PROVE  IInv'
  BY <1>1, <1>5, BlockKeeps DEF to_filter
<1> QED
  BY <1>2, <1>3, <1>4, <1>5 DEF response_sread

\* DOT_DATA_SREAD.
LEMMA DotDataReadKeeps ==
  ASSUME IInv, dot_data_sread
  PROVE  IInv'
<1>1. InUse /\ st = "DOT_DATA_SREAD" /\ st \in Relaying /\ UNCHANGED <<got, transform>>
  BY EventInUse DEF dot_data_sread, Relaying
<1>2. CASE finished_suscription
  BY <1>1, <1>2, FinishKeeps
<1>3. ASSUME NEW w, transform, block(w)
      PROVE  IInv'
  <2>1. cmd.kw \in {"RETR", "TOP"}
    BY <1>1, <1>3 DEF InUse, FilterIsForMail
  <2> QED
    BY <1>1, <1>3, <2>1, BlockKeeps
<1>4. ASSUME ~transform, NEW w, NEW next \in {"RESPONSE_CWRITE", "DOT_DATA_CWRITE"},
             jump(next, cmd, rbuf, w, tbuf), continue(to_client)
      PROVE  IInv'
  <2>1. st' \in Relaying /\ interest' = Duty[st'] /\ UNCHANGED <<refs, conn, fate>>
    BY <1>4, DutyParts DEF jump, continue, to_client, Relaying
  <2> QED
    BY <1>1, <1>4, <2>1, RelayKeeps DEF FilterIsForMail
<1> QED
  BY <1>2, <1>3, <1>4 DEF dot_data_sread

\* DOT_DATA_CWRITE and RESPONSE_CWRITE.
LEMMA ReplyWriteKeeps ==
  ASSUME IInv, dot_data_cwrite \/ response_cwrite
  PROVE  IInv'
<1>1. /\ InUse /\ WriteEvent("client") /\ st \in {"DOT_DATA_CWRITE", "RESPONSE_CWRITE"}
      /\ st \in Relaying /\ transform' = transform
  BY EventInUse DEF dot_data_cwrite, response_cwrite, write_reply, Relaying
<1>2. interest = Duty[st] /\ interest = Polls("WRITE", "NOOP")
  BY <1>1, RelayingConnected, DutyParts
<1>3. CASE finished_suscription /\ UNCHANGED got
  BY <1>1, <1>3, FinishKeeps
<1>4. ASSUME NEW left, NEW next, NEW w, NEW t, NEW polls,
             \/ st = "DOT_DATA_CWRITE" /\ next = "DOT_DATA_SREAD" /\ polls = Polls("NOOP", "READ")
             \/ /\ st = "RESPONSE_CWRITE" /\ next = "COMMAND_CREAD"
                /\ polls = [interest EXCEPT !["client"] = "READ"],
             jump(after_send(left, next), cmd, rbuf, w, t),
             continue(IF left = <<>> THEN polls ELSE interest)
      PROVE  IInv'
  <2>1. CASE left = <<>>
    <3>1. /\ st' = next /\ next \in Relaying /\ interest' = Duty[st']
          /\ UNCHANGED <<refs, conn, fate>>
          /\ next = "DOT_DATA_SREAD" => st = "DOT_DATA_CWRITE" /\ cmd' = cmd
      BY <1>2, <1>4, <2>1, PollsExcept, DutyParts DEF jump, continue, after_send, Relaying
    <3>2. FilterIsForMail'
      BY <1>1, <1>4, <3>1 DEF FilterIsForMail, InUse
    <3> QED
      BY <1>1, <3>1, <3>2, RelayKeeps
  <2>2. CASE left # <<>>
    <3>1. st' = st /\ cmd' = cmd /\ interest' = Duty[st'] /\ UNCHANGED <<refs, conn, fate>>
      BY <1>2, <1>4, <2>2 DEF jump, continue, after_send
    <3>2. FilterIsForMail'
      BY <1>1, <3>1 DEF FilterIsForMail, InUse
    <3> QED
      BY <1>1, <3>1, <3>2, RelayKeeps
  <2> QED
    BY <2>1, <2>2
<1> QED
  BY <1>1, <1>3, <1>4 DEF dot_data_cwrite, response_cwrite, write_reply

\* stm.c aborts only in the two cases in which the session polls a descriptor its
\* state does not expect, and the client has not been greeted in either.
LEMMA MissingHandlerKeeps ==
  ASSUME IInv, missing_handler
  PROVE  IInv'
<1>1. PICK fd \in Peers :
        \/ ReadEvent(fd)  /\ st \notin ReadStates
        \/ WriteEvent(fd) /\ st \notin WriteStates
  BY DEF missing_handler
<1>2. InUse
  BY <1>1, EventInUse
<1>3. got = <<>>
  <2>1. CASE Unconnected
    BY <2>1 DEF Unconnected
  <2>2. CASE Connected
    <3>1. \/ interest[fd] = "READ"  /\ st \notin ReadStates
          \/ interest[fd] = "WRITE" /\ st \notin WriteStates
      BY <1>1 DEF ReadEvent, WriteEvent
    <3>2. CASE fd = "client"
      BY <2>2, <3>1, <3>2, PollsParts, DutyParts
         DEF Connected, Relaying, ReadStates, WriteStates
    <3>3. CASE fd = "origin"
      BY <2>2, <3>1, <3>3, PollsParts, DutyParts
         DEF Connected, Relaying, ReadStates, WriteStates
    <3> QED
      BY <3>2, <3>3 DEF Peers
  <2> QED
    BY <1>2, <2>1, <2>2 DEF InUse
<1>4. fate' = "aborted" /\ got' = got
  BY DEF missing_handler, abort, wires
<1> QED
  BY <1>3, <1>4 DEF IInv

------------------------------------------------------------------------------
(* The peers and the resolver.                                               *)

\* The client, the resolver and a closing origin touch nothing IInv is about,
\* except the state of the connection.
LEMMA PeersKeep ==
  ASSUME IInv,
         \/ resolv_connection_blocking \/ ClientSend \/ ClientClose
         \/ OriginAccept \/ OriginRefuse \/ OriginClose
  PROVE  IInv'
<1>1. UNCHANGED <<st, interest, refs, cmd, transform, fate, got, oin>>
  BY DEF resolv_connection_blocking, ClientSend, ClientClose, OriginAccept, OriginRefuse,
         OriginClose, OriginConnection, proxyAndOrigin, sessionVars, wires
<1>2. \/ conn' = conn
      \/ fate = "live" /\ conn \in {"pending", "up"} /\ conn' \in {"up", "refused", "eof"}
  BY DEF resolv_connection_blocking, ClientSend, ClientClose, OriginAccept, OriginRefuse,
         OriginClose, OriginConnection, proxyAndOrigin
<1> QED
  BY <1>1, <1>2 DEF IInv, Unconnected, Connected, FilterIsForMail

\* The origin speaks on a connection that is up.
LEMMA OriginKeeps ==
  ASSUME IInv, OriginGreet \/ OriginServe
  PROVE  IInv'
<1>1. /\ fate = "live" /\ conn = "up"
      /\ UNCHANGED <<st, interest, refs, cmd, transform, conn, fate, got>>
  BY DEF OriginGreet, OriginServe, OriginSays, sessionVars
<1> QED
  BY <1>1 DEF IInv, Unconnected, Connected, FilterIsForMail

\* IInv holds initially.
LEMMA InitIInv == Init => IInv
BY DEF Init, IInv, Unconnected, FilterIsForMail

\* IInv is inductive.
LEMMA StepKeeps == IInv /\ [Next]_vars => IInv'
<1> SUFFICES ASSUME IInv, [Next]_vars PROVE IInv'
  OBVIOUS
<1>1. CASE UNCHANGED vars
  BY <1>1 DEF vars, sessionVars, wires, IInv, Unconnected, Connected, FilterIsForMail
<1>2. CASE Selector
  BY <1>2, ProcessKeeps, ResolvKeeps, EstablKeeps, GreetingReadKeeps, GreetingWriteKeeps,
     CommandReadKeeps, CommandWriteKeeps, ResponseReadKeeps, DotDataReadKeeps,
     ReplyWriteKeeps, MissingHandlerKeeps DEF Selector
<1>3. CASE \/ resolv_connection_blocking \/ ClientSend \/ ClientClose
           \/ OriginAccept \/ OriginRefuse \/ OriginClose
  BY <1>3, PeersKeep
<1>4. CASE OriginGreet \/ OriginServe
  BY <1>4, OriginKeeps
<1> QED
  BY <1>1, <1>2, <1>3, <1>4 DEF Next

------------------------------------------------------------------------------
(* The theorems.                                                             *)

\* The handlers of client_statbl poll one descriptor at a time, and in the
\* relaying states the one the state is about.
THEOREM SessionHalfDuplex == Spec => []HalfDuplex
<1>1. IInv => HalfDuplex
  <2> SUFFICES ASSUME IInv, fate = "live"
               PROVE  /\ \E fd \in Peers : interest[fd] \in {"NONE", "NOOP"}
                      /\ st \in Relaying => interest = Duty[st]
    BY DEF HalfDuplex
  <2>1. CASE Unconnected
    <3>1. interest["origin"] = "NONE"
      BY <2>1, PollsParts DEF Unconnected
    <3> QED
      BY <2>1, <3>1 DEF Unconnected, Relaying, Peers
  <2>2. CASE Connected
    <3>1. interest["client"] = "NOOP" \/ interest["origin"] = "NOOP"
      BY <2>2, PollsParts, DutyParts DEF Connected, Relaying
    <3> QED
      BY <2>2, <3>1 DEF Connected, Relaying, Peers
  <2> QED
    BY <2>1, <2>2 DEF IInv
<1> QED
  BY <1>1, InitIInv, StepKeeps, PTL DEF Spec

\* `references' counts the registrations: destroy_suscription frees the object at
\* the last handle_close and not before.
THEOREM SessionRefsMatch == Spec => []RefsMatchRegistrations
<1>1. IInv => RefsMatchRegistrations
  <2> SUFFICES ASSUME IInv, fate # "aborted" PROVE RefsMatchRegistrations
    BY DEF RefsMatchRegistrations
  <2>1. CASE Unconnected
    <3>1. interest["origin"] = "NONE" /\ interest["client"] # "NONE" /\ refs = 1
      BY <2>1, PollsParts DEF Unconnected
    <3> QED
      BY <3>1 DEF RefsMatchRegistrations, Registered, Peers
  <2>2. CASE Connected
    <3>1. interest["origin"] # "NONE" /\ interest["client"] # "NONE" /\ refs = 2
      BY <2>2, PollsParts, DutyParts DEF Connected, Relaying
    <3> QED
      BY <3>1 DEF RefsMatchRegistrations, Registered, Peers
  <2>3. CASE refs = 0 /\ interest = Polls("NONE", "NONE")
    <3>1. interest["origin"] = "NONE" /\ interest["client"] = "NONE"
      BY <2>3, PollsParts
    <3> QED
      BY <2>3, <3>1 DEF RefsMatchRegistrations, Registered
  <2> QED
    BY <2>1, <2>2, <2>3 DEF IInv
<1> QED
  BY <1>1, InitIInv, StepKeeps, PTL DEF Spec

\* No session whose client has received a byte reaches an abort().
THEOREM SessionNoAbortAfterGreeting == Spec => []NoAbortAfterGreeting
<1>1. IInv => NoAbortAfterGreeting
  BY DEF IInv, NoAbortAfterGreeting
<1> QED
  BY <1>1, InitIInv, StepKeeps, PTL DEF Spec

\* The read of the filter's output can only wait for ever during a RETR or a TOP.
THEOREM SessionOnlyMailBlocks == Spec => []OnlyMailBlocks
<1>1. IInv => OnlyMailBlocks
  BY DEF IInv, OnlyMailBlocks
<1> QED
  BY <1>1, InitIInv, StepKeeps, PTL DEF Spec

\* A session that polls nobody never had a connection to its origin, and has not
\* greeted its client.
THEOREM SessionStrandedOnlyUnconnected == Spec => []StrandedOnlyUnconnected
<1>1. IInv => StrandedOnlyUnconnected
  <2> SUFFICES ASSUME IInv, fate = "live", \A fd \in Peers : interest[fd] \notin {"READ", "WRITE"}
               PROVE  /\ st \in {"RESOLV_CONNECTION", "ESTABL_CONNECTION"}
                      /\ conn \in {"none", "idle"} /\ got = <<>>
    BY DEF StrandedOnlyUnconnected
  <2>1. /\ interest["client"] \notin {"READ", "WRITE"}
        /\ interest["origin"] \notin {"READ", "WRITE"}
    BY DEF Peers
  <2>2. ~Connected
    BY <2>1, PollsParts, DutyParts DEF Connected, Relaying
  <2> QED
    BY <2>1, <2>2, PollsParts DEF IInv, Unconnected
<1> QED
  BY <1>1, InitIInv, StepKeeps, PTL DEF Spec
==============================================================================

-------------------------- MODULE SessionRelayProofs --------------------------
(***************************************************************************)
(* What a session relays, for every set of commands, size of the buffers   *)
(* and combination of faults: its variables keep their types; the replies  *)
(* to commands that are not filtered reach the client byte for byte; and   *)
(* the commands of a client that does not pipeline reach the origin byte   *)
(* for byte.  The session then implements the two streams of Relay.        *)
(***************************************************************************)
EXTENDS Pop3SessionProofs, SequenceTheorems, WellFoundedInduction

------------------------------------------------------------------------------
(* The inductive invariants.                                                 *)

\* The command being built is one of the client's, or not yet known.
KnownCommand == [kw : {c.kw : c \in Commands} \cup {""}, args : BOOLEAN]

ControlTyped ==
  /\ addr \in AddrTypes
  /\ st \in States
  /\ interest \in [Peers -> {"NONE", "NOOP", "READ", "WRITE"}]
  /\ refs \in 0..2
  /\ resolver \in {"idle", "running", "done", "failed"}
  /\ conn \in {"none", "idle", "pending", "up", "refused", "eof"}
  /\ fate \in {"live", "closed", "aborted", "blocked"}

BuffersTyped ==
  /\ cmd \in KnownCommand
  /\ transform \in BOOLEAN
  /\ rbuf \in Seq(CmdToken) /\ Len(rbuf) <= BufSize
  /\ wbuf \in Seq(ReplyToken) /\ tbuf \in Seq(ReplyToken)

\* A token the client sent belongs to a command it issued.
StreamsTyped ==
  /\ cin \in Seq(CmdToken) /\ oout \in Seq(CmdToken) /\ fwd \in Seq(CmdToken)
  /\ oin \in Seq(ReplyToken) /\ sent \in Seq(ReplyToken) /\ got \in Seq(ReplyToken)
  /\ ceof \in BOOLEAN /\ served \in Nat
  /\ issued \in Seq(Commands)
  /\ \A i \in 1..Len(cin) : cin[i].n \in 1..Len(issued)

Typing == ControlTyped /\ BuffersTyped /\ StreamsTyped

\* The states before the origin's greeting has been received, and those in which a
\* reply, or the greeting, is being written to the client.
Ungreeted  == {"PROCESS_CONNECTION", "RESOLV_CONNECTION", "ESTABL_CONNECTION", "GREETING_SREAD"}
HeldStates == {"GREETING_CWRITE", "RESPONSE_CWRITE", "DOT_DATA_CWRITE"}
Held       == IF st \in HeldStates THEN wbuf ELSE <<>>
Greeted    == st \in Relaying \/ (st = "GREETING_CWRITE" /\ interest["client"] = "WRITE")

\* Until the greeting is received nothing was forwarded, so the origin has sent the
\* greeting at most; it is replaced by the proxy's own, and from then on every
\* token the origin sent was received by the client, is held, or is queued.
RepliesKept ==
  fate = "live" =>
    /\ ~transform
    /\ st \in Ungreeted => oin = sent /\ oout = <<>> /\ (sent = <<>> \/ Len(sent) = 2)
    /\ st = "GREETING_SREAD" => wbuf = GREETING_OK
    /\ Greeted => Len(sent) >= 2 /\ got \o Held \o oin = GREETING_OK \o Drop(sent, 2)

\* A client that does not pipeline has one command at a time on its way: all was
\* served, or the text of the last command is spread over the three queues.
OneCommand ==
  \/ served = Len(issued) /\ oout = <<>> /\ rbuf = <<>> /\ cin = <<>>
  \/ /\ served + 1 = Len(issued)
     /\ oout \o rbuf \o cin = Text(issued[Len(issued)], Len(issued))

CommandsKept ==
  fate = "live" =>
    /\ \A j \in 1..Len(sent) : sent[j].of <= served
    /\ st \notin {"COMMAND_CREAD", "COMMAND_SWRITE"} => rbuf = <<>>
    /\ OneCommand
    /\ fwd \o rbuf \o cin = AllText

------------------------------------------------------------------------------
(* Segments of streams.                                                      *)

\* A stream cut in two.
LEMMA Cut ==
  ASSUME NEW S, NEW s \in Seq(S), NEW n \in 0..Len(s)
  PROVE  /\ Take(s, n) \in Seq(S) /\ Len(Take(s, n)) = n /\ \A i \in 1..n : Take(s, n)[i] = s[i]
         /\ Drop(s, n) \in Seq(S) /\ Len(Drop(s, n)) = Len(s) - n
         /\ \A i \in 1..(Len(s) - n) : Drop(s, n)[i] = s[n + i]
         /\ Take(s, n) \o Drop(s, n) = s
<1>1. Len(s) \in Nat
  OBVIOUS
<1>2. Take(s, n) \in Seq(S) /\ Len(Take(s, n)) = n /\ \A i \in 1..n : Take(s, n)[i] = s[i]
  BY <1>1, SubSeqProperties DEF Take
<1>3. /\ Drop(s, n) \in Seq(S) /\ Len(Drop(s, n)) = Len(s) - n
      /\ \A i \in 1..(Len(s) - n) : Drop(s, n)[i] = s[n + i]
  BY <1>1, SubSeqProperties DEF Drop
<1>4. Take(s, n) \o Drop(s, n) = s
  <2> DEFINE c == Take(s, n) \o Drop(s, n)
  <2>1. c \in Seq(S) /\ Len(c) = Len(s)
    BY <1>1, <1>2, <1>3, ConcatProperties
  <2>2. \A i \in 1..Len(s) : c[i] = s[i]
    BY <1>1, <1>2, <1>3, ConcatProperties
  <2> QED
    BY <2>1, <2>2, SeqEqual
<1> QED
  BY <1>2, <1>3, <1>4

\* What a recv returns is not more than what is queued, nor than the room left.
LEMMA LengthsBound ==
  ASSUME NEW S, NEW q \in Seq(S), NEW room \in Nat, NEW cut \in BOOLEAN,
         NEW n \in Lengths(q, room, cut)
  PROVE  n \in 1..Len(q) /\ n <= room
<1> DEFINE most == IF Len(q) < room THEN Len(q) ELSE room
<1>1. Len(q) \in Nat /\ most \in Nat /\ most <= Len(q) /\ most <= room
  OBVIOUS
<1>2. n \in (1..most) \cup ({most} \ {0})
  BY DEF Lengths
<1> QED
  BY <1>1, <1>2

\* What a send takes and what it leaves make up what was offered.
LEMMA LeftoversCut ==
  ASSUME NEW S, NEW q \in Seq(S), NEW left \in Leftovers(q)
  PROVE  /\ left \in Seq(S) /\ Len(left) <= Len(q)
         /\ Take(q, Len(q) - Len(left)) \in Seq(S)
         /\ Take(q, Len(q) - Len(left)) \o left = q
<1>1. Len(q) \in Nat
  OBVIOUS
<1>2. PICK n \in 0..Len(q) : left = Drop(q, n)
  <2>1. CASE left \in {Drop(q, n) : n \in 1..Len(q)}
    BY <1>1, <2>1
  <2>2. CASE q = <<>> /\ left = q
    <3>1. Len(q) = 0
      BY <2>2
    <3>2. 0 \in 0..Len(q)
      BY <1>1
    <3>3. Drop(q, 0) \in Seq(S) /\ Len(Drop(q, 0)) = Len(q) - 0
      BY ONLY <3>2, q \in Seq(S), Cut
    <3>4. Drop(q, 0) = <<>>
      BY <3>1, <3>3, EmptySeq
    <3> QED
      BY <1>1, <2>2, <3>4
  <2> QED
    BY <2>1, <2>2 DEF Leftovers
<1>3. /\ Drop(q, n) \in Seq(S) /\ Len(Drop(q, n)) = Len(q) - n
      /\ Take(q, n) \in Seq(S) /\ Take(q, n) \o Drop(q, n) = q
  BY Cut
<1>4. Len(q) - Len(left) = n /\ Len(left) <= Len(q)
  BY <1>1, <1>2, <1>3
<1> QED
  BY <1>2, <1>3, <1>4

------------------------------------------------------------------------------
(* Commands and replies as tokens.                                           *)

\* The text of a command: all of its tokens are its own, and only the last ends it.
LEMMA TextTokens ==
  ASSUME NEW c \in Commands, NEW n \in Nat
  PROVE  /\ Text(c, n) \in Seq(CmdToken) /\ Len(Text(c, n)) = c.args + 2
         /\ \A i \in 1..(c.args + 2) : /\ Text(c, n)[i].n = n
                                       /\ Text(c, n)[i].k = "eol" <=> i = c.args + 2
<1>1. c.args \in Nat
  BY CommandsAssumption
<1> DEFINE tok(i) == [k |-> IF i = 1 THEN "kw" ELSE IF i = c.args + 2 THEN "eol" ELSE "arg",
                      n |-> n, i |-> i]
<1>2. c.args + 2 \in Nat /\ c.args + 2 # 1
  BY <1>1
<1>3. \A i \in 1..(c.args + 2) :
        tok(i) \in CmdToken /\ tok(i).n = n /\ (tok(i).k = "eol" <=> i = c.args + 2)
  BY <1>1, <1>2 DEF CmdToken
<1>4. Text(c, n) = [i \in 1..(c.args + 2) |-> tok(i)]
  BY DEF Text
<1> HIDE DEF tok
<1>5. Text(c, n) \in Seq(CmdToken) /\ Len(Text(c, n)) = c.args + 2
  BY <1>2, <1>3, <1>4, IsASeq
<1> QED
  BY <1>3, <1>4, <1>5

\* What a reply is made of.
ReplyKinds == {"ok", "err", "eol", "line", "dot"}

\* The tokens of a reply.
LEMMA ReplyTokens ==
  ASSUME NEW kinds \in Seq(ReplyKinds), NEW n \in Nat
  PROVE  /\ ReplyOf(kinds, n) \in Seq(ReplyToken) /\ Len(ReplyOf(kinds, n)) = Len(kinds)
         /\ \A i \in 1..Len(kinds) : ReplyOf(kinds, n)[i].of = n
<1> DEFINE tok(i) == [k |-> kinds[i], of |-> n, i |-> i]
<1>1. Len(kinds) \in Nat /\ \A i \in 1..Len(kinds) : kinds[i] \in ReplyKinds
  OBVIOUS
<1>2. \A i \in 1..Len(kinds) : tok(i) \in ReplyToken /\ tok(i).of = n
  BY <1>1 DEF ReplyToken, ReplyKinds
<1>3. ReplyOf(kinds, n) = [i \in 1..Len(kinds) |-> tok(i)]
  BY DEF ReplyOf
<1> HIDE DEF tok
<1>4. ReplyOf(kinds, n) \in Seq(ReplyToken) /\ Len(ReplyOf(kinds, n)) = Len(kinds)
  BY <1>1, <1>2, <1>3, IsASeq
<1> QED
  BY <1>2, <1>3, <1>4

\* The proxy's greeting, and either greeting of the origin.
LEMMA GreetingKinds ==
  /\ <<"ok", "eol">> \in Seq(ReplyKinds) /\ Len(<<"ok", "eol">>) = 2
  /\ <<"err", "eol">> \in Seq(ReplyKinds) /\ Len(<<"err", "eol">>) = 2
  BY DEF ReplyKinds

LEMMA GreetingTokens == GREETING_OK \in Seq(ReplyToken)
  BY GreetingKinds, ReplyTokens DEF GREETING_OK

\* The parts of what the origin may answer.
LEMMA OriginRepliesKinds ==
  ASSUME NEW req, NEW kinds \in OriginReplies(req)
  PROVE  kinds \in Seq(ReplyKinds)
<1>1. \A b \in Bodies : <<"ok", "eol">> \o b \o <<"dot">> \in Seq(ReplyKinds)
  <2> SUFFICES ASSUME NEW b \in Bodies PROVE <<"ok", "eol">> \o b \o <<"dot">> \in Seq(ReplyKinds)
    OBVIOUS
  <2>1. b \in Seq(ReplyKinds)
    <3>1. b \in Seq(BodyKinds) /\ BodyKinds \subseteq ReplyKinds
      BY BodiesAssumption DEF BodyKinds, ReplyKinds
    <3> QED
      BY <3>1, SeqMonotonic
  <2>2. <<"dot">> \in Seq(ReplyKinds)
    BY DEF ReplyKinds
  <2> QED
    BY <2>1, <2>2, GreetingKinds, ConcatProperties
<1>2. \/ kinds = <<"err", "eol">> \/ kinds = <<"ok", "eol">>
      \/ \E b \in Bodies : kinds = <<"ok", "eol">> \o b \o <<"dot">>
  BY DEF OriginReplies
<1> QED
  BY <1>1, <1>2, GreetingKinds

\* What the filter makes of a segment.
LEMMA TransformationTokens ==
  ASSUME NEW seg \in Seq(ReplyToken), NEW out \in transformation(seg)
  PROVE  out \in Seq(ReplyToken)
<1>1. ASSUME NEW kinds PROVE Filtered(seg, kinds) \in Seq(ReplyToken)
  <2> DEFINE tok(i) == IF seg[i].k \in kinds THEN [seg[i] EXCEPT !.k = "mime"] ELSE seg[i]
  <2>1. \A i \in 1..Len(seg) : seg[i] \in ReplyToken
    OBVIOUS
  <2>2. \A x \in ReplyToken : [x EXCEPT !.k = "mime"] \in ReplyToken
    BY DEF ReplyToken
  <2>3. \A i \in 1..Len(seg) : tok(i) \in ReplyToken
    BY <2>1, <2>2
  <2>4. Filtered(seg, kinds) = [i \in 1..Len(seg) |-> tok(i)] /\ Len(seg) \in Nat
    BY DEF Filtered
  <2> HIDE DEF tok
  <2> QED
    BY <2>3, <2>4, IsASeq
<1>2. Junk \in Seq(ReplyToken)
  BY DEF Junk, ReplyToken
<1>3. \/ out = Filtered(seg, {"line"}) \/ out = Filtered(seg, {"line", "dot"}) \/ out = Junk
  BY DEF transformation
<1> QED
  BY <1>1, <1>2, <1>3

------------------------------------------------------------------------------
(* Type correctness: the control of the session.                             *)

\* How a step ends a session: abort() leaves the registrations as they were, and a
\* session that is closed has released them.
Ending ==
  /\ addr' = addr /\ resolver' \in {resolver, "idle", "running", "done", "failed"}
  /\ fate' \in {fate, "closed", "aborted", "blocked"}
  /\ fate' = "aborted" => UNCHANGED <<interest, refs>> /\ st' \in {st, "ERROR"} /\ conn' \in {conn, "up"}
  /\ fate' = "closed" => st' \in {st, "ERROR"} /\ conn' \in {conn, "none"}

LEMMA FinishEnds ==
  ASSUME finished_suscription, addr' = addr, resolver' = resolver PROVE Ending
  BY DEF finished_suscription, jump, Ending

LEMMA ConnectingEnds ==
  ASSUME process_connection \/ resolv_connection, fate = "live" PROVE Ending
<1>1. ASSUME NEW b, attempt_connection(b), addr' = addr,
             resolver' \in {resolver, "idle", "running", "done", "failed"}
      PROVE  Ending
  BY <1>1 DEF attempt_connection, jump, continue, abort, Ending
<1>2. CASE process_connection
  <2>1. CASE addr = "ip" /\ attempt_connection(FALSE) /\ UNCHANGED resolver
    BY <1>1, <1>2, <2>1 DEF process_connection
  <2>2. CASE /\ resolver' \in {"running"} \cup (IF "nothread" \in Faults THEN {"idle"} ELSE {})
             /\ jump("RESOLV_CONNECTION", cmd, rbuf, wbuf, tbuf)
             /\ continue(Polls("NOOP", "NONE"))
    BY <1>2, <2>2 DEF process_connection, jump, continue, Ending
  <2> QED
    BY <1>2, <2>1, <2>2 DEF process_connection
<1>3. CASE resolv_connection
  BY <1>1, <1>3 DEF resolv_connection
<1> QED
  BY <1>2, <1>3

LEMMA HandlersEnd ==
  ASSUME fate = "live",
         \/ \E fd \in Peers : establ_connection(fd) \/ greeting_sread(fd)
         \/ greeting_cwrite \/ command_cread \/ command_swrite \/ response_sread
         \/ dot_data_sread \/ dot_data_cwrite \/ response_cwrite
  PROVE  Ending
<1>1. addr' = addr /\ resolver' = resolver
  BY DEF establ_connection, greeting_sread, greeting_cwrite, command_cread, command_swrite,
         response_sread, dot_data_sread, dot_data_cwrite, response_cwrite, write_reply
<1>2. CASE finished_suscription
  BY <1>1, <1>2, FinishEnds
<1>3. ASSUME fate' \in {fate, "blocked"} PROVE Ending
  BY <1>1, <1>3 DEF Ending
<1>4. \/ finished_suscription \/ fate' = fate \/ fate' = "blocked"
  BY DEF establ_connection, greeting_sread, greeting_cwrite, command_cread, command_swrite,
         response_sread, dot_data_sread, dot_data_cwrite, response_cwrite, write_reply,
         continue, block
<1> QED
  BY <1>2, <1>3, <1>4

LEMMA StepEnds == [Next]_vars => Ending
<1> SUFFICES ASSUME [Next]_vars PROVE Ending
  OBVIOUS
<1>1. CASE UNCHANGED vars
  BY <1>1 DEF vars, Ending
<1>2. CASE process_connection \/ resolv_connection
  <2>1. fate = "live"
    BY <1>2 DEF process_connection, resolv_connection, WriteEvent
  <2> QED
    BY <1>2, <2>1, ConnectingEnds
<1>3. CASE \/ \E fd \in Peers : establ_connection(fd) \/ greeting_sread(fd)
           \/ greeting_cwrite \/ command_cread \/ command_swrite \/ response_sread
           \/ dot_data_sread \/ dot_data_cwrite \/ response_cwrite
  <2>1. fate = "live"
    BY <1>3 DEF establ_connection, greeting_sread, greeting_cwrite, command_cread, command_swrite,
         response_sread, dot_data_sread, dot_data_cwrite, response_cwrite, write_reply,
         ReadEvent, WriteEvent
  <2> QED
    BY <1>3, <2>1, HandlersEnd
<1>4. CASE missing_handler
  BY <1>4 DEF missing_handler, abort, Ending
<1>5. CASE resolv_connection_blocking
  BY <1>5 DEF resolv_connection_blocking, Ending
<1>6. CASE \/ ClientSend \/ ClientClose \/ OriginAccept \/ OriginRefuse \/ OriginClose
           \/ OriginGreet \/ OriginServe
  BY <1>6 DEF ClientSend, ClientClose, OriginAccept, OriginRefuse, OriginClose, OriginConnection,
              OriginGreet, OriginServe, OriginSays, proxyAndOrigin, Ending
<1> QED
  BY <1>1, <1>2, <1>3, <1>4, <1>5, <1>6 DEF Next, Selector

\* The phase a session is in after a step gives its registrations their types.
LEMMA PhaseTyped ==
  ASSUME IInv', fate' # "aborted"
  PROVE  /\ interest' \in [Peers -> {"NONE", "NOOP", "READ", "WRITE"}] /\ refs' \in 0..2
         /\ fate' \in {"live", "blocked"} =>
              st' \in States /\ conn' \in {"none", "idle", "pending", "up", "refused", "eof"}
<1>1. \A c, o \in {"NONE", "NOOP", "READ", "WRITE"} :
        Polls(c, o) \in [Peers -> {"NONE", "NOOP", "READ", "WRITE"}]
  BY DEF Polls, Peers
<1>2. st' \in Relaying => Duty[st'] \in [Peers -> {"NONE", "NOOP", "READ", "WRITE"}]
  BY <1>1, DutyParts DEF Relaying
<1>3. CASE Unconnected'
  BY <1>1, <1>3 DEF Unconnected, States
<1>4. CASE Connected'
  BY <1>1, <1>2, <1>4 DEF Connected, Relaying, States
<1>5. CASE fate' = "closed" /\ refs' = 0 /\ interest' = Polls("NONE", "NONE")
  BY <1>1, <1>5
<1> QED
  BY <1>3, <1>4, <1>5 DEF IInv

LEMMA ControlKept ==
  ASSUME IInv, IInv', ControlTyped, [Next]_vars PROVE ControlTyped'
<1>1. Ending
  BY StepEnds
<1>2. CASE fate' = "aborted"
  BY <1>1, <1>2 DEF Ending, ControlTyped, States
<1>3. CASE fate' # "aborted"
  <2>1. interest' \in [Peers -> {"NONE", "NOOP", "READ", "WRITE"}] /\ refs' \in 0..2
    BY <1>3, PhaseTyped
  <2>2. fate' \in {"live", "blocked"} =>
          st' \in States /\ conn' \in {"none", "idle", "pending", "up", "refused", "eof"}
    BY <1>3, PhaseTyped
  <2> QED
    BY <1>1, <1>3, <2>1, <2>2 DEF Ending, ControlTyped, States
<1> QED
  BY <1>2, <1>3

------------------------------------------------------------------------------
(* Type correctness: the buffers and the streams.                            *)

\* A jump with typed contents leaves typed contents: the arrival callbacks reset
\* buffers or load the greeting.
LEMMA JumpTyped ==
  ASSUME NEW next, NEW c \in KnownCommand, NEW r \in Seq(CmdToken), Len(r) <= BufSize,
         NEW w \in Seq(ReplyToken), NEW t \in Seq(ReplyToken),
         jump(next, c, r, w, t), transform' \in BOOLEAN
  PROVE  BuffersTyped'
<1>1. NoCommand \in KnownCommand
  BY DEF NoCommand, KnownCommand
<1>2. <<>> \in Seq(CmdToken) /\ <<>> \in Seq(ReplyToken) /\ Len(<<>>) = 0 /\ 0 <= BufSize
  BY BoundsAssumption
<1>3. cmd' \in {NoCommand, c} /\ rbuf' \in {<<>>, r} /\ wbuf' \in {GREETING_OK, <<>>, w} /\ tbuf' \in {<<>>, t}
  BY DEF jump
<1> QED
  BY <1>1, <1>2, <1>3, GreetingTokens DEF BuffersTyped

\* A handler that only moves to another state, or closes the session.
LEMMA MoveTyped ==
  ASSUME BuffersTyped, transform' = transform,
         \/ \E next : jump(next, cmd, rbuf, wbuf, tbuf)
         \/ finished_suscription
         \/ UNCHANGED <<cmd, rbuf, wbuf, tbuf>>
  PROVE  BuffersTyped'
<1>1. ASSUME NEW next, jump(next, cmd, rbuf, wbuf, tbuf) PROVE BuffersTyped'
  BY <1>1, JumpTyped DEF BuffersTyped
<1>2. CASE UNCHANGED <<cmd, rbuf, wbuf, tbuf>>
  BY <1>2 DEF BuffersTyped
<1> QED
  BY <1>1, <1>2 DEF finished_suscription

\* What connecting, aborting, the resolver and the origin's TCP do.
LEMMA ConnectingTyped ==
  ASSUME Typing,
         \/ process_connection \/ resolv_connection \/ (\E fd \in Peers : establ_connection(fd))
         \/ missing_handler \/ resolv_connection_blocking
         \/ OriginAccept \/ OriginRefuse \/ OriginClose
  PROVE  BuffersTyped' /\ StreamsTyped'
<1>1. UNCHANGED wires /\ transform' = transform
  BY DEF process_connection, resolv_connection, establ_connection, missing_handler,
         resolv_connection_blocking, OriginAccept, OriginRefuse, OriginClose, OriginConnection, sessionVars
<1>2. \/ \E next : jump(next, cmd, rbuf, wbuf, tbuf)
      \/ UNCHANGED <<cmd, rbuf, wbuf, tbuf>>
  BY DEF process_connection, resolv_connection, establ_connection, missing_handler, attempt_connection,
         resolv_connection_blocking, OriginAccept, OriginRefuse, OriginClose, OriginConnection, sessionVars
<1>3. BuffersTyped'
  BY <1>1, <1>2, MoveTyped DEF Typing
<1>4. StreamsTyped'
  BY <1>1 DEF Typing, StreamsTyped, wires
<1> QED
  BY <1>3, <1>4

\* A recv from the origin.
LEMMA ReceivedTyped ==
  ASSUME Typing, NEW cut \in BOOLEAN, NEW n \in Lengths(oin, BufSize, cut)
  PROVE  /\ n \in 1..Len(oin) /\ Take(oin, n) \in Seq(ReplyToken) /\ Len(Take(oin, n)) = n
         /\ Drop(oin, n) \in Seq(ReplyToken) /\ Take(oin, n) \o Drop(oin, n) = oin
<1>1. oin \in Seq(ReplyToken) /\ BufSize \in Nat
  BY BoundsAssumption DEF Typing, StreamsTyped
<1>2. n \in 1..Len(oin)
  BY <1>1, LengthsBound
<1>3. n \in 0..Len(oin)
  BY <1>2
<1> QED
  BY <1>1, <1>2, <1>3, Cut

\* GREETING_SREAD.
LEMMA GreetingReadTyped ==
  ASSUME Typing, NEW fd \in Peers, greeting_sread(fd)
  PROVE  BuffersTyped' /\ StreamsTyped'
<1>1. /\ transform' = transform /\ UNCHANGED <<cin, ceof, oout, served, issued, sent, got, fwd>>
      /\ \/ \E next : jump(next, cmd, rbuf, wbuf, tbuf)
         \/ finished_suscription
  BY DEF greeting_sread
<1>2. BuffersTyped'
  BY <1>1, MoveTyped DEF Typing
<1>3. oin' \in Seq(ReplyToken)
  <2>1. CASE oin' = oin
    BY <2>1 DEF Typing, StreamsTyped
  <2>2. ASSUME NEW n \in Lengths(oin, BufSize, "segments" \in Faults), oin' = Drop(oin, n)
        PROVE  oin' \in Seq(ReplyToken)
    <3>1. ("segments" \in Faults) \in BOOLEAN
      OBVIOUS
    <3> QED
      BY <2>2, <3>1, ReceivedTyped
  <2> QED
    BY <2>1, <2>2 DEF greeting_sread
<1>4. StreamsTyped'
  BY <1>1, <1>3 DEF Typing, StreamsTyped
<1> QED
  BY <1>2, <1>4

\* GREETING_CWRITE.
LEMMA GreetingWriteTyped ==
  ASSUME Typing, greeting_cwrite
  PROVE  BuffersTyped' /\ StreamsTyped'
<1>1. transform' = transform /\ UNCHANGED <<cin, ceof, oin, oout, served, issued, sent, fwd>>
  BY DEF greeting_cwrite
<1>2. wbuf \in Seq(ReplyToken) /\ got \in Seq(ReplyToken)
  BY DEF Typing, BuffersTyped, StreamsTyped
<1>3. CASE finished_suscription /\ UNCHANGED got
  BY <1>1, <1>3, MoveTyped DEF Typing, StreamsTyped
<1>4. ASSUME NEW left \in Leftovers(wbuf), SendToClient(wbuf, left),
             jump(after_send(left, "COMMAND_CREAD"), cmd, rbuf, left, tbuf)
      PROVE  BuffersTyped' /\ StreamsTyped'
  <2>1. left \in Seq(ReplyToken) /\ Take(wbuf, Len(wbuf) - Len(left)) \in Seq(ReplyToken)
    BY <1>2, LeftoversCut
  <2>2. BuffersTyped'
    BY <1>1, <1>4, <2>1, JumpTyped DEF Typing, BuffersTyped
  <2>3. got' \in Seq(ReplyToken)
    BY <1>2, <1>4, <2>1, ConcatProperties DEF SendToClient
  <2> QED
    BY <1>1, <2>2, <2>3 DEF Typing, StreamsTyped
<1> QED
  BY <1>3, <1>4 DEF greeting_cwrite

\* A non-empty set of numbers has a least one.
LEMMA LeastNumber ==
  ASSUME NEW T, T \subseteq Nat, T # {}
  PROVE  \E x \in T : \A y \in T : x <= y
<1>1. PICK x \in T : \A y \in T : ~(<<y, x>> \in OpToRel(<, Nat))
  BY WFMin, NatLessThanWellFounded
<1>2. \A y \in T : <<y, x>> \in Nat \X Nat
  OBVIOUS
<1>3. \A y \in T : ~(y < x)
  BY <1>1, <1>2 DEF OpToRel
<1> QED
  BY <1>3

\* Where command_builder stops.
LEMMA BuilderStops ==
  ASSUME NEW seg \in Seq(CmdToken), Len(seg) >= 1
  PROVE  /\ ReadUpTo(seg) \in 1..Len(seg)
         /\ Stops(seg) = {} => ReadUpTo(seg) = Len(seg)
         /\ Stops(seg) # {} => ReadUpTo(seg) \in Stops(seg)
<1>1. Len(seg) \in Nat /\ Stops(seg) \subseteq 1..Len(seg)
  BY DEF Stops
<1>2. CASE Stops(seg) = {}
  BY <1>1, <1>2 DEF ReadUpTo
<1>3. CASE Stops(seg) # {}
  <2>1. Stops(seg) \subseteq Nat
    BY <1>1
  <2>2. \E i \in Stops(seg) : \A j \in Stops(seg) : i <= j
    BY <1>3, <2>1, LeastNumber
  <2>3. ReadUpTo(seg) \in Stops(seg)
    BY <1>3, <2>2 DEF ReadUpTo
  <2> QED
    BY <1>1, <1>3, <2>3
<1> QED
  BY <1>2, <1>3

\* What one recv in COMMAND_CREAD gives the builder.
Segment(n) == Take(cin, n)
Parsed(n)  == Take(Segment(n), ReadUpTo(Segment(n)))

LEMMA SegmentParsed ==
  ASSUME Typing, NEW n \in Lengths(cin, BufSize - Len(rbuf), TRUE)
  PROVE  /\ n \in 1..Len(cin) /\ n <= BufSize - Len(rbuf)
         /\ Segment(n) \in Seq(CmdToken) /\ Len(Segment(n)) = n /\ \A i \in 1..n : Segment(n)[i] = cin[i]
         /\ ReadUpTo(Segment(n)) \in 1..n
         /\ Parsed(n) \in Seq(CmdToken) /\ Len(Parsed(n)) = ReadUpTo(Segment(n))
         /\ \A i \in 1..Len(Parsed(n)) : Parsed(n)[i] = cin[i]
         /\ rbuf \o Parsed(n) \in Seq(CmdToken) /\ Len(rbuf \o Parsed(n)) <= BufSize
         /\ Drop(cin, n) \in Seq(CmdToken) /\ Take(cin, n) \o Drop(cin, n) = cin
         /\ Len(Drop(cin, n)) = Len(cin) - n
         /\ \A i \in 1..(Len(cin) - n) : Drop(cin, n)[i] = cin[n + i]
<1>1. /\ cin \in Seq(CmdToken) /\ rbuf \in Seq(CmdToken) /\ Len(rbuf) <= BufSize
      /\ BufSize \in Nat /\ Len(rbuf) \in Nat /\ Len(cin) \in Nat
  BY BoundsAssumption DEF Typing, StreamsTyped, BuffersTyped
<1>2. BufSize - Len(rbuf) \in Nat
  BY <1>1
<1>3. n \in 1..Len(cin) /\ n <= BufSize - Len(rbuf)
  BY <1>1, <1>2, LengthsBound
<1>4. n \in 0..Len(cin) /\ n \in Nat
  BY <1>3
<1>5. /\ Segment(n) \in Seq(CmdToken) /\ Len(Segment(n)) = n /\ \A i \in 1..n : Segment(n)[i] = cin[i]
      /\ Drop(cin, n) \in Seq(CmdToken) /\ Take(cin, n) \o Drop(cin, n) = cin
      /\ Len(Drop(cin, n)) = Len(cin) - n
      /\ \A i \in 1..(Len(cin) - n) : Drop(cin, n)[i] = cin[n + i]
  BY <1>1, <1>4, Cut DEF Segment
<1>6. ReadUpTo(Segment(n)) \in 1..n
  BY <1>3, <1>5, BuilderStops
<1>7. ReadUpTo(Segment(n)) \in 0..Len(Segment(n))
  BY <1>5, <1>6
<1>8. /\ Parsed(n) \in Seq(CmdToken) /\ Len(Parsed(n)) = ReadUpTo(Segment(n))
      /\ \A i \in 1..ReadUpTo(Segment(n)) : Parsed(n)[i] = Segment(n)[i]
  BY <1>5, <1>7, Cut DEF Parsed
<1>9. \A i \in 1..Len(Parsed(n)) : Parsed(n)[i] = cin[i]
  BY <1>4, <1>5, <1>6, <1>8
<1>10. rbuf \o Parsed(n) \in Seq(CmdToken) /\ Len(rbuf \o Parsed(n)) = Len(rbuf) + Len(Parsed(n))
  BY <1>1, <1>8, ConcatProperties
<1>11. Len(rbuf \o Parsed(n)) <= BufSize
  BY <1>1, <1>3, <1>6, <1>8, <1>10
<1> QED
  BY <1>3, <1>5, <1>6, <1>8, <1>9, <1>10, <1>11

\* COMMAND_CREAD.
LEMMA CommandReadTyped ==
  ASSUME Typing, command_cread
  PROVE  BuffersTyped' /\ StreamsTyped'
<1>1. transform' = transform /\ UNCHANGED <<ceof, oin, oout, served, issued, sent, got, fwd>>
  BY DEF command_cread
<1>2. CASE finished_suscription /\ UNCHANGED cin
  BY <1>1, <1>2, MoveTyped DEF Typing, StreamsTyped
<1>3. ASSUME NEW n \in Lengths(cin, BufSize - Len(rbuf), TRUE), cin' = Drop(cin, n),
             LET seg  == Take(cin, n)
                 part == Take(seg, ReadUpTo(seg))
             IN  \/ \E next : jump(next, Built(part), accumulate(part), wbuf, tbuf)
                 \/ finished_suscription
      PROVE  BuffersTyped' /\ StreamsTyped'
  <2> DEFINE seg  == Take(cin, n)
             part == Take(seg, ReadUpTo(seg))
  <2>1. /\ n \in 1..Len(cin) /\ Len(cin) \in Nat
        /\ part \in Seq(CmdToken) /\ Len(part) >= 1 /\ \A i \in 1..Len(part) : part[i] = cin[i]
        /\ rbuf \o part \in Seq(CmdToken) /\ Len(rbuf \o part) <= BufSize
        /\ Drop(cin, n) \in Seq(CmdToken) /\ Len(Drop(cin, n)) = Len(cin) - n
        /\ \A i \in 1..(Len(cin) - n) : Drop(cin, n)[i] = cin[n + i]
    <3>1. Len(cin) \in Nat
      BY DEF Typing, StreamsTyped
    <3>2. Parsed(n) = part
      BY DEF Parsed, Segment
    <3>3. /\ n \in 1..Len(cin) /\ ReadUpTo(Segment(n)) \in 1..n /\ Len(Parsed(n)) = ReadUpTo(Segment(n))
          /\ Parsed(n) \in Seq(CmdToken) /\ \A i \in 1..Len(Parsed(n)) : Parsed(n)[i] = cin[i]
          /\ rbuf \o Parsed(n) \in Seq(CmdToken) /\ Len(rbuf \o Parsed(n)) <= BufSize
          /\ Drop(cin, n) \in Seq(CmdToken) /\ Len(Drop(cin, n)) = Len(cin) - n
          /\ \A i \in 1..(Len(cin) - n) : Drop(cin, n)[i] = cin[n + i]
      BY SegmentParsed
    <3> HIDE DEF seg, part
    <3> QED
      BY <3>1, <3>2, <3>3
  <2> HIDE DEF part
  <2>2. Built(part) \in KnownCommand
    <3>1. part[1] = cin[1] /\ cin[1].n \in 1..Len(issued)
      BY <2>1 DEF Typing, StreamsTyped
    <3>2. issued[part[1].n] \in Commands
      BY <3>1 DEF Typing, StreamsTyped
    <3>3. issued[part[1].n].kw \in {c.kw : c \in Commands}
      BY <3>2
    <3>4. cmd.kw \in {c.kw : c \in Commands} \cup {""} /\ cmd.args \in BOOLEAN
      BY DEF Typing, BuffersTyped, KnownCommand
    <3>5. (cmd.args \/ \E i \in 1..Len(part) : part[i].k = "arg") \in BOOLEAN
      OBVIOUS
    <3> QED
      BY <3>3, <3>4, <3>5 DEF Built, KnownCommand
  <2>3. BuffersTyped'
    <3>1. CASE finished_suscription
      BY <1>1, <3>1, MoveTyped DEF Typing
    <3>2. ASSUME NEW next, jump(next, Built(part), accumulate(part), wbuf, tbuf) PROVE BuffersTyped'
      BY <1>1, <2>1, <2>2, <3>2, JumpTyped DEF accumulate, Typing, BuffersTyped
    <3> QED
      BY <1>3, <3>1, <3>2 DEF part
  <2>4. \A i \in 1..Len(cin') : cin'[i].n \in 1..Len(issued)
    <3> SUFFICES ASSUME NEW i \in 1..Len(cin') PROVE cin'[i].n \in 1..Len(issued)
      OBVIOUS
    <3>1. i \in 1..(Len(cin) - n) /\ cin'[i] = cin[n + i]
      BY <1>3, <2>1
    <3>2. n + i \in 1..Len(cin)
      BY <2>1, <3>1
    <3> QED
      BY <3>1, <3>2 DEF Typing, StreamsTyped
  <2> QED
    BY <1>1, <1>3, <2>1, <2>3, <2>4 DEF Typing, StreamsTyped
<1> QED
  BY <1>2, <1>3 DEF command_cread

\* COMMAND_SWRITE.
LEMMA CommandWriteTyped ==
  ASSUME Typing, command_swrite
  PROVE  BuffersTyped' /\ StreamsTyped'
<1>1. transform' = transform /\ UNCHANGED <<cin, ceof, oin, served, issued, sent, got>>
  BY DEF command_swrite
<1>2. /\ rbuf \in Seq(CmdToken) /\ Len(rbuf) <= BufSize /\ Len(rbuf) \in Nat /\ BufSize \in Nat
      /\ oout \in Seq(CmdToken) /\ fwd \in Seq(CmdToken)
  BY BoundsAssumption DEF Typing, BuffersTyped, StreamsTyped
<1>3. CASE finished_suscription /\ UNCHANGED <<oout, fwd>>
  BY <1>1, <1>3, MoveTyped DEF Typing, StreamsTyped
<1>4. ASSUME NEW left \in Leftovers(rbuf),
             oout' = oout \o Take(rbuf, Len(rbuf) - Len(left)),
             fwd' = fwd \o Take(rbuf, Len(rbuf) - Len(left)),
             jump(after_send(left, "RESPONSE_SREAD"), cmd, left, wbuf, tbuf)
      PROVE  BuffersTyped' /\ StreamsTyped'
  <2>1. /\ left \in Seq(CmdToken) /\ Len(left) <= Len(rbuf)
        /\ Take(rbuf, Len(rbuf) - Len(left)) \in Seq(CmdToken)
    BY <1>2, LeftoversCut
  <2>2. Len(left) <= BufSize
    BY <1>2, <2>1
  <2>3. BuffersTyped'
    BY <1>1, <1>4, <2>1, <2>2, JumpTyped DEF Typing, BuffersTyped
  <2>4. oout' \in Seq(CmdToken) /\ fwd' \in Seq(CmdToken)
    BY <1>2, <1>4, <2>1, ConcatProperties
  <2> QED
    BY <1>1, <2>3, <2>4 DEF Typing, StreamsTyped
<1> QED
  BY <1>3, <1>4 DEF command_swrite

\* RESPONSE_SREAD and DOT_DATA_SREAD: a segment of the origin's, or its filtered form.
LEMMA ReplyReadTyped ==
  ASSUME Typing, response_sread \/ dot_data_sread
  PROVE  BuffersTyped' /\ StreamsTyped'
<1>1. UNCHANGED <<cin, ceof, oout, served, issued, sent, got, fwd>>
  BY DEF response_sread, dot_data_sread
<1>2. transform' \in BOOLEAN
  <2>1. transform' = transform \/ transform' = TRUE \/ transform' = to_filter(cmd)
    BY DEF response_sread, dot_data_sread
  <2>2. transform \in BOOLEAN
    BY DEF Typing, BuffersTyped
  <2>3. to_filter(cmd) \in BOOLEAN
    BY DEF to_filter
  <2> QED
    BY <2>1, <2>2, <2>3, Zenon
<1>3. CASE finished_suscription /\ UNCHANGED <<oin, transform>>
  BY <1>1, <1>3, MoveTyped DEF Typing, StreamsTyped
<1>4. ASSUME NEW n \in Lengths(oin, BufSize, "segments" \in Faults), oin' = Drop(oin, n),
             \/ finished_suscription /\ UNCHANGED transform
             \/ block(Take(oin, n))
             \/ \E next : jump(next, cmd, rbuf, Take(oin, n), tbuf)
             \/ \E next : \E out \in transformation(Take(oin, n)) : jump(next, cmd, rbuf, Take(oin, n), out)
      PROVE  BuffersTyped' /\ StreamsTyped'
  <2>1. ("segments" \in Faults) \in BOOLEAN
    OBVIOUS
  <2>2. Take(oin, n) \in Seq(ReplyToken) /\ Drop(oin, n) \in Seq(ReplyToken)
    BY <2>1, ReceivedTyped
  <2>3. CASE finished_suscription /\ UNCHANGED transform
    BY <2>3, <1>1, <1>4, <2>2, MoveTyped DEF Typing, StreamsTyped
  <2>4. CASE block(Take(oin, n))
    BY <1>1, <1>2, <1>4, <2>2, <2>4 DEF block, Typing, BuffersTyped, StreamsTyped
  <2>5. ASSUME NEW next, NEW out \in Seq(ReplyToken), jump(next, cmd, rbuf, Take(oin, n), out)
        PROVE  BuffersTyped' /\ StreamsTyped'
    <3>1. BuffersTyped'
      BY <1>2, <2>2, <2>5, JumpTyped DEF Typing, BuffersTyped
    <3> QED
      BY <1>1, <1>4, <2>2, <3>1 DEF Typing, StreamsTyped
  <2>6. tbuf \in Seq(ReplyToken) /\ \A out \in transformation(Take(oin, n)) : out \in Seq(ReplyToken)
    BY <2>2, TransformationTokens DEF Typing, BuffersTyped
  <2> QED
    BY <1>4, <2>3, <2>4, <2>5, <2>6
<1>5. \/ finished_suscription /\ UNCHANGED <<oin, transform>>
      \/ \E n \in Lengths(oin, BufSize, "segments" \in Faults) :
           /\ oin' = Drop(oin, n)
           /\ \/ finished_suscription /\ UNCHANGED transform
              \/ block(Take(oin, n))
              \/ \E next : jump(next, cmd, rbuf, Take(oin, n), tbuf)
              \/ \E next : \E out \in transformation(Take(oin, n)) : jump(next, cmd, rbuf, Take(oin, n), out)
  BY DEF response_sread, dot_data_sread
<1> QED
  BY <1>3, <1>4, <1>5

\* DOT_DATA_CWRITE and RESPONSE_CWRITE.
LEMMA ReplyWriteTyped ==
  ASSUME Typing, dot_data_cwrite \/ response_cwrite
  PROVE  BuffersTyped' /\ StreamsTyped'
<1> DEFINE q == IF transform THEN tbuf ELSE wbuf
<1>1. transform' = transform /\ UNCHANGED <<cin, ceof, oin, oout, served, issued, sent, fwd>>
  BY DEF dot_data_cwrite, response_cwrite, write_reply
<1>2. q \in Seq(ReplyToken) /\ got \in Seq(ReplyToken)
  BY DEF Typing, BuffersTyped, StreamsTyped
<1>3. CASE finished_suscription /\ UNCHANGED got
  BY <1>1, <1>3, MoveTyped DEF Typing, StreamsTyped
<1>4. ASSUME NEW left \in Leftovers(q), NEW next, SendToClient(q, left),
             jump(next, cmd, rbuf, IF transform THEN wbuf ELSE left, IF transform THEN left ELSE tbuf)
      PROVE  BuffersTyped' /\ StreamsTyped'
  <2> HIDE DEF q
  <2>1. left \in Seq(ReplyToken) /\ Take(q, Len(q) - Len(left)) \in Seq(ReplyToken)
    BY <1>2, LeftoversCut
  <2>2. BuffersTyped'
    BY <1>1, <1>4, <2>1, JumpTyped DEF Typing, BuffersTyped
  <2>3. got' \in Seq(ReplyToken)
    BY <1>2, <1>4, <2>1, ConcatProperties DEF SendToClient
  <2> QED
    BY <1>1, <2>2, <2>3 DEF Typing, StreamsTyped
<1> QED
  BY <1>3, <1>4 DEF dot_data_cwrite, response_cwrite, write_reply

\* The client sends a command, or closes.
LEMMA ClientTyped ==
  ASSUME Typing, ClientSend \/ ClientClose
  PROVE  BuffersTyped' /\ StreamsTyped'
<1>1. BuffersTyped' /\ UNCHANGED <<oin, oout, served, sent, got, fwd>>
  BY DEF ClientSend, ClientClose, proxyAndOrigin, sessionVars, Typing, BuffersTyped
<1>2. CASE ClientClose
  BY <1>1, <1>2 DEF ClientClose, Typing, StreamsTyped
<1>3. CASE ClientSend
  <2>1. PICK c \in Commands : issued' = Append(issued, c) /\ cin' = cin \o Text(c, Len(issued) + 1)
    BY <1>3 DEF ClientSend
  <2>2. /\ cin \in Seq(CmdToken) /\ issued \in Seq(Commands) /\ Len(issued) \in Nat
        /\ Len(issued) + 1 \in Nat /\ Len(cin) \in Nat
        /\ \A i \in 1..Len(cin) : cin[i].n \in 1..Len(issued)
    BY DEF Typing, StreamsTyped
  <2> DEFINE text == Text(c, Len(issued) + 1)
  <2>3. text \in Seq(CmdToken) /\ Len(text) \in Nat /\ \A i \in 1..Len(text) : text[i].n = Len(issued) + 1
    BY <2>2, TextTokens, CommandsAssumption
  <2>4. issued' \in Seq(Commands) /\ Len(issued') = Len(issued) + 1
    BY <2>1, <2>2
  <2> HIDE DEF text
  <2>5. /\ cin \o text \in Seq(CmdToken) /\ Len(cin \o text) = Len(cin) + Len(text)
        /\ \A i \in 1..(Len(cin) + Len(text)) :
             (cin \o text)[i] = IF i <= Len(cin) THEN cin[i] ELSE text[i - Len(cin)]
    BY <2>2, <2>3, ConcatProperties
  <2>6. \A i \in 1..Len(cin \o text) : (cin \o text)[i].n \in 1..Len(issued')
    <3> SUFFICES ASSUME NEW i \in 1..Len(cin \o text) PROVE (cin \o text)[i].n \in 1..Len(issued')
      OBVIOUS
    <3>1. CASE i <= Len(cin)
      <4>1. i \in 1..Len(cin) /\ (cin \o text)[i] = cin[i]
        BY <2>2, <2>5, <3>1
      <4>2. cin[i].n \in 1..Len(issued)
        BY <2>2, <4>1
      <4> QED
        BY <2>2, <2>4, <4>1, <4>2
    <3>2. CASE ~(i <= Len(cin))
      <4>1. i - Len(cin) \in 1..Len(text) /\ (cin \o text)[i] = text[i - Len(cin)]
        BY <2>2, <2>3, <2>5, <3>2
      <4>2. text[i - Len(cin)].n = Len(issued) + 1
        BY <2>3, <4>1
      <4> QED
        BY <2>2, <2>4, <4>1, <4>2
    <3> QED
      BY <3>1, <3>2
  <2>7. cin' = cin \o text /\ ceof' = ceof
    BY <1>3, <2>1 DEF ClientSend, text
  <2> QED
    BY <1>1, <2>4, <2>5, <2>6, <2>7 DEF Typing, StreamsTyped
<1> QED
  BY <1>2, <1>3

\* The origin greets, or answers a request.
LEMMA OriginTyped ==
  ASSUME Typing, OriginGreet \/ OriginServe
  PROVE  BuffersTyped' /\ StreamsTyped'
<1>1. ASSUME NEW kinds \in Seq(ReplyKinds), NEW n \in Nat, OriginSays(kinds, n),
             oout' \in Seq(CmdToken), served' \in Nat
      PROVE  BuffersTyped' /\ StreamsTyped'
  <2>1. ReplyOf(kinds, n) \in Seq(ReplyToken)
    BY ReplyTokens
  <2>2. oin' \in Seq(ReplyToken) /\ sent' \in Seq(ReplyToken)
    BY <1>1, <2>1, ConcatProperties DEF OriginSays, Typing, StreamsTyped
  <2> QED
    BY <1>1, <2>2 DEF OriginSays, sessionVars, Typing, BuffersTyped, StreamsTyped
<1>2. oout \in Seq(CmdToken) /\ served \in Nat
  BY DEF Typing, StreamsTyped
<1>3. CASE OriginGreet
  BY <1>1, <1>2, <1>3, GreetingKinds DEF OriginGreet
<1>4. CASE OriginServe
  <2>1. PICK e \in 1..Len(oout) : /\ \E kinds \in OriginReplies(Take(oout, e)) : OriginSays(kinds, served + 1)
                                  /\ oout' = Drop(oout, e)
    BY <1>4 DEF OriginServe
  <2>2. e \in 0..Len(oout)
    BY <1>2
  <2>3. oout' \in Seq(CmdToken) /\ served' \in Nat /\ served + 1 \in Nat
    BY <1>2, <1>4, <2>1, <2>2, Cut DEF OriginServe
  <2> QED
    BY <1>1, <2>1, <2>3, OriginRepliesKinds
<1> QED
  BY <1>3, <1>4

LEMMA InitTyping == Init => Typing
<1> SUFFICES ASSUME Init PROVE Typing
  OBVIOUS
<1>1. NoCommand \in KnownCommand
  BY DEF NoCommand, KnownCommand
<1>2. Polls("WRITE", "NONE") \in [Peers -> {"NONE", "NOOP", "READ", "WRITE"}]
  BY DEF Polls
<1>3. ControlTyped
  BY <1>2 DEF Init, ControlTyped, States
<1>4. <<>> \in Seq(CmdToken) /\ <<>> \in Seq(ReplyToken) /\ <<>> \in Seq(Commands) /\ Len(<<>>) = 0
  OBVIOUS
<1>5. BuffersTyped
  <2>1. Len(rbuf) <= BufSize
    BY <1>4, BoundsAssumption DEF Init
  <2>2. transform \in BOOLEAN
    BY DEF Init
  <2> QED
    BY <1>1, <1>4, <2>1, <2>2 DEF Init, BuffersTyped
<1>6. StreamsTyped
  <2>1. \A i \in 1..Len(cin) : cin[i].n \in 1..Len(issued)
    BY <1>4 DEF Init
  <2>2. ceof \in BOOLEAN /\ served \in Nat
    BY DEF Init
  <2> QED
    BY <1>4, <2>1, <2>2 DEF Init, StreamsTyped
<1> QED
  BY <1>3, <1>5, <1>6 DEF Typing

LEMMA StepTyping ==
  ASSUME IInv, IInv', Typing, [Next]_vars PROVE Typing'
<1>1. ControlTyped'
  BY ControlKept DEF Typing
<1>2. BuffersTyped' /\ StreamsTyped'
  <2>1. CASE UNCHANGED vars
    BY <2>1 DEF vars, sessionVars, wires, Typing, BuffersTyped, StreamsTyped
  <2>2. CASE Next
    BY <2>2, ConnectingTyped, GreetingReadTyped, GreetingWriteTyped, CommandReadTyped, CommandWriteTyped,
       ReplyReadTyped, ReplyWriteTyped, ClientTyped, OriginTyped DEF Next, Selector
  <2> QED
    BY <2>1, <2>2
<1> QED
  BY <1>1, <1>2 DEF Typing

LEMMA TypingHolds == Spec => [](IInv /\ Typing)
<1>1. (IInv /\ Typing) /\ [Next]_vars => (IInv /\ Typing)'
  BY StepKeeps, StepTyping
<1> QED
  BY <1>1, InitIInv, InitTyping, PTL DEF Spec

\* The fields of struct pop3 and the streams of its peers keep their types; in
\* particular read_buffer never holds more than it has room for, and the
\* references stay between 0 and 2.
THEOREM SessionTyped == Spec => []TypeOK
<1>1. KnownCommand \subseteq [kw : Keywords \cup {""}, args : BOOLEAN]
  BY CommandsAssumption DEF KnownCommand
<1>2. Typing => TypeOK
  BY <1>1 DEF Typing, ControlTyped, BuffersTyped, StreamsTyped, TypeOK
<1> QED
  BY <1>2, TypingHolds, PTL

------------------------------------------------------------------------------
(* Replies are conserved, when no command's reply is filtered.               *)

NoMail == \A c \in Commands : c.kw \notin {"RETR", "TOP"}

LEMMA NotFiltered == NoMail /\ Typing => ~to_filter(cmd)
  BY DEF NoMail, Typing, BuffersTyped, KnownCommand, to_filter

\* finished_suscription leaves no live session.
LEMMA FinishedIsDead == finished_suscription => fate' # "live"
  BY DEF finished_suscription

\* Pieces of a stream may be put together in any order.
LEMMA AnyPieces ==
  ASSUME NEW S, NEW a \in Seq(S), NEW b \in Seq(S), NEW c \in Seq(S)
  PROVE  (a \o b) \o c = a \o (b \o c)
  BY ConcatAssociative

LEMMA ReplyPieces == \A a, b, c \in Seq(ReplyToken) : (a \o b) \o c = a \o (b \o c)
  BY AnyPieces

LEMMA CommandPieces == \A a, b, c \in Seq(CmdToken) : (a \o b) \o c = a \o (b \o c)
  BY AnyPieces

\* What is appended to a stream is behind what is dropped from its front.
LEMMA DropConcat ==
  ASSUME NEW S, NEW s \in Seq(S), NEW r \in Seq(S), NEW n \in 0..Len(s)
  PROVE  Drop(s \o r, n) = Drop(s, n) \o r
<1>1. /\ s \o r \in Seq(S) /\ Len(s \o r) = Len(s) + Len(r) /\ Len(s) \in Nat /\ Len(r) \in Nat
      /\ \A i \in 1..(Len(s) + Len(r)) : (s \o r)[i] = IF i <= Len(s) THEN s[i] ELSE r[i - Len(s)]
  BY ConcatProperties
<1>2. n \in 0..Len(s \o r)
  BY <1>1
<1>3. /\ Drop(s \o r, n) \in Seq(S) /\ Len(Drop(s \o r, n)) = Len(s) + Len(r) - n
      /\ \A i \in 1..(Len(s) + Len(r) - n) : Drop(s \o r, n)[i] = (s \o r)[n + i]
  <2> DEFINE c == s \o r
  <2>1. c \in Seq(S) /\ n \in 0..Len(c) /\ Len(c) = Len(s) + Len(r)
    BY <1>1, <1>2
  <2> HIDE DEF c
  <2>2. /\ Drop(c, n) \in Seq(S) /\ Len(Drop(c, n)) = Len(c) - n
        /\ \A i \in 1..(Len(c) - n) : Drop(c, n)[i] = c[n + i]
    BY <2>1, Cut
  <2> QED
    BY <2>1, <2>2 DEF c
<1>4. /\ Drop(s, n) \in Seq(S) /\ Len(Drop(s, n)) = Len(s) - n
      /\ \A i \in 1..(Len(s) - n) : Drop(s, n)[i] = s[n + i]
  BY Cut
<1>5. /\ Drop(s, n) \o r \in Seq(S) /\ Len(Drop(s, n) \o r) = Len(s) - n + Len(r)
      /\ \A i \in 1..(Len(s) - n + Len(r)) :
           (Drop(s, n) \o r)[i] = IF i <= Len(s) - n THEN Drop(s, n)[i] ELSE r[i - (Len(s) - n)]
  <2> DEFINE d == Drop(s, n)
  <2>1. d \in Seq(S) /\ Len(d) = Len(s) - n
    BY <1>4
  <2> HIDE DEF d
  <2>2. /\ d \o r \in Seq(S) /\ Len(d \o r) = Len(d) + Len(r)
        /\ \A i \in 1..(Len(d) + Len(r)) : (d \o r)[i] = IF i <= Len(d) THEN d[i] ELSE r[i - Len(d)]
    BY <2>1, ConcatProperties
  <2> QED
    BY <2>1, <2>2 DEF d
<1>6. ASSUME NEW i \in 1..(Len(s) + Len(r) - n) PROVE Drop(s \o r, n)[i] = (Drop(s, n) \o r)[i]
  <2>1. n + i \in 1..(Len(s) + Len(r)) /\ i \in 1..(Len(s) - n + Len(r))
    BY <1>1
  <2>2. CASE i <= Len(s) - n
    <3>1. n + i <= Len(s) /\ i \in 1..(Len(s) - n)
      BY <1>1, <2>2
    <3> QED
      BY <1>1, <1>3, <1>4, <1>5, <2>1, <2>2, <3>1
  <2>3. CASE ~(i <= Len(s) - n)
    <3>1. ~(n + i <= Len(s)) /\ (n + i) - Len(s) = i - (Len(s) - n)
      BY <1>1, <2>3
    <3> QED
      BY <1>1, <1>3, <1>5, <2>1, <2>3, <3>1
  <2> QED
    BY <2>2, <2>3
<1>7. Len(s) + Len(r) - n = Len(s) - n + Len(r)
  BY <1>1
<1> QED
  BY <1>3, <1>5, <1>6, <1>7, SeqEqual

\* Connecting: nothing is received or sent, and greeting_init loads the greeting.
LEMMA ConnectingReplies ==
  ASSUME RepliesKept, fate = "live",
         process_connection \/ resolv_connection \/ \E fd \in Peers : establ_connection(fd)
  PROVE  RepliesKept'
<1>1. UNCHANGED wires /\ transform' = transform
  BY DEF process_connection, resolv_connection, establ_connection
<1>2. st \in {"PROCESS_CONNECTION", "RESOLV_CONNECTION", "ESTABL_CONNECTION"}
  BY DEF process_connection, resolv_connection, establ_connection
<1>3. CASE fate' = "aborted"
  BY <1>3 DEF RepliesKept
<1>4. CASE \E next \in {"RESOLV_CONNECTION", "ESTABL_CONNECTION", "GREETING_SREAD"} :
             jump(next, cmd, rbuf, wbuf, tbuf)
  <2>1. /\ st' \in Ungreeted /\ st' \notin Relaying /\ st' # "GREETING_CWRITE"
        /\ st' = "GREETING_SREAD" => wbuf' = GREETING_OK
    BY <1>2, <1>4 DEF jump, Ungreeted, Relaying
  <2>2. st \in Ungreeted
    BY <1>2 DEF Ungreeted
  <2> QED
    BY <1>1, <2>1, <2>2 DEF RepliesKept, Greeted, wires
<1> QED
  BY <1>3, <1>4 DEF process_connection, resolv_connection, establ_connection, attempt_connection, abort

\* GREETING_SREAD: a complete greeting is all the origin can have sent.
LEMMA GreetingReadReplies ==
  ASSUME IInv, Typing, RepliesKept, fate = "live", NEW fd \in Peers, greeting_sread(fd)
  PROVE  RepliesKept'
<1>1. /\ st = "GREETING_SREAD" /\ interest[fd] = "READ"
      /\ UNCHANGED <<transform, oout, sent, got>>
  BY DEF greeting_sread, ReadEvent
<1>2. /\ ~transform /\ oin = sent /\ oout = <<>> /\ (sent = <<>> \/ Len(sent) = 2)
      /\ wbuf = GREETING_OK
  BY <1>1 DEF RepliesKept, Ungreeted
<1>3. got = <<>> /\ interest["client"] # "WRITE"
  BY <1>1, PollsParts DEF IInv, Unconnected, Connected, Relaying
<1>4. CASE finished_suscription
  BY <1>4, FinishedIsDead DEF RepliesKept
<1>5. ASSUME oin' = oin, jump("GREETING_CWRITE", cmd, rbuf, wbuf, tbuf), continue(interest)
      PROVE  RepliesKept'
  <2>1. st' = "GREETING_CWRITE" /\ interest' = interest
    BY <1>5 DEF jump, continue
  <2> QED
    BY <1>1, <1>2, <1>3, <2>1 DEF RepliesKept, Ungreeted, Greeted, Relaying
<1>6. ASSUME oin' = oin, jump(st, cmd, rbuf, wbuf, tbuf)
      PROVE  RepliesKept'
  <2>1. st' = "GREETING_SREAD" /\ wbuf' = wbuf
    BY <1>1, <1>6 DEF jump
  <2> QED
    BY <1>1, <1>2, <1>6, <2>1 DEF RepliesKept, Ungreeted, Greeted, Relaying
<1>7. ASSUME NEW n \in Lengths(oin, BufSize, "segments" \in Faults), oin' = Drop(oin, n),
             singleline_builder(Take(oin, n)) = "BUILD_FINISHED",
             jump("GREETING_CWRITE", cmd, rbuf, wbuf, tbuf), continue(to_client)
      PROVE  RepliesKept'
  <2>1. ("segments" \in Faults) \in BOOLEAN
    OBVIOUS
  <2>2. n \in 1..Len(oin) /\ Len(Take(oin, n)) = n
    BY <2>1, ReceivedTyped
  <2>3. n >= 2
    <3>1. \E i \in 2..Len(Take(oin, n)) : Take(oin, n)[i].k \in {"eol", "line", "dot"}
      BY <1>7 DEF singleline_builder
    <3> QED
      BY <2>2, <3>1
  <2>4. oin \in Seq(ReplyToken) /\ got \in Seq(ReplyToken) /\ GREETING_OK \in Seq(ReplyToken)
    BY GreetingTokens DEF Typing, StreamsTyped
  <2>5. n = 2 /\ Len(sent) = 2
    <3>1. sent # <<>>
      BY <1>2, <2>2
    <3>2. Len(sent) = 2 /\ Len(oin) = 2
      BY <1>2, <3>1
    <3> QED
      BY <2>2, <2>3, <3>2
  <2>6. Drop(sent, 2) = <<>> /\ oin' = <<>>
    <3>1. Drop(oin, 2) \in Seq(ReplyToken) /\ Len(Drop(oin, 2)) = Len(oin) - 2
      <4>1. Len(oin) = 2 /\ 2 \in 0..2
        BY <1>2, <2>5
      <4>2. 2 \in 0..Len(oin)
        BY <4>1
      <4> QED
        BY <2>4, <4>2, Cut
    <3>2. Drop(oin, 2) = <<>>
      BY <1>2, <2>5, <3>1, EmptySeq
    <3> QED
      BY <1>2, <1>7, <2>5, <3>2
  <2>7. st' = "GREETING_CWRITE" /\ wbuf' = GREETING_OK
    BY <1>1, <1>2, <1>7 DEF jump
  <2>8. Held' = GREETING_OK
    BY <2>7 DEF Held, HeldStates
  <2>9. <<>> \o GREETING_OK \o <<>> = GREETING_OK \o <<>>
    BY <2>4, ConcatEmptySeq
  <2>10. got' \o Held' \o oin' = GREETING_OK \o Drop(sent', 2)
    BY <1>1, <1>3, <2>6, <2>8, <2>9
  <2> QED
    BY <1>1, <1>2, <2>5, <2>7, <2>10 DEF RepliesKept, Ungreeted
<1> QED
  BY <1>4, <1>5, <1>6, <1>7 DEF greeting_sread

\* The conserved streams have their types.
LEMMA RelayedTyped ==
  Typing => /\ got \in Seq(ReplyToken) /\ oin \in Seq(ReplyToken) /\ sent \in Seq(ReplyToken)
            /\ wbuf \in Seq(ReplyToken) /\ Held \in Seq(ReplyToken)
  BY DEF Typing, BuffersTyped, StreamsTyped, Held

\* A send of a part of write_buffer moves it from what is held to what was received.
LEMMA SentPart ==
  ASSUME Typing, NEW left \in Leftovers(wbuf), SendToClient(wbuf, left), oin' = oin
  PROVE  got' \o left \o oin' = got \o wbuf \o oin
<1> DEFINE out == Take(wbuf, Len(wbuf) - Len(left))
<1>1. got \in Seq(ReplyToken) /\ oin \in Seq(ReplyToken) /\ wbuf \in Seq(ReplyToken)
  BY RelayedTyped
<1>2. left \in Seq(ReplyToken) /\ out \in Seq(ReplyToken) /\ out \o left = wbuf
  BY <1>1, LeftoversCut
<1>3. got' = got \o out
  BY DEF SendToClient
<1> HIDE DEF out
<1>4. (got \o out) \o left = got \o (out \o left)
  BY <1>1, <1>2, ReplyPieces, Zenon
<1> QED
  BY <1>2, <1>3, <1>4

\* A write to the client: the state is left with an empty buffer, or not left.
LEMMA WriteReplies ==
  ASSUME Typing, RepliesKept, fate = "live", Greeted, st \in HeldStates,
         UNCHANGED <<transform, oin, sent>>,
         NEW left \in Leftovers(wbuf), SendToClient(wbuf, left),
         NEW next \in {"COMMAND_CREAD", "DOT_DATA_SREAD"}, NEW t,
         jump(after_send(left, next), cmd, rbuf, left, t)
  PROVE  RepliesKept'
<1>1. ~transform /\ Len(sent) >= 2 /\ got \o wbuf \o oin = GREETING_OK \o Drop(sent, 2)
  BY DEF RepliesKept, Held
<1>2. got' \o left \o oin' = GREETING_OK \o Drop(sent, 2)
  BY <1>1, SentPart
<1>3. CASE left = <<>>
  <2>1. st' = next
    BY <1>3 DEF jump, after_send
  <2>2. Held' = <<>> /\ st' \notin Ungreeted
    BY <2>1 DEF Held, HeldStates, Ungreeted
  <2> QED
    BY <1>1, <1>2, <1>3, <2>2 DEF RepliesKept, Ungreeted
<1>4. CASE left # <<>>
  <2>1. st' = st /\ wbuf' = left
    BY <1>4 DEF jump, after_send, HeldStates
  <2>2. Held' = left /\ st' \notin Ungreeted
    BY <2>1 DEF Held, HeldStates, Ungreeted
  <2> QED
    BY <1>1, <1>2, <2>2 DEF RepliesKept, Ungreeted
<1> QED
  BY <1>3, <1>4

LEMMA GreetingWriteReplies ==
  ASSUME Typing, RepliesKept, fate = "live", greeting_cwrite
  PROVE  RepliesKept'
<1>1. /\ st = "GREETING_CWRITE" /\ interest["client"] = "WRITE" /\ UNCHANGED <<transform, oin, sent>>
  BY DEF greeting_cwrite, WriteEvent
<1>2. Greeted /\ st \in HeldStates
  BY <1>1 DEF Greeted, HeldStates
<1>3. CASE finished_suscription
  BY <1>3, FinishedIsDead DEF RepliesKept
<1>4. ASSUME NEW left \in Leftovers(wbuf), SendToClient(wbuf, left),
             jump(after_send(left, "COMMAND_CREAD"), cmd, rbuf, left, tbuf)
      PROVE  RepliesKept'
  BY <1>1, <1>2, <1>4, WriteReplies
<1> QED
  BY <1>3, <1>4 DEF greeting_cwrite

\* DOT_DATA_CWRITE and RESPONSE_CWRITE.
LEMMA ReplyWriteReplies ==
  ASSUME Typing, RepliesKept, fate = "live", dot_data_cwrite \/ response_cwrite
  PROVE  RepliesKept'
<1>1. /\ st \in {"DOT_DATA_CWRITE", "RESPONSE_CWRITE"} /\ UNCHANGED <<transform, oin, sent>>
  BY DEF dot_data_cwrite, response_cwrite, write_reply
<1>2. Greeted /\ st \in HeldStates /\ ~transform
  BY <1>1 DEF Greeted, HeldStates, Relaying, RepliesKept
<1>3. CASE finished_suscription
  BY <1>3, FinishedIsDead DEF RepliesKept
<1>4. ASSUME NEW left \in Leftovers(wbuf), SendToClient(wbuf, left),
             NEW next \in {"COMMAND_CREAD", "DOT_DATA_SREAD"},
             jump(after_send(left, next), cmd, rbuf, left, tbuf)
      PROVE  RepliesKept'
  BY <1>1, <1>2, <1>4, WriteReplies
<1>5. \/ finished_suscription
      \/ \E left \in Leftovers(wbuf) : \E next \in {"COMMAND_CREAD", "DOT_DATA_SREAD"} :
           SendToClient(wbuf, left) /\ jump(after_send(left, next), cmd, rbuf, left, tbuf)
  BY <1>2 DEF dot_data_cwrite, response_cwrite, write_reply
<1> QED
  BY <1>3, <1>4, <1>5

\* Commands do not touch the replies.
LEMMA CommandReplies ==
  ASSUME RepliesKept, fate = "live", command_cread \/ command_swrite
  PROVE  RepliesKept'
<1>1. st \in {"COMMAND_CREAD", "COMMAND_SWRITE"} /\ UNCHANGED <<transform, oin, sent, got>>
  BY DEF command_cread, command_swrite
<1>2. CASE finished_suscription
  BY <1>2, FinishedIsDead DEF RepliesKept
<1>3. ASSUME st' \in {"COMMAND_CREAD", "COMMAND_SWRITE", "RESPONSE_SREAD"} PROVE RepliesKept'
  <2>1. Greeted /\ Held = <<>> /\ Held' = <<>> /\ st' \notin Ungreeted
    BY <1>1, <1>3 DEF Greeted, Relaying, Held, HeldStates, Ungreeted
  <2> QED
    BY <1>1, <2>1 DEF RepliesKept, Ungreeted
<1>4. finished_suscription \/ st' \in {"COMMAND_CREAD", "COMMAND_SWRITE", "RESPONSE_SREAD"}
  BY <1>1 DEF command_cread, command_swrite, jump, after_send
<1> QED
  BY <1>2, <1>3, <1>4

\* RESPONSE_SREAD and DOT_DATA_SREAD: a segment moves from the queue to the buffer.
LEMMA ReplyReadReplies ==
  ASSUME NoMail, Typing, RepliesKept, fate = "live", response_sread \/ dot_data_sread
  PROVE  RepliesKept'
<1>1. st \in {"RESPONSE_SREAD", "DOT_DATA_SREAD"} /\ UNCHANGED <<sent, got>>
  BY DEF response_sread, dot_data_sread
<1>2. ~transform /\ ~to_filter(cmd)
  BY NotFiltered DEF RepliesKept
<1>3. Len(sent) >= 2 /\ got \o <<>> \o oin = GREETING_OK \o Drop(sent, 2)
  BY <1>1 DEF RepliesKept, Greeted, Relaying, Held, HeldStates
<1>4. CASE finished_suscription
  BY <1>4, FinishedIsDead DEF RepliesKept
<1>5. ASSUME NEW n \in Lengths(oin, BufSize, "segments" \in Faults), oin' = Drop(oin, n), ~transform',
             NEW next \in {"RESPONSE_CWRITE", "DOT_DATA_CWRITE"}, NEW t,
             jump(next, cmd, rbuf, Take(oin, n), t)
      PROVE  RepliesKept'
  <2>1. ("segments" \in Faults) \in BOOLEAN
    OBVIOUS
  <2>2. /\ Take(oin, n) \in Seq(ReplyToken) /\ Drop(oin, n) \in Seq(ReplyToken)
        /\ Take(oin, n) \o Drop(oin, n) = oin
    BY <2>1, ReceivedTyped
  <2>3. st' = next /\ wbuf' = Take(oin, n)
    BY <1>5 DEF jump
  <2>4. Held' = Take(oin, n) /\ st' \notin Ungreeted
    BY <2>3 DEF Held, HeldStates, Ungreeted
  <2>5. got \in Seq(ReplyToken) /\ got \o <<>> = got
    BY RelayedTyped, ConcatEmptySeq
  <2>6. (got \o Take(oin, n)) \o Drop(oin, n) = got \o oin
    <3>1. (got \o Take(oin, n)) \o Drop(oin, n) = got \o (Take(oin, n) \o Drop(oin, n))
      BY <2>2, <2>5, ReplyPieces, Zenon
    <3> QED
      BY <2>2, <3>1
  <2>7. got' \o Held' \o oin' = GREETING_OK \o Drop(sent', 2)
    BY <1>1, <1>3, <1>5, <2>4, <2>5, <2>6
  <2> QED
    BY <1>1, <1>3, <1>5, <2>4, <2>7 DEF RepliesKept, Ungreeted
<1>6. \/ finished_suscription
      \/ \E n \in Lengths(oin, BufSize, "segments" \in Faults) :
           /\ oin' = Drop(oin, n) /\ ~transform'
           /\ \E next \in {"RESPONSE_CWRITE", "DOT_DATA_CWRITE"} : jump(next, cmd, rbuf, Take(oin, n), tbuf)
  BY <1>2 DEF response_sread, dot_data_sread
<1> QED
  BY <1>4, <1>5, <1>6

\* The origin greets once, while nothing was received, and answers what was forwarded.
LEMMA OriginSaysReplies ==
  ASSUME Typing, RepliesKept, fate = "live", OriginGreet \/ OriginServe
  PROVE  RepliesKept'
<1>1. UNCHANGED <<st, interest, wbuf, transform, got>>
  BY DEF OriginGreet, OriginServe, OriginSays, sessionVars
<1>2. PICK r : oin' = oin \o r /\ sent' = sent \o r /\ r \in Seq(ReplyToken)
               /\ (OriginGreet => Len(r) = 2)
  <2>1. CASE OriginGreet
    <3>1. PICK g \in {"ok", "err"} : OriginSays(<<g, "eol">>, 0)
      BY <2>1 DEF OriginGreet
    <3>2. <<g, "eol">> \in Seq(ReplyKinds) /\ Len(<<g, "eol">>) = 2
      BY GreetingKinds
    <3>3. ReplyOf(<<g, "eol">>, 0) \in Seq(ReplyToken) /\ Len(ReplyOf(<<g, "eol">>, 0)) = 2
      BY <3>2, ReplyTokens
    <3> QED
      BY <3>1, <3>3 DEF OriginSays
  <2>2. CASE ~OriginGreet
    <3>1. PICK req : \E kinds \in OriginReplies(req) : OriginSays(kinds, served + 1)
      BY <2>2 DEF OriginServe
    <3>2. PICK kinds \in OriginReplies(req) : OriginSays(kinds, served + 1)
      BY <3>1
    <3>3. kinds \in Seq(ReplyKinds) /\ served + 1 \in Nat
      BY OriginRepliesKinds DEF Typing, StreamsTyped
    <3>4. ReplyOf(kinds, served + 1) \in Seq(ReplyToken)
      BY <3>3, ReplyTokens
    <3> QED
      BY <2>2, <3>2, <3>4 DEF OriginSays
  <2> QED
    BY <2>1, <2>2
<1>3. /\ sent \in Seq(ReplyToken) /\ oin \in Seq(ReplyToken) /\ got \in Seq(ReplyToken)
      /\ Held \in Seq(ReplyToken) /\ GREETING_OK \in Seq(ReplyToken)
      /\ Len(sent) \in Nat /\ Len(r) \in Nat
  BY <1>2, RelayedTyped, GreetingTokens
<1>4. st \in Ungreeted => oin' = sent' /\ oout' = <<>> /\ Len(sent') = 2
  <2> SUFFICES ASSUME st \in Ungreeted PROVE oin' = sent' /\ oout' = <<>> /\ Len(sent') = 2
    OBVIOUS
  <2>1. oin = sent /\ oout = <<>>
    BY DEF RepliesKept
  <2>2. OriginGreet
    BY <2>1 DEF OriginServe
  <2>3. sent = <<>> /\ oout' = oout
    BY <2>2 DEF OriginGreet
  <2>4. <<>> \o r = r
    BY <1>2, ConcatEmptySeq
  <2> QED
    BY <1>2, <2>1, <2>2, <2>3, <2>4
<1>5. Greeted => Len(sent') >= 2 /\ got' \o Held' \o oin' = GREETING_OK \o Drop(sent', 2)
  <2> SUFFICES ASSUME Greeted PROVE Len(sent') >= 2 /\ got' \o Held' \o oin' = GREETING_OK \o Drop(sent', 2)
    OBVIOUS
  <2>1. Len(sent) >= 2 /\ got \o Held \o oin = GREETING_OK \o Drop(sent, 2)
    BY DEF RepliesKept
  <2>2. 2 \in 0..Len(sent) /\ Len(sent \o r) = Len(sent) + Len(r)
    BY <1>2, <1>3, <2>1, ConcatProperties
  <2>3. Drop(sent \o r, 2) = Drop(sent, 2) \o r /\ Drop(sent, 2) \in Seq(ReplyToken)
    <3>1. Drop(sent \o r, 2) = Drop(sent, 2) \o r
      BY <1>2, <1>3, <2>2, DropConcat, Zenon
    <3>2. Drop(sent, 2) \in Seq(ReplyToken)
      BY <1>3, <2>2, Cut, Zenon
    <3> QED
      BY <3>1, <3>2
  <2>4. Held' = Held
    BY <1>1 DEF Held
  <2>5. got \o Held \in Seq(ReplyToken)
    BY <1>3, ConcatProperties
  <2>6. (got \o Held) \o (oin \o r) = ((got \o Held) \o oin) \o r
    BY ONLY <1>2, <1>3, <2>5, ReplyPieces
  <2>7. GREETING_OK \o (Drop(sent, 2) \o r) = (GREETING_OK \o Drop(sent, 2)) \o r
    BY ONLY <1>2, <1>3, <2>3, ReplyPieces
  <2>8. got' \o Held' \o oin' = GREETING_OK \o Drop(sent', 2)
    BY <1>1, <1>2, <2>1, <2>3, <2>4, <2>6, <2>7
  <2> QED
    BY <1>2, <1>3, <2>1, <2>2, <2>8
<1> QED
  BY <1>1, <1>4, <1>5 DEF RepliesKept, Greeted

\* The other steps touch nothing the invariant is about, or end the session.
LEMMA QuietReplies ==
  ASSUME RepliesKept,
         \/ missing_handler \/ resolv_connection_blocking \/ ClientSend \/ ClientClose
         \/ OriginAccept \/ OriginRefuse \/ OriginClose \/ UNCHANGED vars
  PROVE  RepliesKept'
<1>1. CASE missing_handler
  BY <1>1 DEF missing_handler, abort, RepliesKept
<1>2. CASE ~missing_handler
  <2>1. UNCHANGED <<fate, st, interest, wbuf, transform, got, oin, oout, sent>>
    BY <1>2 DEF resolv_connection_blocking, ClientSend, ClientClose, OriginAccept, OriginRefuse,
       OriginClose, OriginConnection, proxyAndOrigin, sessionVars, wires, vars
  <2> QED
    BY <2>1 DEF RepliesKept, Greeted, Held
<1> QED
  BY <1>1, <1>2

LEMMA StepReplies ==
  ASSUME NoMail, IInv, Typing, RepliesKept, [Next]_vars PROVE RepliesKept'
<1>1. CASE \/ missing_handler \/ resolv_connection_blocking \/ ClientSend \/ ClientClose
           \/ OriginAccept \/ OriginRefuse \/ OriginClose \/ UNCHANGED vars
  BY <1>1, QuietReplies
<1>2. CASE fate = "live" /\ Next
  BY <1>1, <1>2, ConnectingReplies, GreetingReadReplies, GreetingWriteReplies, ReplyWriteReplies,
     CommandReplies, ReplyReadReplies, OriginSaysReplies DEF Next, Selector
<1>3. Next => fate = "live"
  BY DEF Next, Selector, process_connection, resolv_connection, establ_connection, greeting_sread,
     greeting_cwrite, command_cread, command_swrite, response_sread, dot_data_sread, dot_data_cwrite,
     response_cwrite, write_reply, missing_handler, resolv_connection_blocking, ClientSend, ClientClose,
     OriginAccept, OriginRefuse, OriginClose, OriginConnection, OriginGreet, OriginServe, OriginSays,
     ReadEvent, WriteEvent
<1> QED
  BY <1>1, <1>2, <1>3

\* Whatever the client sends, pipelined or not, and whatever fails: when none of its
\* commands is filtered, the client receives the proxy's greeting and then every
\* byte the origin sent after its own, once and in order.
THEOREM SessionRepliesConserved ==
  ASSUME \A c \in Commands : c.kw \notin {"RETR", "TOP"}
  PROVE  Spec => []RepliesConserved
<1>1. NoMail
  BY DEF NoMail
<1>2. Init => RepliesKept
  BY DEF Init, RepliesKept, Ungreeted, Greeted, Relaying
<1>3. (IInv /\ Typing) /\ RepliesKept /\ [Next]_vars => RepliesKept'
  BY <1>1, StepReplies
<1>4. RepliesKept => RepliesConserved
  BY DEF RepliesKept, RepliesConserved, Greeted, Held, HeldStates, Relaying
<1> QED
  BY <1>2, <1>3, <1>4, TypingHolds, PTL DEF Spec

------------------------------------------------------------------------------
(* The text of all the commands, as a function defined by recursion.         *)

\* The texts of the first n commands of `iss', for n up to k.
IsTexts(f, iss, k) ==
  f = [n \in 0..k |-> IF n = 0 THEN <<>> ELSE f[n - 1] \o Text(iss[n], n)]

TextsOf(iss) == CHOOSE f : IsTexts(f, iss, Len(iss))

LEMMA AllTextIs ==
  AllText = TextsOf(issued)[Len(issued)] /\ AllText' = TextsOf(issued')[Len(issued')]
  BY DEF AllText, TextsOf, IsTexts

\* The function exists.
LEMMA TextsExist ==
  ASSUME NEW iss \in Seq(Commands) PROVE IsTexts(TextsOf(iss), iss, Len(iss))
<1> DEFINE Without == {k \in 0..Len(iss) : ~\E f : IsTexts(f, iss, k)}
<1>1. Len(iss) \in Nat /\ Without \subseteq Nat
  OBVIOUS
<1>2. Without = {}
  <2> SUFFICES ASSUME Without # {} PROVE FALSE
    OBVIOUS
  <2>1. PICK k \in Without : \A j \in Without : k <= j
    BY <1>1, LeastNumber
  <2>2. k \in 0..Len(iss) /\ k \in Nat /\ ~\E f : IsTexts(f, iss, k)
    BY <1>1
  <2>3. CASE k = 0
    <3> DEFINE f == [n \in 0..0 |-> <<>>]
    <3>1. IsTexts(f, iss, 0)
      BY DEF IsTexts
    <3> QED
      BY <2>2, <2>3, <3>1
  <2>4. CASE k # 0
    <3>1. k - 1 \in 0..Len(iss) /\ k - 1 \in Nat /\ ~(k <= k - 1)
      BY <1>1, <2>2, <2>4
    <3>2. PICK f : IsTexts(f, iss, k - 1)
      BY <2>1, <3>1
    <3> DEFINE g == [n \in 0..k |-> IF n = k THEN f[k - 1] \o Text(iss[k], k) ELSE f[n]]
    <3>3. \A n \in 0..(k - 1) : f[n] = IF n = 0 THEN <<>> ELSE f[n - 1] \o Text(iss[n], n)
      BY <3>2 DEF IsTexts
    <3>4. ASSUME NEW n \in 0..k PROVE g[n] = IF n = 0 THEN <<>> ELSE g[n - 1] \o Text(iss[n], n)
      <4>1. CASE n = k
        <5>1. n # 0 /\ n - 1 \in 0..k /\ n - 1 # k
          BY <2>2, <2>4, <4>1
        <5>2. g[n - 1] = f[k - 1]
          BY <4>1, <5>1
        <5> QED
          BY <4>1, <5>1, <5>2
      <4>2. CASE n # k
        <5>1. n \in 0..(k - 1) /\ g[n] = f[n]
          BY <2>2, <4>2
        <5>2. n # 0 => n - 1 \in 0..k /\ n - 1 # k
          BY <2>2, <4>2
        <5>3. n # 0 => g[n - 1] = f[n - 1]
          BY <5>2
        <5> HIDE DEF g
        <5> QED
          BY <3>3, <5>1, <5>3
      <4> QED
        BY <4>1, <4>2
    <3>5. g = [n \in 0..k |-> g[n]]
      OBVIOUS
    <3> HIDE DEF g
    <3>6. IsTexts(g, iss, k)
      BY <3>4, <3>5 DEF IsTexts
    <3> QED
      BY <2>2, <3>6
  <2> QED
    BY <2>3, <2>4
<1>3. Len(iss) \in 0..Len(iss)
  BY <1>1
<1>4. \E f : IsTexts(f, iss, Len(iss))
  BY <1>2, <1>3
<1> QED
  BY <1>4 DEF TextsOf

\* One more command does not change the texts of the earlier ones.
LEMMA TextsAgree ==
  ASSUME NEW iss \in Seq(Commands), NEW c \in Commands
  PROVE  \A n \in 0..Len(iss) : TextsOf(Append(iss, c))[n] = TextsOf(iss)[n]
<1> DEFINE more == Append(iss, c)  F == TextsOf(iss)  G == TextsOf(more)
           Differ == {n \in 0..Len(iss) : G[n] # F[n]}
<1>1. /\ more \in Seq(Commands) /\ Len(more) = Len(iss) + 1 /\ Len(iss) \in Nat
      /\ \A n \in 1..Len(iss) : more[n] = iss[n]
  OBVIOUS
<1> HIDE DEF more
<1>2. IsTexts(F, iss, Len(iss)) /\ IsTexts(G, more, Len(more))
  BY <1>1, TextsExist
<1> HIDE DEF F, G
<1>3. \A n \in 0..Len(iss) : F[n] = IF n = 0 THEN <<>> ELSE F[n - 1] \o Text(iss[n], n)
  BY <1>2 DEF IsTexts
<1>4. \A n \in 0..Len(more) : G[n] = IF n = 0 THEN <<>> ELSE G[n - 1] \o Text(more[n], n)
  BY <1>2 DEF IsTexts
<1>5. Differ = {}
  <2> SUFFICES ASSUME Differ # {} PROVE FALSE
    OBVIOUS
  <2>1. Differ \subseteq Nat
    BY <1>1
  <2>2. PICK n \in Differ : \A j \in Differ : n <= j
    BY <2>1, LeastNumber
  <2>3. n \in 0..Len(iss) /\ n \in 0..Len(more) /\ n \in Nat /\ G[n] # F[n]
    BY <1>1
  <2>4. n # 0
    BY <1>3, <1>4, <2>3
  <2>5. n - 1 \in 0..Len(iss) /\ ~(n <= n - 1) /\ n \in 1..Len(iss)
    BY <1>1, <2>3, <2>4
  <2>6. G[n - 1] = F[n - 1] /\ more[n] = iss[n]
    BY <1>1, <2>2, <2>5
  <2>7. F[n] = F[n - 1] \o Text(iss[n], n) /\ G[n] = G[n - 1] \o Text(more[n], n)
    BY <1>3, <1>4, <2>3, <2>4
  <2> QED
    BY <2>3, <2>6, <2>7
<1> QED
  BY <1>5 DEF F, G, more

\* A command that is issued adds its text to the end.
LEMMA AllTextGrows ==
  ASSUME issued \in Seq(Commands), NEW c \in Commands, issued' = Append(issued, c)
  PROVE  AllText' = AllText \o Text(c, Len(issued) + 1)
<1> DEFINE m == Len(issued) + 1  G == TextsOf(issued')
<1>1. /\ Len(issued) \in Nat /\ m \in Nat /\ m # 0 /\ m - 1 = Len(issued)
      /\ Len(issued) \in 0..Len(issued) /\ m \in 0..m
      /\ issued' \in Seq(Commands) /\ Len(issued') = m /\ issued'[m] = c
  OBVIOUS
<1>2. IsTexts(G, issued', m)
  BY <1>1, TextsExist
<1>3. G[Len(issued)] = TextsOf(issued)[Len(issued)]
  BY <1>1, TextsAgree
<1> HIDE DEF G, m
<1>4. G[m] = G[m - 1] \o Text(issued'[m], m)
  BY <1>1, <1>2 DEF IsTexts
<1>5. AllText = TextsOf(issued)[Len(issued)] /\ AllText' = G[m]
  BY <1>1, AllTextIs DEF G
<1> QED
  BY <1>1, <1>3, <1>4, <1>5 DEF m

------------------------------------------------------------------------------
(* Commands are conserved, when the client does not pipeline.                *)

\* An end of line in the pieces of a command's text is the last of its tokens.
LEMMA EndIsLast ==
  ASSUME NEW a \in Seq(CmdToken), NEW b \in Seq(CmdToken), NEW c \in Commands, NEW n \in Nat,
         a \o b = Text(c, n), NEW i \in 1..(Len(a) + Len(b)),
         (IF i <= Len(a) THEN a[i] ELSE b[i - Len(a)]).k = "eol"
  PROVE  i = Len(a) + Len(b)
<1>1. /\ Len(a \o b) = Len(a) + Len(b)
      /\ (a \o b)[i] = IF i <= Len(a) THEN a[i] ELSE b[i - Len(a)]
  BY ConcatProperties
<1>2. /\ Len(Text(c, n)) = c.args + 2
      /\ \A j \in 1..(c.args + 2) : Text(c, n)[j].k = "eol" <=> j = c.args + 2
  BY TextTokens
<1>3. Len(a) + Len(b) = c.args + 2 /\ Text(c, n)[i].k = "eol"
  BY <1>1, <1>2
<1> QED
  BY <1>2, <1>3

\* What a stream that is put together from an empty one is made of.
LEMMA EmptyPieces ==
  ASSUME NEW a \in Seq(CmdToken), NEW b \in Seq(CmdToken), a \o b = <<>>
  PROVE  a = <<>> /\ b = <<>>
<1>1. Len(a) + Len(b) = 0 /\ Len(a) \in Nat /\ Len(b) \in Nat
  <2>1. Len(a \o b) = Len(a) + Len(b) /\ Len(<<>>) = 0
    BY ConcatProperties
  <2> QED
    BY <2>1
<1>2. Len(a) = 0 /\ Len(b) = 0
  BY <1>1
<1> QED
  BY <1>2, EmptySeq

\* The streams of the commands have their types.
LEMMA CommandStreams ==
  Typing => /\ cin \in Seq(CmdToken) /\ rbuf \in Seq(CmdToken)
            /\ oout \in Seq(CmdToken) /\ fwd \in Seq(CmdToken)
            /\ issued \in Seq(Commands) /\ served \in Nat /\ sent \in Seq(ReplyToken)
  BY DEF Typing, BuffersTyped, StreamsTyped

\* A handler that is not about commands: read_buffer was empty and stays so.
LEMMA QuietCommands ==
  ASSUME CommandsKept, fate = "live", st \notin {"COMMAND_CREAD", "COMMAND_SWRITE"},
         UNCHANGED <<cin, oout, fwd, served, issued, sent>>,
         NEW next, NEW c, NEW w, NEW t, jump(next, c, rbuf, w, t)
  PROVE  CommandsKept'
<1>1. rbuf = <<>> /\ rbuf' = <<>>
  BY DEF CommandsKept, jump
<1>2. AllText' = AllText
  BY AllTextIs
<1> QED
  BY <1>1, <1>2 DEF CommandsKept, OneCommand

LEMMA HandlerCommands ==
  ASSUME CommandsKept, fate = "live",
         \/ process_connection \/ resolv_connection
         \/ \E fd \in Peers : establ_connection(fd) \/ greeting_sread(fd)
         \/ greeting_cwrite \/ response_sread \/ dot_data_sread \/ dot_data_cwrite \/ response_cwrite
  PROVE  CommandsKept'
<1>1. /\ st \notin {"COMMAND_CREAD", "COMMAND_SWRITE"}
      /\ UNCHANGED <<cin, oout, fwd, served, issued, sent>>
  BY DEF process_connection, resolv_connection, establ_connection, greeting_sread, greeting_cwrite,
     response_sread, dot_data_sread, dot_data_cwrite, response_cwrite, write_reply, wires
<1>2. CASE fate' # "live"
  BY <1>2 DEF CommandsKept
<1>3. ASSUME NEW next, NEW c, NEW w, NEW t, jump(next, c, rbuf, w, t) PROVE CommandsKept'
  BY <1>1, <1>3, QuietCommands
<1>4. \/ fate' # "live"
      \/ \E next, c, w, t : jump(next, c, rbuf, w, t)
  <2>1. CASE process_connection \/ resolv_connection \/ \E fd \in Peers : establ_connection(fd)
    BY <2>1 DEF process_connection, resolv_connection, establ_connection, attempt_connection, abort
  <2>2. CASE greeting_cwrite \/ \E fd \in Peers : greeting_sread(fd)
    BY <2>2, FinishedIsDead DEF greeting_sread, greeting_cwrite
  <2>3. CASE response_sread \/ dot_data_sread
    BY <2>3, FinishedIsDead DEF response_sread, dot_data_sread, block
  <2>4. CASE dot_data_cwrite \/ response_cwrite
    BY <2>4, FinishedIsDead DEF dot_data_cwrite, response_cwrite, write_reply
  <2> QED
    BY <2>1, <2>2, <2>3, <2>4
<1> QED
  BY <1>2, <1>3, <1>4

\* COMMAND_CREAD: of one command at a time, the builder parses all that was received.
LEMMA CommandReadCommands ==
  ASSUME Typing, CommandsKept, fate = "live", command_cread
  PROVE  CommandsKept'
<1>1. st = "COMMAND_CREAD" /\ UNCHANGED <<oout, served, issued, sent, fwd>>
  BY DEF command_cread
<1>2. CASE finished_suscription
  BY <1>2, FinishedIsDead DEF CommandsKept
<1>3. ASSUME NEW n \in Lengths(cin, BufSize - Len(rbuf), TRUE), cin' = Drop(cin, n),
             command_builder(Segment(n)) \in {"BUILD_FINISHED", "BUILDING"},
             NEW next \in {"COMMAND_CREAD", "COMMAND_SWRITE"}, NEW c,
             jump(next, c, rbuf \o Parsed(n), wbuf, tbuf)
      PROVE  CommandsKept'
  <2>1. /\ n \in 1..Len(cin) /\ Segment(n) \in Seq(CmdToken) /\ Len(Segment(n)) = n
        /\ \A i \in 1..n : Segment(n)[i] = cin[i]
        /\ ReadUpTo(Segment(n)) \in 1..n
        /\ Drop(cin, n) \in Seq(CmdToken) /\ Take(cin, n) \o Drop(cin, n) = cin
    BY SegmentParsed
  <2>2. /\ cin \in Seq(CmdToken) /\ rbuf \in Seq(CmdToken) /\ oout \in Seq(CmdToken)
        /\ fwd \in Seq(CmdToken) /\ issued \in Seq(Commands) /\ served \in Nat
        /\ Len(cin) \in Nat /\ Len(issued) \in Nat
    BY CommandStreams
  <2>3. cin # <<>>
    BY <2>1
  <2>4. /\ served + 1 = Len(issued)
        /\ oout \o rbuf \o cin = Text(issued[Len(issued)], Len(issued))
    BY <2>3 DEF CommandsKept, OneCommand
  <2>5. issued[Len(issued)] \in Commands
    <3>1. Len(issued) \in 1..Len(issued)
      BY <2>2, <2>4
    <3> QED
      BY <2>2, <3>1
  <2>6. ReadUpTo(Segment(n)) = n
    <3>1. CASE Stops(Segment(n)) = {}
      BY <2>1, <3>1, BuilderStops
    <3>2. CASE Stops(Segment(n)) # {}
      <4> DEFINE i == ReadUpTo(Segment(n))  pre == oout \o rbuf
      <4>1. Segment(n)[i].k = "eol"
        BY <1>3, <3>2 DEF command_builder
      <4>2. i \in 1..n /\ i \in 1..Len(cin) /\ cin[i].k = "eol"
        BY <2>1, <2>2, <4>1
      <4>3. pre \in Seq(CmdToken) /\ Len(pre) \in Nat /\ pre \o cin = Text(issued[Len(issued)], Len(issued))
        BY <2>2, <2>4, ConcatProperties
      <4> HIDE DEF pre, i
      <4>4. Len(pre) + i \in 1..(Len(pre) + Len(cin)) /\ ~(Len(pre) + i <= Len(pre)) /\ (Len(pre) + i) - Len(pre) = i
        BY <2>2, <4>2, <4>3
      <4>5. Len(pre) + i = Len(pre) + Len(cin)
        BY <2>2, <2>5, <4>2, <4>3, <4>4, EndIsLast
      <4>6. i = Len(cin)
        BY <2>2, <4>2, <4>3, <4>5
      <4>7. n \in 1..Len(cin) /\ Len(cin) \in Nat
        BY <2>1, <2>2
      <4>8. i = n
        BY ONLY <4>2, <4>6, <4>7
      <4> QED
        BY <4>8 DEF i
    <3> QED
      BY <3>1, <3>2
  <2>7. Parsed(n) = Take(cin, n) /\ Take(cin, n) \in Seq(CmdToken)
    <3>1. Parsed(n) \in Seq(CmdToken) /\ Len(Parsed(n)) = n /\ \A i \in 1..Len(Parsed(n)) : Parsed(n)[i] = cin[i]
      BY <2>6, SegmentParsed
    <3>2. Parsed(n) = Segment(n)
      BY <2>1, <3>1, SeqEqual
    <3> QED
      BY <2>1, <3>2 DEF Segment
  <2>8. st' = next /\ rbuf' = rbuf \o Take(cin, n)
    BY <1>1, <1>3, <2>7 DEF jump
  <2>9. ASSUME NEW pre \in Seq(CmdToken) PROVE pre \o rbuf' \o cin' = pre \o rbuf \o cin
    <3> DEFINE p == Take(cin, n)  q == Drop(cin, n)
    <3>1. p \in Seq(CmdToken) /\ q \in Seq(CmdToken) /\ p \o q = cin
      BY <2>1, <2>7
    <3>2. rbuf' = rbuf \o p /\ cin' = q
      BY <1>3, <2>8
    <3> HIDE DEF p, q
    <3>3. pre \o rbuf \in Seq(CmdToken)
      BY <2>2, ConcatProperties
    <3>4. pre \o (rbuf \o p) = (pre \o rbuf) \o p
      BY <2>2, <3>1, CommandPieces, Zenon
    <3>5. ((pre \o rbuf) \o p) \o q = (pre \o rbuf) \o (p \o q)
      BY <3>1, <3>3, CommandPieces, Zenon
    <3> QED
      BY <3>1, <3>2, <3>4, <3>5
  <2>10. oout' \o rbuf' \o cin' = Text(issued'[Len(issued')], Len(issued'))
    BY <1>1, <2>2, <2>4, <2>9
  <2>11. fwd' \o rbuf' \o cin' = AllText'
    <3>1. AllText' = AllText /\ fwd \o rbuf \o cin = AllText
      BY <1>1, AllTextIs DEF CommandsKept
    <3> QED
      BY <1>1, <2>2, <2>9, <3>1
  <2> QED
    BY <1>1, <2>4, <2>8, <2>10, <2>11 DEF CommandsKept, OneCommand
<1>4. \/ finished_suscription
      \/ \E n \in Lengths(cin, BufSize - Len(rbuf), TRUE) :
           /\ cin' = Drop(cin, n)
           /\ command_builder(Segment(n)) \in {"BUILD_FINISHED", "BUILDING"}
           /\ \E next \in {"COMMAND_CREAD", "COMMAND_SWRITE"} : \E c : jump(next, c, rbuf \o Parsed(n), wbuf, tbuf)
  BY <1>1 DEF command_cread, Segment, Parsed, accumulate
<1> QED
  BY <1>2, <1>3, <1>4

\* COMMAND_SWRITE: what is sent moves from read_buffer to the origin.
LEMMA CommandWriteCommands ==
  ASSUME Typing, CommandsKept, fate = "live", command_swrite
  PROVE  CommandsKept'
<1>1. st = "COMMAND_SWRITE" /\ UNCHANGED <<cin, served, issued, sent>>
  BY DEF command_swrite
<1>2. CASE finished_suscription
  BY <1>2, FinishedIsDead DEF CommandsKept
<1>3. ASSUME NEW left \in Leftovers(rbuf),
             oout' = oout \o Take(rbuf, Len(rbuf) - Len(left)),
             fwd' = fwd \o Take(rbuf, Len(rbuf) - Len(left)),
             jump(after_send(left, "RESPONSE_SREAD"), cmd, left, wbuf, tbuf)
      PROVE  CommandsKept'
  <2> DEFINE out == Take(rbuf, Len(rbuf) - Len(left))
  <2>1. /\ cin \in Seq(CmdToken) /\ rbuf \in Seq(CmdToken) /\ oout \in Seq(CmdToken) /\ fwd \in Seq(CmdToken)
    BY CommandStreams
  <2>2. left \in Seq(CmdToken) /\ out \in Seq(CmdToken) /\ out \o left = rbuf
    BY <2>1, LeftoversCut
  <2>3. oout' = oout \o out /\ fwd' = fwd \o out /\ rbuf' = left
    BY <1>1, <1>3 DEF jump, after_send
  <2>4. st' \notin {"COMMAND_CREAD", "COMMAND_SWRITE"} => rbuf' = <<>>
    BY <1>1, <1>3, <2>3 DEF jump, after_send
  <2> HIDE DEF out
  <2>5. ASSUME NEW pre \in Seq(CmdToken) PROVE (pre \o out) \o left = pre \o rbuf
    <3>1. (pre \o out) \o left = pre \o (out \o left)
      BY <2>2, CommandPieces, Zenon
    <3> QED
      BY <2>2, <3>1
  <2>6. fwd' \o rbuf' \o cin' = AllText'
    <3>1. AllText' = AllText /\ fwd \o rbuf \o cin = AllText
      BY <1>1, AllTextIs DEF CommandsKept
    <3>2. fwd' \o rbuf' = fwd \o rbuf
      BY <2>1, <2>3, <2>5
    <3> QED
      BY <1>1, <3>1, <3>2
  <2>7. oout' \o rbuf' = oout \o rbuf
    BY <2>1, <2>3, <2>5
  <2>8. OneCommand'
    <3>1. CASE served = Len(issued) /\ oout = <<>> /\ rbuf = <<>> /\ cin = <<>>
      <4>1. out = <<>> /\ left = <<>>
        BY <2>2, <3>1, EmptyPieces
      <4>2. <<>> \o <<>> = <<>>
        BY <2>1, <3>1, ConcatEmptySeq
      <4> QED
        BY <1>1, <2>3, <3>1, <4>1, <4>2 DEF OneCommand
    <3>2. CASE /\ served + 1 = Len(issued)
               /\ oout \o rbuf \o cin = Text(issued[Len(issued)], Len(issued))
      BY <1>1, <2>7, <3>2 DEF OneCommand
    <3> QED
      BY <3>1, <3>2 DEF CommandsKept, OneCommand
  <2>9. \A j \in 1..Len(sent') : sent'[j].of <= served'
    BY <1>1 DEF CommandsKept
  <2> QED
    BY <2>4, <2>6, <2>8, <2>9 DEF CommandsKept
<1> QED
  BY <1>2, <1>3 DEF command_swrite

\* A client that does not pipeline sends when its last command was answered, so all
\* of it was served.
LEMMA ClientSendCommands ==
  ASSUME ~Pipelining, Typing, CommandsKept, ClientSend
  PROVE  CommandsKept'
<1>1. /\ fate = "live" /\ (issued = <<>> \/ Answered(Len(issued)))
      /\ UNCHANGED <<fate, st, rbuf, oout, served, sent, fwd>>
  BY DEF ClientSend, proxyAndOrigin, sessionVars
<1>2. PICK c \in Commands : issued' = Append(issued, c) /\ cin' = cin \o Text(c, Len(issued) + 1)
  BY DEF ClientSend
<1>3. /\ cin \in Seq(CmdToken) /\ rbuf \in Seq(CmdToken) /\ oout \in Seq(CmdToken)
      /\ fwd \in Seq(CmdToken) /\ issued \in Seq(Commands) /\ served \in Nat /\ Len(issued) \in Nat
  BY CommandStreams
<1>4. served = Len(issued) /\ oout = <<>> /\ rbuf = <<>> /\ cin = <<>>
  <2>1. served + 1 # Len(issued)
    <3>1. CASE issued = <<>>
      BY <1>3, <3>1
    <3>2. CASE Answered(Len(issued))
      <4>1. PICK j \in 1..Len(sent) : sent[j].of = Len(issued)
        BY <3>2 DEF Answered
      <4>2. Len(issued) <= served
        BY <1>1, <4>1 DEF CommandsKept
      <4> QED
        BY <1>3, <4>2
    <3> QED
      BY <1>1, <3>1, <3>2
  <2> QED
    BY <1>1, <2>1 DEF CommandsKept, OneCommand
<1> DEFINE text == Text(c, Len(issued) + 1)
<1>5. text \in Seq(CmdToken)
  BY <1>3, TextTokens
<1>6. Len(issued') = Len(issued) + 1 /\ issued'[Len(issued) + 1] = c
  BY <1>2, <1>3
<1>7. cin' = text
  BY <1>2, <1>4, <1>5, ConcatEmptySeq
<1> HIDE DEF text
<1>8. OneCommand'
  <2>1. <<>> \o <<>> \o text = text
    <3>1. <<>> \o <<>> = <<>> /\ <<>> \o text = text
      BY <1>4, <1>5, <1>3, ConcatEmptySeq
    <3> QED
      BY <3>1
  <2>2. oout' \o rbuf' \o cin' = text
    BY <1>1, <1>4, <1>7, <2>1
  <2> QED
    BY <1>1, <1>3, <1>4, <1>6, <2>2 DEF OneCommand, text
<1>9. fwd' \o rbuf' \o cin' = AllText'
  <2>1. AllText' = AllText \o text
    BY <1>2, <1>3, AllTextGrows DEF text
  <2>2. fwd \o <<>> \o <<>> = AllText
    BY <1>1, <1>4 DEF CommandsKept
  <2>3. fwd \o <<>> = fwd
    BY <1>3, ConcatEmptySeq
  <2> QED
    BY <1>1, <1>4, <1>7, <2>1, <2>2, <2>3
<1> QED
  BY <1>1, <1>8, <1>9 DEF CommandsKept

\* The origin only serves a complete command, which leaves nothing on its way.
LEMMA OriginCommands ==
  ASSUME Typing, CommandsKept, OriginGreet \/ OriginServe
  PROVE  CommandsKept'
<1>1. fate = "live" /\ UNCHANGED <<fate, st, rbuf, cin, issued, fwd>>
  BY DEF OriginGreet, OriginServe, OriginSays, sessionVars
<1>2. /\ cin \in Seq(CmdToken) /\ rbuf \in Seq(CmdToken) /\ oout \in Seq(CmdToken)
      /\ issued \in Seq(Commands) /\ served \in Nat /\ sent \in Seq(ReplyToken)
      /\ Len(issued) \in Nat /\ Len(oout) \in Nat /\ Len(sent) \in Nat
  BY CommandStreams
<1>3. AllText' = AllText
  BY <1>1, AllTextIs
<1>4. ASSUME NEW kinds \in Seq(ReplyKinds), NEW n \in Nat, OriginSays(kinds, n),
             served' \in Nat, n <= served', served <= served'
      PROVE  \A j \in 1..Len(sent') : sent'[j].of <= served'
  <2> DEFINE r == ReplyOf(kinds, n)
  <2>1. r \in Seq(ReplyToken) /\ Len(r) \in Nat /\ \A j \in 1..Len(r) : r[j].of = n
    BY ReplyTokens
  <2>2. sent' = sent \o r
    BY <1>4 DEF OriginSays
  <2> HIDE DEF r
  <2>3. /\ Len(sent') = Len(sent) + Len(r)
        /\ \A j \in 1..(Len(sent) + Len(r)) : sent'[j] = IF j <= Len(sent) THEN sent[j] ELSE r[j - Len(sent)]
    BY <1>2, <2>1, <2>2, ConcatProperties
  <2>4. \A j \in 1..Len(sent) : sent[j].of <= served /\ sent[j].of \in Nat
    <3>1. \A j \in 1..Len(sent) : sent[j] \in ReplyToken
      BY <1>2
    <3> QED
      BY <1>1, <3>1 DEF CommandsKept, ReplyToken
  <2> SUFFICES ASSUME NEW j \in 1..Len(sent') PROVE sent'[j].of <= served'
    OBVIOUS
  <2>5. CASE j <= Len(sent)
    <3>1. j \in 1..Len(sent) /\ sent'[j] = sent[j]
      BY <1>2, <2>1, <2>3, <2>5
    <3> QED
      BY <1>2, <1>4, <2>4, <3>1
  <2>6. CASE ~(j <= Len(sent))
    <3>1. j - Len(sent) \in 1..Len(r) /\ sent'[j] = r[j - Len(sent)]
      BY <1>2, <2>1, <2>3, <2>6
    <3> QED
      BY <1>4, <2>1, <3>1
  <2> QED
    BY <2>5, <2>6
<1>5. CASE OriginGreet
  <2>1. oout' = oout /\ served' = served
    BY <1>5 DEF OriginGreet
  <2>2. \A j \in 1..Len(sent') : sent'[j].of <= served'
    <3>1. PICK g \in {"ok", "err"} : OriginSays(<<g, "eol">>, 0)
      BY <1>5 DEF OriginGreet
    <3>2. <<g, "eol">> \in Seq(ReplyKinds)
      BY GreetingKinds
    <3>3. served' \in Nat /\ 0 <= served' /\ served <= served' /\ 0 \in Nat
      BY <1>2, <2>1
    <3> DEFINE greeting == <<g, "eol">>
    <3>4. greeting \in Seq(ReplyKinds) /\ OriginSays(greeting, 0)
      BY <3>1, <3>2
    <3> HIDE DEF greeting
    <3> QED
      BY <1>4, <3>3, <3>4
  <2> QED
    BY <1>1, <1>3, <2>1, <2>2 DEF CommandsKept, OneCommand
<1>6. CASE OriginServe
  <2>1. PICK e \in 1..Len(oout) :
          /\ oout[e].k = "eol" /\ oout' = Drop(oout, e)
          /\ \E kinds \in OriginReplies(Take(oout, e)) : OriginSays(kinds, served + 1)
    BY <1>6 DEF OriginServe
  <2>2. served' = served + 1
    BY <1>6 DEF OriginServe
  <2>3. /\ served + 1 = Len(issued)
        /\ oout \o rbuf \o cin = Text(issued[Len(issued)], Len(issued))
    <3>1. oout # <<>>
      BY <2>1
    <3> QED
      BY <1>1, <3>1 DEF CommandsKept, OneCommand
  <2> DEFINE rest == rbuf \o cin
  <2>4. rest \in Seq(CmdToken) /\ Len(rest) \in Nat /\ oout \o rest = Text(issued[Len(issued)], Len(issued))
    <3>1. rest \in Seq(CmdToken)
      BY <1>2, ConcatProperties
    <3>2. (oout \o rbuf) \o cin = oout \o rest
      BY <1>2, CommandPieces, Zenon
    <3> QED
      BY <2>3, <3>1, <3>2
  <2>5. issued[Len(issued)] \in Commands
    <3>1. Len(issued) \in 1..Len(issued)
      BY <1>2, <2>3
    <3> QED
      BY <1>2, <3>1
  <2>6. e = Len(oout) /\ rbuf = <<>> /\ cin = <<>>
    <3> HIDE DEF rest
    <3>1. e \in 1..(Len(oout) + Len(rest)) /\ e <= Len(oout)
      BY <1>2, <2>4
    <3>2. e = Len(oout) + Len(rest)
      BY <1>2, <2>1, <2>4, <2>5, <3>1, EndIsLast
    <3>3. e = Len(oout) /\ Len(rest) = 0
      BY <1>2, <2>4, <3>1, <3>2
    <3>4. rest = <<>>
      BY <2>4, <3>3, EmptySeq
    <3> QED
      BY <1>2, <3>3, <3>4, EmptyPieces DEF rest
  <2>7. oout' = <<>>
    <3>1. e \in 0..Len(oout)
      BY <1>2
    <3>2. Drop(oout, e) \in Seq(CmdToken) /\ Len(Drop(oout, e)) = Len(oout) - e
      BY <1>2, <3>1, Cut
    <3>3. Len(Drop(oout, e)) = 0
      BY <1>2, <2>6, <3>2
    <3> QED
      BY <2>1, <3>2, <3>3, EmptySeq
  <2>8. OneCommand'
    BY <1>1, <2>2, <2>3, <2>6, <2>7 DEF OneCommand
  <2>9. \A j \in 1..Len(sent') : sent'[j].of <= served'
    <3>1. PICK kinds \in OriginReplies(Take(oout, e)) : OriginSays(kinds, served + 1)
      BY <2>1
    <3>2. kinds \in Seq(ReplyKinds) /\ served + 1 \in Nat /\ served <= served + 1 /\ served + 1 <= served + 1
      BY <1>2, OriginRepliesKinds
    <3> QED
      BY <1>4, <2>2, <3>1, <3>2
  <2> QED
    BY <1>1, <1>3, <2>8, <2>9 DEF CommandsKept
<1> QED
  BY <1>5, <1>6

LEMMA StepCommands ==
  ASSUME ~Pipelining, Typing, CommandsKept, [Next]_vars PROVE CommandsKept'
<1>1. CASE missing_handler
  BY <1>1 DEF missing_handler, abort, CommandsKept
<1>2. CASE \/ resolv_connection_blocking \/ ClientClose
           \/ OriginAccept \/ OriginRefuse \/ OriginClose \/ UNCHANGED vars
  <2>1. UNCHANGED <<fate, st, rbuf, cin, oout, served, issued, sent, fwd>>
    BY <1>2 DEF resolv_connection_blocking, ClientClose, OriginAccept, OriginRefuse,
       OriginClose, OriginConnection, proxyAndOrigin, sessionVars, wires, vars
  <2>2. AllText' = AllText
    BY <2>1, AllTextIs
  <2> QED
    BY <2>1, <2>2 DEF CommandsKept, OneCommand
<1>3. CASE ClientSend
  BY <1>3, ClientSendCommands
<1>4. CASE OriginGreet \/ OriginServe
  BY <1>4, OriginCommands
<1>5. CASE Selector /\ ~missing_handler
  <2>1. fate = "live"
    BY <1>5 DEF Selector, process_connection, resolv_connection, establ_connection, greeting_sread,
       greeting_cwrite, command_cread, command_swrite, response_sread, dot_data_sread,
       dot_data_cwrite, response_cwrite, write_reply, ReadEvent, WriteEvent
  <2> QED
    BY <1>5, <2>1, HandlerCommands, CommandReadCommands, CommandWriteCommands DEF Selector
<1> QED
  BY <1>1, <1>2, <1>3, <1>4, <1>5 DEF Next

LEMMA InitCommands == Init => CommandsKept
<1> SUFFICES ASSUME Init PROVE CommandsKept
  OBVIOUS
<1>1. issued = <<>> /\ issued \in Seq(Commands) /\ Len(issued) = 0
  BY DEF Init
<1>2. IsTexts(TextsOf(issued), issued, 0)
  BY <1>1, TextsExist
<1>3. TextsOf(issued)[0] = <<>>
  BY <1>2 DEF IsTexts
<1>4. AllText = <<>>
  BY <1>1, <1>3, AllTextIs
<1>5. <<>> \o <<>> \o <<>> = <<>>
  OBVIOUS
<1> QED
  BY <1>1, <1>4, <1>5 DEF Init, CommandsKept, OneCommand

\* Whatever the commands, the segments and the faults: of a client that waits for
\* each reply, what the origin received, what read_buffer holds and what is still
\* to be received make up exactly the commands it typed, in order.
THEOREM SessionCommandsConserved ==
  ASSUME ~Pipelining
  PROVE  Spec => []CommandsConserved
<1>1. Init => CommandsKept
  BY InitCommands
<1>2. (IInv /\ Typing) /\ CommandsKept /\ [Next]_vars => CommandsKept'
  BY StepCommands
<1>3. CommandsKept => CommandsConserved
  BY DEF CommandsKept, CommandsConserved
<1> QED
  BY <1>1, <1>2, <1>3, TypingHolds, PTL DEF Spec

------------------------------------------------------------------------------
(* Lockstep, when a reply arrives in one piece and fits in the buffer.       *)

RepliesFit == 2 <= BufSize /\ \A b \in Bodies : Len(b) + 3 <= BufSize

\* Only while a command is being sent, or its reply awaited, is anything on its way
\* between the proxy and the origin: part of the command, then all of it, then
\* its reply.  Every request that was served has a reply, after the greeting.
LockstepKept ==
  fate = "live" =>
    /\ Greeted /\ st \notin {"COMMAND_SWRITE", "RESPONSE_SREAD"} => oin = <<>>
    /\ st \notin {"COMMAND_SWRITE", "RESPONSE_SREAD"} => oout = <<>>
    /\ st = "COMMAND_SWRITE" => oin = <<>> /\ rbuf # <<>>
    /\ st = "RESPONSE_SREAD" => oin = <<>> \/ (oout = <<>> /\ Len(oin) <= BufSize)
    /\ \A n \in 1..served : \E j \in 3..Len(sent) : sent[j].of = n

\* All that is known of a session before a step.
Kept == IInv /\ Typing /\ RepliesKept /\ CommandsKept /\ LockstepKept

LEMMA ConnectingLockstep ==
  ASSUME LockstepKept, fate = "live",
         process_connection \/ resolv_connection \/ \E fd \in Peers : establ_connection(fd)
  PROVE  LockstepKept'
<1>1. UNCHANGED <<oin, oout, sent, served>>
  BY DEF process_connection, resolv_connection, establ_connection, wires
<1>2. st \notin {"COMMAND_SWRITE", "RESPONSE_SREAD"}
  BY DEF process_connection, resolv_connection, establ_connection
<1>3. CASE fate' = "aborted"
  BY <1>3 DEF LockstepKept
<1>4. CASE \E next \in {"RESOLV_CONNECTION", "ESTABL_CONNECTION", "GREETING_SREAD"} :
             jump(next, cmd, rbuf, wbuf, tbuf)
  <2>1. st' \in Ungreeted
    BY <1>4 DEF jump, Ungreeted
  <2> QED
    BY <1>1, <1>2, <2>1 DEF LockstepKept, Greeted, Ungreeted, Relaying
<1> QED
  BY <1>3, <1>4 DEF process_connection, resolv_connection, establ_connection, attempt_connection, abort

\* GREETING_SREAD: nothing follows the greeting.
LEMMA GreetingReadLockstep ==
  ASSUME Kept, RepliesKept', Typing', fate = "live", NEW fd \in Peers, greeting_sread(fd)
  PROVE  LockstepKept'
<1>1. st = "GREETING_SREAD" /\ UNCHANGED <<oout, sent, served, got>>
  BY DEF greeting_sread
<1>2. /\ oout = <<>> /\ (sent = <<>> \/ Len(sent) = 2) /\ wbuf = GREETING_OK
  BY <1>1 DEF Kept, RepliesKept, Ungreeted
<1>3. got = <<>>
  <2>1. ReadEvent(fd)
    BY DEF greeting_sread
  <2> QED
    BY <1>1, <2>1, PollsParts DEF Kept, IInv, Unconnected, Connected, Relaying
<1>4. CASE fate' # "live"
  BY <1>4 DEF LockstepKept
<1>5. ASSUME fate' = "live", NEW next \in {"GREETING_CWRITE", "GREETING_SREAD"},
             jump(next, cmd, rbuf, wbuf, tbuf)
      PROVE  LockstepKept'
  <2>1. st' = next
    BY <1>5 DEF jump
  <2>2. Greeted' => oin' = <<>>
    <3> SUFFICES ASSUME Greeted' PROVE oin' = <<>>
      OBVIOUS
    <3>1. st' = "GREETING_CWRITE" /\ wbuf' = GREETING_OK
      BY <1>1, <1>2, <1>5, <2>1 DEF jump, Greeted, Relaying
    <3>2. Held' = GREETING_OK
      BY <3>1 DEF Held, HeldStates
    <3>3. Len(sent) >= 2 /\ <<>> \o GREETING_OK \o oin' = GREETING_OK \o Drop(sent, 2)
      BY <1>1, <1>3, <1>5, <3>2 DEF RepliesKept
    <3>4. Len(sent) = 2 /\ sent \in Seq(ReplyToken)
      BY <1>2, <3>3 DEF Kept, Typing, StreamsTyped
    <3>5. Drop(sent, 2) = <<>>
      <4>1. 2 \in 0..Len(sent)
        BY <3>4
      <4>2. Drop(sent, 2) \in Seq(ReplyToken) /\ Len(Drop(sent, 2)) = Len(sent) - 2
        BY <3>4, <4>1, Cut
      <4>3. Len(Drop(sent, 2)) = 0
        BY <3>4, <4>2
      <4> QED
        BY <4>2, <4>3, EmptySeq
    <3>6. oin' \in Seq(ReplyToken) /\ GREETING_OK \in Seq(ReplyToken)
      BY GreetingTokens DEF Typing, StreamsTyped
    <3>7. GREETING_OK \o oin' = GREETING_OK
      BY <3>3, <3>5, <3>6, ConcatEmptySeq
    <3>8. Len(GREETING_OK) + Len(oin') = Len(GREETING_OK) /\ Len(GREETING_OK) \in Nat /\ Len(oin') \in Nat
      BY <3>6, <3>7, ConcatProperties
    <3>9. Len(oin') = 0
      BY <3>8
    <3> QED
      BY <3>6, <3>9, EmptySeq
  <2> QED
    BY <1>1, <1>2, <2>1, <2>2 DEF Kept, LockstepKept
<1>6. fate' # "live" \/ \E next \in {"GREETING_CWRITE", "GREETING_SREAD"} : jump(next, cmd, rbuf, wbuf, tbuf)
  BY <1>1, FinishedIsDead DEF greeting_sread
<1> QED
  BY <1>4, <1>5, <1>6

\* The states that write to the client.
LEMMA WriteLockstep ==
  ASSUME LockstepKept, fate = "live", greeting_cwrite \/ dot_data_cwrite \/ response_cwrite
  PROVE  LockstepKept'
<1>1. /\ st \in HeldStates /\ UNCHANGED <<oin, oout, sent, served>>
      /\ interest["client"] = "WRITE"
  BY DEF greeting_cwrite, dot_data_cwrite, response_cwrite, write_reply, HeldStates, WriteEvent
<1>2. oin = <<>> /\ oout = <<>>
  BY <1>1 DEF LockstepKept, Greeted, HeldStates, Relaying
<1>3. fate' # "live" \/ st' \in HeldStates \cup {"COMMAND_CREAD", "DOT_DATA_SREAD"}
  BY <1>1, FinishedIsDead DEF greeting_cwrite, dot_data_cwrite, response_cwrite, write_reply, jump, after_send
<1> QED
  BY <1>1, <1>2, <1>3 DEF LockstepKept, HeldStates

LEMMA CommandReadLockstep ==
  ASSUME Typing, LockstepKept, fate = "live", command_cread
  PROVE  LockstepKept'
<1>1. st = "COMMAND_CREAD" /\ UNCHANGED <<oin, oout, sent, served>>
  BY DEF command_cread
<1>2. oin = <<>> /\ oout = <<>>
  BY <1>1 DEF LockstepKept, Greeted, Relaying
<1>3. CASE finished_suscription
  BY <1>3, FinishedIsDead DEF LockstepKept
<1>4. ASSUME NEW n \in Lengths(cin, BufSize - Len(rbuf), TRUE),
             NEW next \in {"COMMAND_CREAD", "COMMAND_SWRITE"}, NEW c,
             jump(next, c, rbuf \o Parsed(n), wbuf, tbuf)
      PROVE  LockstepKept'
  <2>1. st' = next /\ rbuf' = rbuf \o Parsed(n)
    BY <1>1, <1>4 DEF jump
  <2>2. Parsed(n) \in Seq(CmdToken) /\ Len(Parsed(n)) = ReadUpTo(Segment(n)) /\ ReadUpTo(Segment(n)) \in 1..n
        /\ n \in 1..Len(cin)
    BY SegmentParsed
  <2>3. rbuf \in Seq(CmdToken) /\ Parsed(n) # <<>>
    BY <2>2, CommandStreams
  <2>4. rbuf' # <<>>
    BY <2>1, <2>2, <2>3, EmptyPieces
  <2> QED
    BY <1>1, <1>2, <2>1, <2>4 DEF LockstepKept
<1>5. \/ finished_suscription
      \/ \E n \in Lengths(cin, BufSize - Len(rbuf), TRUE) :
           \E next \in {"COMMAND_CREAD", "COMMAND_SWRITE"} : \E c : jump(next, c, rbuf \o Parsed(n), wbuf, tbuf)
  BY <1>1 DEF command_cread, Segment, Parsed, accumulate
<1> QED
  BY <1>3, <1>4, <1>5

LEMMA CommandWriteLockstep ==
  ASSUME LockstepKept, fate = "live", command_swrite
  PROVE  LockstepKept'
<1>1. st = "COMMAND_SWRITE" /\ UNCHANGED <<oin, sent, served>> /\ oin = <<>>
  BY DEF command_swrite, LockstepKept
<1>2. \/ fate' # "live" \/ st' = "RESPONSE_SREAD"
      \/ st' = "COMMAND_SWRITE" /\ rbuf' # <<>>
  BY <1>1, FinishedIsDead DEF command_swrite, jump, after_send
<1> QED
  BY <1>1, <1>2 DEF LockstepKept

\* RESPONSE_SREAD receives the whole reply; DOT_DATA_SREAD has nothing to receive.
LEMMA ReplyReadLockstep ==
  ASSUME "segments" \notin Faults, Typing, LockstepKept, fate = "live", response_sread \/ dot_data_sread
  PROVE  LockstepKept'
<1>1. UNCHANGED <<oout, sent, served>> /\ oin \in Seq(ReplyToken) /\ Len(oin) \in Nat /\ BufSize \in Nat
  BY BoundsAssumption DEF response_sread, dot_data_sread, Typing, StreamsTyped
<1>2. CASE fate' # "live"
  BY <1>2 DEF LockstepKept
<1>3. ASSUME NEW n \in Lengths(oin, BufSize, "segments" \in Faults), response_sread, oin' = Drop(oin, n),
             st' \in {"RESPONSE_CWRITE", "DOT_DATA_CWRITE"}
      PROVE  LockstepKept'
  <2>1. st = "RESPONSE_SREAD"
    BY <1>3 DEF response_sread
  <2>2. oin # <<>>
    BY <1>3, NothingToReceive
  <2>3. oout = <<>> /\ Len(oin) <= BufSize
    BY <2>1, <2>2 DEF LockstepKept
  <2>4. n = Len(oin)
    BY <1>1, <1>3, <2>3 DEF Lengths
  <2>5. oin' = <<>>
    <3>1. n \in 0..Len(oin)
      BY <1>1, <2>4
    <3>2. Drop(oin, n) \in Seq(ReplyToken) /\ Len(Drop(oin, n)) = Len(oin) - n
      BY <1>1, <3>1, Cut
    <3>3. Len(Drop(oin, n)) = 0
      BY <1>1, <2>4, <3>2
    <3> QED
      BY <1>3, <3>2, <3>3, EmptySeq
  <2> QED
    BY <1>1, <1>3, <2>3, <2>5 DEF LockstepKept
<1>4. dot_data_sread => fate' # "live"
  <2> SUFFICES ASSUME dot_data_sread PROVE fate' # "live"
    OBVIOUS
  <2>1. oin = <<>>
    BY DEF dot_data_sread, LockstepKept, Greeted, Relaying
  <2> QED
    BY <2>1, NothingToReceive, FinishedIsDead DEF dot_data_sread
<1>5. \/ fate' # "live"
      \/ /\ response_sread
         /\ \E n \in Lengths(oin, BufSize, "segments" \in Faults) : oin' = Drop(oin, n)
         /\ st' \in {"RESPONSE_CWRITE", "DOT_DATA_CWRITE"}
  BY <1>4, FinishedIsDead DEF response_sread, block, jump
<1> QED
  BY <1>2, <1>3, <1>5

\* What the origin adds to what it sent leaves the earlier replies in place.
LEMMA RepliesStay ==
  ASSUME Typing, NEW r \in Seq(ReplyToken), sent' = sent \o r,
         NEW n, \E j \in 3..Len(sent) : sent[j].of = n
  PROVE  \E j \in 3..Len(sent') : sent'[j].of = n
<1>1. PICK j \in 3..Len(sent) : sent[j].of = n
  OBVIOUS
<1>2. sent \in Seq(ReplyToken) /\ Len(sent) \in Nat /\ Len(r) \in Nat
  BY DEF Typing, StreamsTyped
<1>3. /\ Len(sent') = Len(sent) + Len(r)
      /\ \A i \in 1..(Len(sent) + Len(r)) : sent'[i] = IF i <= Len(sent) THEN sent[i] ELSE r[i - Len(sent)]
  BY <1>2, ConcatProperties
<1>4. j \in 3..Len(sent') /\ sent'[j] = sent[j]
  BY <1>2, <1>3
<1> QED
  BY <1>1, <1>4

\* The greeting is sent while the proxy still waits for it.
LEMMA OriginGreetLockstep ==
  ASSUME Kept, OriginGreet
  PROVE  LockstepKept'
<1>1. /\ fate = "live" /\ sent = <<>> /\ UNCHANGED <<st, interest, oout, served, rbuf>>
  BY DEF OriginGreet, OriginSays, sessionVars
<1>2. ~Greeted /\ ~Greeted'
  <2>1. ~Greeted
    <3>1. ~(Len(sent) >= 2)
      BY <1>1
    <3> QED
      BY <1>1, <3>1 DEF Kept, RepliesKept
  <2> QED
    BY <1>1, <2>1 DEF Greeted
<1>3. st \notin {"COMMAND_SWRITE", "RESPONSE_SREAD"}
  BY <1>2 DEF Greeted, Relaying
<1>4. oout = <<>>
  BY <1>1, <1>3 DEF Kept, LockstepKept
<1>5. 1..served = {}
  <2>1. \A n \in 1..served : \E j \in 3..Len(sent) : sent[j].of = n
    BY <1>1 DEF Kept, LockstepKept
  <2>2. 3..Len(sent) = {}
    BY <1>1
  <2> QED
    BY <2>1, <2>2
<1> QED
  BY <1>1, <1>2, <1>3, <1>4, <1>5 DEF LockstepKept

\* A reply is sent while the proxy waits for it, and is all there is to receive.
LEMMA OriginServeLockstep ==
  ASSUME RepliesFit, Kept, CommandsKept', OriginServe
  PROVE  LockstepKept'
<1>1. /\ fate = "live" /\ UNCHANGED <<fate, st, interest, rbuf, cin, issued>> /\ served' = served + 1
      /\ oout # <<>>
  BY DEF OriginServe, OriginSays, sessionVars
<1>2. served \in Nat /\ Len(issued) \in Nat /\ sent \in Seq(ReplyToken) /\ Len(sent) \in Nat
  BY DEF Kept, Typing, StreamsTyped
<1>3. oout' = <<>> /\ rbuf = <<>>
  <2>1. served + 1 = Len(issued)
    BY <1>1 DEF Kept, CommandsKept, OneCommand
  <2>2. served' + 1 # Len(issued')
    BY <1>1, <1>2, <2>1
  <2> QED
    BY <1>1, <2>2 DEF CommandsKept, OneCommand
<1>4. st = "RESPONSE_SREAD" /\ oin = <<>>
  BY <1>1, <1>3 DEF Kept, LockstepKept
<1>5. Len(sent) >= 2
  BY <1>1, <1>4 DEF Kept, RepliesKept, Greeted, Relaying
<1>6. PICK req : \E kinds \in OriginReplies(req) : OriginSays(kinds, served + 1)
  BY DEF OriginServe
<1>7. PICK kinds \in OriginReplies(req) : OriginSays(kinds, served + 1)
  BY <1>6
<1>8. kinds \in Seq(ReplyKinds) /\ Len(kinds) \in 2..BufSize
  <2>1. kinds \in Seq(ReplyKinds)
    BY OriginRepliesKinds
  <2>2. \/ kinds = <<"err", "eol">> \/ kinds = <<"ok", "eol">>
        \/ \E b \in Bodies : kinds = <<"ok", "eol">> \o b \o <<"dot">>
    BY DEF OriginReplies
  <2>3. BufSize \in Nat
    BY BoundsAssumption
  <2>4. CASE kinds = <<"err", "eol">> \/ kinds = <<"ok", "eol">>
    <3>1. Len(kinds) = 2
      BY <2>4, GreetingKinds
    <3> QED
      BY <2>1, <2>3, <3>1 DEF RepliesFit
  <2>5. ASSUME NEW b \in Bodies, kinds = <<"ok", "eol">> \o b \o <<"dot">> PROVE Len(kinds) \in 2..BufSize
    <3>1. b \in Seq(BodyKinds) /\ Len(b) \in Nat
      BY BodiesAssumption
    <3>2. Len(<<"ok", "eol">> \o b \o <<"dot">>) = Len(b) + 3
      <4>1. Len(<<"ok", "eol">> \o b) = 2 + Len(b)
        BY <3>1
      <4> QED
        BY <3>1, <4>1
    <3>3. Len(b) + 3 <= BufSize
      BY DEF RepliesFit
    <3> QED
      BY <2>3, <2>5, <3>1, <3>2, <3>3
  <2> QED
    BY <2>1, <2>2, <2>4, <2>5
<1> DEFINE r == ReplyOf(kinds, served + 1)
<1>9. r \in Seq(ReplyToken) /\ Len(r) \in 2..BufSize /\ r[1].of = served + 1
  <2>1. served + 1 \in Nat
    BY <1>2
  <2>2. /\ r \in Seq(ReplyToken) /\ Len(r) = Len(kinds)
        /\ \A i \in 1..Len(kinds) : r[i].of = served + 1
    BY <1>8, <2>1, ReplyTokens
  <2>3. 1 \in 1..Len(kinds)
    BY <1>8
  <2> QED
    BY <1>8, <2>2, <2>3
<1>10. oin' = oin \o r /\ sent' = sent \o r
  BY <1>7 DEF OriginSays
<1> HIDE DEF r
<1>11. oin' = r
  BY <1>4, <1>9, <1>10, ConcatEmptySeq
<1>12. Len(oin') <= BufSize
  BY <1>9, <1>11, BoundsAssumption
<1>13. ASSUME NEW n \in 1..served' PROVE \E j \in 3..Len(sent') : sent'[j].of = n
  <2>1. CASE n \in 1..served
    <3>1. \E j \in 3..Len(sent) : sent[j].of = n
      BY <1>1, <2>1 DEF Kept, LockstepKept
    <3> QED
      BY <1>9, <1>10, <3>1, RepliesStay DEF Kept
  <2>2. CASE n = served + 1
    <3> DEFINE j == Len(sent) + 1
    <3>1. /\ Len(sent') = Len(sent) + Len(r) /\ Len(r) \in Nat
          /\ \A i \in 1..(Len(sent) + Len(r)) : sent'[i] = IF i <= Len(sent) THEN sent[i] ELSE r[i - Len(sent)]
      BY <1>2, <1>9, <1>10, ConcatProperties
    <3>2. j \in 3..Len(sent') /\ j \in 1..(Len(sent) + Len(r)) /\ ~(j <= Len(sent)) /\ j - Len(sent) = 1
      BY <1>2, <1>5, <1>9, <3>1
    <3>3. sent'[j] = r[1]
      BY <3>1, <3>2
    <3> QED
      BY <1>9, <2>2, <3>2, <3>3
  <2> QED
    BY <1>1, <1>2, <2>1, <2>2
<1> QED
  BY <1>1, <1>3, <1>4, <1>12, <1>13 DEF LockstepKept

LEMMA StepLockstep ==
  ASSUME RepliesFit, "segments" \notin Faults, Kept, Typing', RepliesKept', CommandsKept', [Next]_vars
  PROVE  LockstepKept'
<1>1. CASE missing_handler
  BY <1>1 DEF missing_handler, abort, LockstepKept
<1>2. CASE \/ resolv_connection_blocking \/ ClientSend \/ ClientClose
           \/ OriginAccept \/ OriginRefuse \/ OriginClose \/ UNCHANGED vars
  <2>1. UNCHANGED <<fate, st, interest, rbuf, oin, oout, served, sent>>
    BY <1>2 DEF resolv_connection_blocking, ClientSend, ClientClose, OriginAccept, OriginRefuse,
       OriginClose, OriginConnection, proxyAndOrigin, sessionVars, wires, vars
  <2> QED
    BY <2>1 DEF Kept, LockstepKept, Greeted
<1>3. CASE OriginGreet
  BY <1>3, OriginGreetLockstep
<1>4. CASE OriginServe
  BY <1>4, OriginServeLockstep
<1>5. CASE Selector /\ ~missing_handler
  <2>1. fate = "live"
    BY <1>5 DEF Selector, process_connection, resolv_connection, establ_connection, greeting_sread,
       greeting_cwrite, command_cread, command_swrite, response_sread, dot_data_sread,
       dot_data_cwrite, response_cwrite, write_reply, ReadEvent, WriteEvent
  <2>2. Typing /\ LockstepKept
    BY DEF Kept
  <2> QED
    BY <1>5, <2>1, <2>2, ConnectingLockstep, GreetingReadLockstep, WriteLockstep, CommandReadLockstep,
       CommandWriteLockstep, ReplyReadLockstep DEF Selector
<1> QED
  BY <1>1, <1>2, <1>3, <1>4, <1>5 DEF Next

\* When the client waits for each reply, nothing is filtered, and every reply comes in
\* one piece that fits in write_buffer, commands and replies go in lockstep, with
\* any of the other faults: the next command is read only when every byte of every
\* earlier answer was delivered.
THEOREM SessionLockstep ==
  ASSUME ~Pipelining, \A c \in Commands : c.kw \notin {"RETR", "TOP"},
         "segments" \notin Faults,
         2 <= BufSize, \A b \in Bodies : Len(b) + 3 <= BufSize
  PROVE  Spec => []Lockstep
<1>1. RepliesFit /\ NoMail
  BY DEF RepliesFit, NoMail
<1>2. Init => RepliesKept
  BY DEF Init, RepliesKept, Ungreeted, Greeted, Relaying
<1>3. Init => CommandsKept
  BY InitCommands
<1>4. Init => LockstepKept
  BY DEF Init, LockstepKept, Greeted, Relaying
<1>5. Kept /\ (IInv /\ Typing)' /\ [Next]_vars => Kept'
  <2> SUFFICES ASSUME Kept, IInv', Typing', [Next]_vars PROVE Kept'
    OBVIOUS
  <2>1. RepliesKept'
    BY <1>1, StepReplies DEF Kept
  <2>2. CommandsKept'
    BY StepCommands DEF Kept
  <2>3. LockstepKept'
    BY <1>1, <2>1, <2>2, StepLockstep
  <2> QED
    BY <2>1, <2>2, <2>3 DEF Kept
<1>6. Kept => Lockstep
  <2> SUFFICES ASSUME Kept, fate = "live", st = "COMMAND_CREAD", NEW n \in 1..served
               PROVE  Answered(n)
    BY DEF Lockstep, Kept, LockstepKept, Greeted, Relaying
  <2>1. sent \in Seq(ReplyToken) /\ got \in Seq(ReplyToken) /\ Len(sent) \in Nat /\ Len(got) \in Nat
    BY DEF Kept, Typing, StreamsTyped
  <2>2. Greeted /\ Held = <<>> /\ oin = <<>>
    BY DEF Greeted, Relaying, Held, HeldStates, Kept, LockstepKept
  <2>3. Len(sent) >= 2 /\ got = GREETING_OK \o Drop(sent, 2)
    <3>1. Len(sent) >= 2 /\ got \o <<>> \o <<>> = GREETING_OK \o Drop(sent, 2)
      BY <2>2 DEF Kept, RepliesKept
    <3>2. got \o <<>> = got
      BY <2>1, ConcatEmptySeq
    <3> QED
      BY <3>1, <3>2
  <2>4. Len(got) = Len(sent) /\ \A j \in 3..Len(sent) : got[j] = sent[j]
    <3> DEFINE d == Drop(sent, 2)
    <3>1. GREETING_OK \in Seq(ReplyToken) /\ Len(GREETING_OK) = 2
      <4>1. <<"ok", "eol">> \in Seq(ReplyKinds) /\ Len(<<"ok", "eol">>) = 2 /\ 0 \in Nat
        BY GreetingKinds
      <4> QED
        BY <4>1, ReplyTokens DEF GREETING_OK
    <3>2. 2 \in 0..Len(sent)
      BY <2>1, <2>3
    <3>3. d \in Seq(ReplyToken) /\ Len(d) = Len(sent) - 2 /\ \A i \in 1..(Len(sent) - 2) : d[i] = sent[2 + i]
      BY <2>1, <3>2, Cut
    <3>4. got = GREETING_OK \o d
      BY <2>3
    <3> HIDE DEF d
    <3>5. /\ Len(got) = 2 + Len(d)
          /\ \A i \in 1..(2 + Len(d)) : got[i] = IF i <= 2 THEN GREETING_OK[i] ELSE d[i - 2]
      <4> DEFINE g == GREETING_OK
      <4>1. g \in Seq(ReplyToken) /\ Len(g) = 2 /\ d \in Seq(ReplyToken) /\ got = g \o d
        BY <3>1, <3>3, <3>4
      <4> HIDE DEF g
      <4>2. /\ Len(g \o d) = Len(g) + Len(d)
            /\ \A i \in 1..(Len(g) + Len(d)) : (g \o d)[i] = IF i <= Len(g) THEN g[i] ELSE d[i - Len(g)]
        BY <4>1, ConcatProperties
      <4>3. /\ Len(got) = 2 + Len(d)
            /\ \A i \in 1..(2 + Len(d)) : got[i] = IF i <= 2 THEN g[i] ELSE d[i - 2]
        BY ONLY <4>1, <4>2
      <4> QED
        BY <4>3 DEF g
    <3>6. ASSUME NEW j \in 3..Len(sent) PROVE got[j] = sent[j]
      <4>1. j \in 1..(2 + Len(d)) /\ ~(j <= 2) /\ j - 2 \in 1..(Len(sent) - 2) /\ 2 + (j - 2) = j
        BY <2>1, <3>3
      <4>2. got[j] = d[j - 2] /\ d[j - 2] = sent[2 + (j - 2)]
        BY <3>3, <3>5, <4>1
      <4> QED
        BY <4>1, <4>2
    <3>7. Len(got) = Len(sent)
      BY <2>1, <3>3, <3>5
    <3> QED
      BY <3>6, <3>7
  <2>5. PICK i \in 3..Len(sent) : sent[i].of = n
    BY DEF Kept, LockstepKept
  <2> DEFINE Ahead == {k \in 0..Len(sent) : sent[Len(sent) - k].of = n /\ Len(sent) - k \in 3..Len(sent)}
  <2>6. Len(sent) - i \in Ahead
    BY <2>1, <2>5
  <2>7. PICK k \in Ahead : \A m \in Ahead : k <= m
    <3>1. Ahead \subseteq Nat
      BY <2>1
    <3> HIDE DEF Ahead
    <3>2. Ahead # {}
      BY <2>6
    <3> QED
      BY <3>1, <3>2, LeastNumber
  <2> DEFINE j == Len(sent) - k
  <2>8. j \in 3..Len(sent) /\ sent[j].of = n
    OBVIOUS
  <2>9. ASSUME NEW m \in (j + 1)..Len(sent) PROVE sent[m].of # n
    <3> SUFFICES ASSUME sent[m].of = n PROVE FALSE
      OBVIOUS
    <3>1. m \in 3..Len(sent) /\ Len(sent) - m \in 0..Len(sent) /\ Len(sent) - (Len(sent) - m) = m /\ ~(k <= Len(sent) - m)
      BY <2>1, <2>8
    <3>2. Len(sent) - m \in Ahead
      BY <3>1
    <3> QED
      BY <2>7, <3>1, <3>2
  <2>10. j \in 1..Len(got) /\ got[j] = sent[j] /\ j \in 1..Len(sent)
    BY <2>1, <2>4, <2>8
  <2> HIDE DEF j
  <2> QED
    BY <2>8, <2>9, <2>10 DEF Answered
<1>7. Init => Kept
  BY <1>2, <1>3, <1>4, InitIInv, InitTyping DEF Kept
<1> QED
  BY <1>5, <1>6, <1>7, TypingHolds, PTL DEF Spec

------------------------------------------------------------------------------
(* The session implements Relay.                                             *)

\* What a step may do to the streams the peers see: at most one of these.
Asking  == fate = "live" /\ (\E c \in Commands : issued' = Append(issued, c)) /\ UNCHANGED <<fwd, sent, got, fate>>
Saying  == fate = "live" /\ (OriginGreet \/ OriginServe) /\ UNCHANGED <<issued, fwd, got, fate>>
Telling == fate = "live" /\ (\E x \in Seq(CmdToken) : fwd' = fwd \o x) /\ UNCHANGED <<issued, sent, got, fate>>
Hearing == /\ fate = "live" /\ (\E left \in Leftovers(wbuf) : SendToClient(wbuf, left))
           /\ Greeted /\ Held = wbuf /\ UNCHANGED <<issued, fwd, sent, oin, fate>>
Closing == fate = "live" /\ fate' # "live" /\ UNCHANGED <<issued, fwd, sent, got>>
Unseen  == UNCHANGED <<issued, fwd, sent, got, fate>>

\* A handler that writes to neither peer.
LEMMA SilentHandlers ==
  ASSUME fate = "live", UNCHANGED <<issued, fwd, sent, got>>
  PROVE  Closing \/ Unseen
  BY DEF Closing, Unseen

LEMMA WritesSeen ==
  ASSUME Typing, RepliesKept, fate = "live", greeting_cwrite \/ dot_data_cwrite \/ response_cwrite
  PROVE  Hearing \/ Closing
<1>1. UNCHANGED <<issued, fwd, sent, oin>>
  BY DEF greeting_cwrite, dot_data_cwrite, response_cwrite, write_reply
<1>2. ~transform
  BY DEF RepliesKept
<1>3. Greeted /\ Held = wbuf
  BY DEF greeting_cwrite, dot_data_cwrite, response_cwrite, write_reply, WriteEvent, Greeted, Relaying, Held, HeldStates
<1>4. CASE finished_suscription /\ UNCHANGED got
  BY <1>1, <1>4, FinishedIsDead DEF Closing
<1>5. CASE (\E left \in Leftovers(wbuf) : SendToClient(wbuf, left)) /\ fate' = fate
  BY <1>1, <1>3, <1>5 DEF Hearing
<1>6. \/ finished_suscription /\ UNCHANGED got
      \/ (\E left \in Leftovers(wbuf) : SendToClient(wbuf, left)) /\ fate' = fate
  BY <1>2 DEF greeting_cwrite, dot_data_cwrite, response_cwrite, write_reply, continue
<1> QED
  BY <1>4, <1>5, <1>6

LEMMA CommandSeen ==
  ASSUME Typing, fate = "live", command_swrite
  PROVE  Telling \/ Closing
<1>1. UNCHANGED <<issued, sent, got>>
  BY DEF command_swrite
<1>2. CASE finished_suscription /\ UNCHANGED fwd
  BY <1>1, <1>2, FinishedIsDead DEF Closing
<1>3. ASSUME NEW left \in Leftovers(rbuf), fwd' = fwd \o Take(rbuf, Len(rbuf) - Len(left)), fate' = fate
      PROVE  Telling
  <2>1. rbuf \in Seq(CmdToken)
    BY CommandStreams
  <2>2. Take(rbuf, Len(rbuf) - Len(left)) \in Seq(CmdToken)
    BY <2>1, LeftoversCut
  <2> QED
    BY <1>1, <1>3, <2>2 DEF Telling
<1>4. \/ finished_suscription /\ UNCHANGED fwd
      \/ \E left \in Leftovers(rbuf) : fwd' = fwd \o Take(rbuf, Len(rbuf) - Len(left)) /\ fate' = fate
  BY DEF command_swrite, continue
<1> QED
  BY <1>2, <1>3, <1>4

LEMMA StepSeen ==
  ASSUME Typing, RepliesKept, [Next]_vars
  PROVE  Asking \/ Saying \/ Telling \/ Hearing \/ Closing \/ Unseen
<1>1. CASE UNCHANGED vars
  BY <1>1 DEF vars, wires, Unseen
<1>2. CASE \/ process_connection \/ resolv_connection \/ missing_handler
           \/ \E fd \in Peers : establ_connection(fd) \/ greeting_sread(fd)
           \/ command_cread \/ response_sread \/ dot_data_sread
  <2>1. fate = "live" /\ UNCHANGED <<issued, fwd, sent, got>>
    BY <1>2 DEF process_connection, resolv_connection, missing_handler, establ_connection, greeting_sread,
       command_cread, response_sread, dot_data_sread, ReadEvent, WriteEvent, wires
  <2> QED
    BY <2>1, SilentHandlers
<1>3. CASE greeting_cwrite \/ dot_data_cwrite \/ response_cwrite
  <2>1. fate = "live"
    BY <1>3 DEF greeting_cwrite, dot_data_cwrite, response_cwrite, write_reply, WriteEvent
  <2> QED
    BY <1>3, <2>1, WritesSeen
<1>4. CASE command_swrite
  <2>1. fate = "live"
    BY <1>4 DEF command_swrite, WriteEvent
  <2> QED
    BY <1>4, <2>1, CommandSeen
<1>5. CASE ClientSend
  BY <1>5 DEF ClientSend, proxyAndOrigin, Asking
<1>6. CASE OriginGreet \/ OriginServe
  BY <1>6 DEF OriginGreet, OriginServe, OriginSays, Saying
<1>7. CASE resolv_connection_blocking \/ ClientClose \/ OriginAccept \/ OriginRefuse \/ OriginClose
  BY <1>7 DEF resolv_connection_blocking, ClientClose, OriginAccept, OriginRefuse, OriginClose, OriginConnection,
     proxyAndOrigin, wires, Unseen
<1> QED
  BY <1>1, <1>2, <1>3, <1>4, <1>5, <1>6, <1>7 DEF Next, Selector

\* What begins a concatenation.
LEMMA BeginsConcat ==
  ASSUME NEW S, NEW s \in Seq(S), NEW t \in Seq(S)
  PROVE  Direct!Begins(s, s \o t)
<1>1. Len(s) \in Nat /\ Len(t) \in Nat /\ Len(s \o t) = Len(s) + Len(t)
  OBVIOUS
<1>2. SubSeq(s \o t, 1, Len(s)) = s
  OBVIOUS
<1> QED
  BY <1>1, <1>2 DEF Direct!Begins

\* The origin's greeting is its status and the end of its line.
SentWhole == sent = <<>> \/ Len(sent) >= 2

\* What the origin sends is added to what it sent.
LEMMA OriginAdds ==
  ASSUME Typing, OriginGreet \/ OriginServe
  PROVE  \E r \in Seq(ReplyToken) : sent' = sent \o r /\ (sent = <<>> => Len(r) = 2)
<1>1. CASE OriginGreet
  <2>1. PICK g \in {"ok", "err"} : OriginSays(<<g, "eol">>, 0)
    BY <1>1 DEF OriginGreet
  <2>2. <<g, "eol">> \in Seq(ReplyKinds) /\ Len(<<g, "eol">>) = 2
    BY GreetingKinds
  <2>3. ReplyOf(<<g, "eol">>, 0) \in Seq(ReplyToken) /\ Len(ReplyOf(<<g, "eol">>, 0)) = 2
    BY <2>2, ReplyTokens
  <2> QED
    BY <2>1, <2>3 DEF OriginSays
<1>2. CASE OriginServe
  <2>1. PICK req : \E kinds \in OriginReplies(req) : OriginSays(kinds, served + 1)
    BY <1>2 DEF OriginServe
  <2>2. PICK kinds \in OriginReplies(req) : OriginSays(kinds, served + 1)
    BY <2>1
  <2>3. kinds \in Seq(ReplyKinds) /\ served + 1 \in Nat /\ sent # <<>>
    BY <1>2, OriginRepliesKinds DEF Typing, StreamsTyped, OriginServe
  <2>4. ReplyOf(kinds, served + 1) \in Seq(ReplyToken)
    BY <2>3, ReplyTokens
  <2> QED
    BY <2>2, <2>3, <2>4 DEF OriginSays
<1> QED
  BY <1>1, <1>2

LEMMA SentWholeKept ==
  ASSUME Typing, RepliesKept, SentWhole, [Next]_vars
  PROVE  SentWhole'
<1>1. CASE Saying
  <2>1. PICK r \in Seq(ReplyToken) : sent' = sent \o r /\ (sent = <<>> => Len(r) = 2)
    BY <1>1, OriginAdds DEF Saying
  <2>2. sent \in Seq(ReplyToken) /\ Len(sent) \in Nat /\ Len(r) \in Nat
    BY RelayedTyped
  <2>3. Len(sent') = Len(sent) + Len(r)
    BY <2>1, <2>2, ConcatProperties
  <2>4. sent = <<>> => Len(sent) = 0
    OBVIOUS
  <2> QED
    BY <2>1, <2>2, <2>3, <2>4 DEF SentWhole
<1>2. CASE ~Saying
  <2>1. sent' = sent
    BY <1>2, StepSeen DEF Asking, Telling, Hearing, Closing, Unseen
  <2> QED
    BY <2>1 DEF SentWhole
<1> QED
  BY <1>1, <1>2

Said == GREETING_OK \o Drop(sent, 2)

\* What the origin owes the client grows only at its end: its greeting is left out.
LEMMA SaidGrows ==
  ASSUME Typing, SentWhole, OriginGreet \/ OriginServe
  PROVE  Direct!Begins(Said, Said')
<1>1. PICK r \in Seq(ReplyToken) : sent' = sent \o r /\ (sent = <<>> => Len(r) = 2)
  BY OriginAdds
<1>2. sent \in Seq(ReplyToken) /\ Len(sent) \in Nat /\ GREETING_OK \in Seq(ReplyToken) /\ GREETING_OK' = GREETING_OK
  BY RelayedTyped, GreetingTokens DEF GREETING_OK
<1>3. CASE sent = <<>>
  <2>1. sent' = r /\ Len(r) = 2
    BY <1>1, <1>3, ConcatEmptySeq
  <2>2. Drop(sent, 2) = <<>>
    BY <1>3 DEF Drop
  <2>3. Drop(sent', 2) = <<>>
    BY <2>1 DEF Drop
  <2>4. Said' = Said /\ Said = GREETING_OK \o <<>> /\ <<>> \in Seq(ReplyToken)
    BY <1>2, <2>2, <2>3 DEF Said
  <2>5. Said = GREETING_OK
    BY <1>2, <2>4, ConcatEmptySeq
  <2> QED
    BY <1>2, <2>4, <2>5, BeginsConcat
<1>4. CASE Len(sent) >= 2
  <2>1. 2 \in 0..Len(sent)
    BY <1>2, <1>4
  <2>2. Drop(sent', 2) = Drop(sent, 2) \o r
    BY <1>1, <1>2, <2>1, DropConcat, Zenon
  <2>3. Drop(sent, 2) \in Seq(ReplyToken)
    BY <1>2, <2>1, Cut, Zenon
  <2>4. Said' = Said \o r
    <3>1. GREETING_OK \o (Drop(sent, 2) \o r) = (GREETING_OK \o Drop(sent, 2)) \o r
      BY ONLY <1>1, <1>2, <2>3, ReplyPieces
    <3> QED
      BY <1>2, <2>2, <3>1 DEF Said
  <2>5. Said \in Seq(ReplyToken)
    BY <1>2, <2>3, ConcatProperties DEF Said
  <2> QED
    BY <2>4, <2>5, BeginsConcat
<1> QED
  BY <1>3, <1>4 DEF SentWhole

\* What is known before and after a step.
Relayed == (IInv /\ Typing) /\ RepliesKept /\ CommandsKept /\ SentWhole

\* Every step of the session is one of the relay, or is not seen by the peers.
LEMMA StepIsRelayed ==
  ASSUME Relayed, Relayed', [Next]_vars
  PROVE  [Direct!Next]_<<AllText, fwd, Said, got, fate = "live">>
<1> USE DEF Relayed
<1>1. issued' = issued => AllText' = AllText
  BY AllTextIs
<1>2. sent' = sent => Said' = Said
  BY DEF Said, GREETING_OK
<1>3. /\ fwd \in Seq(CmdToken) /\ rbuf \in Seq(CmdToken) /\ cin \in Seq(CmdToken) /\ issued \in Seq(Commands)
      /\ got \in Seq(ReplyToken) /\ wbuf \in Seq(ReplyToken) /\ oin \in Seq(ReplyToken)
  BY CommandStreams, RelayedTyped
<1>4. (rbuf' \in Seq(CmdToken) /\ cin' \in Seq(CmdToken) /\ fwd' \in Seq(CmdToken))
  BY DEF Typing, BuffersTyped, StreamsTyped
<1>5. CASE Unseen
  BY <1>1, <1>2, <1>5 DEF Unseen
<1>6. CASE Closing
  <2>1. Direct!Close
    BY <1>1, <1>2, <1>6 DEF Closing, Direct!Close, Said
  <2> QED
    BY <2>1 DEF Direct!Next
<1>7. CASE Asking
  <2>1. PICK c \in Commands : issued' = Append(issued, c)
    BY <1>7 DEF Asking
  <2>2. AllText' = AllText \o Text(c, Len(issued) + 1)
    BY <1>3, <2>1, AllTextGrows
  <2>3. AllText \in Seq(CmdToken)
    <3>1. fwd \o rbuf \o cin = AllText
      BY <1>7 DEF CommandsKept, Asking
    <3>2. fwd \o rbuf \in Seq(CmdToken)
      BY <1>3, ConcatProperties
    <3>3. (fwd \o rbuf) \o cin \in Seq(CmdToken)
      BY <1>3, <3>2, ConcatProperties
    <3> QED
      BY <3>1, <3>3
  <2>4. Text(c, Len(issued) + 1) \in Seq(CmdToken)
    BY <1>3, TextTokens
  <2>5. Direct!Begins(AllText, AllText')
    BY <2>2, <2>3, <2>4, BeginsConcat
  <2>6. Direct!Ask
    BY <1>2, <1>7, <2>5 DEF Asking, Direct!Ask, Said
  <2> QED
    BY <2>6 DEF Direct!Next
<1>8. CASE Saying
  <2>1. Direct!Begins(Said, Said')
    BY <1>8, SaidGrows DEF Saying
  <2>2. Direct!Say
    BY <1>1, <1>8, <2>1 DEF Saying, Direct!Say, Said
  <2> QED
    BY <2>2 DEF Direct!Next
<1>9. CASE Telling
  <2>1. PICK x \in Seq(CmdToken) : fwd' = fwd \o x
    BY <1>9 DEF Telling
  <2>2. Direct!Begins(fwd, fwd')
    BY <1>3, <2>1, BeginsConcat
  <2>3. AllText = fwd' \o (rbuf' \o cin')
    <3>1. fwd' \o rbuf' \o cin' = AllText'
      BY <1>9 DEF CommandsKept, Telling
    <3>2. (fwd' \o rbuf') \o cin' = fwd' \o (rbuf' \o cin')
      BY ONLY <1>4, CommandPieces
    <3> QED
      BY <1>1, <1>9, <3>1, <3>2 DEF Telling
  <2>4. rbuf' \o cin' \in Seq(CmdToken)
    BY <1>4, ConcatProperties
  <2>5. Direct!Begins(fwd', AllText)
    BY <1>4, <2>3, <2>4, BeginsConcat
  <2>6. Direct!Tell
    BY <1>1, <1>2, <1>9, <2>2, <2>5 DEF Telling, Direct!Tell, Said
  <2> QED
    BY <2>6 DEF Direct!Next
<1>10. CASE Hearing
  <2>1. PICK left \in Leftovers(wbuf) : SendToClient(wbuf, left)
    BY <1>10 DEF Hearing
  <2> DEFINE out == Take(wbuf, Len(wbuf) - Len(left))
  <2>2. out \in Seq(ReplyToken) /\ left \in Seq(ReplyToken) /\ got' = got \o out
    BY <1>3, <2>1, LeftoversCut DEF SendToClient
  <2>3. Direct!Begins(got, got') /\ got' \in Seq(ReplyToken)
    <3> HIDE DEF out
    <3> QED
      BY <1>3, <2>2, BeginsConcat, ConcatProperties
  <2>4. got' \o left \o oin' = got \o wbuf \o oin
    BY <1>10, <2>1, SentPart DEF Hearing
  <2>5. got \o wbuf \o oin = Said
    BY <1>10 DEF Hearing, RepliesKept, Said
  <2>6. oin' \in Seq(ReplyToken) /\ left \o oin' \in Seq(ReplyToken)
    BY <1>3, <1>10, <2>2, ConcatProperties DEF Hearing
  <2>7. Said = got' \o (left \o oin')
    <3>1. (got' \o left) \o oin' = got' \o (left \o oin')
      BY ONLY <2>2, <2>3, <2>6, ReplyPieces
    <3> QED
      BY <2>4, <2>5, <3>1
  <2>8. Direct!Begins(got', Said)
    BY <2>3, <2>6, <2>7, BeginsConcat
  <2>9. Direct!Hear
    BY <1>1, <1>2, <1>10, <2>3, <2>8 DEF Hearing, Direct!Hear, Said
  <2> QED
    BY <2>9 DEF Direct!Next
<1> QED
  BY <1>5, <1>6, <1>7, <1>8, <1>9, <1>10, StepSeen

LEMMA InitIsRelayed == Init => Relayed /\ Direct!Init
<1> SUFFICES ASSUME Init PROVE Relayed /\ Direct!Init
  OBVIOUS
<1>1. RepliesKept /\ SentWhole
  BY DEF Init, RepliesKept, Ungreeted, Greeted, Relaying, SentWhole
<1>2. IInv /\ Typing /\ CommandsKept
  BY InitTyping, InitCommands, InitIInv
<1>3. AllText = <<>>
  <2>1. fate = "live" /\ fwd = <<>> /\ rbuf = <<>> /\ cin = <<>>
    BY DEF Init
  <2>2. <<>> \o <<>> \o <<>> = <<>>
    OBVIOUS
  <2> QED
    BY <1>2, <2>1, <2>2 DEF CommandsKept
<1>4. Said = GREETING_OK
  <2>1. Drop(sent, 2) = <<>>
    BY DEF Init, Drop
  <2> QED
    BY <2>1, GreetingTokens, ConcatEmptySeq DEF Said
<1>5. Direct!Init
  BY <1>3, <1>4 DEF Init, Direct!Init, Said
<1> QED
  BY <1>1, <1>2, <1>5 DEF Relayed

\* A session whose client waits for each reply and whose commands are not filtered is
\* a relay, whatever the segments, the sizes of the buffers and the faults: the
\* origin is told what the client asked and the client hears the proxy's greeting
\* and what the origin said after its own, each from its start and in order, and
\* neither receives anything once the session has ended.
THEOREM SessionIsRelay ==
  ASSUME ~Pipelining, \A c \in Commands : c.kw \notin {"RETR", "TOP"}
  PROVE  Spec => IsRelay
<1>1. NoMail
  BY DEF NoMail
<1>2. Init => Relayed /\ Direct!Init
  BY InitIsRelayed
<1>3. Relayed /\ (IInv /\ Typing)' /\ [Next]_vars => Relayed'
  BY <1>1, StepReplies, StepCommands, SentWholeKept DEF Relayed
<1>4. Relayed /\ Relayed' /\ [Next]_vars => [Direct!Next]_<<AllText, fwd, Said, got, fate = "live">>
  BY StepIsRelayed
<1>5. Relayed /\ Relayed' /\ [Next]_vars => [Direct!Next]_(Direct!streams)
  BY <1>4 DEF Direct!streams, Said
<1> QED
  BY <1>2, <1>3, <1>5, TypingHolds, PTL DEF Spec, IsRelay, Direct!Spec
==============================================================================

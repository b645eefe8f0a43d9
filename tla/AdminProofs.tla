----------------------------- MODULE AdminProofs -----------------------------
(***************************************************************************)
(* For every set of administration clients, every vocabulary and every     *)
(* line typed in it: the encoder of the client and the decoder of the      *)
(* proxy agree on what a line asks for, the status of the local socket     *)
(* apart, and FILTER_MEDIAS changes only to what a complete ban line says. *)
(***************************************************************************)
EXTENDS Admin, SequenceTheorems, TLAPS

------------------------------------------------------------------------------
(* The inductive invariant.                                                  *)

\* The operation was decoded from a request that encodes the line.
Obeys(op, l) ==
  \E r \in encode_request(l) : \E d \in decode_request(r.byte, r.params) : op = d.op

Typed ==
  /\ console \in [Admins -> {"typing", "waiting", "gone"}]
  /\ DOMAIN line = Admins /\ DOMAIN wire = Admins
  /\ DOMAIN answer = Admins /\ DOMAIN performed = Admins
  /\ DOMAIN conn = Admins /\ conn = [a \in Admins |-> conn[a]]
  /\ line = [a \in Admins |-> line[a]] /\ wire = [a \in Admins |-> wire[a]]
  /\ answer = [a \in Admins |-> answer[a]] /\ performed = [a \in Admins |-> performed[a]]

\* One message at a time: nothing is on its way to or from a client that types, no
\* answer while a request is, no request on a closed connection, and the request
\* is what the encoder made of the line the client typed last.
OneMessage ==
  \A a \in Admins :
    /\ console[a] = "typing" => ~wire[a].full /\ answer[a] = NoAnswer
    /\ wire[a].full =>
         /\ answer[a] = NoAnswer /\ conn[a] = "open"
         /\ line[a] \in Lines[a] /\ wire[a] \in encode_request(line[a])

Obeyed ==
  \A a \in Admins : performed[a] # <<"none">> => line[a] \in Lines[a] /\ Obeys(performed[a], line[a])

IInv == Typed /\ OneMessage /\ Obeyed

------------------------------------------------------------------------------
(* What the two ends make of a line.                                         *)

\* The four words a ban starts with, one by one.
LEMMA FirstFour ==
  ASSUME NEW l \in Seq(Words), Len(l) >= 5, NEW a, NEW b, NEW c, NEW d
  PROVE  SubSeq(l, 1, 4) = <<a, b, c, d>> <=> l[1] = a /\ l[2] = b /\ l[3] = c /\ l[4] = d
<1> DEFINE s == SubSeq(l, 1, 4)  t == <<a, b, c, d>>
<1>1. s \in Seq(Words) /\ Len(s) = 4 /\ \A i \in 1..4 : s[i] = l[i]
  BY SubSeqProperties
<1>2. Len(t) = 4 /\ t[1] = a /\ t[2] = b /\ t[3] = c /\ t[4] = d
  OBVIOUS
<1>3. s[1] = l[1] /\ s[2] = l[2] /\ s[3] = l[3] /\ s[4] = l[4]
  BY <1>1
<1>4. s = [i \in 1..4 |-> s[i]]
  BY <1>1
<1>5. t = [i \in 1..4 |-> t[i]]
  OBVIOUS
<1> HIDE DEF s, t
<1>6. s = t => l[1] = a /\ l[2] = b /\ l[3] = c /\ l[4] = d
  BY <1>2, <1>3
<1>7. ASSUME l[1] = a, l[2] = b, l[3] = c, l[4] = d PROVE s = t
  <2>1. \A i \in 1..4 : s[i] = t[i]
    BY <1>2, <1>3, <1>7
  <2> QED
    BY <1>4, <1>5, <2>1
<1> QED
  BY <1>6, <1>7 DEF s, t

\* A line of the operator.
TypedLine(l) == l \in Seq(Words) /\ l # <<>>

\* The syntax, word by word.
AsksSock(l)    == Len(l) = 3 /\ l[1] = "sock" /\ l[2] = "status" /\ l[3] \in {"origin", "local"}
AsksMod(l)     == /\ Len(l) = 5 /\ l[1] = "sock" /\ l[2] = "mod" 
                  /\ l[3] \in {"origin", "local"} /\ l[4] \in {"port", "address"}
AsksStatus(l)  == Len(l) = 2 /\ l[1] = "trans" /\ l[2] = "status"
AsksReplace(l) == Len(l) >= 5 /\ l[1] = "trans" /\ l[2] = "mod" /\ l[3] = "general" /\ l[4] = "replace"
AsksBan(l)     == Len(l) >= 5 /\ l[1] = "trans" /\ l[2] = "mod" /\ l[3] = "mime" /\ l[4] = "ban"
AsksMetrics(l) == Len(l) = 2 /\ l[1] = "metrics"

LEMMA AskedWords ==
  ASSUME NEW l, TypedLine(l)
  PROVE  Asked(l) = IF AsksSock(l) THEN <<"status", l[3]>>
                    ELSE IF AsksMod(l) THEN <<"mod", l[3], l[4]>>
                    ELSE IF AsksStatus(l) THEN <<"status", "trans">>
                    ELSE IF AsksReplace(l) THEN <<"replace">>
                    ELSE IF AsksBan(l) THEN <<"ban">>
                    ELSE IF AsksMetrics(l) THEN <<"metrics", l[2]>>
                    ELSE <<"unclear">>
<1>1. l \in Seq(Words) /\ Len(l) \in Nat
  BY DEF TypedLine
<1> DEFINE G0 == Len(l) = 3 /\ l[1] = "sock" /\ l[2] = "status" /\ l[3] \in {"origin", "local"}
           G1 == Len(l) = 5 /\ l[1] = "sock" /\ l[2] = "mod" /\ l[3] \in {"origin", "local"}
                 /\ l[4] \in {"port", "address"}
           G2 == l = <<"trans", "status">>
           G3 == Len(l) >= 5 /\ SubSeq(l, 1, 4) = <<"trans", "mod", "general", "replace">>
           G4 == Len(l) >= 5 /\ SubSeq(l, 1, 4) = <<"trans", "mod", "mime", "ban">>
           G5 == Len(l) = 2 /\ l[1] = "metrics"
<1>2. (G0 <=> AsksSock(l)) /\ (G1 <=> AsksMod(l))
  BY DEF AsksSock, AsksMod
<1>3. G2 <=> AsksStatus(l)
  <2>1. G2 => AsksStatus(l)
    BY DEF AsksStatus
  <2>2. ASSUME AsksStatus(l) PROVE G2
    <3>1. l = [i \in 1..2 |-> l[i]]
      BY <1>1, <2>2 DEF AsksStatus
    <3>2. <<"trans", "status">> = [i \in 1..2 |-> <<"trans", "status">>[i]]
      OBVIOUS
    <3>3. \A i \in 1..2 : l[i] = <<"trans", "status">>[i]
      BY <2>2 DEF AsksStatus
    <3> QED
      BY <3>1, <3>2, <3>3
  <2> QED
    BY <2>1, <2>2
<1>4. Len(l) >= 5 => (SubSeq(l, 1, 4) = <<"trans", "mod", "general", "replace">>
                        <=> l[1] = "trans" /\ l[2] = "mod" /\ l[3] = "general" /\ l[4] = "replace")
  BY ONLY <1>1, FirstFour
<1>5. Len(l) >= 5 => (SubSeq(l, 1, 4) = <<"trans", "mod", "mime", "ban">>
                        <=> l[1] = "trans" /\ l[2] = "mod" /\ l[3] = "mime" /\ l[4] = "ban")
  BY ONLY <1>1, FirstFour
<1>6. G3 <=> AsksReplace(l)
  BY <1>4 DEF AsksReplace
<1>7. G4 <=> AsksBan(l)
  BY <1>5 DEF AsksBan
<1>8. G5 <=> AsksMetrics(l)
  BY DEF AsksMetrics
<1>9. Asked(l) = CASE G0 -> <<"status", l[3]>>
                   [] G1 -> <<"mod", l[3], l[4]>>
                   [] G2 -> <<"status", "trans">>
                   [] G3 -> <<"replace">>
                   [] G4 -> <<"ban">>
                   [] G5 -> <<"metrics", l[2]>>
                   [] OTHER -> <<"unclear">>
  BY DEF Asked
<1> HIDE DEF G0, G1, G2, G3, G4, G5
<1>10. /\ AsksSock(l) => ~(AsksMod(l) \/ AsksStatus(l) \/ AsksReplace(l) \/ AsksBan(l) \/ AsksMetrics(l))
       /\ AsksMod(l) => ~(AsksStatus(l) \/ AsksReplace(l) \/ AsksBan(l) \/ AsksMetrics(l))
       /\ AsksStatus(l) => ~(AsksReplace(l) \/ AsksBan(l) \/ AsksMetrics(l))
       /\ AsksReplace(l) => ~(AsksBan(l) \/ AsksMetrics(l))
       /\ AsksBan(l) => ~AsksMetrics(l)
  BY <1>1 DEF AsksSock, AsksMod, AsksStatus, AsksReplace, AsksBan, AsksMetrics
<1> QED
  BY <1>2, <1>3, <1>6, <1>7, <1>8, <1>9, <1>10

\* What is asked and what is done agree.
Agree(l, op) ==
  IF Asked(l) \notin {<<"unclear">>, <<"status", "local">>} THEN op = Asked(l)
  ELSE op[1] \in PrintsOnly

\* Lines on the origin server and the proxy's own sockets.
LEMMA SockLines ==
  ASSUME NEW l, TypedLine(l), Is(l, 1, "sock"),
         NEW r \in encode_request(l), NEW d \in decode_request(r.byte, r.params)
  PROVE  Agree(l, d.op) /\ d.op # <<"ban">>
<1>1. Len(l) \in Nat /\ Len(l) > 1 /\ l[1] = "sock" /\ r \in sock_encoder(l)
  BY DEF TypedLine, Is, encode_request
<1>2. r.byte \in SUBSET {0, 2, 4}
  BY <1>1 DEF sock_encoder, Sends, Invalid
<1>3. d \in sock_decoder(r.byte, r.params)
  <2>1. r.byte \cap {7, 6} = {}
    BY <1>2
  <2> QED
    BY <2>1 DEF decode_request
<1>4. d.op # <<"ban">>
  BY <1>3 DEF sock_decoder, Does
<1>5. CASE Is(l, 2, "status") /\ Len(l) >= 6
  <2>1. r.byte \in {{}, {2}}
    BY <1>1, <1>5 DEF sock_encoder, Sends, Invalid
  <2>2. r.byte \cap {5, 4, 3} = {}
    BY <2>1
  <2>3. d.op[1] = "status"
    BY <1>3, <2>2 DEF sock_decoder, Does
  <2>4. Asked(l) = <<"unclear">>
    <3>1. ~AsksSock(l) /\ ~AsksMod(l)
      <4>1. Len(l) # 3 /\ Len(l) # 5
        <5>1. Len(l) >= 6 /\ Len(l) \in Nat
          BY <1>1, <1>5, Zenon
        <5>2. \A k \in Nat : k >= 6 => k # 3 /\ k # 5
          OBVIOUS
        <5> QED
          BY ONLY <5>1, <5>2
      <4> QED
        BY <4>1 DEF AsksSock, AsksMod
    <3>2. ~AsksStatus(l) /\ ~AsksReplace(l) /\ ~AsksBan(l) /\ ~AsksMetrics(l)
      BY <1>1 DEF AsksStatus, AsksReplace, AsksBan, AsksMetrics
    <3> QED
      BY <3>1, <3>2, AskedWords
  <2> QED
    BY <1>4, <2>3, <2>4 DEF Agree, PrintsOnly
<1>6. CASE ~(Is(l, 2, "status") /\ Len(l) >= 6) /\ Is(l, 2, "mod") /\ Len(l) = 5
  <2> DEFINE place == IF Is(l, 3, "local") THEN {2} ELSE {}
             what  == IF Is(l, 4, "address") THEN {0} ELSE {}
  <2>1. /\ l[3] \in {"origin", "local"} /\ l[4] \in {"port", "address"}
        /\ r.byte = {4} \cup place \cup what
    BY <1>1, <1>6 DEF sock_encoder, Sends, Invalid, Is
  <2>2. Asked(l) = <<"mod", l[3], l[4]>>
    BY <1>1, <1>6, <2>1, AskedWords DEF AsksSock, AsksMod, Is
  <2>3. r.byte \cap {5, 4, 3} = {4} /\ r.byte \cap {5, 4, 3} # {}
    BY <2>1
  <2>4. (2 \in r.byte <=> l[3] = "local") /\ (0 \in r.byte <=> l[4] = "address")
    BY <2>1, <1>6 DEF Is
  <2>5. d.op = <<"mod", l[3], l[4]>>
    BY <1>3, <2>1, <2>3, <2>4 DEF sock_decoder, Does
  <2> QED
    BY <1>4, <2>2, <2>5 DEF Agree, PrintsOnly
<1>7. CASE ~(Is(l, 2, "status") /\ Len(l) >= 6) /\ ~(Is(l, 2, "mod") /\ Len(l) = 5)
  <2>1. r.byte = {}
    BY <1>1, <1>7 DEF sock_encoder, Sends
  <2>2. d.op = <<"status", "origin">>
    BY <1>3, <2>1 DEF sock_decoder, Does
  <2>3. Asked(l) \in {<<"unclear">>, <<"status", "origin">>, <<"status", "local">>}
    BY <1>1, <1>7, AskedWords DEF AsksSock, AsksMod, AsksStatus, AsksReplace, AsksBan, AsksMetrics, Is
  <2> QED
    BY <1>4, <2>2, <2>3 DEF Agree, PrintsOnly
<1> QED
  BY <1>5, <1>6, <1>7

\* Lines on the transformation: of these, and only these, a ban is made, with the
\* words after the fourth.
LEMMA TransLines ==
  ASSUME NEW l, TypedLine(l), Is(l, 1, "trans"),
         NEW r \in encode_request(l), NEW d \in decode_request(r.byte, r.params)
  PROVE  /\ Agree(l, d.op)
         /\ d.op = <<"ban">> => Asked(l) = <<"ban">> /\ r.params = ban_parameters(l)
<1>1. Len(l) \in Nat /\ Len(l) > 1 /\ l[1] = "trans" /\ r \in trans_encoder(l)
  BY DEF TypedLine, Is, encode_request
<1>2. r.byte \in {{6}, {6, 4}, {6, 4, 2}} => d \in trans_decoder(r.byte)
  <2>1. r.byte \in {{6}, {6, 4}, {6, 4, 2}} => r.byte \cap {7, 6} = {6} /\ {6} # {} /\ {6} # {7} /\ {6} # {7, 6}
    OBVIOUS
  <2> QED
    BY <2>1 DEF decode_request
<1>3. {6, 4} # {6} /\ {6, 4, 2} # {6} /\ {6, 4, 2} # {6, 4}
  OBVIOUS
<1>4. ~Is(l, 2, "status")
  BY <1>1 DEF trans_encoder, Invalid
<1>5. CASE Is(l, 2, "mod") /\ Len(l) >= 5 /\ Is(l, 3, "general")
  <2>1. Is(l, 4, "replace") /\ r.byte = {6, 4}
    BY <1>1, <1>4, <1>5 DEF trans_encoder, Sends, Invalid
  <2>2. d.op = <<"replace">>
    BY <1>2, <1>3, <2>1 DEF trans_decoder, Does
  <2>3. Asked(l) \in {<<"replace">>, <<"unclear">>}
    BY <1>1, <1>5, <2>1, AskedWords DEF AsksSock, AsksMod, AsksStatus, AsksReplace, AsksBan, AsksMetrics, Is
  <2> QED
    BY <2>2, <2>3 DEF Agree, PrintsOnly
<1>6. CASE Is(l, 2, "mod") /\ Len(l) >= 5 /\ ~Is(l, 3, "general")
  <2>1. Is(l, 3, "mime") /\ r \in mime_operation(l)
    BY <1>1, <1>4, <1>6 DEF trans_encoder, Invalid
  <2>2. Is(l, 4, "ban") /\ r.byte = {6, 4, 2} /\ r.params = ban_parameters(l)
    BY <2>1 DEF mime_operation, Sends, Invalid
  <2>3. d.op = <<"ban">>
    BY <1>2, <1>3, <2>2 DEF trans_decoder, Does
  <2>4. Asked(l) = <<"ban">>
    BY <1>1, <1>6, <2>1, <2>2, AskedWords DEF AsksSock, AsksMod, AsksStatus, AsksReplace, AsksBan, AsksMetrics, Is
  <2> QED
    BY <2>2, <2>3, <2>4 DEF Agree, PrintsOnly
<1>7. CASE ~(Is(l, 2, "mod") /\ Len(l) >= 5)
  <2>1. r.byte = {6}
    BY <1>1, <1>4, <1>7 DEF trans_encoder, Sends
  <2>2. d.op = <<"status", "trans">>
    BY <1>2, <2>1 DEF trans_decoder, Does
  <2>3. ~AsksSock(l) /\ ~AsksMod(l) /\ ~AsksReplace(l) /\ ~AsksBan(l) /\ ~AsksMetrics(l)
    <3>1. ~AsksSock(l) /\ ~AsksMod(l) /\ ~AsksMetrics(l)
      BY <1>1 DEF AsksSock, AsksMod, AsksMetrics
    <3>2. l[2] = "mod" => ~(Len(l) >= 5)
      BY <1>1, <1>7 DEF Is
    <3>3. ~AsksReplace(l) /\ ~AsksBan(l)
      BY <3>2, Zenon DEF AsksReplace, AsksBan
    <3> QED
      BY <3>1, <3>3
  <2>4. Asked(l) \in {<<"status", "trans">>, <<"unclear">>}
    BY <2>3, AskedWords
  <2> QED
    BY <2>2, <2>4 DEF Agree, PrintsOnly
<1> QED
  BY <1>5, <1>6, <1>7

\* Lines on the metrics.
LEMMA MetricsLines ==
  ASSUME NEW l, TypedLine(l), Is(l, 1, "metrics"),
         NEW r \in encode_request(l), NEW d \in decode_request(r.byte, r.params)
  PROVE  Agree(l, d.op) /\ d.op # <<"ban">>
<1>1. Len(l) \in Nat /\ l[1] = "metrics" /\ r \in metrics_encoder(l)
  BY DEF TypedLine, Is, encode_request
<1>2. /\ Len(l) = 2 /\ l[2] \in {"bytes", "access", "conections"}
      /\ r.byte = IF l[2] = "bytes" THEN {7} ELSE IF l[2] = "access" THEN {7, 4} ELSE {7, 5}
  <2>1. IsLast(l, 2, "bytes") \/ IsLast(l, 2, "access") \/ IsLast(l, 2, "conections")
    BY <1>1 DEF metrics_encoder, Invalid
  <2>2. /\ IsLast(l, 2, "bytes") => r.byte = {7}
        /\ ~IsLast(l, 2, "bytes") /\ IsLast(l, 2, "access") => r.byte = {7, 4}
        /\ ~IsLast(l, 2, "bytes") /\ ~IsLast(l, 2, "access") => r.byte = {7, 5}
    BY <1>1, <2>1 DEF metrics_encoder, Sends
  <2> QED
    BY <1>1, <2>1, <2>2 DEF IsLast
<1>3. /\ r.byte \cap {7, 6} = {7} /\ {7} # {} /\ {7} # {6} /\ {7} # {7, 6}
      /\ {7, 4} # {7} /\ {7, 5} # {7} /\ {7, 4} # {7, 5}
  BY <1>2
<1>4. d \in metrics_decoder(r.byte)
  BY <1>3 DEF decode_request
<1>5. d.op = <<"metrics", l[2]>>
  BY <1>2, <1>3, <1>4 DEF metrics_decoder, Does
<1>6. Asked(l) = <<"metrics", l[2]>>
  BY <1>1, <1>2, AskedWords DEF AsksSock, AsksMod, AsksStatus, AsksReplace, AsksBan, AsksMetrics
<1> QED
  BY <1>5, <1>6 DEF Agree, PrintsOnly

\* Every line that the encoder accepts.
LEMMA LinesAgree ==
  ASSUME NEW l, TypedLine(l),
         NEW r \in encode_request(l), NEW d \in decode_request(r.byte, r.params)
  PROVE  /\ Agree(l, d.op)
         /\ d.op = <<"ban">> => Asked(l) = <<"ban">> /\ r.params = ban_parameters(l)
<1>1. CASE Is(l, 1, "sock")
  BY <1>1, SockLines
<1>2. CASE Is(l, 1, "trans")
  BY <1>2, TransLines
<1>3. CASE Is(l, 1, "metrics")
  BY <1>3, MetricsLines
<1>4. CASE ~Is(l, 1, "sock") /\ ~Is(l, 1, "trans") /\ ~Is(l, 1, "metrics")
  <2>1. Len(l) \in Nat /\ Is(l, 1, "config") /\ r.byte = {7, 6}
    BY <1>4 DEF TypedLine, encode_request, Sends, Invalid
  <2>2. {7, 6} \cap {7, 6} = {7, 6} /\ {7, 6} # {} /\ {7, 6} # {6} /\ {7, 6} # {7}
    OBVIOUS
  <2>3. d.op = <<"config">>
    BY <2>1, <2>2 DEF decode_request, Does
  <2>4. Asked(l) = <<"unclear">>
    BY <2>1, AskedWords DEF AsksSock, AsksMod, AsksStatus, AsksReplace, AsksBan, AsksMetrics, Is
  <2> QED
    BY <2>3, <2>4 DEF Agree, PrintsOnly
<1> QED
  BY <1>1, <1>2, <1>3, <1>4
------------------------------------------------------------------------------
(* The invariant is inductive.                                               *)

LEMMA InitIInv == Init => IInv
  BY DEF Init, IInv, Typed, OneMessage, Obeyed, NoRequest, NoAnswer

\* The operator types a line: nothing of the client's was on its way.
LEMMA TypeStep ==
  ASSUME IInv, NEW a \in Admins, type(a) PROVE IInv'
<1>1. PICK l \in Lines[a] : \E r \in encode_request(l) :
         line' = [line EXCEPT ![a] = l] /\ wire' = [wire EXCEPT ![a] = r]
  BY DEF type
<1>2. PICK r \in encode_request(l) :
         line' = [line EXCEPT ![a] = l] /\ wire' = [wire EXCEPT ![a] = r]
  BY <1>1
<1>3. ~wire[a].full
  BY DEF IInv, OneMessage, type
<1>4. Typed'
  BY <1>2 DEF IInv, Typed, type
<1>5. OneMessage'
  BY <1>2 DEF IInv, Typed, OneMessage, type
<1>6. Obeyed'
  BY <1>2 DEF IInv, Typed, Obeyed, type
<1> QED
  BY <1>4, <1>5, <1>6 DEF IInv

\* The answer arrives: the request was served.
LEMMA HearStep ==
  ASSUME IInv, NEW a \in Admins, hear(a) PROVE IInv'
  BY DEF IInv, Typed, OneMessage, Obeyed, hear

LEMMA LeaveStep ==
  ASSUME IInv, NEW a \in Admins, leave(a) PROVE IInv'
  BY DEF IInv, Typed, OneMessage, Obeyed, leave

\* The proxy dies: its connections are closed and nothing is on its way to it.
LEMMA DieStep ==
  ASSUME IInv, die PROVE IInv'
  BY DEF IInv, Typed, OneMessage, Obeyed, die, NoRequest

\* The proxy serves the request, which the encoder made of the client's line.
LEMMA RequestStep ==
  ASSUME IInv, NEW a \in Admins, request_read(a) PROVE IInv'
<1> DEFINE Serves ==
      /\ wire[a].full
      /\ \E d \in decode_request(wire[a].byte, wire[a].params) :
           performed' = [performed EXCEPT ![a] = d.op] /\ respond(a, d.resp)
      /\ wire' = [wire EXCEPT ![a] = NoRequest]
      /\ UNCHANGED <<console, line, requests>>
<1>1. CASE Serves
  <2>1. PICK d \in decode_request(wire[a].byte, wire[a].params) :
          performed' = [performed EXCEPT ![a] = d.op] /\ respond(a, d.resp)
    BY <1>1
  <2>2. /\ wire[a].full /\ wire' = [wire EXCEPT ![a] = NoRequest]
        /\ UNCHANGED <<console, line, requests>>
    BY <1>1
  <2>3. Typed'
    BY <2>1, <2>2 DEF IInv, Typed, respond
  <2>4. OneMessage'
    BY <2>1, <2>2 DEF IInv, Typed, OneMessage, respond, NoRequest
  <2>5. line[a] \in Lines[a] /\ wire[a] \in encode_request(line[a])
    BY <2>2 DEF IInv, OneMessage
  <2>6. Obeys(d.op, line[a])
    BY <2>5 DEF Obeys
  <2>7. Obeyed'
    BY <2>1, <2>2, <2>5, <2>6 DEF IInv, Typed, Obeyed
  <2> QED
    BY <2>3, <2>4, <2>7 DEF IInv
<1>2. CASE die
  BY <1>2, DieStep
<1>3. CASE ~wire[a].full /\ conn' = [conn EXCEPT ![a] = "closed"]
            /\ UNCHANGED <<console, line, wire, answer, performed>>
  BY <1>3 DEF IInv, Typed, OneMessage, Obeyed
<1> QED
  BY <1>1, <1>2, <1>3 DEF request_read

LEMMA NextIInv == IInv /\ [Next]_vars => IInv'
<1> SUFFICES ASSUME IInv, [Next]_vars PROVE IInv'
  OBVIOUS
<1>1. ASSUME NEW a \in Admins, type(a) \/ hear(a) \/ leave(a) \/ request_read(a) PROVE IInv'
  BY <1>1, TypeStep, HearStep, LeaveStep, RequestStep
<1>2. CASE corrupted
  BY <1>2, DieStep DEF corrupted
<1>3. CASE read_filter \/ UNCHANGED vars
  BY <1>3 DEF read_filter, vars, IInv, Typed, OneMessage, Obeyed
<1> QED
  BY <1>1, <1>2, <1>3 DEF Next

LEMMA IInvHolds == Spec => []IInv
  BY InitIInv, NextIInv, PTL DEF Spec

------------------------------------------------------------------------------
(* The theorems.                                                             *)

\* Whatever the operators type, the operation performed for a line in the syntax
\* is the one it asks for, but for the status of the local socket; that line and
\* those outside the syntax change no address, port or banned type:
\* encode_request and decode_request agree on every byte the client can send.
THEOREM RequestsUnderstood == Spec => []UnderstoodButLocalStatus
<1>1. IInv => UnderstoodButLocalStatus
  <2> SUFFICES ASSUME IInv, NEW a \in Admins, performed[a] # <<"none">>
               PROVE  Agree(line[a], performed[a])
    BY DEF UnderstoodButLocalStatus, Agree
  <2>1. TypedLine(line[a])
    BY LinesAssumption DEF IInv, Obeyed, TypedLine
  <2>2. PICK r \in encode_request(line[a]) :
          \E d \in decode_request(r.byte, r.params) : performed[a] = d.op
    BY DEF IInv, Obeyed, Obeys
  <2> QED
    BY <2>1, <2>2, LinesAgree
<1> QED
  BY <1>1, IInvHolds, PTL

\* The parameters of a ban, and what the overrun may leave of them, list the words
\* of its line.
LEMMA ParametersListed ==
  ASSUME NEW l, TypedLine(l), Len(l) >= 5, NEW m \in environment(<<"ban">>, ban_parameters(l))
  PROVE  Lists(m, l)
<1> DEFINE n == Len(l) - 4  p == ban_parameters(l)
<1>1. n \in Nat /\ n >= 1 /\ Len(l) \in Nat
  BY DEF TypedLine
<1>2. p = [j \in 1..n |-> argv(l, j + 4)] /\ DOMAIN p = 1..n
  BY DEF ban_parameters
<1>3. \A i \in 1..n : /\ p[i].word = l[i + 4]
                      /\ i + 4 < Len(l) => p[i].end = "none"
  BY <1>1, <1>2 DEF argv
<1>4. Len(p) = n
  BY <1>1, <1>2
<1>5. m = p \/ m = Trampled(p)
  BY DEF environment
<1>6. CASE m = p
  BY <1>2, <1>3, <1>6 DEF Lists
<1>7. CASE m = Trampled(p)
  <2>1. m = [p EXCEPT ![n] = [p[n] EXCEPT !.end = "junk"]]
    BY <1>4, <1>7 DEF Trampled
  <2>2. DOMAIN m = 1..n /\ \A i \in 1..n : i # n => m[i] = p[i]
    BY <1>2, <2>1
  <2>3. m[n].word = p[n].word
    <3>1. m[n] = [p[n] EXCEPT !.end = "junk"] /\ p[n] = argv(l, n + 4)
      BY <1>1, <1>2, <2>1
    <3> QED
      BY <3>1 DEF argv
  <2>4. \A i \in 1..n : i + 4 < Len(l) => i # n
    BY <1>1
  <2> QED
    BY <1>3, <2>2, <2>3, <2>4 DEF Lists
<1> QED
  BY <1>5, <1>6, <1>7

\* FILTER_MEDIAS changes only when the proxy serves the request of a complete ban
\* line, and then lists the types of that line, in its order, each but the last
\* exactly as it was typed.
THEOREM BansExact == Spec => BansAreExact
<1> DEFINE Exact == medias' # medias => \E a \in Admins : BanServed(a) /\ Lists(medias', line[a])
<1>1. IInv /\ [Next]_vars => [Exact]_vars
  <2> SUFFICES ASSUME IInv, Next, medias' # medias PROVE Exact
    BY DEF vars
  <2>1. PICK a \in Admins : request_read(a) /\ wire[a].full /\ ~die
    BY DEF Next, type, hear, leave, request_read, corrupted, read_filter, die
  <2>2. PICK d \in decode_request(wire[a].byte, wire[a].params) :
          medias' \in environment(d.op, wire[a].params)
    BY <2>1 DEF request_read
  <2>3. d.op = <<"ban">>
    BY <2>2 DEF environment
  <2>4. /\ line[a] \in Lines[a] /\ wire[a] \in encode_request(line[a])
        /\ console[a] # "typing"
    BY <2>1 DEF IInv, OneMessage
  <2>5. TypedLine(line[a])
    BY <2>4, LinesAssumption DEF TypedLine
  <2>6. Asked(line[a]) = <<"ban">> /\ wire[a].params = ban_parameters(line[a])
    BY <2>3, <2>4, <2>5, LinesAgree
  <2>7. ~wire'[a].full
    BY <2>1 DEF request_read, IInv, Typed, NoRequest
  <2>8. BanServed(a)
    BY <2>1, <2>4, <2>6, <2>7 DEF BanServed
  <2>9. Len(line[a]) >= 5
    BY <2>5, <2>6, AskedWords DEF AsksBan
  <2>10. Lists(medias', line[a])
    BY <2>2, <2>3, <2>5, <2>6, <2>9, ParametersListed
  <2> QED
    BY <2>8, <2>10
<1> QED
  BY <1>1, IInvHolds, PTL DEF Spec, BansAreExact
=============================================================================

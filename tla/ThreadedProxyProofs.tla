-------------------------- MODULE ThreadedProxyProofs --------------------------
(***************************************************************************)
(* Four results about the threads of proxy.c.  For any number of clients   *)
(* and any commands, replies, faults and bounds: the parser they share,    *)
(* which they race for, never mixes up their bytes (OwnBytes), and the     *)
(* NULL one thread makes of curr_parser is only used by another.  For one  *)
(* client that sends keywords of POP3, however its commands are cut: the   *)
(* loops of runSocket end with the lines and listings they read            *)
(* (LoopsInStep), and no keyword is written past the end of cmd.           *)
(***************************************************************************)
EXTENDS ThreadedProxy, FiniteSetTheorems, SequenceTheorems, TLAPS

Symbols    == Keywords \cup Bytes
FromServer == {"pick server", "use server"}
FromClient == {"pick client", "use client"}
Places     == {"off", "server", "client"} \cup FromServer \cup FromClient

------------------------------------------------------------------------------
(* Streams.                                                                  *)

\* A stream cut in two.
LEMMA CutInTwo ==
  ASSUME NEW S, NEW s \in Seq(S), NEW n \in 0..Len(s)
  PROVE  Take(s, n) \in Seq(S) /\ Len(Take(s, n)) = n /\ Drop(s, n) \in Seq(S) /\ Take(s, n) \o Drop(s, n) = s
<1>1. Len(s) \in Nat
  OBVIOUS
<1>2. Take(s, n) \in Seq(S) /\ Len(Take(s, n)) = n
  BY <1>1, SubSeqProperties DEF Take
<1>3. Drop(s, n) \in Seq(S)
  BY <1>1, SubSeqProperties DEF Drop
<1>4. 1 \in 1..Len(s) + 1 /\ n \in (1 - 1)..Len(s) /\ Len(s) \in n..Len(s)
  BY <1>1
<1>5. SubSeq(s, 1, n) \o SubSeq(s, n + 1, Len(s)) = SubSeq(s, 1, Len(s))
  BY <1>4, ConcatAdjacentSubSeq
<1>6. SubSeq(s, 1, Len(s)) = s
  BY SubSeqFull
<1> QED
  BY <1>2, <1>3, <1>5, <1>6 DEF Take, Drop

\* What a read leaves behind its bytes is a sequence, even when the read is longer.
LEMMA RestIsSequence ==
  ASSUME NEW S, NEW s \in Seq(S), NEW n \in Nat
  PROVE  Drop(s, n) \in Seq(S)
<1>1. Len(s) \in Nat
  OBVIOUS
<1>2. CASE n <= Len(s)
  <2>1. n \in 0..Len(s)
    BY <1>1, <1>2
  <2> QED
    BY <2>1, CutInTwo
<1>3. CASE ~(n <= Len(s))
  <2>1. n + 1 \in Int /\ Len(s) \in Int /\ Len(s) < n + 1
    BY <1>1, <1>3
  <2>2. SubSeq(s, n + 1, Len(s)) = <<>>
    BY <2>1, SubSeqEmpty
  <2> QED
    BY <2>2 DEF Drop
<1> QED
  BY <1>2, <1>3

\* The bytes of a read over the start of an old buffer are the bytes of the read.
LEMMA TakeOfOverwritten ==
  ASSUME NEW S, NEW a \in Seq(S), NEW b \in Seq(S)
  PROVE  Take(a \o b, Len(a)) = a
<1>1. Len(a) \in Nat /\ 1 \in 1..Len(a) + 1 /\ Len(a) \in (1 - 1)..Len(a)
  OBVIOUS
<1>2. SubSeq(a \o b, 1, Len(a)) = SubSeq(a, 1, Len(a))
  BY <1>1, SubSeqOfConcat1
<1> QED
  BY <1>2, SubSeqFull DEF Take

\* Streams of symbols may be bracketed in any way.
LEMMA StreamPieces == \A a, b, c \in Seq(Symbols) : (a \o b) \o c = a \o (b \o c)
  BY ConcatAssociative

LEMMA EmptyStream == \A a \in Seq(Symbols) : a \o <<>> = a /\ <<>> \o a = a
  BY ConcatEmptySeq

LEMMA StreamsJoin == \A a, b \in Seq(Symbols) : a \o b \in Seq(Symbols)
  BY ConcatProperties

------------------------------------------------------------------------------
(* The invariant.                                                            *)

StreamsTyped ==
  /\ pc \in [Threads -> Places] /\ buffer \in [Threads -> Seq(Symbols)] /\ bytes \in [Threads -> Nat]
  /\ server_fd \in [Threads -> {"none", "up", "eof"}] /\ ceof \in [Threads -> BOOLEAN]
  /\ cin \in [Threads -> Seq(Symbols)] /\ typed \in [Threads -> Seq(Symbols)] /\ sgot \in [Threads -> Seq(Symbols)]
  /\ sin \in [Threads -> Seq(Symbols)] /\ said \in [Threads -> Seq(Symbols)] /\ cgot \in [Threads -> Seq(Symbols)]

\* The bytes of the last read are in the buffer until they are written.
Segment(t) == pc[t] \in FromServer \cup FromClient => bytes[t] \in 0..Len(buffer[t])

\* Nothing has been said before the thread starts.
Silent(t) ==
  pc[t] = "off" =>
    /\ server_fd[t] = "none"
    /\ cin[t] = <<>> /\ typed[t] = <<>> /\ sgot[t] = <<>>
    /\ sin[t] = <<>> /\ said[t] = <<>> /\ cgot[t] = <<>>

Held(t, at) == IF pc[t] \in at THEN Take(buffer[t], bytes[t]) ELSE <<>>

\* OwnBytes, of one thread.
Own(t) ==
  /\ ~ceof[t] => cgot[t] \o Held(t, FromServer) \o sin[t] = said[t]
  /\ server_fd[t] = "up" => sgot[t] \o Held(t, FromClient) \o cin[t] = typed[t]

Local(t) == Segment(t) /\ Silent(t) /\ Own(t)

\* OwnBytes with what it rests on: what a thread holds for its peer is what its last
\* read returned, which the buffer keeps, and a thread starts with empty streams.
IInv == StreamsTyped /\ \A t \in Threads : Local(t)

\* A step that does not concern the thread.
Apart(t) ==
  /\ pc'[t] = pc[t] /\ buffer'[t] = buffer[t] /\ bytes'[t] = bytes[t]
  /\ server_fd'[t] = server_fd[t] /\ ceof'[t] = ceof[t]
  /\ cin'[t] = cin[t] /\ typed'[t] = typed[t] /\ sgot'[t] = sgot[t]
  /\ sin'[t] = sin[t] /\ said'[t] = said[t] /\ cgot'[t] = cgot[t]

LEMMA ApartKept ==
  ASSUME NEW t \in Threads, Local(t), Apart(t)
  PROVE  Local(t)'
  BY DEF Local, Apart, Segment, Silent, Own, Held

\* A step of one thread, or of its peers, leaves the others apart.
LEMMA OneThread ==
  ASSUME IInv, NEW t \in Threads, StreamsTyped', \A u \in Threads \ {t} : Apart(u), Local(t)'
  PROVE  IInv'
<1>1. ASSUME NEW u \in Threads, u # t PROVE Local(u)'
  <2>1. Local(u) /\ Apart(u)
    BY <1>1 DEF IInv
  <2> QED
    BY <2>1, ApartKept
<1>2. \A u \in Threads : Local(u)'
  BY <1>1
<1> QED
  BY <1>2 DEF IInv

LEMMA HeldTyped ==
  ASSUME IInv, NEW t \in Threads
  PROVE  Held(t, FromServer) \in Seq(Symbols) /\ Held(t, FromClient) \in Seq(Symbols)
<1>1. buffer[t] \in Seq(Symbols) /\ Segment(t)
  BY DEF IInv, StreamsTyped, Local
<1>2. ASSUME pc[t] \in FromServer \cup FromClient PROVE Take(buffer[t], bytes[t]) \in Seq(Symbols)
  <2>1. bytes[t] \in 0..Len(buffer[t])
    BY <1>1, <1>2 DEF Segment
  <2> QED
    BY <1>1, <2>1, CutInTwo
<1>3. <<>> \in Seq(Symbols)
  OBVIOUS
<1> QED
  BY <1>2, <1>3 DEF Held

------------------------------------------------------------------------------
(* Each action keeps it.                                                     *)

LEMMA GreetingTyped == GREETING \in Seq(Symbols)
  BY DEF GREETING, Symbols, Bytes

LEMMA StartKeeps ==
  ASSUME IInv, NEW t \in Threads, start(t)
  PROVE  IInv'
<1>1. StreamsTyped'
  <2>1. pc' \in [Threads -> Places]
    BY DEF IInv, StreamsTyped, start, Places
  <2>2. server_fd' \in [Threads -> {"none", "up", "eof"}]
    BY DEF IInv, StreamsTyped, start
  <2>3. sin' \in [Threads -> Seq(Symbols)] /\ said' \in [Threads -> Seq(Symbols)]
    <3>1. \/ sin' = sin /\ said' = said
          \/ sin' = [sin EXCEPT ![t] = GREETING] /\ said' = [said EXCEPT ![t] = GREETING]
      BY DEF start
    <3> QED
      BY <3>1, GreetingTyped DEF IInv, StreamsTyped
  <2> QED
    BY <2>1, <2>2, <2>3 DEF IInv, StreamsTyped, start
<1>2. \A u \in Threads \ {t} : Apart(u)
  BY DEF IInv, StreamsTyped, start, Apart
<1>3. Local(t)'
  <2>1. pc[t] = "off" /\ Silent(t)
    BY DEF start, Running, IInv, Local
  <2>2. CASE pc' = pc
    <3>1. Apart(t)
      <4>1. UNCHANGED <<server_fd, sin, said>>
        BY <2>1, <2>2 DEF start, IInv, StreamsTyped
      <4> QED
        BY <4>1, <2>2 DEF start, Apart
    <3> QED
      BY <3>1, ApartKept DEF IInv
  <2>3. CASE pc' # pc
    <3>1. pc'[t] = "server"
      BY <2>3 DEF start, IInv, StreamsTyped
    <3>2. \/ server_fd'[t] = "up" /\ sin'[t] = GREETING /\ said'[t] = GREETING
          \/ server_fd'[t] = "none" /\ sin'[t] = <<>> /\ said'[t] = <<>>
      BY <2>1, <2>3 DEF start, IInv, StreamsTyped, Silent
    <3>3. cgot'[t] = <<>> /\ sgot'[t] = <<>> /\ cin'[t] = <<>> /\ typed'[t] = <<>>
      BY <2>1 DEF start, Silent
    <3>4. <<>> \o <<>> \o GREETING = GREETING /\ <<>> \o <<>> \o <<>> = <<>>
      BY GreetingTyped, EmptyStream
    <3> QED
      BY <3>1, <3>2, <3>3, <3>4 DEF Local, Segment, Silent, Own, Held, FromServer, FromClient
  <2> QED
    BY <2>2, <2>3
<1> QED
  BY <1>1, <1>2, <1>3, OneThread

\* Steps within pop3_parser_feed only move the thread between its two halves.
LEMMA FeedKeeps ==
  ASSUME IInv, NEW t \in Threads, pick_parser(t) \/ use_parser(t)
  PROVE  IInv'
<1>1. UNCHANGED <<buffer, bytes, server_fd, ceof, cin, typed, sgot, sin, said, cgot>>
  BY DEF pick_parser, use_parser, peers, locals
<1>2. \/ pc' = pc
      \/ pc[t] \in FromServer /\ \E p \in FromServer : pc' = [pc EXCEPT ![t] = p]
      \/ pc[t] \in FromClient /\ \E p \in FromClient : pc' = [pc EXCEPT ![t] = p]
  <2>1. CASE pick_parser(t)
    BY <2>1 DEF pick_parser, Feeding, FromServer, FromClient, IInv, StreamsTyped
  <2>2. CASE use_parser(t)
    BY <2>2 DEF use_parser, Using, FromServer, FromClient, IInv, StreamsTyped, locals
  <2> QED
    BY <2>1, <2>2
<1>3. StreamsTyped'
  BY <1>1, <1>2 DEF IInv, StreamsTyped, Places
<1>4. \A u \in Threads \ {t} : Apart(u)
  BY <1>1, <1>2 DEF IInv, StreamsTyped, Apart
<1>5. /\ pc[t] \in FromServer <=> pc'[t] \in FromServer
      /\ pc[t] \in FromClient <=> pc'[t] \in FromClient
      /\ pc[t] = "off" <=> pc'[t] = "off"
  BY <1>2 DEF IInv, StreamsTyped, FromServer, FromClient
<1>6. Local(t)'
  BY <1>1, <1>5 DEF IInv, Local, Segment, Silent, Own, Held
<1> QED
  BY <1>3, <1>4, <1>6, OneThread

LEMMA ReadServerKeeps ==
  ASSUME IInv, NEW t \in Threads, read_server(t)
  PROVE  IInv'
<1>1. sin[t] \in Seq(Symbols) /\ buffer[t] \in Seq(Symbols) /\ Len(sin[t]) \in Nat /\ Own(t) /\ pc[t] = "server"
  <2>1. sin[t] \in Seq(Symbols) /\ buffer[t] \in Seq(Symbols)
    BY DEF IInv, StreamsTyped
  <2>2. Own(t) /\ pc[t] = "server"
    BY DEF IInv, Local, read_server, Running
  <2> QED
    BY <2>1, <2>2
<1>2. PICK n \in 1..Len(sin[t]) :
        /\ buffer' = [buffer EXCEPT ![t] = Take(sin[t], n) \o Drop(@, n)]
        /\ bytes' = [bytes EXCEPT ![t] = n] /\ sin' = [sin EXCEPT ![t] = Drop(@, n)]
  <2>1. Len(sin[t]) \in 1..Len(sin[t])
    <3>1. sin[t] # <<>>
      BY DEF read_server
    <3>2. Len(sin[t]) # 0
      BY <1>1, <3>1, EmptySeq
    <3> QED
      BY <1>1, <3>2
  <2> QED
    BY <2>1 DEF read_server
<1>3. pc' = [pc EXCEPT ![t] = "pick server"] /\ UNCHANGED <<server_fd, cin, ceof, typed, sgot, said, cgot>>
  BY DEF read_server
<1> DEFINE a == Take(sin[t], n)
           r == Drop(sin[t], n)
           b == Drop(buffer[t], n)
<1>4. a \in Seq(Symbols) /\ Len(a) = n /\ r \in Seq(Symbols) /\ a \o r = sin[t]
  <2>1. n \in 0..Len(sin[t])
    BY <1>1
  <2> QED
    BY <1>1, <2>1, CutInTwo
<1>5. b \in Seq(Symbols)
  <2>1. n \in Nat
    BY <1>1
  <2> QED
    BY <1>1, <2>1, RestIsSequence
<1>6. buffer'[t] = a \o b /\ bytes'[t] = n /\ sin'[t] = r /\ pc'[t] = "pick server"
  BY <1>2, <1>3 DEF IInv, StreamsTyped
<1>7. \A u \in Threads \ {t} : Apart(u)
  BY <1>2, <1>3 DEF IInv, StreamsTyped, Apart
<1>8. n \in Nat /\ a \o b \in Seq(Symbols)
  BY <1>1, <1>4, <1>5, StreamsJoin
<1>9. StreamsTyped'
  <2>1. buffer' = [buffer EXCEPT ![t] = a \o b] /\ sin' = [sin EXCEPT ![t] = r]
    BY <1>2 DEF IInv, StreamsTyped
  <2> HIDE DEF a, b, r
  <2>2. pc' \in [Threads -> Places]
    BY <1>3 DEF IInv, StreamsTyped, Places, FromServer
  <2>3. buffer' \in [Threads -> Seq(Symbols)] /\ sin' \in [Threads -> Seq(Symbols)]
    BY <1>4, <1>8, <2>1 DEF IInv, StreamsTyped
  <2>4. bytes' \in [Threads -> Nat]
    BY <1>2, <1>8 DEF IInv, StreamsTyped
  <2> QED
    BY <1>3, <2>2, <2>3, <2>4 DEF IInv, StreamsTyped
<1> HIDE DEF a, b, r
<1>10. Take(a \o b, n) = a
  BY <1>4, <1>5, TakeOfOverwritten
<1>11. n \in 0..Len(a \o b)
  <2>1. Len(a \o b) = Len(a) + Len(b) /\ Len(b) \in Nat
    BY <1>4, <1>5, ConcatProperties
  <2> QED
    BY <1>4, <1>8, <2>1
<1>12. Own(t)'
  <2>1. cgot[t] \in Seq(Symbols) /\ sgot[t] \in Seq(Symbols)
    BY DEF IInv, StreamsTyped
  <2>2. Held(t, FromServer) = <<>> /\ Held(t, FromClient) = <<>>
    BY <1>1 DEF Held, FromServer, FromClient
  <2>3. Held(t, FromServer)' = a /\ Held(t, FromClient)' = <<>>
    BY <1>6, <1>10 DEF Held, FromServer, FromClient
  <2>4. cgot[t] \o <<>> = cgot[t] /\ (cgot[t] \o a) \o r = cgot[t] \o sin[t]
    <3>1. (cgot[t] \o a) \o r = cgot[t] \o (a \o r)
      BY <1>4, <2>1, StreamPieces
    <3> QED
      BY ONLY <1>4, <2>1, <3>1, EmptyStream
  <2>5. ASSUME ~ceof'[t] PROVE cgot'[t] \o Held(t, FromServer)' \o sin'[t] = said'[t]
    <3>1. cgot[t] \o <<>> \o sin[t] = said[t]
      BY <1>1, <1>3, <2>2, <2>5 DEF Own
    <3> QED
      BY <1>3, <1>6, <2>3, <2>4, <3>1
  <2>6. ASSUME server_fd'[t] = "up" PROVE sgot'[t] \o Held(t, FromClient)' \o cin'[t] = typed'[t]
    BY <1>1, <1>3, <2>2, <2>3, <2>6 DEF Own
  <2> QED
    BY <2>5, <2>6 DEF Own
<1>13. Local(t)'
  BY <1>6, <1>11, <1>12 DEF Local, Segment, Silent
<1> QED
  BY <1>7, <1>9, <1>13, OneThread

LEMMA ReadClientKeeps ==
  ASSUME IInv, NEW t \in Threads, read_client(t)
  PROVE  IInv'
<1>1. cin[t] \in Seq(Symbols) /\ Len(cin[t]) \in Nat /\ Own(t) /\ pc[t] = "client"
  <2>1. cin[t] \in Seq(Symbols)
    BY DEF IInv, StreamsTyped
  <2>2. Own(t) /\ pc[t] = "client"
    BY DEF IInv, Local, read_client, Running
  <2> QED
    BY <2>1, <2>2
<1>2. PICK n \in 1..Len(cin[t]) :
        /\ buffer' = [buffer EXCEPT ![t] = Take(cin[t], n)]
        /\ bytes' = [bytes EXCEPT ![t] = n] /\ cin' = [cin EXCEPT ![t] = Drop(@, n)]
  BY DEF read_client
<1>3. pc' = [pc EXCEPT ![t] = "pick client"] /\ UNCHANGED <<server_fd, sin, ceof, typed, sgot, said, cgot>>
  BY DEF read_client
<1> DEFINE a == Take(cin[t], n)
           r == Drop(cin[t], n)
<1>4. a \in Seq(Symbols) /\ Len(a) = n /\ r \in Seq(Symbols) /\ a \o r = cin[t] /\ n \in Nat
  <2>1. n \in 0..Len(cin[t]) /\ n \in Nat
    BY <1>1
  <2> QED
    BY <1>1, <2>1, CutInTwo
<1>5. buffer' = [buffer EXCEPT ![t] = a] /\ cin' = [cin EXCEPT ![t] = r]
  BY <1>2 DEF IInv, StreamsTyped
<1> HIDE DEF a, r
<1>6. buffer'[t] = a /\ bytes'[t] = n /\ cin'[t] = r /\ pc'[t] = "pick client"
  BY <1>2, <1>3, <1>5 DEF IInv, StreamsTyped
<1>7. \A u \in Threads \ {t} : Apart(u)
  BY <1>2, <1>3, <1>5 DEF IInv, StreamsTyped, Apart
<1>8. StreamsTyped'
  <2>1. pc' \in [Threads -> Places]
    BY <1>3 DEF IInv, StreamsTyped, Places, FromClient
  <2>2. buffer' \in [Threads -> Seq(Symbols)] /\ cin' \in [Threads -> Seq(Symbols)]
    BY <1>4, <1>5 DEF IInv, StreamsTyped
  <2>3. bytes' \in [Threads -> Nat]
    BY <1>2, <1>4 DEF IInv, StreamsTyped
  <2> QED
    BY <1>3, <2>1, <2>2, <2>3 DEF IInv, StreamsTyped
<1>9. Take(a, n) = a
  BY <1>4, SubSeqFull DEF Take
<1>10. Own(t)'
  <2>1. cgot[t] \in Seq(Symbols) /\ sgot[t] \in Seq(Symbols)
    BY DEF IInv, StreamsTyped
  <2>2. Held(t, FromServer) = <<>> /\ Held(t, FromClient) = <<>>
    BY <1>1 DEF Held, FromServer, FromClient
  <2>3. Held(t, FromClient)' = a /\ Held(t, FromServer)' = <<>>
    BY <1>6, <1>9 DEF Held, FromServer, FromClient
  <2>4. sgot[t] \o <<>> = sgot[t] /\ (sgot[t] \o a) \o r = sgot[t] \o cin[t]
    <3>1. (sgot[t] \o a) \o r = sgot[t] \o (a \o r)
      BY <1>4, <2>1, StreamPieces
    <3> QED
      BY ONLY <1>4, <2>1, <3>1, EmptyStream
  <2>5. ASSUME ~ceof'[t] PROVE cgot'[t] \o Held(t, FromServer)' \o sin'[t] = said'[t]
    BY <1>1, <1>3, <2>2, <2>3, <2>5 DEF Own
  <2>6. ASSUME server_fd'[t] = "up" PROVE sgot'[t] \o Held(t, FromClient)' \o cin'[t] = typed'[t]
    <3>1. sgot[t] \o <<>> \o cin[t] = typed[t]
      BY <1>1, <1>3, <2>2, <2>6 DEF Own
    <3> QED
      BY <1>3, <1>6, <2>3, <2>4, <3>1
  <2> QED
    BY <2>5, <2>6 DEF Own
<1>11. Local(t)'
  <2>1. n \in 0..Len(a)
    BY <1>4
  <2>2. Segment(t)' /\ Silent(t)'
    BY <1>6, <2>1 DEF Segment, Silent
  <2> QED
    BY <1>10, <2>2 DEF Local
<1> QED
  BY <1>7, <1>8, <1>11, OneThread

\* The end of a turn of either loop: the thread goes on elsewhere, holding nothing,
\* and has delivered what it held, as far as there is someone to take it.
Turned(t) ==
  /\ \E p \in {"server", "client"} : pc' = [pc EXCEPT ![t] = p]
  /\ buffer' = buffer \/ buffer' = [buffer EXCEPT ![t] = <<>>]
  /\ bytes' = bytes \/ bytes' = [bytes EXCEPT ![t] = 0]
  /\ UNCHANGED <<server_fd, ceof, cin, typed, sin, said>>
  /\ \/ cgot' = cgot /\ (ceof[t] \/ pc[t] \notin FromServer)
     \/ cgot' = [cgot EXCEPT ![t] = @ \o Held(t, FromServer)]
  /\ \/ sgot' = sgot /\ (server_fd[t] # "up" \/ pc[t] \notin FromClient)
     \/ sgot' = [sgot EXCEPT ![t] = @ \o Held(t, FromClient)]

LEMMA TurnKeeps ==
  ASSUME IInv, NEW t \in Threads, Turned(t)
  PROVE  IInv'
<1> DEFINE hs == Held(t, FromServer)
           hc == Held(t, FromClient)
<1>1. hs \in Seq(Symbols) /\ hc \in Seq(Symbols)
  BY HeldTyped
<1>2. cgot[t] \in Seq(Symbols) /\ sgot[t] \in Seq(Symbols) /\ cin[t] \in Seq(Symbols) /\ sin[t] \in Seq(Symbols)
  BY DEF IInv, StreamsTyped
<1>3. cgot[t] \o hs \in Seq(Symbols) /\ sgot[t] \o hc \in Seq(Symbols)
  BY <1>1, <1>2, StreamsJoin
<1>4. /\ cgot' = cgot \/ cgot' = [cgot EXCEPT ![t] = cgot[t] \o hs]
      /\ sgot' = sgot \/ sgot' = [sgot EXCEPT ![t] = sgot[t] \o hc]
  BY DEF Turned, IInv, StreamsTyped
<1>5. \A u \in Threads \ {t} : Apart(u)
  BY <1>4 DEF IInv, StreamsTyped, Apart, Turned
<1>6. pc'[t] \in {"server", "client"}
  BY DEF IInv, StreamsTyped, Turned
<1>7. StreamsTyped'
  <2>1. pc' \in [Threads -> Places]
    BY DEF IInv, StreamsTyped, Turned, Places
  <2>2. buffer' \in [Threads -> Seq(Symbols)]
    <3>1. <<>> \in Seq(Symbols)
      OBVIOUS
    <3> QED
      BY <3>1 DEF IInv, StreamsTyped, Turned
  <2>3. bytes' \in [Threads -> Nat]
    <3>1. bytes' = bytes \/ bytes' = [bytes EXCEPT ![t] = 0]
      BY DEF Turned
    <3>2. bytes \in [Threads -> Nat] /\ 0 \in Nat
      BY DEF IInv, StreamsTyped
    <3> QED
      BY ONLY <3>1, <3>2
  <2>4. cgot' \in [Threads -> Seq(Symbols)] /\ sgot' \in [Threads -> Seq(Symbols)]
    <3> HIDE DEF hs, hc
    <3> QED
      BY <1>3, <1>4 DEF IInv, StreamsTyped
  <2> QED
    BY <2>1, <2>2, <2>3, <2>4 DEF IInv, StreamsTyped, Turned
<1>8. Own(t)'
  <2>1. Held(t, FromServer)' = <<>> /\ Held(t, FromClient)' = <<>>
    BY <1>6 DEF Held, FromServer, FromClient
  <2>2. Own(t)
    BY DEF IInv, Local
  <2>3. ASSUME ~ceof'[t] PROVE cgot'[t] \o <<>> \o sin'[t] = said'[t]
    <3>1. cgot[t] \o hs \o sin[t] = said[t] /\ sin'[t] = sin[t] /\ said'[t] = said[t]
      BY <2>2, <2>3 DEF Own, Turned
    <3>2. cgot'[t] = cgot[t] \o hs
      <4>1. CASE cgot' = cgot /\ (ceof[t] \/ pc[t] \notin FromServer)
        <5>1. hs = <<>>
          BY <2>3, <4>1 DEF Turned, Held
        <5> QED
          BY <1>2, <4>1, <5>1, EmptyStream
      <4>2. CASE cgot' = [cgot EXCEPT ![t] = @ \o hs]
        BY <4>2 DEF IInv, StreamsTyped
      <4> QED
        BY <4>1, <4>2 DEF Turned
    <3> HIDE DEF hs
    <3>3. cgot'[t] \o <<>> = cgot'[t]
      BY <1>3, <3>2, EmptyStream
    <3> QED
      BY <3>1, <3>2, <3>3
  <2>4. ASSUME server_fd'[t] = "up" PROVE sgot'[t] \o <<>> \o cin'[t] = typed'[t]
    <3>1. sgot[t] \o hc \o cin[t] = typed[t] /\ cin'[t] = cin[t] /\ typed'[t] = typed[t]
      BY <2>2, <2>4 DEF Own, Turned
    <3>2. sgot'[t] = sgot[t] \o hc
      <4>1. CASE sgot' = sgot /\ (server_fd[t] # "up" \/ pc[t] \notin FromClient)
        <5>1. hc = <<>>
          BY <2>4, <4>1 DEF Turned, Held
        <5> QED
          BY <1>2, <4>1, <5>1, EmptyStream
      <4>2. CASE sgot' = [sgot EXCEPT ![t] = @ \o hc]
        BY <4>2 DEF IInv, StreamsTyped
      <4> QED
        BY <4>1, <4>2 DEF Turned
    <3> HIDE DEF hc
    <3>3. sgot'[t] \o <<>> = sgot'[t]
      BY <1>3, <3>2, EmptyStream
    <3> QED
      BY <3>1, <3>2, <3>3
  <2> QED
    BY <2>1, <2>3, <2>4 DEF Own
<1>9. Local(t)'
  BY <1>6, <1>8 DEF Local, Segment, Silent, FromServer, FromClient
<1> QED
  BY <1>5, <1>7, <1>9, OneThread

LEMMA LoopsTurn ==
  ASSUME IInv, NEW t \in Threads,
         read_server_fails(t) \/ write_client(t) \/ read_client_fails(t) \/ write_server(t)
  PROVE  Turned(t)
<1>1. CASE read_server_fails(t)
  <2>1. pc[t] = "server" /\ server_again(t)
    BY <1>1 DEF read_server_fails, Running
  <2>2. pc[t] \notin FromServer /\ pc[t] \notin FromClient
    BY <2>1 DEF FromServer, FromClient
  <2> QED
    BY <1>1, <2>1, <2>2 DEF read_server_fails, server_again, pop3_parser_reset, Turned, peers, globals
<1>2. CASE write_client(t)
  <2>1. pc[t] = "pick server" /\ server_again(t)
    BY <1>2 DEF write_client, Running
  <2>2. pc[t] \in FromServer /\ pc[t] \notin FromClient
    BY <2>1 DEF FromServer, FromClient
  <2>3. Held(t, FromServer) = outgoing(t)
    BY <2>2 DEF Held, outgoing
  <2> QED
    BY <1>2, <2>1, <2>2, <2>3 DEF write_client, server_again, pop3_parser_reset, Turned, globals
<1>3. CASE read_client_fails(t)
  <2>1. pc[t] = "client" /\ client_again(t)
    BY <1>3 DEF read_client_fails, Running
  <2>2. pc[t] \notin FromServer /\ pc[t] \notin FromClient
    BY <2>1 DEF FromServer, FromClient
  <2> QED
    BY <1>3, <2>1, <2>2 DEF read_client_fails, client_again, Turned, peers
<1>4. CASE write_server(t)
  <2>1. pc[t] = "pick client" /\ client_again(t)
    BY <1>4 DEF write_server, Running
  <2>2. pc[t] \in FromClient /\ pc[t] \notin FromServer
    BY <2>1 DEF FromServer, FromClient
  <2>3. Held(t, FromClient) = outgoing(t)
    BY <2>2 DEF Held, outgoing
  <2> QED
    BY <1>4, <2>1, <2>2, <2>3 DEF write_server, client_again, Turned
<1> QED
  BY <1>1, <1>2, <1>3, <1>4

\* What a peer sends is added to what it has sent and to what is to be read.
LEMMA ClientSendsKeeps ==
  ASSUME IInv, NEW t \in Threads, client_sends(t)
  PROVE  IInv'
<1>1. PICK c \in Commands : cin' = [cin EXCEPT ![t] = @ \o c] /\ typed' = [typed EXCEPT ![t] = @ \o c]
  BY DEF client_sends
<1>2. /\ pc[t] # "off"
      /\ UNCHANGED <<pc, buffer, bytes, server_fd, ceof, sin, sgot, said, cgot>>
  BY DEF client_sends, locals
<1>3. c \in Seq(Symbols)
  BY ThreadInputsAssumption DEF Symbols
<1>4. cin[t] \in Seq(Symbols) /\ typed[t] \in Seq(Symbols) /\ sgot[t] \in Seq(Symbols)
  BY DEF IInv, StreamsTyped
<1>5. cin[t] \o c \in Seq(Symbols) /\ typed[t] \o c \in Seq(Symbols)
  BY <1>3, <1>4, StreamsJoin
<1>6. cin' = [cin EXCEPT ![t] = cin[t] \o c] /\ typed' = [typed EXCEPT ![t] = typed[t] \o c]
  BY <1>1 DEF IInv, StreamsTyped
<1>7. StreamsTyped'
  BY <1>2, <1>5, <1>6 DEF IInv, StreamsTyped
<1>8. \A u \in Threads \ {t} : Apart(u)
  BY <1>2, <1>6 DEF IInv, StreamsTyped, Apart
<1>9. cin'[t] = cin[t] \o c /\ typed'[t] = typed[t] \o c
  BY <1>6 DEF IInv, StreamsTyped
<1>10. Own(t)'
  <2> DEFINE h == Held(t, FromClient)
  <2>1. h \in Seq(Symbols)
    BY HeldTyped
  <2>2. h' = h /\ Held(t, FromServer)' = Held(t, FromServer)
    BY <1>2 DEF Held
  <2>3. Own(t)
    BY DEF IInv, Local
  <2>4. ~ceof'[t] => cgot'[t] \o Held(t, FromServer)' \o sin'[t] = said'[t]
    BY <1>2, <2>2, <2>3 DEF Own
  <2>5. ASSUME server_fd'[t] = "up" PROVE sgot'[t] \o h' \o cin'[t] = typed'[t]
    <3>1. sgot[t] \o h \o cin[t] = typed[t]
      BY <1>2, <2>3, <2>5 DEF Own
    <3> HIDE DEF h
    <3>2. sgot[t] \o h \in Seq(Symbols)
      BY <1>4, <2>1, StreamsJoin
    <3>3. ((sgot[t] \o h) \o cin[t]) \o c = (sgot[t] \o h) \o (cin[t] \o c)
      BY <1>3, <1>4, <3>2, StreamPieces
    <3> QED
      BY <1>2, <1>9, <2>2, <3>1, <3>3
  <2> QED
    BY <2>4, <2>5 DEF Own
<1>11. Local(t)'
  BY <1>2, <1>10 DEF IInv, Local, Segment, Silent
<1> QED
  BY <1>7, <1>8, <1>11, OneThread

LEMMA RepliesTyped ==
  ASSUME NEW c, NEW r \in Replies(c)
  PROVE  r \in Seq(Symbols)
<1>1. /\ <<"plus", "cr", "lf">> \in Seq(Symbols) /\ <<"minus", "cr", "lf">> \in Seq(Symbols)
      /\ <<"dot", "cr", "lf">> \in Seq(Symbols)
  BY DEF Symbols, Bytes
<1>2. ASSUME NEW b \in Bodies PROVE <<"plus", "cr", "lf">> \o b \o <<"dot", "cr", "lf">> \in Seq(Symbols)
  <2>1. b \in Seq(Symbols)
    BY ThreadInputsAssumption DEF Symbols
  <2>2. <<"plus", "cr", "lf">> \o b \in Seq(Symbols)
    BY <1>1, <2>1, StreamsJoin
  <2> QED
    BY <1>1, <2>2, StreamsJoin
<1>3. \/ r \in {<<"plus", "cr", "lf">>, <<"minus", "cr", "lf">>}
      \/ \E b \in Bodies : r = <<"plus", "cr", "lf">> \o b \o <<"dot", "cr", "lf">>
  BY Zenon DEF Replies
<1> QED
  BY <1>1, <1>2, <1>3

LEMMA OriginServesKeeps ==
  ASSUME IInv, NEW t \in Threads, origin_serves(t)
  PROVE  IInv'
<1>1. PICK r \in Replies(Line(sgot[t], answered[t] + 1)) :
        sin' = [sin EXCEPT ![t] = @ \o r] /\ said' = [said EXCEPT ![t] = @ \o r]
  BY DEF origin_serves
<1>2. /\ server_fd[t] = "up"
      /\ UNCHANGED <<pc, buffer, bytes, server_fd, ceof, cin, typed, sgot, cgot>>
  BY DEF origin_serves, locals
<1>3. r \in Seq(Symbols)
  BY RepliesTyped
<1>4. sin[t] \in Seq(Symbols) /\ said[t] \in Seq(Symbols) /\ cgot[t] \in Seq(Symbols)
  BY DEF IInv, StreamsTyped
<1>5. sin[t] \o r \in Seq(Symbols) /\ said[t] \o r \in Seq(Symbols)
  BY <1>3, <1>4, StreamsJoin
<1>6. sin' = [sin EXCEPT ![t] = sin[t] \o r] /\ said' = [said EXCEPT ![t] = said[t] \o r]
  BY <1>1 DEF IInv, StreamsTyped
<1>7. StreamsTyped'
  BY <1>2, <1>5, <1>6 DEF IInv, StreamsTyped
<1>8. \A u \in Threads \ {t} : Apart(u)
  BY <1>2, <1>6 DEF IInv, StreamsTyped, Apart
<1>9. sin'[t] = sin[t] \o r /\ said'[t] = said[t] \o r
  BY <1>6 DEF IInv, StreamsTyped
<1>10. Own(t)'
  <2> DEFINE h == Held(t, FromServer)
  <2>1. h \in Seq(Symbols)
    BY HeldTyped
  <2>2. h' = h /\ Held(t, FromClient)' = Held(t, FromClient)
    BY <1>2 DEF Held
  <2>3. Own(t)
    BY DEF IInv, Local
  <2>4. server_fd'[t] = "up" => sgot'[t] \o Held(t, FromClient)' \o cin'[t] = typed'[t]
    BY <1>2, <2>2, <2>3 DEF Own
  <2>5. ASSUME ~ceof'[t] PROVE cgot'[t] \o h' \o sin'[t] = said'[t]
    <3>1. cgot[t] \o h \o sin[t] = said[t]
      BY <1>2, <2>3, <2>5 DEF Own
    <3> HIDE DEF h
    <3>2. cgot[t] \o h \in Seq(Symbols)
      BY <1>4, <2>1, StreamsJoin
    <3>3. ((cgot[t] \o h) \o sin[t]) \o r = (cgot[t] \o h) \o (sin[t] \o r)
      BY <1>3, <1>4, <3>2, StreamPieces
    <3> QED
      BY <1>2, <1>9, <2>2, <3>1, <3>3
  <2> QED
    BY <2>4, <2>5 DEF Own
<1>11. Local(t)'
  <2>1. pc[t] # "off"
    BY <1>2 DEF IInv, Local, Silent
  <2> QED
    BY <1>2, <1>10, <2>1 DEF IInv, Local, Segment, Silent
<1> QED
  BY <1>7, <1>8, <1>11, OneThread

LEMMA ClosesKeep ==
  ASSUME IInv, NEW t \in Threads, client_closes(t) \/ origin_closes(t)
  PROVE  IInv'
<1>1. UNCHANGED <<pc, buffer, bytes, cin, typed, sgot, sin, said, cgot>>
  BY DEF client_closes, origin_closes, locals
<1>2. \/ ceof' = [ceof EXCEPT ![t] = TRUE] /\ server_fd' = server_fd /\ pc[t] # "off"
      \/ ceof' = ceof /\ server_fd' = [server_fd EXCEPT ![t] = "eof"] /\ server_fd[t] = "up"
  BY DEF client_closes, origin_closes
<1>3. StreamsTyped'
  <2>1. ceof' \in [Threads -> BOOLEAN]
    BY <1>2, Zenon DEF IInv, StreamsTyped
  <2>2. server_fd' \in [Threads -> {"none", "up", "eof"}]
    BY <1>2 DEF IInv, StreamsTyped
  <2> QED
    BY <1>1, <2>1, <2>2 DEF IInv, StreamsTyped
<1>4. \A u \in Threads \ {t} : Apart(u)
  <2>1. \A u \in Threads \ {t} : ceof'[u] = ceof[u] /\ server_fd'[u] = server_fd[u]
    BY <1>2 DEF IInv, StreamsTyped
  <2> QED
    BY <1>1, <2>1 DEF Apart
<1>5. Local(t)'
  <2>1. pc[t] # "off"
    BY <1>2 DEF IInv, Local, Silent
  <2>2. (~ceof'[t] => ~ceof[t]) /\ (server_fd'[t] = "up" => server_fd[t] = "up")
    BY <1>2 DEF IInv, StreamsTyped
  <2> QED
    BY <1>1, <2>1, <2>2 DEF IInv, Local, Segment, Silent, Own, Held
<1> QED
  BY <1>3, <1>4, <1>5, OneThread

LEMMA InitIInv == Init => IInv
<1> SUFFICES ASSUME Init PROVE IInv
  OBVIOUS
<1>1. <<>> \in Seq(Symbols)
  OBVIOUS
<1>2. StreamsTyped
  BY <1>1 DEF Init, StreamsTyped, Places
<1>3. ASSUME NEW t \in Threads PROVE Local(t)
  <2>1. <<>> \o <<>> \o <<>> = <<>>
    BY <1>1, EmptyStream
  <2> QED
    BY <2>1 DEF Init, Local, Segment, Silent, Own, Held, FromServer, FromClient
<1> QED
  BY <1>2, <1>3 DEF IInv

LEMMA StepIInv ==
  ASSUME IInv, [Next]_vars
  PROVE  IInv'
<1>1. CASE UNCHANGED vars
  <2>1. StreamsTyped'
    BY <1>1 DEF IInv, StreamsTyped, vars, locals, peers
  <2>2. ASSUME NEW t \in Threads PROVE Local(t)'
    <3>1. Apart(t)
      BY <1>1 DEF Apart, vars, locals, peers
    <3> QED
      BY <3>1, ApartKept DEF IInv
  <2> QED
    BY <2>1, <2>2 DEF IInv
<1>2. CASE Next
  <2>1. PICK t \in Threads :
          \/ start(t) \/ Thread(t)
          \/ client_sends(t) \/ client_closes(t) \/ origin_serves(t) \/ origin_closes(t)
    BY <1>2 DEF Next
  <2>2. CASE start(t)
    BY <2>2, StartKeeps
  <2>3. CASE pick_parser(t) \/ use_parser(t)
    BY <2>3, FeedKeeps
  <2>4. CASE read_server(t)
    BY <2>4, ReadServerKeeps
  <2>5. CASE read_client(t)
    BY <2>5, ReadClientKeeps
  <2>6. CASE read_server_fails(t) \/ write_client(t) \/ read_client_fails(t) \/ write_server(t)
    BY <2>6, LoopsTurn, TurnKeeps
  <2>7. CASE client_sends(t)
    BY <2>7, ClientSendsKeeps
  <2>8. CASE origin_serves(t)
    BY <2>8, OriginServesKeeps
  <2>9. CASE client_closes(t) \/ origin_closes(t)
    BY <2>9, ClosesKeep
  <2> QED
    BY <2>1, <2>2, <2>3, <2>4, <2>5, <2>6, <2>7, <2>8, <2>9 DEF Thread
<1> QED
  BY <1>1, <1>2

\* OwnBytes for any number of clients and any commands, replies and faults: however
\* the threads of proxy.c race for the parser they share, each client and its origin
\* exchange their own bytes, in order.
THEOREM ThreadsKeepOwnBytes == Spec => []OwnBytes
<1>1. IInv => OwnBytes
  BY DEF IInv, Local, Own, Held, OwnBytes, FromServer, FromClient
<1> QED
  BY <1>1, InitIInv, StepIInv, PTL DEF Spec

------------------------------------------------------------------------------
(* Whose NULL it is.                                                         *)

Started == {t \in Threads : pc[t] # "off"}
InUse(t) == pc[t] \in {"use server", "use client"}

\* A thread that has looked at curr_parser finds it there, unless it shares it.
NullInv ==
  /\ pc \in [Threads -> Places]
  /\ event \in [Threads -> Ids \cup {NULL}] /\ curr_parser \in Ids \cup {NULL}
  /\ \A t \in Threads : InUse(t) => curr_parser # NULL \/ Several
  /\ fate = "crashed" => Several

\* There is always an object that nothing points to: one fewer than Ids are pointed to.
LEMMA UnusedExists ==
  ASSUME event \in [Threads -> Ids \cup {NULL}]
  PROVE  Unused \in Ids /\ Unused # NULL
<1> DEFINE E == {event[t] : t \in Threads}
           P == {curr_parser} \cup E
<1>1. IsFiniteSet(E) /\ Cardinality(E) <= Cardinality(Threads)
  <2>1. event \in Surjection(Threads, E)
    BY DEF Surjection
  <2> QED
    BY <2>1, FS_Surjection, ThreadInputsAssumption
<1>2. IsFiniteSet(P) /\ Cardinality(P) <= Cardinality(E) + 1
  <2> HIDE DEF E
  <2>1. P = E \cup {curr_parser}
    OBVIOUS
  <2>2. Cardinality(E) \in Nat
    BY <1>1, FS_CardinalityType
  <2> QED
    BY <1>1, <2>1, <2>2, FS_AddElement
<1>3. Cardinality(Threads) \in Nat /\ Cardinality(E) \in Nat /\ Cardinality(P) \in Nat
  BY <1>1, <1>2, FS_CardinalityType, ThreadInputsAssumption
<1>4. IsFiniteSet(Ids) /\ Cardinality(Ids) = Cardinality(Threads) + 2
  <2>1. 1 \in Int /\ Cardinality(Threads) + 2 \in Int
    BY <1>3
  <2> QED
    BY <1>3, <2>1, FS_Interval DEF Ids
<1> HIDE DEF P, E
<1>5. ~(Ids \subseteq P)
  <2> SUFFICES ASSUME Ids \in SUBSET P PROVE FALSE
    OBVIOUS
  <2>1. Cardinality(Ids) <= Cardinality(P)
    BY <1>2, FS_Subset
  <2> QED
    BY <1>1, <1>2, <1>3, <1>4, <2>1
<1>6. Unused \in Ids
  BY <1>5 DEF Unused, P, E
<1> QED
  BY <1>3, <1>6 DEF Ids, NULL

\* Two threads that have started, wherever they are, are several.
LEMMA TwoOn ==
  ASSUME NEW at, NEW t \in Threads, NEW u \in Threads, t # u, at[t] # "off", at[u] # "off"
  PROVE  Cardinality({v \in Threads : at[v] # "off"}) > 1
<1> DEFINE On == {v \in Threads : at[v] # "off"}
<1>1. IsFiniteSet(On) /\ Cardinality(On) \in Nat
  <2>1. On \in SUBSET Threads
    OBVIOUS
  <2> QED
    BY <2>1, FS_Subset, FS_CardinalityType, ThreadInputsAssumption
<1>2. IsFiniteSet({t}) /\ Cardinality({t}) = 1
  BY FS_Singleton
<1>3. Cardinality({t} \cup {u}) = 2
  BY <1>2, FS_AddElement
<1>4. {t} \cup {u} \in SUBSET On
  OBVIOUS
<1> HIDE DEF On
<1>5. Cardinality({t} \cup {u}) <= Cardinality(On)
  BY <1>1, <1>4, FS_Subset
<1>6. Cardinality(On) > 1
  BY <1>1, <1>3, <1>5
<1> QED
  BY <1>6 DEF On

LEMMA TwoStarted ==
  ASSUME NEW t \in Threads, NEW u \in Threads, t # u, pc[t] # "off", pc[u] # "off"
  PROVE  Several
  BY TwoOn DEF Several

\* A thread never stops, so several stay several.
LEMMA SeveralStay ==
  ASSUME \A t \in Threads : pc[t] # "off" => pc'[t] # "off", Several
  PROVE  Several'
<1>1. Started \in SUBSET Threads /\ Started' \in SUBSET Threads /\ Started \in SUBSET Started'
  BY DEF Started
<1>2. IsFiniteSet(Started) /\ IsFiniteSet(Started')
  BY <1>1, FS_Subset, ThreadInputsAssumption
<1>3. Cardinality(Started) <= Cardinality(Started')
  BY <1>1, <1>2, FS_Subset
<1>4. Cardinality(Started) \in Nat /\ Cardinality(Started') \in Nat
  BY <1>2, FS_CardinalityType
<1> QED
  BY <1>3, <1>4 DEF Several, Started

\* A step of one thread that goes on: the others stay where they are.
LEMMA NullStep ==
  ASSUME NullInv, NEW t \in Threads, NEW p \in Places \ {"off"},
         pc' = [pc EXCEPT ![t] = p],
         event' \in [Threads -> Ids \cup {NULL}], curr_parser' \in Ids \cup {NULL},
         p \in {"use server", "use client"} => curr_parser' # NULL,
         curr_parser' = curr_parser \/ curr_parser' # NULL \/ pc[t] # "off",
         fate' # "crashed"
  PROVE  NullInv'
<1>1. pc' \in [Threads -> Places] /\ pc'[t] = p /\ \A u \in Threads \ {t} : pc'[u] = pc[u]
  BY DEF NullInv
<1>2. Several => Several'
  <2>1. \A u \in Threads : pc[u] # "off" => pc'[u] # "off"
    BY <1>1
  <2> QED
    BY <2>1, SeveralStay
<1>3. ASSUME NEW u \in Threads, InUse(u)' PROVE curr_parser' # NULL \/ Several'
  <2>1. CASE u = t
    BY <1>1, <1>3, <2>1 DEF InUse
  <2>2. CASE u # t
    <3>1. InUse(u) /\ pc[u] # "off"
      BY <1>1, <1>3, <2>2 DEF InUse
    <3>2. curr_parser # NULL \/ Several
      BY <3>1 DEF NullInv
    <3>3. CASE pc[t] # "off"
      <4>1. Several
        BY <2>2, <3>1, <3>3, TwoStarted
      <4> QED
        BY <1>2, <4>1
    <3>4. CASE pc[t] = "off"
      BY <1>2, <3>2, <3>4
    <3> QED
      BY <3>3, <3>4
  <2> QED
    BY <2>1, <2>2
<1> QED
  BY <1>1, <1>3 DEF NullInv

\* A step that leaves the threads and the parser where they are.
LEMMA NullStill ==
  ASSUME NullInv, UNCHANGED <<pc, event, curr_parser>>, fate' = "crashed" => fate = "crashed" \/ Several
  PROVE  NullInv'
<1>1. Several' <=> Several
  BY DEF Several
<1>2. \A t \in Threads : InUse(t)' <=> InUse(t)
  BY DEF InUse
<1> QED
  BY <1>1, <1>2 DEF NullInv

LEMMA ThreadNull ==
  ASSUME NullInv, NEW t \in Threads, Thread(t)
  PROVE  NullInv'
<1>1. event \in [Threads -> Ids \cup {NULL}] /\ curr_parser \in Ids \cup {NULL} /\ pc \in [Threads -> Places]
  BY DEF NullInv
<1>2. \A p \in {"server", "client"} : p \in Places \ {"off"} /\ p \notin {"use server", "use client"}
  BY DEF Places
<1>3. \A p \in {"pick server", "pick client"} : p \in Places \ {"off"} /\ p \notin {"use server", "use client"}
  BY DEF Places, FromServer, FromClient
<1>4. CASE pick_parser(t)
  <2>1. pc[t] # "off" /\ fate' # "crashed" /\ event' = event
    BY <1>4 DEF pick_parser, Feeding
  <2>2. PICK p \in {"use server", "use client"} : pc' = [pc EXCEPT ![t] = p]
    BY <1>4 DEF pick_parser
  <2>3. p \in Places \ {"off"}
    BY DEF Places, FromServer, FromClient
  <2>4. curr_parser' # NULL /\ curr_parser' \in Ids \cup {NULL}
    BY <1>1, <1>4, UnusedExists DEF pick_parser, no_parser
  <2> QED
    BY <1>1, <2>1, <2>2, <2>3, <2>4, NullStep
<1>5. CASE use_parser(t)
  <2>1. Using(t) /\ InUse(t)
    BY <1>5 DEF use_parser, Using, InUse
  <2>2. CASE UNCHANGED <<globals, locals>>
    <3>1. CASE curr_parser = NULL
      <4>1. Several
        BY <2>1, <3>1 DEF NullInv
      <4> QED
        BY <2>2, <4>1, NullStill DEF globals, locals
    <3>2. CASE curr_parser # NULL
      <4>1. fate' # "crashed"
        BY <1>5, <2>1, <3>2 DEF use_parser, Using
      <4> QED
        BY <2>2, <4>1, NullStill DEF globals, locals
    <3> QED
      BY <3>1, <3>2
  <2>3. CASE ~(UNCHANGED <<globals, locals>>)
    <3>1. /\ curr_parser # NULL
          /\ event' = [event EXCEPT ![t] = curr_parser]
          /\ pc' = [pc EXCEPT ![t] = IF @ = "use server" THEN "pick server" ELSE "pick client"]
          /\ fate' = fate
      BY <1>5, <2>3 DEF use_parser
    <3>2. PICK p \in {"pick server", "pick client"} : pc' = [pc EXCEPT ![t] = p]
      BY <3>1
    <3>3. fate' # "crashed" /\ pc[t] # "off"
      BY <2>1, <3>1 DEF Using
    <3>4. event' \in [Threads -> Ids \cup {NULL}]
      BY <1>1, <3>1
    <3>5. curr_parser' \in {NULL, Unused, curr_parser}
      BY <1>5, <2>3 DEF use_parser
    <3>6. curr_parser' \in Ids \cup {NULL}
      BY <1>1, <3>5, UnusedExists
    <3> QED
      BY <1>3, <3>2, <3>3, <3>4, <3>6, NullStep
  <2> QED
    BY <2>2, <2>3
<1>6. CASE read_server(t) \/ read_client(t)
  <2>1. PICK p \in {"pick server", "pick client"} : pc' = [pc EXCEPT ![t] = p]
    BY <1>6 DEF read_server, read_client
  <2>2. pc[t] # "off" /\ fate' # "crashed" /\ event' = event /\ curr_parser' = curr_parser
    BY <1>6 DEF read_server, read_client, Running, globals
  <2> QED
    BY <1>1, <1>3, <2>1, <2>2, NullStep
<1>7. CASE read_server_fails(t) \/ write_client(t) \/ read_client_fails(t) \/ write_server(t)
  <2>1. PICK p \in {"server", "client"} : pc' = [pc EXCEPT ![t] = p]
    BY <1>7 DEF read_server_fails, write_client, read_client_fails, write_server, server_again, client_again
  <2>2. pc[t] # "off" /\ fate' # "crashed" /\ event' = event
    BY <1>7 DEF read_server_fails, write_client, read_client_fails, write_server, Running
  <2>3. curr_parser' = NULL \/ curr_parser' = curr_parser
    BY <1>7 DEF read_server_fails, write_client, read_client_fails, write_server,
                server_again, client_again, pop3_parser_reset, globals
  <2>4. curr_parser' \in Ids \cup {NULL}
    BY <1>1, <2>3
  <2> QED
    BY <1>1, <1>2, <2>1, <2>2, <2>4, NullStep
<1> QED
  BY <1>4, <1>5, <1>6, <1>7 DEF Thread

LEMMA PeersNull ==
  ASSUME NullInv, NEW t \in Threads,
         client_sends(t) \/ client_closes(t) \/ origin_serves(t) \/ origin_closes(t)
  PROVE  NullInv'
<1>1. UNCHANGED <<pc, event, curr_parser, fate>>
  BY DEF client_sends, client_closes, origin_serves, origin_closes, globals, locals
<1> QED
  BY <1>1, NullStill

LEMMA StartNull ==
  ASSUME NullInv, NEW t \in Threads, start(t)
  PROVE  NullInv'
<1>1. event' = event /\ curr_parser' = curr_parser /\ fate' # "crashed"
  BY DEF start, globals, Running
<1>2. CASE pc' = pc
  BY <1>1, <1>2, NullStill
<1>3. CASE pc' = [pc EXCEPT ![t] = "server"]
  <2>1. "server" \in Places \ {"off"} /\ "server" \notin {"use server", "use client"}
    BY DEF Places
  <2>2. event' \in [Threads -> Ids \cup {NULL}] /\ curr_parser' \in Ids \cup {NULL}
    BY <1>1 DEF NullInv
  <2> QED
    BY <1>1, <1>3, <2>1, <2>2, NullStep
<1> QED
  BY <1>2, <1>3 DEF start

LEMMA InitNull == Init => NullInv
<1> SUFFICES ASSUME Init PROVE NullInv
  OBVIOUS
<1>1. pc \in [Threads -> Places] /\ \A t \in Threads : ~InUse(t)
  BY DEF Init, Places, InUse
<1>2. event \in [Threads -> Ids \cup {NULL}] /\ curr_parser \in Ids \cup {NULL} /\ fate # "crashed"
  BY DEF Init
<1> QED
  BY <1>1, <1>2 DEF NullInv

LEMMA StepNull ==
  ASSUME NullInv, [Next]_vars
  PROVE  NullInv'
<1>1. CASE UNCHANGED vars
  BY <1>1, NullStill DEF vars, globals, locals
<1>2. CASE Next
  <2>1. PICK t \in Threads :
          \/ start(t) \/ Thread(t)
          \/ client_sends(t) \/ client_closes(t) \/ origin_serves(t) \/ origin_closes(t)
    BY <1>2 DEF Next
  <2> QED
    BY <2>1, StartNull, ThreadNull, PeersNull
<1> QED
  BY <1>1, <1>2

\* NullOnlyTogether for any number of clients and any commands, replies and faults:
\* with one client, nothing a peer does and no cut of a read makes pop3_parser_feed
\* use a parser that is not there; the race of two threads is the only way to it.
THEOREM ThreadsCrashTogether == Spec => []NullOnlyTogether
<1>1. NullInv => NullOnlyTogether
  BY DEF NullInv, NullOnlyTogether
<1> QED
  BY <1>1, InitNull, StepNull, PTL DEF Spec

------------------------------------------------------------------------------
(* One client.                                                               *)

\* A keyword of POP3, the argument a blank announces, and the end of the line.
PlainCommand(c) ==
  /\ Len(c) >= 3 /\ c[1] \in Keywords /\ c[2] \in {"sp", "cr"}
  /\ c[Len(c) - 1] = "cr" /\ c[Len(c)] = "lf"
  /\ \A i \in 2..Len(c) - 2 : c[i] \notin {"cr", "lf"}

\* CR and LF are only the ends of lines, and no line is empty or a dot.
PlainBody(b) ==
  /\ Len(b) >= 3 /\ b[Len(b)] = "lf"
  /\ \A i \in 2..Len(b) :
       /\ b[i] = "lf" => b[i - 1] = "cr"
       /\ b[i] = "cr" => b[i - 1] \notin {"cr", "lf"} /\ (b[i - 1] = "dot" => i > 2 /\ b[i - 2] # "lf")

PlainInputs ==
  /\ \A c \in Commands : PlainCommand(c)
  /\ \A b \in Bodies : b # <<>> /\ b[1] = "ch" => PlainBody(b)

\* A reply that fits the command: the parser will take it for what it is.
Listing == cmd_type = "MULTILINE" \/ (cmd_type = "OVERLOADED" /\ ~has_args)

Short(r) == Len(r) = 3 /\ r[1] \in {"plus", "minus"} /\ r[2] = "cr" /\ r[3] = "lf"
Long(r) ==
  LET n == Len(r)
  IN  /\ n >= 9 /\ r[1] = "plus" /\ r[2] = "cr" /\ r[3] = "lf" /\ r[4] = "ch"
      /\ r[n - 3] = "lf" /\ r[n - 2] = "dot" /\ r[n - 1] = "cr" /\ r[n] = "lf"
      /\ \A i \in 5..n - 3 :
           /\ r[i] = "lf" => r[i - 1] = "cr"
           /\ r[i] = "cr" => r[i - 1] \notin {"cr", "lf"} /\ (r[i - 1] = "dot" => r[i - 2] # "lf")
Apt(r) == (Short(r) /\ (r[1] = "plus" => ~Listing)) \/ (Long(r) /\ Listing)

\* The parser after k bytes of the reply r.
ReplyKind(r, k)  == IF k < 3 \/ Len(r) = 3 THEN "singleline" ELSE "multiline"
ReplyState(r, k) ==
  CASE k = 0 -> "STAT"
    [] k = 1 -> IF r[1] = "plus" THEN "OK" ELSE "ERR"
    [] k = 2 -> "CR"
    [] k = 3 -> IF Len(r) = 3 THEN "CRLF" ELSE "CRLFDOT"
    [] k > 3 /\ k = Len(r)     -> "CRLFDOTCRLF"
    [] k > 3 /\ k = Len(r) - 1 -> "CRLFDOTCR"
    [] k > 3 /\ k < Len(r) - 1 -> IF r[k] = "cr" THEN "CR"
                                  ELSE IF r[k] = "lf" THEN "CRLF"
                                  ELSE IF r[k] = "dot" /\ r[k - 1] = "lf" THEN "CRLFDOT" ELSE "DOT_DATA"

\* The parser after q symbols of the command c, not all of them.
CommandState(c, q) == IF q <= 1 THEN "KWRD" ELSE IF c[q] = "cr" THEN "CR" ELSE "ARG"

\* The object o is a parser of kind k in state s; the current one is.
ParserFields == {"kind", "state", "type", "next"}
IsParser(o, k, s) == DOMAIN o = ParserFields /\ o.kind = k /\ o.state = s
Parsing(k, s) == curr_parser \in Ids /\ IsParser(obj[curr_parser], k, s)

\* Lines that are complete.
Whole(s) == s = <<>> \/ s[Len(s)] = "lf"

Cleared == curr_parser = NULL /\ cmd = <<>> /\ ~has_args /\ ~answer_status

\* cmd_type and has_args tell the command c.
Recognised(c) == cmd_type = get_command_type(<<toupper(c[1])>>) /\ (has_args <=> c[2] = "sp")

\* All commands have been forwarded and answered.
Settled(t) ==
  /\ cin[t] = <<>> /\ sgot[t] = typed[t] /\ Whole(typed[t])
  /\ answered[t] = Lines(typed[t]) /\ issued[t] = answered[t]

Idle(t) == pc[t] = "client" /\ Settled(t) /\ sin[t] = <<>> /\ buffer[t] = <<>> /\ Cleared

\* The last command, c, is on its way.
Last(t, p, c) ==
  typed[t] = p \o c /\ Whole(p) /\ answered[t] = Lines(p) /\ issued[t] = answered[t] + 1 /\ sin[t] = <<>>

\* How many of its symbols the parser has been fed.
Fed(t, p) == Len(sgot[t]) - Len(p) + (IF pc[t] \in FromClient THEN buffer_pos[t] ELSE 0)

Heard(t, c, q) ==
  /\ ~answer_status
  /\ q = 0 => cmd = <<>> /\ ~has_args /\ (pc[t] # "use client" => curr_parser = NULL)
  /\ q \in 1..Len(c) - 1 => cmd = <<toupper(c[1])>> /\ (has_args <=> q > 1 /\ c[2] = "sp")
  /\ (q > 0 \/ pc[t] = "use client") /\ q < Len(c) => Parsing("command", CommandState(c, q))
  /\ q = Len(c) => curr_parser = NULL /\ Recognised(c)

Sending(t, p, c) ==
  /\ Last(t, p, c) /\ Fed(t, p) \in 0..Len(c) /\ Heard(t, c, Fed(t, p))
  /\ Len(sgot[t]) \in Len(p)..Len(p) + Len(c) - 1
  /\ \/ pc[t] = "client" /\ buffer[t] = <<>>
     \/ /\ pc[t] \in FromClient /\ buffer_pos[t] \in 0..Len(buffer[t]) /\ bytes[t] = Len(buffer[t])
        /\ Len(buffer[t]) > 0 /\ (pc[t] = "use client" => buffer_pos[t] < Len(buffer[t]))
        /\ buffer_pos[t] > 0 =>
             event[t] \in Ids /\ obj[event[t]].type # "BAD_CMD" /\ (obj[event[t]].type = "SET_CMD" <=> Fed(t, p) = Len(c))

Waits(t, p, c) ==
  /\ pc[t] = "server" /\ Last(t, p, c) /\ cin[t] = <<>> /\ sgot[t] = typed[t] /\ buffer[t] = <<>>
  /\ curr_parser = NULL /\ ~answer_status /\ Recognised(c)

Replied(t) ==
  /\ pc[t] = "server" /\ Settled(t) /\ Apt(sin[t]) /\ buffer[t] = <<>>
  /\ curr_parser = NULL /\ ~answer_status

Relays(t) ==
  LET r == buffer[t]
      k == buffer_pos[t]
  IN  /\ pc[t] \in FromServer /\ Settled(t) /\ sin[t] = <<>>
      /\ Apt(r) /\ bytes[t] = Len(r) /\ k \in 0..Len(r)
      /\ k = 0 => ~answer_status /\ (pc[t] = "pick server" => curr_parser = NULL)
      /\ k \in 1..2 => (answer_status <=> r[1] = "plus")
      /\ k > 0 \/ pc[t] = "use server" => Parsing(ReplyKind(r, k), ReplyState(r, k))
      /\ pc[t] = "use server" => k < Len(r)
      /\ k = Len(r) => event[t] = curr_parser /\ (obj[curr_parser].type = "END_SINGLELINE" \/ obj[curr_parser].next)

InTurn(t) ==
  /\ server_fd[t] = "up" /\ ~ceof[t]
  /\ \/ Idle(t) \/ Replied(t) \/ Relays(t)
     \/ \E p \in Seq(Symbols), c \in Commands : Sending(t, p, c) \/ Waits(t, p, c)

Resting(t) == issued[t] = 0 /\ answered[t] = 0 /\ buffer[t] = <<>> /\ ~ceof[t]

\* The counters.
Counted ==
  /\ buffer_pos \in [Threads -> Nat] /\ issued \in [Threads -> Nat] /\ answered \in [Threads -> Nat]
  /\ odd \in Nat

\* One client, or none, and nothing unusual so far.
Solo == odd = 0 /\ ~Several /\ fate # "exited"

InStep ==
  /\ fate = "live" /\ DOMAIN obj = Ids
  /\ \A t \in Threads : (pc[t] = "off" => Resting(t)) /\ (pc[t] # "off" => InTurn(t))
  /\ (\A t \in Threads : pc[t] = "off") => Cleared /\ cmd_type = "NOT_CMD"

SoloInv == Counted /\ (Solo => InStep)

------------------------------------------------------------------------------
(* What one byte does to a parser.                                           *)

\* The least of the rows that match.
LEMMA LeastHit ==
  ASSUME NEW H \in SUBSET Nat, NEW k \in H, \A j \in H : k <= j
  PROVE  (CHOOSE i \in H : \A j \in H : i <= j) = k
<1> DEFINE m == CHOOSE i \in H : \A j \in H : i <= j
<1>1. m \in H /\ \A j \in H : m <= j
  OBVIOUS
<1> HIDE DEF m
<1>2. m \in Nat /\ k \in Nat /\ m <= k /\ k <= m
  BY <1>1
<1>3. m = k
  BY <1>2
<1> QED
  BY <1>3 DEF m

LEMMA RowOfTwo ==
  ASSUME NEW def, NEW s, NEW c, NEW a, NEW b, def.states[s] = <<a, b>>, b.when = ANY
  PROVE  parser_feed(def, s, c) = IF a.when \in {c, ANY} THEN a ELSE b
<1> DEFINE H == {i \in 1..2 : <<a, b>>[i].when \in {c, ANY}}
           k == IF a.when \in {c, ANY} THEN 1 ELSE 2
<1>1. H \in SUBSET Nat /\ k \in H /\ \A j \in H : k <= j
  OBVIOUS
<1>2. parser_feed(def, s, c) = <<a, b>>[CHOOSE i \in H : \A j \in H : i <= j]
  BY DEF parser_feed
<1> HIDE DEF H
<1>3. parser_feed(def, s, c) = <<a, b>>[k]
  BY <1>1, <1>2, LeastHit
<1> QED
  BY <1>3

LEMMA RowOfThree ==
  ASSUME NEW def, NEW s, NEW c, NEW a, NEW b, NEW d, def.states[s] = <<a, b, d>>, d.when = ANY
  PROVE  parser_feed(def, s, c) = IF a.when \in {c, ANY} THEN a ELSE IF b.when \in {c, ANY} THEN b ELSE d
<1> DEFINE H == {i \in 1..3 : <<a, b, d>>[i].when \in {c, ANY}}
           k == IF a.when \in {c, ANY} THEN 1 ELSE IF b.when \in {c, ANY} THEN 2 ELSE 3
<1>1. H \in SUBSET Nat /\ k \in H /\ \A j \in H : k <= j
  OBVIOUS
<1>2. parser_feed(def, s, c) = <<a, b, d>>[CHOOSE i \in H : \A j \in H : i <= j]
  BY DEF parser_feed
<1> HIDE DEF H
<1>3. parser_feed(def, s, c) = <<a, b, d>>[k]
  BY <1>1, <1>2, LeastHit
<1> QED
  BY <1>3

\* The object a byte leaves, from the row it takes.
LEMMA Advances ==
  ASSUME NEW k, NEW s, NEW x, NEW o, IsParser(o, k, s)
  PROVE  /\ IsParser(feed(o, x), k, parser_feed(Definition(k), s, Class(x)).dest)
         /\ feed(o, x).type = parser_feed(Definition(k), s, Class(x)).event
         /\ parser_feed(Definition(k), s, Class(x)).next # "" => feed(o, x).next
<1> DEFINE row == parser_feed(Definition(k), s, Class(x))
           w   == row.next # ""
           f   == [o EXCEPT !.state = row.dest, !.type = row.event, !.next = w]
<1>1. feed(o, x) = f
  BY DEF feed, IsParser
<1> HIDE DEF row, w
<1>2. DOMAIN f = ParserFields /\ f.kind = k /\ f.state = row.dest /\ f.type = row.event /\ f.next = w
  BY DEF IsParser, ParserFields
<1>3. IsParser(f, k, row.dest) /\ f.type = row.event
  BY <1>2 DEF IsParser
<1>4. row.next # "" => f.next
  <2>1. row.next # "" => w
    BY DEF w
  <2> HIDE DEF f
  <2> QED
    BY <1>2, <2>1
<1> HIDE DEF f
<1> QED
  BY <1>1, <1>3, <1>4 DEF row

LEMMA Definitions ==
  /\ Definition("command") = command_definition
  /\ Definition("singleline") = singleline_definition
  /\ Definition("multiline") = multiline_definition
  BY DEF Definition

LEMMA Classes ==
  /\ \A x \in Symbols : Class(x) # ANY
  /\ \A x \in Symbols, y \in {"sp", "cr", "lf", "dot", "plus", "minus"} : Class(x) = y <=> x = y
  BY DEF Class, Symbols, Bytes, Keywords, Upper, ANY

\* The object after a row: its state and its event.
Now(f, k, row) == IsParser(f, k, row.state) /\ f.type = row.event

To(s, e) == [state |-> s, event |-> e]

\* A command, symbol by symbol.
CommandStates == {"KWRD", "ARG", "CR"}
CommandNow(s, x) ==
  CASE s = "KWRD" -> IF x = "sp" THEN To("ARG", "HAS_ARGS")
                     ELSE IF x = "cr" THEN To("CR", "IGNORE") ELSE To("KWRD", "BUFFER_CMD")
    [] s = "ARG"  -> IF x = "cr" THEN To("CR", "IGNORE") ELSE To("ARG", "IGNORE")
    [] s = "CR"   -> IF x = "lf" THEN To("CRLF", "SET_CMD") ELSE To("ERR", "BAD_CMD")

LEMMA CommandFed ==
  ASSUME NEW s \in CommandStates, NEW o, IsParser(o, "command", s), NEW x \in Symbols
  PROVE  Now(feed(o, x), "command", CommandNow(s, x))
<1> DEFINE d == command_definition
           c == Class(x)
           row == parser_feed(d, s, c)
<1>1. IsParser(feed(o, x), "command", row.dest) /\ feed(o, x).type = row.event
  <2> DEFINE r == parser_feed(Definition("command"), s, Class(x))
  <2>1. IsParser(feed(o, x), "command", r.dest) /\ feed(o, x).type = r.event
    BY Advances
  <2>2. r = row
    BY Definitions
  <2> HIDE DEF r, row
  <2> QED
    BY <2>1, <2>2
<1>2. c # ANY /\ \A y \in {"sp", "cr", "lf"} : c = y <=> x = y
  BY Classes
<1>3. CASE s = "KWRD"
  <2> DEFINE a == T("sp", "ARG", "HAS_ARGS")
             b == T("cr", "CR", "IGNORE")
             z == T(ANY, "KWRD", "BUFFER_CMD")
  <2>1. d.states[s] = <<a, b, z>>
    BY <1>3 DEF command_definition, pop3_command_definition, ST_KWRD
  <2>2. /\ a.when = "sp" /\ b.when = "cr" /\ z.when = ANY /\ "sp" # ANY /\ "cr" # ANY
        /\ a.dest = "ARG" /\ a.event = "HAS_ARGS"
        /\ b.dest = "CR" /\ b.event = "IGNORE"
        /\ z.dest = "KWRD" /\ z.event = "BUFFER_CMD"
    BY DEF T, ANY
  <2> HIDE DEF a, b, z, d, c
  <2>3. row = IF x = "sp" THEN a ELSE IF x = "cr" THEN b ELSE z
    BY <1>2, <2>1, <2>2, RowOfThree
  <2>4. row.dest = CommandNow(s, x).state /\ row.event = CommandNow(s, x).event
    BY <1>3, <2>2, <2>3 DEF CommandNow, To
  <2> HIDE DEF row
  <2> QED
    BY <1>1, <2>4 DEF Now
<1>4. CASE s = "ARG"
  <2> DEFINE a == T("cr", "CR", "IGNORE")
             b == T(ANY, "ARG", "IGNORE")
  <2>1. d.states[s] = <<a, b>>
    BY <1>4 DEF command_definition, pop3_command_definition, ST_ARG
  <2>2. /\ a.when = "cr" /\ b.when = ANY /\ "cr" # ANY
        /\ a.dest = "CR" /\ a.event = "IGNORE"
        /\ b.dest = "ARG" /\ b.event = "IGNORE"
    BY DEF T, ANY
  <2> HIDE DEF a, b, d, c
  <2>3. row = IF x = "cr" THEN a ELSE b
    BY <1>2, <2>1, <2>2, RowOfTwo
  <2>4. row.dest = CommandNow(s, x).state /\ row.event = CommandNow(s, x).event
    BY <1>4, <2>2, <2>3 DEF CommandNow, To
  <2> HIDE DEF row
  <2> QED
    BY <1>1, <2>4 DEF Now
<1>5. CASE s = "CR"
  <2> DEFINE a == T("lf", "CRLF", "SET_CMD")
             b == T(ANY, "ERR", "BAD_CMD")
  <2>1. d.states[s] = <<a, b>>
    BY <1>5 DEF command_definition, pop3_command_definition, ST_CMD_CR
  <2>2. /\ a.when = "lf" /\ b.when = ANY /\ "lf" # ANY
        /\ a.dest = "CRLF" /\ a.event = "SET_CMD"
        /\ b.dest = "ERR" /\ b.event = "BAD_CMD"
    BY DEF T, ANY
  <2> HIDE DEF a, b, d, c
  <2>3. row = IF x = "lf" THEN a ELSE b
    BY <1>2, <2>1, <2>2, RowOfTwo
  <2>4. row.dest = CommandNow(s, x).state /\ row.event = CommandNow(s, x).event
    BY <1>5, <2>2, <2>3 DEF CommandNow, To
  <2> HIDE DEF row
  <2> QED
    BY <1>1, <2>4 DEF Now
<1> QED
  BY <1>3, <1>4, <1>5 DEF CommandStates

\* A status line, byte by byte.
StatusStates == {"STAT", "OK", "ERR", "CR"}
StatusNow(s, x) ==
  CASE s = "STAT" -> IF x = "plus" THEN To("OK", "OK_RESP")
                     ELSE IF x = "minus" THEN To("ERR", "ERR_RESP") ELSE To("TRAP", "TRAPPED")
    [] s \in {"OK", "ERR"} -> IF x = "cr" THEN To("CR", "IGNORE") ELSE To("MSG", "IGNORE")
    [] s = "CR"   -> IF x = "lf" THEN To("CRLF", "END_SINGLELINE") ELSE To("MSG", "IGNORE")

LEMMA StatusFed ==
  ASSUME NEW s \in StatusStates, NEW o, IsParser(o, "singleline", s), NEW x \in Symbols
  PROVE  Now(feed(o, x), "singleline", StatusNow(s, x))
<1> DEFINE d == singleline_definition
           c == Class(x)
           row == parser_feed(d, s, c)
<1>1. IsParser(feed(o, x), "singleline", row.dest) /\ feed(o, x).type = row.event
  <2> DEFINE r == parser_feed(Definition("singleline"), s, Class(x))
  <2>1. IsParser(feed(o, x), "singleline", r.dest) /\ feed(o, x).type = r.event
    BY Advances
  <2>2. r = row
    BY Definitions
  <2> HIDE DEF r, row
  <2> QED
    BY <2>1, <2>2
<1>2. c # ANY /\ \A y \in {"plus", "minus", "cr", "lf"} : c = y <=> x = y
  BY Classes
<1>3. CASE s = "STAT"
  <2> DEFINE a == T("plus", "OK", "OK_RESP")
             b == T("minus", "ERR", "ERR_RESP")
             z == T(ANY, "TRAP", "TRAPPED")
  <2>1. d.states[s] = <<a, b, z>>
    BY <1>3 DEF singleline_definition, pop3_singleline_response_definition, ST_STAT
  <2>2. /\ a.when = "plus" /\ b.when = "minus" /\ z.when = ANY /\ "plus" # ANY /\ "minus" # ANY
        /\ a.dest = "OK" /\ a.event = "OK_RESP"
        /\ b.dest = "ERR" /\ b.event = "ERR_RESP"
        /\ z.dest = "TRAP" /\ z.event = "TRAPPED"
    BY DEF T, ANY
  <2> HIDE DEF a, b, z, d, c
  <2>3. row = IF x = "plus" THEN a ELSE IF x = "minus" THEN b ELSE z
    BY <1>2, <2>1, <2>2, RowOfThree
  <2>4. row.dest = StatusNow(s, x).state /\ row.event = StatusNow(s, x).event
    BY <1>3, <2>2, <2>3 DEF StatusNow, To
  <2> HIDE DEF row
  <2> QED
    BY <1>1, <2>4 DEF Now
<1>4. CASE s \in {"OK", "ERR"}
  <2> DEFINE a == T("cr", "CR", "IGNORE")
             b == T(ANY, "MSG", "IGNORE")
  <2>1. d.states[s] = <<a, b>>
    BY <1>4 DEF singleline_definition, pop3_singleline_response_definition, ST_OK, ST_ERR
  <2>2. /\ a.when = "cr" /\ b.when = ANY /\ "cr" # ANY
        /\ a.dest = "CR" /\ a.event = "IGNORE"
        /\ b.dest = "MSG" /\ b.event = "IGNORE"
    BY DEF T, ANY
  <2> HIDE DEF a, b, d, c
  <2>3. row = IF x = "cr" THEN a ELSE b
    BY <1>2, <2>1, <2>2, RowOfTwo
  <2>4. row.dest = StatusNow(s, x).state /\ row.event = StatusNow(s, x).event
    BY <1>4, <2>2, <2>3 DEF StatusNow, To
  <2> HIDE DEF row
  <2> QED
    BY <1>1, <2>4 DEF Now
<1>5. CASE s = "CR"
  <2> DEFINE a == T("lf", "CRLF", "END_SINGLELINE")
             b == T(ANY, "MSG", "IGNORE")
  <2>1. d.states[s] = <<a, b>>
    BY <1>5 DEF singleline_definition, pop3_singleline_response_definition, ST_RESP_CR
  <2>2. /\ a.when = "lf" /\ b.when = ANY /\ "lf" # ANY
        /\ a.dest = "CRLF" /\ a.event = "END_SINGLELINE"
        /\ b.dest = "MSG" /\ b.event = "IGNORE"
    BY DEF T, ANY
  <2> HIDE DEF a, b, d, c
  <2>3. row = IF x = "lf" THEN a ELSE b
    BY <1>2, <2>1, <2>2, RowOfTwo
  <2>4. row.dest = StatusNow(s, x).state /\ row.event = StatusNow(s, x).event
    BY <1>5, <2>2, <2>3 DEF StatusNow, To
  <2> HIDE DEF row
  <2> QED
    BY <1>1, <2>4 DEF Now
<1> QED
  BY <1>3, <1>4, <1>5 DEF StatusStates

\* The data, byte by byte: the byte that leads on to the end, and any other.
DataStates == {"DOT_DATA", "CR", "CRLF", "CRLFDOT", "CRLFDOTCR"}
Leading(s) ==
  CASE s = "DOT_DATA" -> "cr" [] s = "CR" -> "lf" [] s = "CRLF" -> "dot"
    [] s = "CRLFDOT" -> "cr" [] s = "CRLFDOTCR" -> "lf"
LedTo(s) ==
  CASE s = "DOT_DATA" -> "CR" [] s = "CR" -> "CRLF" [] s = "CRLF" -> "CRLFDOT"
    [] s = "CRLFDOT" -> "CRLFDOTCR" [] s = "CRLFDOTCR" -> "CRLFDOTCRLF"

LEMMA DataFed ==
  ASSUME NEW s \in DataStates, NEW o, IsParser(o, "multiline", s), NEW x \in Symbols
  PROVE  /\ IsParser(feed(o, x), "multiline", IF x = Leading(s) THEN LedTo(s) ELSE "DOT_DATA")
         /\ feed(o, x).type = "DAT_STUFFED"
         /\ x = Leading(s) /\ s = "CRLFDOTCR" => feed(o, x).next
<1> DEFINE d == multiline_definition
           c == Class(x)
           row == parser_feed(d, s, c)
           a == IF s = "CRLFDOTCR" THEN T2("lf", "CRLFDOTCRLF", "DAT_STUFFED", "DAT_STUFFED_END")
                ELSE T(Leading(s), LedTo(s), "DAT_STUFFED")
           b == T(ANY, "DOT_DATA", "DAT_STUFFED")
<1>1. IsParser(feed(o, x), "multiline", row.dest) /\ feed(o, x).type = row.event /\ (row.next # "" => feed(o, x).next)
  <2> DEFINE r == parser_feed(Definition("multiline"), s, Class(x))
  <2>1. IsParser(feed(o, x), "multiline", r.dest) /\ feed(o, x).type = r.event /\ (r.next # "" => feed(o, x).next)
    BY Advances
  <2>2. r = row
    BY Definitions
  <2> HIDE DEF r, row
  <2> QED
    BY <2>1, <2>2
<1>2. c # ANY /\ Leading(s) # ANY /\ (c = Leading(s) <=> x = Leading(s))
  <2>1. Leading(s) \in {"cr", "lf", "dot"}
    BY DEF Leading, DataStates
  <2> QED
    BY <2>1, Classes DEF ANY
<1>3. d.states[s] = <<a, b>>
  BY DEF multiline_definition, pop3_multiline_response_definition, ST_DOT_DATA, ST_DAT_CR, ST_DAT_CRLF, ST_CRLFDOT,
         ST_CRLFDOTCR, Leading, LedTo, DataStates
<1>4. /\ a.when = Leading(s) /\ a.dest = LedTo(s) /\ a.event = "DAT_STUFFED"
      /\ a.next = IF s = "CRLFDOTCR" THEN "DAT_STUFFED_END" ELSE ""
  BY DEF T, T2, Leading, LedTo, DataStates
<1>5. b.when = ANY /\ b.dest = "DOT_DATA" /\ b.next = "" /\ b.event = "DAT_STUFFED"
  BY DEF T
<1> HIDE DEF a, b, d, c
<1>6. row = IF x = Leading(s) THEN a ELSE b
  <2>1. row = IF a.when \in {c, ANY} THEN a ELSE b
    <3>1. b.when = ANY /\ d.states[s] = <<a, b>>
      BY <1>3, <1>5
    <3> QED
      BY ONLY <3>1, RowOfTwo
  <2> HIDE DEF row
  <2> QED
    BY <1>2, <1>4, <2>1
<1> HIDE DEF row
<1> QED
  BY <1>1, <1>4, <1>5, <1>6

------------------------------------------------------------------------------
(* Lines.                                                                    *)

\* The ends of lines among the first i symbols.
LineEnds(s, i) == {j \in 1..i : s[j] = "lf"}

LEMMA LineEndsFinite ==
  ASSUME NEW s, NEW i \in Nat
  PROVE  IsFiniteSet(LineEnds(s, i)) /\ Cardinality(LineEnds(s, i)) \in Nat
<1>1. IsFiniteSet(1..i)
  BY FS_Interval
<1>2. LineEnds(s, i) \in SUBSET (1..i)
  BY DEF LineEnds
<1> QED
  BY <1>1, <1>2, FS_Subset, FS_CardinalityType

LEMMA LinesCounted ==
  ASSUME NEW s \in Seq(Symbols)
  PROVE  Lines(s) = Cardinality(LineEnds(s, Len(s))) /\ Lines(s) \in Nat
<1>1. Len(s) \in Nat
  OBVIOUS
<1> QED
  BY <1>1, LineEndsFinite DEF Lines, LineEnds

LEMMA LinesTaken ==
  ASSUME NEW s \in Seq(Symbols), NEW i \in 0..Len(s)
  PROVE  Lines(Take(s, i)) = Cardinality(LineEnds(s, i))
<1>1. Len(s) \in Nat /\ \A j \in 1..i : s[j] \in Symbols
  BY ElementOfSeq
<1>2. Len(Take(s, i)) = i /\ \A j \in 1..i : Take(s, i)[j] = s[j]
  BY <1>1, SubSeqProperties DEF Take
<1>3. {j \in 1..Len(Take(s, i)) : Take(s, i)[j] = "lf"} = LineEnds(s, i)
  BY <1>2 DEF LineEnds
<1> QED
  BY <1>3 DEF Lines

\* A command ends one line more, with its last symbol.
LEMMA CommandLines ==
  ASSUME NEW p \in Seq(Symbols), NEW c \in Seq(Symbols), PlainCommand(c)
  PROVE  /\ Len(p \o c) = Len(p) + Len(c)
         /\ \A n \in Len(p)..Len(p) + Len(c) - 1 : LineEnds(p \o c, n) = LineEnds(p, Len(p))
         /\ LineEnds(p \o c, Len(p) + Len(c)) = LineEnds(p, Len(p)) \cup {Len(p) + Len(c)}
         /\ Len(p) + Len(c) \notin LineEnds(p, Len(p))
         /\ (p \o c)[Len(p) + Len(c)] = "lf"
<1>1. Len(p) \in Nat /\ Len(c) \in Nat /\ Len(c) >= 3
  BY DEF PlainCommand
<1>2. /\ Len(p \o c) = Len(p) + Len(c)
      /\ \A i \in 1..Len(p) + Len(c) : (p \o c)[i] = IF i <= Len(p) THEN p[i] ELSE c[i - Len(p)]
  BY ConcatProperties
<1>3. \A i \in 1..Len(c) - 1 : c[i] # "lf"
  <2> SUFFICES ASSUME NEW i \in 1..Len(c) - 1 PROVE c[i] # "lf"
    OBVIOUS
  <2>1. CASE i = 1
    BY <2>1 DEF PlainCommand, Keywords, Upper
  <2>2. CASE i = Len(c) - 1
    BY <2>2 DEF PlainCommand
  <2>3. CASE i \in 2..Len(c) - 2
    BY <2>3 DEF PlainCommand
  <2> QED
    BY <1>1, <2>1, <2>2, <2>3
<1>4. c[Len(c)] = "lf"
  BY DEF PlainCommand
<1> DEFINE s == p \o c
<1> HIDE DEF s
<1>5. \A i \in Len(p) + 1..Len(p) + Len(c) - 1 : s[i] # "lf"
  <2> SUFFICES ASSUME NEW i \in Len(p) + 1..Len(p) + Len(c) - 1 PROVE s[i] # "lf"
    OBVIOUS
  <2>1. s[i] = c[i - Len(p)] /\ i - Len(p) \in 1..Len(c) - 1
    BY <1>1, <1>2 DEF s
  <2> QED
    BY <1>3, <2>1
<1>6. \A i \in 1..Len(p) : s[i] = p[i]
  BY <1>1, <1>2 DEF s
<1>7. s[Len(p) + Len(c)] = "lf"
  <2>1. s[Len(p) + Len(c)] = c[Len(p) + Len(c) - Len(p)] /\ Len(p) + Len(c) - Len(p) = Len(c)
    BY <1>1, <1>2 DEF s
  <2> QED
    BY <1>4, <2>1
<1>8. ASSUME NEW n \in Len(p)..Len(p) + Len(c) - 1 PROVE LineEnds(s, n) = LineEnds(p, Len(p))
  <2>1. \A j \in 1..n : s[j] = "lf" => j \in 1..Len(p)
    BY <1>1, <1>5
  <2>2. \A j \in 1..Len(p) : j \in 1..n
    BY <1>1
  <2> QED
    BY <1>6, <2>1, <2>2 DEF LineEnds
<1>9. LineEnds(s, Len(p) + Len(c)) = LineEnds(p, Len(p)) \cup {Len(p) + Len(c)}
  <2>1. \A j \in 1..Len(p) + Len(c) : s[j] = "lf" => j \in 1..Len(p) \/ j = Len(p) + Len(c)
    <3> SUFFICES ASSUME NEW j \in 1..Len(p) + Len(c), j \notin 1..Len(p), j # Len(p) + Len(c) PROVE s[j] # "lf"
      OBVIOUS
    <3>1. j \in Len(p) + 1..Len(p) + Len(c) - 1
      BY <1>1
    <3> QED
      BY <1>5, <3>1
  <2>2. \A j \in 1..Len(p) : j \in 1..Len(p) + Len(c)
    BY <1>1
  <2>3. Len(p) + Len(c) \in 1..Len(p) + Len(c)
    BY <1>1
  <2> QED
    BY <1>6, <1>7, <2>1, <2>2, <2>3 DEF LineEnds
<1>10. Len(p) + Len(c) \notin LineEnds(p, Len(p))
  BY <1>1 DEF LineEnds
<1> QED
  BY <1>2, <1>7, <1>8, <1>9, <1>10 DEF s

LEMMA CommandCounts ==
  ASSUME NEW p \in Seq(Symbols), NEW c \in Seq(Symbols), PlainCommand(c)
  PROVE  /\ \A n \in Len(p)..Len(p) + Len(c) - 1 : Lines(Take(p \o c, n)) = Lines(p)
         /\ Lines(p \o c) = Lines(p) + 1
         /\ Whole(p \o c)
<1>1. Len(p) \in Nat /\ Len(c) \in Nat
  OBVIOUS
<1>2. p \o c \in Seq(Symbols) /\ Len(p \o c) = Len(p) + Len(c)
  BY ConcatProperties
<1>3. ASSUME NEW n \in Len(p)..Len(p) + Len(c) - 1 PROVE Lines(Take(p \o c, n)) = Lines(p)
  <2>1. n \in 0..Len(p \o c)
    BY <1>1, <1>2
  <2>2. Lines(Take(p \o c, n)) = Cardinality(LineEnds(p \o c, n))
    BY <1>2, <2>1, LinesTaken
  <2>3. LineEnds(p \o c, n) = LineEnds(p, Len(p))
    BY CommandLines
  <2> QED
    BY <2>2, <2>3, LinesCounted
<1>4. Lines(p \o c) = Lines(p) + 1
  <2>1. Lines(p \o c) = Cardinality(LineEnds(p, Len(p)) \cup {Len(p) + Len(c)})
    BY <1>2, CommandLines, LinesCounted
  <2>2. IsFiniteSet(LineEnds(p, Len(p)))
    BY <1>1, LineEndsFinite
  <2>3. Len(p) + Len(c) \notin LineEnds(p, Len(p))
    BY CommandLines
  <2>4. Cardinality(LineEnds(p, Len(p)) \cup {Len(p) + Len(c)}) = Cardinality(LineEnds(p, Len(p))) + 1
    BY <2>2, <2>3, FS_AddElement
  <2> QED
    BY <2>1, <2>4, LinesCounted
<1>5. Whole(p \o c)
  BY <1>2, CommandLines DEF Whole
<1> QED
  BY <1>3, <1>4, <1>5

\* The line after the complete ones is the command.
LEMMA LastLine ==
  ASSUME NEW p \in Seq(Symbols), NEW c \in Seq(Symbols), PlainCommand(c), Whole(p)
  PROVE  Line(p \o c, Lines(p) + 1) = c
<1> DEFINE s == p \o c
           l == Lines(p)
<1>1. Len(p) \in Nat /\ Len(c) \in Nat /\ Len(c) >= 3 /\ l \in Nat
  BY LinesCounted DEF PlainCommand
<1>2. /\ s \in Seq(Symbols) /\ Len(s) = Len(p) + Len(c)
      /\ \A i \in 1..Len(p) + Len(c) : s[i] = IF i <= Len(p) THEN p[i] ELSE c[i - Len(p)]
  BY ConcatProperties
<1>3. /\ \A n \in Len(p)..Len(p) + Len(c) - 1 : LineEnds(s, n) = LineEnds(p, Len(p))
      /\ LineEnds(s, Len(p) + Len(c)) = LineEnds(p, Len(p)) \cup {Len(p) + Len(c)}
      /\ s[Len(p) + Len(c)] = "lf"
  BY CommandLines
<1>4. /\ \A n \in Len(p)..Len(p) + Len(c) - 1 : Lines(Take(s, n)) = l
      /\ Lines(s) = l + 1
  BY CommandCounts
<1> HIDE DEF s
<1>5. \A i \in 0..Len(p) : Lines(Take(s, i)) <= l /\ (i < Len(p) /\ p # <<>> => Lines(Take(s, i)) < l)
  <2> SUFFICES ASSUME NEW i \in 0..Len(p)
               PROVE  Lines(Take(s, i)) <= l /\ (i < Len(p) /\ p # <<>> => Lines(Take(s, i)) < l)
    OBVIOUS
  <2> DEFINE A == LineEnds(s, i)
             B == LineEnds(p, Len(p))
  <2>1. Lines(Take(s, i)) = Cardinality(A) /\ l = Cardinality(B)
    <3>1. i \in 0..Len(s)
      BY <1>1, <1>2
    <3> QED
      BY <1>2, <3>1, LinesTaken, LinesCounted
  <2>2. B = LineEnds(s, Len(p))
    BY <1>1, <1>3
  <2>3. IsFiniteSet(B) /\ Cardinality(B) \in Nat /\ Cardinality(A) \in Nat
    BY <1>1, LineEndsFinite
  <2>4. A \in SUBSET B
    BY <1>1, <2>2 DEF LineEnds
  <2>5. i < Len(p) /\ p # <<>> => Len(p) \in B /\ Len(p) \notin A
    BY <1>1 DEF LineEnds, Whole
  <2> HIDE DEF A, B, l
  <2>6. Cardinality(A) <= Cardinality(B) /\ (Cardinality(B) = Cardinality(A) => B = A)
    BY <2>3, <2>4, FS_Subset
  <2> QED
    BY <2>1, <2>3, <2>5, <2>6
<1>6. EndOf(s, l + 1) = Len(s)
  <2>1. l + 1 # 0
    BY <1>1
  <2>2. Len(s) \in 1..Len(s) /\ s[Len(s)] = "lf" /\ Lines(Take(s, Len(s))) = l + 1
    <3>1. Take(s, Len(s)) = s
      BY <1>2, SubSeqFull DEF Take
    <3> QED
      BY <1>1, <1>2, <1>3, <1>4, <3>1
  <2>3. \A i \in 1..Len(s) : Lines(Take(s, i)) = l + 1 => i = Len(s)
    <3> SUFFICES ASSUME NEW i \in 1..Len(s), i # Len(s) PROVE Lines(Take(s, i)) # l + 1
      OBVIOUS
    <3>1. CASE i \in 0..Len(p)
      <4>1. Lines(Take(s, i)) <= l
        BY <1>5, <3>1
      <4>2. Lines(Take(s, i)) \in Nat
        <5>1. i \in 0..Len(s) /\ i \in Nat
          BY <1>1, <1>2
        <5> QED
          BY <1>2, <5>1, LinesTaken, LineEndsFinite
      <4> QED
        BY <1>1, <4>1, <4>2
    <3>2. CASE i \in Len(p)..Len(p) + Len(c) - 1
      BY <1>1, <1>4, <3>2
    <3>3. i \in 0..Len(p) \/ i \in Len(p)..Len(p) + Len(c) - 1
      <4>1. i \in Nat /\ i < Len(p) + Len(c)
        <5>1. Len(s) = Len(p) + Len(c)
          BY <1>2
        <5> QED
          BY ONLY <1>1, <5>1, i \in 1..Len(s), i # Len(s)
      <4> QED
        BY ONLY <1>1, <4>1
    <3> QED
      BY <3>1, <3>2, <3>3
  <2>4. (CHOOSE i \in 1..Len(s) : s[i] = "lf" /\ Lines(Take(s, i)) = l + 1) = Len(s)
    BY <2>2, <2>3
  <2> QED
    BY <2>1, <2>4 DEF EndOf
<1>7. EndOf(s, l) = Len(p)
  <2>1. CASE p = <<>>
    <3>1. l = 0
      <4>1. LineEnds(p, Len(p)) = {}
        BY <2>1 DEF LineEnds
      <4> QED
        BY <4>1, LinesCounted, FS_EmptySet
    <3> QED
      BY <2>1, <3>1 DEF EndOf
  <2>2. CASE p # <<>>
    <3>1. Len(p) \in 1..Len(p) /\ p[Len(p)] = "lf"
      BY <1>1, <2>2, EmptySeq DEF Whole
    <3>2. Lines(Take(s, Len(p))) = l /\ s[Len(p)] = "lf" /\ Len(p) \in 1..Len(s)
      BY <1>1, <1>2, <1>4, <3>1
    <3>3. l # 0
      <4>1. Len(p) \in LineEnds(p, Len(p))
        BY <3>1 DEF LineEnds
      <4>2. l = Cardinality(LineEnds(p, Len(p))) /\ IsFiniteSet(LineEnds(p, Len(p)))
        BY <1>1, LinesCounted, LineEndsFinite
      <4> QED
        BY <4>1, <4>2, FS_EmptySet
    <3>4. \A i \in 1..Len(s) : s[i] = "lf" /\ Lines(Take(s, i)) = l => i = Len(p)
      <4> SUFFICES ASSUME NEW i \in 1..Len(s), i # Len(p), s[i] = "lf" PROVE Lines(Take(s, i)) # l
        OBVIOUS
      <4>1. CASE i < Len(p)
        <5>1. i \in 0..Len(p) /\ i \in 0..Len(s) /\ i \in Nat
          BY <1>1, <1>2, <4>1
        <5>2. Lines(Take(s, i)) < l /\ Lines(Take(s, i)) \in Nat
          BY <1>2, <1>5, <2>2, <4>1, <5>1, LinesTaken, LineEndsFinite
        <5> QED
          BY <1>1, <5>2
      <4>2. CASE i \in Len(p) + 1..Len(p) + Len(c) - 1
        <5>1. i \in LineEnds(s, i) /\ i \in Len(p)..Len(p) + Len(c) - 1
          BY <1>1, <4>2 DEF LineEnds
        <5>2. i \in LineEnds(p, Len(p))
          BY <1>3, <5>1
        <5> QED
          BY <1>1, <4>2, <5>2 DEF LineEnds
      <4>3. CASE i = Len(s)
        <5>1. Take(s, Len(s)) = s
          BY <1>2, SubSeqFull DEF Take
        <5> QED
          BY <1>1, <1>4, <4>3, <5>1
      <4>4. i < Len(p) \/ i \in Len(p) + 1..Len(p) + Len(c) - 1 \/ i = Len(s)
        <5>1. i \in Nat /\ i <= Len(p) + Len(c) /\ Len(s) = Len(p) + Len(c)
          BY <1>1, <1>2
        <5> QED
          BY ONLY <1>1, <5>1, i # Len(p)
      <4> QED
        BY <4>1, <4>2, <4>3, <4>4
    <3>5. (CHOOSE i \in 1..Len(s) : s[i] = "lf" /\ Lines(Take(s, i)) = l) = Len(p)
      BY <3>2, <3>4
    <3> QED
      BY <3>3, <3>5 DEF EndOf
  <2> QED
    BY <2>1, <2>2
<1>9. Line(s, l + 1) = SubSeq(s, Len(p) + 1, Len(s))
  <2> DEFINE k == l + 1
  <2>1. k - 1 = l /\ EndOf(s, k) = Len(s)
    <3>1. k - 1 = l
      BY <1>1
    <3>2. EndOf(s, k) = Len(s)
      BY <1>6
    <3> QED
      BY <3>1, <3>2
  <2> HIDE DEF k, l
  <2>2. Line(s, k) = SubSeq(s, EndOf(s, k - 1) + 1, EndOf(s, k))
    BY DEF Line
  <2>3. Line(s, k) = SubSeq(s, Len(p) + 1, Len(s))
    BY <1>7, <2>1, <2>2
  <2> QED
    BY <2>3 DEF k
<1>10. SubSeq(s, Len(p) + 1, Len(s)) = SubSeq(c, 1, Len(c))
  <2>1. /\ Len(p) + 1 \in Len(p) + 1..Len(p) + Len(c) /\ Len(s) \in Len(p) + 1..Len(p) + Len(c)
        /\ Len(p) + 1 - Len(p) = 1 /\ Len(s) - Len(p) = Len(c)
    BY <1>1, <1>2
  <2> QED
    BY <2>1, SubSeqOfConcat2 DEF s
<1> QED
  BY <1>9, <1>10, SubSeqFull DEF s

------------------------------------------------------------------------------
(* pop3_parser_feed, with one client.                                        *)

LEMMA ReplyByte ==
  ASSUME NEW r \in Seq(Symbols), Short(r) \/ Long(r), NEW k \in 0..Len(r) - 1,
         NEW o, IsParser(o, ReplyKind(r, k), ReplyState(r, k))
  PROVE  /\ k = 0 => IsParser(feed(o, r[k + 1]), "singleline", ReplyState(r, 1))
                     /\ feed(o, r[k + 1]).type = IF r[1] = "plus" THEN "OK_RESP" ELSE "ERR_RESP"
         /\ k = 1 => IsParser(feed(o, r[k + 1]), "singleline", "CR") /\ feed(o, r[k + 1]).type = "IGNORE"
         /\ k = 2 => IsParser(feed(o, r[k + 1]), "singleline", "CRLF") /\ feed(o, r[k + 1]).type = "END_SINGLELINE"
         /\ k > 2 => /\ IsParser(feed(o, r[k + 1]), "multiline", ReplyState(r, k + 1))
                     /\ feed(o, r[k + 1]).type = "DAT_STUFFED"
                     /\ k + 1 = Len(r) => feed(o, r[k + 1]).next
<1> DEFINE n == Len(r)
           x == r[k + 1]
           s == ReplyState(r, k)
<1>1. n \in Nat /\ n >= 3 /\ k \in Nat /\ k < n
  BY DEF Short, Long
<1>2. x \in Symbols
  <2>1. k + 1 \in 1..Len(r)
    BY <1>1
  <2> QED
    BY <2>1, ElementOfSeq
<1>3. r[1] \in {"plus", "minus"} /\ r[2] = "cr" /\ r[3] = "lf"
  BY DEF Short, Long
<1>4. CASE k = 0
  <2>1. s = "STAT" /\ ReplyKind(r, k) = "singleline" /\ x = r[1] /\ s \in StatusStates
    BY <1>4 DEF ReplyState, ReplyKind, StatusStates
  <2>2. Now(feed(o, x), "singleline", StatusNow("STAT", x))
    BY <1>2, <2>1, StatusFed
  <2>3. ReplyState(r, 1) = IF r[1] = "plus" THEN "OK" ELSE "ERR"
    BY DEF ReplyState
  <2>4. StatusNow("STAT", x) = IF r[1] = "plus" THEN To("OK", "OK_RESP") ELSE To("ERR", "ERR_RESP")
    BY <1>3, <2>1 DEF StatusNow
  <2>5. To("OK", "OK_RESP").state = "OK" /\ To("OK", "OK_RESP").event = "OK_RESP" /\ To("ERR", "ERR_RESP").state = "ERR" /\ To("ERR", "ERR_RESP").event = "ERR_RESP"
    BY DEF To
  <2> HIDE DEF x
  <2>6. IsParser(feed(o, x), "singleline", ReplyState(r, 1)) /\ feed(o, x).type = IF r[1] = "plus" THEN "OK_RESP" ELSE "ERR_RESP"
    BY <2>2, <2>3, <2>4, <2>5 DEF Now
  <2> QED
    BY <1>4, <2>6 DEF x
<1>5. CASE k = 1
  <2>1. s \in {"OK", "ERR"} /\ s \in StatusStates /\ ReplyKind(r, k) = "singleline" /\ x = "cr"
    BY <1>3, <1>5 DEF ReplyState, ReplyKind, StatusStates
  <2>2. Now(feed(o, x), "singleline", StatusNow(s, x))
    BY <1>2, <2>1, StatusFed
  <2>3. StatusNow(s, x).state = "CR" /\ StatusNow(s, x).event = "IGNORE"
    BY <2>1 DEF StatusNow, To
  <2> HIDE DEF x, s
  <2>4. IsParser(feed(o, x), "singleline", "CR") /\ feed(o, x).type = "IGNORE"
    BY <2>2, <2>3 DEF Now
  <2> QED
    BY <1>5, <2>4 DEF x
<1>6. CASE k = 2
  <2>1. s = "CR" /\ s \in StatusStates /\ ReplyKind(r, k) = "singleline" /\ x = "lf"
    BY <1>3, <1>6 DEF ReplyState, ReplyKind, StatusStates
  <2>2. Now(feed(o, x), "singleline", StatusNow(s, x))
    BY <1>2, <2>1, StatusFed
  <2>3. StatusNow(s, x).state = "CRLF" /\ StatusNow(s, x).event = "END_SINGLELINE"
    BY <2>1 DEF StatusNow, To
  <2> HIDE DEF x, s
  <2>4. IsParser(feed(o, x), "singleline", "CRLF") /\ feed(o, x).type = "END_SINGLELINE"
    BY <2>2, <2>3 DEF Now
  <2> QED
    BY <1>6, <2>4 DEF x
<1>7. CASE k > 2
  <2>1. Long(r) /\ n >= 9 /\ ReplyKind(r, k) = "multiline"
    <3>1. n # 3 /\ ~(k < 3)
      <4> HIDE DEF n
      <4>1. k >= 3 /\ n > 3
        BY <1>1, <1>7
      <4> QED
        BY <1>1, <4>1
    <3>2. Long(r)
      BY <3>1 DEF Short
    <3>3. n >= 9
      BY <3>2 DEF Long
    <3> QED
      BY <3>1, <3>2, <3>3 DEF ReplyKind
  <2>2. r[4] = "ch" /\ r[n - 3] = "lf" /\ r[n - 2] = "dot" /\ r[n - 1] = "cr" /\ r[n] = "lf"
    BY <2>1 DEF Long
  <2> DEFINE good(y) == /\ s \in DataStates
                        /\ ReplyState(r, k + 1) = IF y = Leading(s) THEN LedTo(s) ELSE "DOT_DATA"
                        /\ k + 1 = n => y = Leading(s) /\ s = "CRLFDOTCR"
  <2>3. ASSUME k = 3 PROVE good(x)
    <3>1. s = "CRLFDOT" /\ ReplyState(r, k + 1) = "DOT_DATA"
      BY <2>1, <2>2, <2>3 DEF ReplyState
    <3> QED
      BY <2>1, <2>2, <2>3, <3>1 DEF DataStates, Leading, LedTo
  <2>4. ASSUME k > 3 /\ k + 1 <= n - 3 PROVE good(x)
    <3>1. k + 1 \in 5..n - 3 /\ k \in 4..n - 4
      BY <1>1, <2>4
    <3>2. /\ x = "lf" => r[k] = "cr"
          /\ x = "cr" => r[k] \notin {"cr", "lf"} /\ (r[k] = "dot" => r[k - 1] # "lf")
      <4>1. k + 1 - 1 = k /\ k + 1 - 2 = k - 1
        BY <1>1
      <4>2. /\ r[k + 1] = "lf" => r[k + 1 - 1] = "cr"
            /\ r[k + 1] = "cr" => r[k + 1 - 1] \notin {"cr", "lf"} /\ (r[k + 1 - 1] = "dot" => r[k + 1 - 2] # "lf")
        BY <2>1, <3>1 DEF Long
      <4> QED
        BY <4>1, <4>2
    <3>3. s = IF r[k] = "cr" THEN "CR" ELSE IF r[k] = "lf" THEN "CRLF"
              ELSE IF r[k] = "dot" /\ r[k - 1] = "lf" THEN "CRLFDOT" ELSE "DOT_DATA"
      BY <1>1, <2>1, <3>1 DEF ReplyState
    <3>4. ReplyState(r, k + 1) = IF x = "cr" THEN "CR" ELSE IF x = "lf" THEN "CRLF"
                                 ELSE IF x = "dot" /\ r[k] = "lf" THEN "CRLFDOT" ELSE "DOT_DATA"
      <4>1. k + 1 - 1 = k /\ k + 1 > 3 /\ k + 1 < n - 1 /\ k + 1 # n /\ k + 1 # n - 1 /\ k + 1 \notin {0, 1, 2, 3}
        BY <1>1, <3>1
      <4> QED
        BY <4>1 DEF ReplyState
    <3>5. s \in DataStates /\ k + 1 # n
      BY <1>1, <3>1, <3>3 DEF DataStates
    <3> HIDE DEF x, s
    <3>6. ReplyState(r, k + 1) = IF x = Leading(s) THEN LedTo(s) ELSE "DOT_DATA"
      BY <3>2, <3>3, <3>4 DEF Leading, LedTo
    <3> QED
      BY <3>5, <3>6
  <2>5. ASSUME k + 1 = n - 2 PROVE good(x)
    <3>1. k = n - 3 /\ k > 3 /\ k < n - 1 /\ k # n - 1 /\ k # n /\ k \notin {0, 1, 2, 3}
      BY <1>1, <2>1, <2>5
    <3>2. s = "CRLF" /\ x = "dot"
      BY <2>2, <2>5, <3>1 DEF ReplyState
    <3>3. ReplyState(r, k + 1) = "CRLFDOT" /\ k + 1 # n
      <4>1. k + 1 > 3 /\ k + 1 < n - 1 /\ k + 1 # n /\ k + 1 # n - 1 /\ k + 1 \notin {0, 1, 2, 3} /\ k + 1 - 1 = n - 3
        BY <1>1, <2>1, <2>5
      <4> QED
        BY <2>2, <2>5, <4>1 DEF ReplyState
    <3> QED
      BY <3>2, <3>3 DEF DataStates, Leading, LedTo
  <2>6. ASSUME k + 1 = n - 1 PROVE good(x)
    <3>1. k = n - 2 /\ k > 3 /\ k < n - 1 /\ k # n - 1 /\ k # n /\ k \notin {0, 1, 2, 3} /\ k - 1 = n - 3
      BY <1>1, <2>1, <2>6
    <3>2. s = "CRLFDOT" /\ x = "cr"
      BY <2>2, <2>6, <3>1 DEF ReplyState
    <3>3. ReplyState(r, k + 1) = "CRLFDOTCR" /\ k + 1 # n
      <4>1. k + 1 > 3 /\ k + 1 = n - 1 /\ k + 1 # n /\ k + 1 \notin {0, 1, 2, 3}
        BY <1>1, <2>1, <2>6
      <4> QED
        BY <4>1 DEF ReplyState
    <3> QED
      BY <3>2, <3>3 DEF DataStates, Leading, LedTo
  <2>7. ASSUME k + 1 = n PROVE good(x)
    <3>1. k = n - 1 /\ k > 3 /\ k # n /\ k \notin {0, 1, 2, 3}
      BY <1>1, <2>1, <2>7
    <3>2. s = "CRLFDOTCR" /\ x = "lf"
      <4>1. x = "lf"
        BY <2>2, <2>7
      <4>2. k # Len(r) /\ k = Len(r) - 1
        BY <3>1
      <4>3. s = "CRLFDOTCR"
        BY <3>1, <4>2 DEF ReplyState
      <4> QED
        BY <4>1, <4>3
    <3>3. ReplyState(r, k + 1) = "CRLFDOTCRLF"
      <4>1. k + 1 > 3 /\ k + 1 = n /\ k + 1 \notin {0, 1, 2, 3}
        BY <1>1, <2>1, <2>7
      <4> QED
        BY <4>1 DEF ReplyState
    <3> QED
      BY <3>2, <3>3 DEF DataStates, Leading, LedTo
  <2>8. good(x)
    <3>1. k = 3 \/ (k > 3 /\ k + 1 <= n - 3) \/ k + 1 = n - 2 \/ k + 1 = n - 1 \/ k + 1 = n
      BY <1>1, <1>7, <2>1
    <3> QED
      BY <2>3, <2>4, <2>5, <2>6, <2>7, <3>1
  <2>9. IsParser(o, "multiline", s)
    BY <2>1
  <2> HIDE DEF x, s
  <2>10. /\ IsParser(feed(o, x), "multiline", IF x = Leading(s) THEN LedTo(s) ELSE "DOT_DATA")
         /\ feed(o, x).type = "DAT_STUFFED"
         /\ x = Leading(s) /\ s = "CRLFDOTCR" => feed(o, x).next
    BY <1>2, <2>8, <2>9, DataFed
  <2>11. /\ IsParser(feed(o, x), "multiline", ReplyState(r, k + 1))
         /\ feed(o, x).type = "DAT_STUFFED"
         /\ k + 1 = n => feed(o, x).next
    BY <2>8, <2>10
  <2> QED
    BY <1>7, <2>11 DEF x
<1> QED
  BY <1>1, <1>4, <1>5, <1>6, <1>7

------------------------------------------------------------------------------
(* A step while one client is connected.                                     *)

\* A step that leaves alone what InStep says of the thread.
Quiet(u) ==
  /\ pc'[u] = pc[u] /\ buffer'[u] = buffer[u] /\ ceof'[u] = ceof[u]
  /\ issued'[u] = issued[u] /\ answered'[u] = answered[u]

Typed == IInv /\ NullInv /\ Counted

\* A step of one thread, or of its peers.
Goes(t) ==
  /\ fate = "live" /\ odd' \in {odd, odd + 1} /\ (pc[t] # "off" => pc'[t] # "off")
  /\ \A u \in Threads \ {t} : Quiet(u)

LEMMA StepGoes ==
  ASSUME Typed, NEW t \in Threads,
         start(t) \/ Thread(t) \/ client_sends(t) \/ client_closes(t) \/ origin_serves(t) \/ origin_closes(t)
  PROVE  Goes(t) /\ Counted'
<1>1. /\ pc \in [Threads -> Places] /\ buffer \in [Threads -> Seq(Symbols)] /\ ceof \in [Threads -> BOOLEAN]
      /\ issued \in [Threads -> Nat] /\ answered \in [Threads -> Nat] /\ buffer_pos \in [Threads -> Nat] /\ odd \in Nat
  BY DEF Typed, IInv, StreamsTyped, Counted
<1>2. fate = "live"
  BY DEF start, Thread, pick_parser, use_parser, read_server, read_server_fails, write_client, read_client,
         read_client_fails, write_server, client_sends, client_closes, origin_serves, origin_closes,
         Running, Feeding, Using
<1>3. odd' \in {odd, odd + 1} /\ odd' \in Nat
  <2>1. odd' = odd \/ odd' = odd + 1
    BY DEF start, Thread, pick_parser, use_parser, read_server, read_server_fails, write_client, read_client,
           read_client_fails, write_server, client_sends, client_closes, origin_serves, origin_closes,
           Unusual, peers
  <2> QED
    BY <1>1, <2>1
<1>4. issued' = issued \/ issued' = [issued EXCEPT ![t] = @ + 1]
  BY DEF start, Thread, pick_parser, use_parser, read_server, read_server_fails, write_client, read_client,
         read_client_fails, write_server, client_sends, client_closes, origin_serves, origin_closes, peers
<1>5. answered' = answered \/ answered' = [answered EXCEPT ![t] = @ + 1]
  BY DEF start, Thread, pick_parser, use_parser, read_server, read_server_fails, write_client, read_client,
         read_client_fails, write_server, client_sends, client_closes, origin_serves, origin_closes, peers
<1>6. buffer_pos' = buffer_pos \/ buffer_pos' = [buffer_pos EXCEPT ![t] = @ + 1] \/ buffer_pos' = [buffer_pos EXCEPT ![t] = 0]
  BY DEF start, Thread, pick_parser, use_parser, read_server, read_server_fails, write_client, read_client,
         read_client_fails, write_server, client_sends, client_closes, origin_serves, origin_closes, locals
<1>7. Counted'
  <2>1. issued' \in [Threads -> Nat]
    <3>1. issued \in [Threads -> Nat] /\ [issued EXCEPT ![t] = @ + 1] \in [Threads -> Nat]
      BY <1>1
    <3> QED
      BY <1>4, <3>1, Zenon
  <2>2. answered' \in [Threads -> Nat]
    <3>1. answered \in [Threads -> Nat] /\ [answered EXCEPT ![t] = @ + 1] \in [Threads -> Nat]
      BY <1>1
    <3> QED
      BY <1>5, <3>1, Zenon
  <2>3. buffer_pos' \in [Threads -> Nat]
    BY <1>1, <1>6
  <2> QED
    BY <1>3, <2>1, <2>2, <2>3 DEF Counted
<1>8. pc' = pc \/ \E q \in Places \ {"off"} : pc' = [pc EXCEPT ![t] = q]
  <2>1. \A q \in {"server", "client", "pick server", "use server", "pick client", "use client"} : q \in Places \ {"off"}
    BY DEF Places, FromServer, FromClient
  <2>2. CASE start(t)
    BY <2>1, <2>2 DEF start
  <2>3. CASE pick_parser(t)
    BY <2>1, <2>3 DEF pick_parser
  <2>4. CASE use_parser(t)
    BY <2>1, <2>4 DEF use_parser, locals
  <2>5. CASE read_server(t) \/ read_client(t)
    BY <2>1, <2>5 DEF read_server, read_client
  <2>6. CASE read_server_fails(t) \/ write_client(t)
    BY <2>1, <2>6 DEF read_server_fails, write_client, server_again
  <2>7. CASE read_client_fails(t) \/ write_server(t)
    BY <2>1, <2>7 DEF read_client_fails, write_server, client_again
  <2>8. CASE client_sends(t) \/ client_closes(t) \/ origin_serves(t) \/ origin_closes(t)
    BY <2>8 DEF client_sends, client_closes, origin_serves, origin_closes, locals
  <2> QED
    BY <2>2, <2>3, <2>4, <2>5, <2>6, <2>7, <2>8 DEF Thread
<1>9. buffer' = buffer \/ \E b : buffer' = [buffer EXCEPT ![t] = b]
  <2>2. CASE start(t) \/ pick_parser(t)
    BY <2>2 DEF start, pick_parser
  <2>4. CASE use_parser(t)
    BY <2>4 DEF use_parser, locals
  <2>5. CASE read_server(t) \/ read_client(t)
    BY <2>5 DEF read_server, read_client
  <2>6. CASE read_server_fails(t) \/ write_client(t)
    BY <2>6 DEF read_server_fails, write_client, server_again
  <2>7. CASE read_client_fails(t) \/ write_server(t)
    BY <2>7 DEF read_client_fails, write_server, client_again
  <2>8. CASE client_sends(t) \/ client_closes(t) \/ origin_serves(t) \/ origin_closes(t)
    BY <2>8 DEF client_sends, client_closes, origin_serves, origin_closes, locals
  <2> QED
    BY <2>2, <2>4, <2>5, <2>6, <2>7, <2>8 DEF Thread
<1>10. ceof' = ceof \/ ceof' = [ceof EXCEPT ![t] = TRUE]
  BY DEF start, Thread, pick_parser, use_parser, read_server, read_server_fails, write_client, read_client,
         read_client_fails, write_server, client_sends, client_closes, origin_serves, origin_closes, peers
<1>11. \A u \in Threads \ {t} : Quiet(u)
  BY <1>1, <1>4, <1>5, <1>8, <1>9, <1>10 DEF Quiet
<1>12. pc[t] # "off" => pc'[t] # "off"
  BY <1>1, <1>8
<1> QED
  BY <1>2, <1>3, <1>7, <1>11, <1>12 DEF Goes

\* What held before a step that leaves the client alone and nothing unusual done.
LEMMA SoloBefore ==
  ASSUME Typed, SoloInv, NEW t \in Threads, Goes(t), Solo'
  PROVE  InStep /\ odd = 0 /\ odd' = 0
<1>1. odd = 0 /\ odd' = 0
  <2>1. odd \in Nat /\ odd' = 0 /\ (odd' = odd \/ odd' = odd + 1)
    BY DEF Typed, Counted, Goes, Solo
  <2> QED
    BY <2>1
<1>2. ~Several
  <2>1. \A u \in Threads : pc[u] # "off" => pc'[u] # "off"
    BY DEF Goes, Quiet
  <2>2. Several => Several'
    BY <2>1, SeveralStay
  <2> QED
    BY <2>2 DEF Solo
<1> QED
  BY <1>1, <1>2 DEF SoloInv, Solo, Goes

\* The others have not started.
LEMMA OthersOff ==
  ASSUME Typed, NEW t \in Threads, Goes(t), pc'[t] # "off", Solo', NEW u \in Threads, u # t
  PROVE  pc[u] = "off" /\ pc'[u] = "off"
<1>1. pc'[u] = pc[u]
  BY DEF Goes, Quiet
<1>2. SUFFICES ASSUME pc'[u] # "off" PROVE FALSE
  BY <1>1
<1>3. Cardinality({v \in Threads : pc'[v] # "off"}) > 1
  BY <1>2, TwoOn
<1> QED
  BY <1>3 DEF Solo, Several

\* What is left to show of a step.
LEMMA SoloAfter ==
  ASSUME Typed, InStep, NEW t \in Threads, Goes(t), Counted', Solo',
         fate' = "live", DOMAIN obj' = Ids, pc'[t] # "off", InTurn(t)'
  PROVE  SoloInv'
<1>1. ASSUME NEW u \in Threads, u # t PROVE pc'[u] = "off" /\ Resting(u)'
  <2>1. pc[u] = "off" /\ pc'[u] = "off"
    BY <1>1, OthersOff
  <2>2. Resting(u) /\ Quiet(u)
    BY <1>1, <2>1 DEF InStep, Goes
  <2> QED
    BY <2>1, <2>2 DEF Resting, Quiet
<1>2. \A u \in Threads : (pc'[u] = "off" => Resting(u)') /\ (pc'[u] # "off" => InTurn(u)')
  <2> SUFFICES ASSUME NEW u \in Threads PROVE (pc'[u] = "off" => Resting(u)') /\ (pc'[u] # "off" => InTurn(u)')
    OBVIOUS
  <2>1. CASE u = t
    BY <2>1
  <2>2. CASE u # t
    BY <1>1, <2>2
  <2> QED
    BY <2>1, <2>2
<1>3. ~(\A u \in Threads : pc'[u] = "off")
  OBVIOUS
<1>4. InStep'
  BY <1>2, <1>3 DEF InStep
<1> QED
  BY <1>4 DEF SoloInv

------------------------------------------------------------------------------
(* Each action, with one client.                                             *)

\* Where a step leaves the thread.
Lands(t) == fate' = "live" /\ DOMAIN obj' = Ids /\ pc'[t] # "off" /\ InTurn(t)'

Hearing(t) == \E p \in Seq(Symbols), c \in Commands : Sending(t, p, c)
Waiting(t) == \E p \in Seq(Symbols), c \in Commands : Waits(t, p, c)

\* The place says which turn it is.
LEMMA TurnOf ==
  ASSUME NEW t \in Threads, InTurn(t)
  PROVE  /\ pc[t] = "server" => Replied(t) \/ Waiting(t)
         /\ pc[t] = "client" => Idle(t) \/ Hearing(t)
         /\ pc[t] \in FromServer => Relays(t)
         /\ pc[t] \in FromClient => Hearing(t)
<1>1. Idle(t) \/ Replied(t) \/ Relays(t) \/ Hearing(t) \/ Waiting(t)
  BY DEF InTurn, Hearing, Waiting
<1>2. Idle(t) => pc[t] = "client"
  BY DEF Idle
<1>3. Replied(t) => pc[t] = "server"
  BY DEF Replied
<1>4. Relays(t) => pc[t] \in FromServer
  BY DEF Relays
<1>5. Hearing(t) => pc[t] = "client" \/ pc[t] \in FromClient
  BY DEF Hearing, Sending
<1>6. Waiting(t) => pc[t] = "server"
  BY DEF Waiting, Waits
<1>7. \A q \in FromServer \cup FromClient : q \notin {"server", "client"}
  BY DEF FromServer, FromClient
<1>8. \A q \in FromServer : q \notin FromClient
  BY DEF FromServer, FromClient
<1> QED
  BY <1>1, <1>2, <1>3, <1>4, <1>5, <1>6, <1>7, <1>8

LEMMA TurnIs ==
  ASSUME NEW t \in Threads, server_fd'[t] = "up", ~ceof'[t],
         (Idle(t) \/ Replied(t) \/ Relays(t) \/ Hearing(t) \/ Waiting(t))'
  PROVE  InTurn(t)'
  BY DEF InTurn, Hearing, Waiting

LEMMA NoLines == Lines(<<>>) = 0
<1>1. {i \in 1..Len(<<>>) : <<>>[i] = "lf"} = {}
  OBVIOUS
<1> QED
  BY <1>1, FS_EmptySet DEF Lines

\* The thread starts with the greeting to come.
LEMMA StartLands ==
  ASSUME Typed, InStep, NEW t \in Threads, start(t), Goes(t), odd = 0, odd' = 0, Solo'
  PROVE  Lands(t)
<1>1. pc[t] = "off" /\ Silent(t) /\ Resting(t) /\ fate = "live"
  BY DEF start, Running, Typed, IInv, Local, InStep
<1>2. /\ server_fd' = [server_fd EXCEPT ![t] = "up"] /\ sin' = [sin EXCEPT ![t] = GREETING]
      /\ pc' = [pc EXCEPT ![t] = "server"] /\ fate' = fate
  BY DEF start, Unusual, Solo
<1>3. UNCHANGED <<curr_parser, cmd, has_args, cmd_type, answer_status, obj, buffer, cin, ceof, typed, sgot, issued, answered>>
  BY DEF start, globals
<1>4. pc'[t] = "server" /\ server_fd'[t] = "up" /\ sin'[t] = GREETING
  BY <1>2 DEF Typed, IInv, StreamsTyped
<1>5. \A u \in Threads : pc[u] = "off"
  BY <1>1, <1>4, OthersOff
<1>6. Cleared /\ cmd_type = "NOT_CMD" /\ DOMAIN obj = Ids
  BY <1>5 DEF InStep
<1>7. Settled(t)'
  <2>1. cin'[t] = <<>> /\ sgot'[t] = <<>> /\ typed'[t] = <<>> /\ answered'[t] = 0 /\ issued'[t] = 0
    BY <1>1, <1>3 DEF Silent, Resting
  <2> QED
    BY <2>1, NoLines DEF Settled, Whole
<1>8. Apt(sin[t])'
  <2>1. ~Listing'
    BY <1>3, <1>6 DEF Listing
  <2>2. Short(GREETING)
    BY DEF Short, GREETING
  <2>3. Short(sin'[t])
    BY <1>4, <2>2
  <2> QED
    BY <2>1, <2>3 DEF Apt
<1>9. Replied(t)'
  BY <1>1, <1>3, <1>4, <1>6, <1>7, <1>8 DEF Replied, Resting, Cleared
<1>10. ~ceof'[t]
  BY <1>1, <1>3 DEF Resting
<1>11. InTurn(t)'
  BY <1>4, <1>9, <1>10, TurnIs
<1> QED
  BY <1>1, <1>2, <1>3, <1>4, <1>6, <1>11 DEF Lands

\* The reply arrives whole, in an empty buffer.
LEMMA ReadServerLands ==
  ASSUME Typed, InStep, NEW t \in Threads, read_server(t), odd = 0, odd' = 0
  PROVE  Lands(t)
<1> DEFINE r == sin[t]
<1>1. pc[t] = "server" /\ fate = "live" /\ r # <<>> /\ InTurn(t)
  BY DEF read_server, Running, InStep
<1>2. ~Waiting(t)
  BY <1>1 DEF Waiting, Waits, Last
<1>3. Replied(t)
  BY <1>1, <1>2, TurnOf
<1>4. r \in Seq(Symbols) /\ buffer[t] = <<>> /\ Len(r) \in Nat
  BY <1>3 DEF Typed, IInv, StreamsTyped, Replied
<1>5. PICK n \in 1..Len(r) :
        /\ buffer' = [buffer EXCEPT ![t] = Take(r, n) \o Drop(@, n)]
        /\ bytes' = [bytes EXCEPT ![t] = n] /\ sin' = [sin EXCEPT ![t] = Drop(@, n)]
        /\ Unusual(n < Len(r))
  <2>1. PICK n \in (IF "segments" \in Faults THEN 1..Len(r) ELSE {Len(r)}) :
        /\ buffer' = [buffer EXCEPT ![t] = Take(r, n) \o Drop(@, n)]
        /\ bytes' = [bytes EXCEPT ![t] = n] /\ sin' = [sin EXCEPT ![t] = Drop(@, n)]
        /\ Unusual(n < Len(r))
    BY DEF read_server
  <2>2. Len(r) \in 1..Len(r)
    BY <1>1, <1>4, EmptySeq
  <2>3. n \in 1..Len(r)
    BY <2>2
  <2> QED
    BY <2>1, <2>3
<1>6. n = Len(r)
  <2>1. ~(n < Len(r))
    BY <1>5 DEF Unusual
  <2> QED
    BY <1>4, <2>1
<1>7. Take(r, n) = r /\ Drop(r, n) = <<>> /\ Drop(<<>>, n) = <<>>
  BY <1>4, <1>6, SubSeqFull, SubSeqEmpty DEF Take, Drop
<1>8. buffer'[t] = r /\ bytes'[t] = Len(r) /\ sin'[t] = <<>>
  <2>1. r \o <<>> = r
    BY <1>4, EmptyStream
  <2>2. buffer'[t] = Take(r, n) \o Drop(buffer[t], n) /\ bytes'[t] = n /\ sin'[t] = Drop(r, n)
    BY <1>5 DEF Typed, IInv, StreamsTyped
  <2> QED
    BY <1>4, <1>6, <1>7, <2>1, <2>2
<1>9. /\ UNCHANGED <<curr_parser, cmd, has_args, cmd_type, answer_status, obj, fate, server_fd, ceof, cin, typed, sgot, issued, answered>>
      /\ pc' = [pc EXCEPT ![t] = "pick server"] /\ buffer_pos' = [buffer_pos EXCEPT ![t] = 0]
  BY DEF read_server, globals
<1>10. pc'[t] = "pick server" /\ buffer_pos'[t] = 0
  BY <1>9 DEF Typed, IInv, StreamsTyped, Counted
<1>11. Settled(t)' /\ Apt(buffer[t])'
  <2>1. Settled(t)'
    BY <1>3, <1>9 DEF Replied, Settled
  <2> QED
    BY <1>3, <1>8, <1>9, <2>1 DEF Replied, Apt, Listing
<1>12. curr_parser' = NULL /\ ~answer_status'
  BY <1>3, <1>9 DEF Replied
<1>13. Relays(t)'
  <2> DEFINE n1 == Len(r)
  <2>1. 0 \in 0..n1 /\ 0 # n1 /\ 0 \notin 1..2 /\ ~(0 > 0)
    BY <1>4, <1>5, <1>6
  <2>2. Len(buffer'[t]) = n1 /\ bytes'[t] = n1
    BY <1>8
  <2> HIDE DEF n1
  <2>3. pc'[t] \in FromServer /\ pc'[t] # "use server"
    BY <1>10 DEF FromServer
  <2> QED
    BY <1>8, <1>10, <1>11, <1>12, <2>1, <2>2, <2>3, Zenon DEF Relays
<1>14. InTurn(t)'
  <2>1. server_fd'[t] = "up" /\ ~ceof'[t]
    BY <1>1, <1>9 DEF InTurn
  <2> QED
    BY <1>13, <2>1, TurnIs
<1> QED
  BY <1>1, <1>9, <1>10, <1>14 DEF Lands, InStep

\* What is known while a command is on its way.
LEMMA OnItsWay ==
  ASSUME PlainInputs, Typed, NEW t \in Threads, server_fd[t] = "up",
         NEW p \in Seq(Symbols), NEW c \in Commands, Last(t, p, c)
  PROVE  /\ c \in Seq(Symbols) /\ PlainCommand(c) /\ Len(p) \in Nat /\ Len(c) \in Nat /\ Len(c) >= 3
         /\ Held(t, FromClient) \in Seq(Symbols) /\ cin[t] \in Seq(Symbols) /\ sgot[t] \in Seq(Symbols)
         /\ sgot[t] \o (Held(t, FromClient) \o cin[t]) = p \o c
         /\ Len(sgot[t]) + Len(Held(t, FromClient)) + Len(cin[t]) = Len(p) + Len(c)
<1> DEFINE h == Held(t, FromClient)
           n == cin[t]
           g == sgot[t]
<1>1. c \in Seq(Symbols) /\ PlainCommand(c) /\ Len(p) \in Nat /\ Len(c) \in Nat /\ Len(c) >= 3
  BY ThreadInputsAssumption DEF PlainInputs, PlainCommand, Symbols
<1>2. h \in Seq(Symbols) /\ n \in Seq(Symbols) /\ g \in Seq(Symbols)
  BY HeldTyped DEF Typed, IInv, StreamsTyped
<1>3. g \o h \o n = p \o c
  BY DEF Typed, IInv, Local, Own, Last
<1> HIDE DEF h, n, g
<1>4. g \o (h \o n) = p \o c
  BY <1>2, <1>3, StreamPieces
<1>5. Len(h \o n) = Len(h) + Len(n) /\ h \o n \in Seq(Symbols)
  BY <1>2, ConcatProperties
<1>6. Len(g \o (h \o n)) = Len(g) + Len(h \o n)
  BY <1>2, <1>5, ConcatProperties
<1>7. Len(p \o c) = Len(p) + Len(c)
  BY <1>1, ConcatProperties
<1>8. Len(g) \in Nat /\ Len(h) \in Nat /\ Len(n) \in Nat
  BY <1>2
<1>9. Len(g) + Len(h) + Len(n) = Len(p) + Len(c)
  BY <1>4, <1>5, <1>6, <1>7, <1>8
<1> QED
  BY <1>1, <1>2, <1>4, <1>9 DEF h, n, g

\* Until all of a command has been forwarded the origin has the lines before it.
LEMMA LinesForwarded ==
  ASSUME PlainInputs, Typed, NEW t \in Threads, server_fd[t] = "up",
         NEW p \in Seq(Symbols), NEW c \in Commands, Last(t, p, c), Len(sgot[t]) \in Len(p)..Len(p) + Len(c) - 1
  PROVE  Lines(sgot[t]) = answered[t]
<1> DEFINE h == Held(t, FromClient)
           g == sgot[t]
           b == h \o cin[t]
<1>1. c \in Seq(Symbols) /\ PlainCommand(c) /\ g \in Seq(Symbols) /\ b \in Seq(Symbols) /\ g \o b = p \o c
  BY OnItsWay, StreamsJoin
<1> HIDE DEF g, h, b
<1>2. Take(g \o b, Len(g)) = g
  BY <1>1, TakeOfOverwritten
<1>3. Lines(Take(p \o c, Len(g))) = Lines(p)
  BY <1>1, CommandCounts DEF g
<1>4. Lines(g) = Lines(p)
  BY <1>1, <1>2, <1>3
<1> QED
  BY <1>4 DEF g, Last

\* The reply is written and the parser reset.
LEMMA WriteClientLands ==
  ASSUME Typed, InStep, NEW t \in Threads, write_client(t)
  PROVE  Lands(t)
<1>1. pc[t] = "pick server" /\ fate = "live" /\ buffer_pos[t] = Len(buffer[t]) /\ InTurn(t)
  BY DEF write_client, Running, InStep
<1>2. Relays(t)
  BY <1>1, TurnOf DEF FromServer
<1>3. ServerDone(t)
  BY <1>1, <1>2 DEF Relays, ServerDone
<1>4. /\ pop3_parser_reset
      /\ pc' = [pc EXCEPT ![t] = "client"] /\ buffer' = [buffer EXCEPT ![t] = <<>>]
  BY <1>3 DEF write_client, server_again
<1>5. pc'[t] = "client" /\ buffer'[t] = <<>>
  BY <1>4 DEF Typed, IInv, StreamsTyped
<1>6. UNCHANGED <<fate, server_fd, cin, ceof, sin, typed, sgot, issued, answered>>
  BY DEF write_client
<1>7. Cleared' /\ DOMAIN obj' = Ids
  BY <1>4 DEF pop3_parser_reset, Cleared, Kept
<1>8. Settled(t)' /\ sin'[t] = <<>>
  BY <1>2, <1>6 DEF Relays, Settled
<1>9. Idle(t)'
  BY <1>5, <1>7, <1>8 DEF Idle
<1>10. InTurn(t)'
  <2>1. server_fd'[t] = "up" /\ ~ceof'[t]
    BY <1>1, <1>6 DEF InTurn
  <2> QED
    BY <1>9, <2>1, TurnIs
<1> QED
  BY <1>1, <1>5, <1>6, <1>7, <1>10 DEF Lands

\* A command on its way arrives, whole or in part.
LEMMA ReadClientLands ==
  ASSUME Typed, InStep, NEW t \in Threads, read_client(t)
  PROVE  Lands(t)
<1>1. pc[t] = "client" /\ fate = "live" /\ cin[t] # <<>> /\ InTurn(t)
  BY DEF read_client, Running, InStep
<1>2. ~Idle(t)
  BY <1>1 DEF Idle, Settled
<1>3. PICK p \in Seq(Symbols), c \in Commands : Sending(t, p, c)
  BY <1>1, <1>2, TurnOf DEF Hearing
<1>4. PICK n \in 1..Len(cin[t]) :
        /\ buffer' = [buffer EXCEPT ![t] = Take(cin[t], n)]
        /\ bytes' = [bytes EXCEPT ![t] = n]
  BY DEF read_client
<1>5. /\ UNCHANGED <<curr_parser, cmd, has_args, cmd_type, answer_status, obj, event, fate, server_fd, ceof, sin, typed, sgot, issued, answered>>
      /\ pc' = [pc EXCEPT ![t] = "pick client"] /\ buffer_pos' = [buffer_pos EXCEPT ![t] = 0]
  BY DEF read_client, globals
<1>6. pc'[t] = "pick client" /\ buffer_pos'[t] = 0 /\ buffer'[t] = Take(cin[t], n) /\ bytes'[t] = n
  BY <1>4, <1>5 DEF Typed, IInv, StreamsTyped, Counted
<1>7. Len(buffer'[t]) = n /\ n \in Nat /\ n > 0
  <2>1. cin[t] \in Seq(Symbols) /\ n \in 0..Len(cin[t])
    BY DEF Typed, IInv, StreamsTyped
  <2>2. Len(Take(cin[t], n)) = n
    BY <2>1, CutInTwo
  <2>3. n \in Nat /\ n > 0
    BY <2>1
  <2> QED
    BY <1>6, <2>2, <2>3
<1>8. Last(t, p, c)'
  BY <1>3, <1>5 DEF Sending, Last
<1>9. Fed(t, p)' = Fed(t, p)
  BY <1>1, <1>5, <1>6 DEF Fed, FromClient
<1>10. Heard(t, c, Fed(t, p))'
  <2>1. Heard(t, c, Fed(t, p))
    BY <1>3 DEF Sending
  <2> QED
    BY <1>1, <1>5, <1>6, <1>9, <2>1 DEF Heard, Parsing, Recognised
<1>11. Sending(t, p, c)'
  <2>1. Fed(t, p)' \in 0..Len(c) /\ Len(sgot'[t]) \in Len(p)..Len(p) + Len(c) - 1
    BY <1>3, <1>5, <1>9 DEF Sending
  <2>2. pc'[t] \in FromClient /\ pc'[t] # "use client"
    BY <1>6 DEF FromClient
  <2>3. buffer_pos'[t] \in 0..Len(buffer'[t]) /\ bytes'[t] = Len(buffer'[t]) /\ Len(buffer'[t]) > 0 /\ ~(buffer_pos'[t] > 0)
    <3>1. 0 \in 0..n /\ ~(0 > 0)
      BY <1>7
    <3> QED
      BY <1>6, <1>7, <3>1, Zenon
  <2> QED
    BY <1>8, <1>10, <2>1, <2>2, <2>3 DEF Sending
<1>12. InTurn(t)'
  <2>1. server_fd'[t] = "up" /\ ~ceof'[t]
    BY <1>1, <1>5 DEF InTurn
  <2>2. Hearing(t)'
    BY <1>11 DEF Hearing
  <2> QED
    BY <2>1, <2>2, TurnIs
<1> QED
  BY <1>1, <1>5, <1>6, <1>12 DEF Lands, InStep

LEMMA NullIsNone == NULL \notin Ids
<1>1. Cardinality(Threads) \in Nat
  BY FS_CardinalityType, ThreadInputsAssumption
<1> QED
  BY <1>1 DEF NULL, Ids

\* What was read of the command is forwarded; after the last of it the thread waits.
LEMMA WriteServerLands ==
  ASSUME PlainInputs, Typed, InStep, NEW t \in Threads, write_server(t)
  PROVE  Lands(t)
<1> DEFINE b == buffer[t]
           h == Held(t, FromClient)
           g == sgot[t]
           z == cin[t]
<1>1. pc[t] = "pick client" /\ fate = "live" /\ buffer_pos[t] = Len(b) /\ InTurn(t) /\ DOMAIN obj = Ids
  BY DEF write_server, Running, InStep
<1>2. pc[t] \in FromClient /\ pc[t] # "client"
  BY <1>1 DEF FromClient
<1>3. server_fd[t] = "up" /\ ~ceof[t]
  BY <1>1 DEF InTurn
<1>4. PICK p \in Seq(Symbols), c \in Commands : Sending(t, p, c)
  BY <1>1, <1>2, TurnOf DEF Hearing
<1>5. Last(t, p, c) /\ bytes[t] = Len(b) /\ Len(b) > 0 /\ Heard(t, c, Fed(t, p)) /\ Fed(t, p) \in 0..Len(c) /\ Len(g) \in Len(p)..Len(p) + Len(c) - 1
  BY <1>2, <1>4 DEF Sending
<1>6. /\ c \in Seq(Symbols) /\ PlainCommand(c) /\ Len(p) \in Nat /\ Len(c) \in Nat /\ Len(c) >= 3
      /\ h \in Seq(Symbols) /\ z \in Seq(Symbols) /\ g \in Seq(Symbols)
      /\ g \o (h \o z) = p \o c /\ Len(g) + Len(h) + Len(z) = Len(p) + Len(c)
  BY <1>3, <1>5, OnItsWay
<1>7. b \in Seq(Symbols) /\ Len(b) \in Nat
  BY DEF Typed, IInv, StreamsTyped
<1>8. h = outgoing(t) /\ Len(h) = Len(b)
  <2>1. h = Take(b, bytes[t])
    BY <1>2 DEF Held
  <2>2. Take(b, Len(b)) = b
    BY <1>7, SubSeqFull DEF Take
  <2> HIDE DEF b, h
  <2> QED
    BY <1>5, <2>1, <2>2 DEF outgoing, b
<1>9. /\ sgot' = [sgot EXCEPT ![t] = g \o outgoing(t)]
      /\ pc' = [pc EXCEPT ![t] = IF ClientDone(t) THEN "server" ELSE "client"] /\ buffer' = [buffer EXCEPT ![t] = <<>>]
      /\ UNCHANGED <<curr_parser, cmd, has_args, cmd_type, answer_status, obj, event, fate, server_fd, cin, ceof, sin, typed, issued, answered>>
  BY <1>3 DEF write_server, client_again, globals
<1>10. /\ sgot'[t] = g \o h /\ buffer'[t] = <<>>
       /\ pc'[t] = IF ClientDone(t) THEN "server" ELSE "client"
  BY <1>8, <1>9 DEF Typed, IInv, StreamsTyped
<1>11. Len(g \o h) = Len(g) + Len(h) /\ Len(g) \in Nat /\ Len(h) \in Nat /\ Len(z) \in Nat
  BY <1>6, ConcatProperties
<1>12. Fed(t, p) = Len(g) - Len(p) + Len(h) /\ Fed(t, p) + Len(z) = Len(c)
  <2>1. Fed(t, p) = Len(g) - Len(p) + Len(b)
    BY <1>1, <1>2 DEF Fed
  <2> HIDE DEF b, h, g, z
  <2> QED
    BY <1>6, <1>8, <1>11, <2>1
<1>13. ClientDone(t) <=> Fed(t, p) = Len(c)
  <2>1. event[t] \in Ids /\ obj[event[t]].type # "BAD_CMD" /\ (obj[event[t]].type = "SET_CMD" <=> Fed(t, p) = Len(c))
    BY <1>1, <1>2, <1>4, <1>5 DEF Sending
  <2> QED
    BY <2>1, NullIsNone DEF ClientDone
<1>14. Last(t, p, c)'
  BY <1>5, <1>9 DEF Last
<1>15. CASE Fed(t, p) = Len(c)
  <2>1. z = <<>>
    <3>1. Len(z) = 0
      <4> HIDE DEF z
      <4> QED
        BY <1>6, <1>11, <1>12, <1>15
    <3> QED
      BY <1>6, <3>1, EmptySeq
  <2>2. sgot'[t] = typed'[t]
    <3>1. h \o z = h
      BY <1>6, <2>1, EmptyStream
    <3>2. typed[t] = p \o c
      BY <1>5 DEF Last
    <3> QED
      BY <1>6, <1>9, <1>10, <3>1, <3>2
  <2>3. pc'[t] = "server"
    BY <1>10, <1>13, <1>15
  <2>4. ~answer_status /\ curr_parser = NULL /\ Recognised(c)
    BY <1>5, <1>15 DEF Heard
  <2>5. Waits(t, p, c)'
    BY <1>9, <1>10, <1>14, <2>1, <2>2, <2>3, <2>4 DEF Waits, Recognised
  <2>6. InTurn(t)'
    BY <1>3, <1>9, <2>5, TurnIs DEF Waiting
  <2> QED
    BY <1>1, <1>9, <2>3, <2>6 DEF Lands
<1>16. CASE Fed(t, p) # Len(c)
  <2>1. pc'[t] = "client" /\ pc'[t] \notin FromClient
    BY <1>10, <1>13, <1>16 DEF FromClient
  <2>2. Fed(t, p)' = Len(sgot'[t]) - Len(p) + 0
    BY <2>1 DEF Fed
  <2>3. Fed(t, p)' = Fed(t, p) /\ Len(sgot'[t]) \in Len(p)..Len(p) + Len(c) - 1
    <3> HIDE DEF g, h, z
    <3>1. Len(sgot'[t]) = Len(g) + Len(h)
      BY <1>10, <1>11
    <3>2. Fed(t, p) \in 0..Len(c) - 1
      BY <1>5, <1>6, <1>16
    <3> QED
      BY <1>6, <1>11, <1>12, <2>2, <3>1, <3>2
  <2>4. Heard(t, c, Fed(t, p))'
    BY <1>1, <1>5, <1>9, <2>1, <2>3 DEF Heard, Parsing, Recognised
  <2>5. Sending(t, p, c)'
    BY <1>5, <1>10, <1>14, <2>1, <2>3, <2>4 DEF Sending
  <2>6. InTurn(t)'
    BY <1>3, <1>9, <2>5, TurnIs DEF Hearing
  <2> QED
    BY <1>1, <1>9, <2>1, <2>6 DEF Lands
<1> QED
  BY <1>15, <1>16

\* A reply is not empty.
LEMMA AptLength ==
  ASSUME NEW r \in Seq(Symbols), Apt(r)
  PROVE  Len(r) \in Nat /\ Len(r) >= 3 /\ r # <<>>
<1>1. Len(r) \in Nat /\ (Len(r) = 3 \/ Len(r) >= 9)
  BY DEF Apt, Short, Long
<1>2. \A n \in Nat : n = 3 \/ n >= 9 => n >= 3 /\ n # 0
  OBVIOUS
<1> QED
  BY <1>1, <1>2

\* Only a client that has its reply sends the next command.
LEMMA ClientSendsLands ==
  ASSUME PlainInputs, Typed, InStep, NEW t \in Threads, client_sends(t), odd = 0, odd' = 0
  PROVE  Lands(t)
<1>1. AllAnswered(t) /\ pc[t] # "off" /\ fate = "live" /\ InTurn(t) /\ DOMAIN obj = Ids
  BY DEF client_sends, Unusual, InStep
<1>2. /\ UNCHANGED <<curr_parser, cmd, has_args, cmd_type, answer_status, obj, pc, buffer, buffer_pos, bytes, event, fate, server_fd, ceof, sin, sgot, answered>>
      /\ issued' = [issued EXCEPT ![t] = @ + 1]
  BY DEF client_sends, globals, locals
<1>3. PICK c \in Commands : typed' = [typed EXCEPT ![t] = @ \o c]
  BY DEF client_sends
<1>4. /\ cgot[t] \in Seq(Symbols) /\ Held(t, FromServer) \in Seq(Symbols) /\ sin[t] \in Seq(Symbols) /\ said[t] = cgot[t]
      /\ cgot[t] \o Held(t, FromServer) \o sin[t] = said[t]
  BY <1>1, HeldTyped DEF Typed, IInv, StreamsTyped, Local, Own, AllAnswered, InTurn
<1>5. Len(Held(t, FromServer)) = 0 /\ Len(sin[t]) = 0
  <2> DEFINE a == cgot[t]
             h == Held(t, FromServer)
             i == sin[t]
  <2> HIDE DEF a, h, i
  <2>1. a \in Seq(Symbols) /\ h \in Seq(Symbols) /\ i \in Seq(Symbols) /\ a \o h \o i = a
    BY <1>4 DEF a, h, i
  <2>2. Len(a \o h) = Len(a) + Len(h) /\ a \o h \in Seq(Symbols)
    BY <2>1, ConcatProperties
  <2>3. Len(a) = Len(a \o h) + Len(i)
    BY <2>1, <2>2, ConcatProperties
  <2>4. Len(a) \in Nat /\ Len(h) \in Nat /\ Len(i) \in Nat
    BY <2>1
  <2>5. Len(h) = 0 /\ Len(i) = 0
    BY <2>2, <2>3, <2>4
  <2> QED
    BY <2>5 DEF h, i
<1>6. ~Replied(t)
  <2>1. Replied(t) => Len(sin[t]) >= 3
    BY <1>4, AptLength DEF Replied
  <2> QED
    BY <1>5, <2>1
<1>7. ~Relays(t)
  <2> SUFFICES ASSUME Relays(t) PROVE FALSE
    OBVIOUS
  <2>1. Len(buffer[t]) >= 3 /\ pc[t] \in FromServer /\ bytes[t] = Len(buffer[t])
    <3>1. buffer[t] \in Seq(Symbols) /\ Apt(buffer[t])
      BY DEF Typed, IInv, StreamsTyped, Relays
    <3> QED
      BY <3>1, AptLength DEF Relays
  <2>2. Take(buffer[t], Len(buffer[t])) = buffer[t]
    BY SubSeqFull DEF Take, Typed, IInv, StreamsTyped
  <2>3. Held(t, FromServer) = buffer[t]
    BY <2>1, <2>2 DEF Held
  <2> QED
    BY <1>5, <2>1, <2>3
<1>8. issued[t] = answered[t] /\ issued[t] \in Nat
  BY <1>1 DEF AllAnswered, Typed, Counted
<1>9. ~Hearing(t) /\ ~Waiting(t)
  <2>1. issued[t] # answered[t] + 1
    BY <1>8
  <2> QED
    BY <2>1 DEF Hearing, Waiting, Sending, Waits, Last
<1>10. Idle(t)
  BY <1>1, <1>6, <1>7, <1>9 DEF InTurn, Hearing, Waiting
<1>11. PICK p \in Seq(Symbols) : p = typed[t]
  BY DEF Typed, IInv, StreamsTyped
<1>12. c \in Seq(Symbols) /\ PlainCommand(c) /\ Len(p) \in Nat /\ Len(c) \in Nat /\ Len(c) >= 3
  BY ThreadInputsAssumption DEF Symbols, PlainInputs, PlainCommand
<1>13. typed'[t] = p \o c /\ issued'[t] = issued[t] + 1
  BY <1>2, <1>3, <1>11 DEF Typed, IInv, StreamsTyped, Counted
<1>14. pc'[t] = "client" /\ pc'[t] \notin FromClient /\ buffer'[t] = <<>> /\ sgot'[t] = p /\ sin'[t] = <<>>
  BY <1>2, <1>10, <1>11 DEF Idle, Settled, FromClient
<1>15. Last(t, p, c)'
  <2>1. Whole(p) /\ answered[t] = Lines(p)
    BY <1>10, <1>11 DEF Idle, Settled
  <2>2. issued'[t] = answered'[t] + 1
    BY <1>2, <1>8, <1>13
  <2> QED
    BY <1>2, <1>13, <1>14, <2>1, <2>2 DEF Last
<1>16. Fed(t, p)' = 0
  <2>1. Fed(t, p)' = Len(sgot'[t]) - Len(p) + 0
    BY <1>14 DEF Fed
  <2> QED
    BY <1>12, <1>14, <2>1
<1>17. Heard(t, c, 0)'
  <2>1. Cleared
    BY <1>10 DEF Idle
  <2>2. 0 \notin 1..Len(c) - 1 /\ ~(0 > 0) /\ 0 # Len(c) /\ pc'[t] # "use client"
    BY <1>12, <1>14
  <2> QED
    BY <1>2, <2>1, <2>2 DEF Cleared, Heard
<1>18. Sending(t, p, c)'
  <2>1. 0 \in 0..Len(c) /\ Len(p) \in Len(p)..Len(p) + Len(c) - 1
    BY <1>12
  <2>2. Heard(t, c, Fed(t, p))'
    BY <1>16, <1>17
  <2> QED
    BY <1>14, <1>15, <1>16, <2>1, <2>2 DEF Sending
<1>19. InTurn(t)'
  <2>1. server_fd'[t] = "up" /\ ~ceof'[t]
    BY <1>1, <1>2 DEF InTurn
  <2> QED
    BY <1>18, <2>1, TurnIs DEF Hearing
<1> QED
  BY <1>1, <1>2, <1>19 DEF Lands

\* A listing, element by element.
LEMMA ReplyOf ==
  ASSUME NEW b \in Seq(Symbols), NEW r, r = <<"plus", "cr", "lf">> \o b \o <<"dot", "cr", "lf">>
  PROVE  /\ r \in Seq(Symbols) /\ Len(b) \in Nat /\ Len(r) = Len(b) + 6
         /\ r[1] = "plus" /\ r[2] = "cr" /\ r[3] = "lf"
         /\ \A i \in 1..Len(b) : r[i + 3] = b[i]
         /\ r[Len(b) + 4] = "dot" /\ r[Len(b) + 5] = "cr" /\ r[Len(b) + 6] = "lf"
<1> DEFINE G == <<"plus", "cr", "lf">>
           D == <<"dot", "cr", "lf">>
           a == G \o b
           m == Len(b)
<1>1. /\ G \in Seq(Symbols) /\ Len(G) = 3 /\ G[1] = "plus" /\ G[2] = "cr" /\ G[3] = "lf"
      /\ D \in Seq(Symbols) /\ Len(D) = 3 /\ D[1] = "dot" /\ D[2] = "cr" /\ D[3] = "lf"
      /\ m \in Nat
  BY DEF Symbols, Bytes
<1> HIDE DEF G, D, m
<1>2. a \in Seq(Symbols) /\ Len(a) = 3 + m /\ \A i \in 1..3 + m : a[i] = IF i <= 3 THEN G[i] ELSE b[i - 3]
  <2>1. a \in Seq(Symbols) /\ Len(a) = Len(G) + Len(b) /\ \A i \in 1..Len(G) + Len(b) : a[i] = IF i <= Len(G) THEN G[i] ELSE b[i - Len(G)]
    BY <1>1, ConcatProperties
  <2> HIDE DEF a
  <2> QED
    BY <1>1, <2>1 DEF m
<1> HIDE DEF a
<1>3. r = a \o D
  BY DEF a, G, D
<1>4. r \in Seq(Symbols) /\ Len(r) = (3 + m) + 3 /\ \A i \in 1..(3 + m) + 3 : r[i] = IF i <= 3 + m THEN a[i] ELSE D[i - (3 + m)]
  <2> DEFINE d == a \o D
  <2>1. d \in Seq(Symbols) /\ Len(d) = Len(a) + Len(D) /\ \A i \in 1..Len(a) + Len(D) : d[i] = IF i <= Len(a) THEN a[i] ELSE D[i - Len(a)]
    BY ONLY <1>1, <1>2, ConcatProperties
  <2> HIDE DEF d
  <2>2. r = d
    BY <1>3 DEF d
  <2> QED
    BY <1>1, <1>2, <2>1, <2>2
<1>5. r[1] = "plus" /\ r[2] = "cr" /\ r[3] = "lf"
  <2>1. \A i \in 1..3 : i \in 1..(3 + m) + 3 /\ i <= 3 + m /\ i \in 1..3 + m /\ i <= 3
    BY <1>1
  <2>2. \A i \in 1..3 : r[i] = G[i]
    BY <1>2, <1>4, <2>1
  <2> QED
    BY <1>1, <2>2
<1>6. \A i \in 1..m : r[i + 3] = b[i]
  <2> SUFFICES ASSUME NEW i \in 1..m PROVE r[i + 3] = b[i]
    OBVIOUS
  <2>1. i + 3 \in 1..(3 + m) + 3 /\ i + 3 <= 3 + m /\ i + 3 \in 1..3 + m /\ ~(i + 3 <= 3) /\ i + 3 - 3 = i
    BY <1>1
  <2> QED
    BY <1>2, <1>4, <2>1
<1>7. r[m + 4] = "dot" /\ r[m + 5] = "cr" /\ r[m + 6] = "lf"
  <2>1. \A i \in 1..3 : r[m + 3 + i] = D[i]
    <3> SUFFICES ASSUME NEW i \in 1..3 PROVE r[m + 3 + i] = D[i]
      OBVIOUS
    <3> DEFINE k == m + 3 + i
    <3>1. k \in 1..(3 + m) + 3 /\ ~(k <= 3 + m) /\ k - (3 + m) = i
      BY <1>1
    <3> HIDE DEF k
    <3>2. r[k] = D[i]
      BY <1>4, <3>1
    <3> QED
      BY <3>2 DEF k
  <2>2. m + 3 + 1 = m + 4 /\ m + 3 + 2 = m + 5 /\ m + 3 + 3 = m + 6
    BY <1>1
  <2>3. 1 \in 1..3 /\ 2 \in 1..3 /\ 3 \in 1..3
    OBVIOUS
  <2>4. r[m + 3 + 1] = D[1] /\ r[m + 3 + 2] = D[2] /\ r[m + 3 + 3] = D[3]
    BY <2>1, <2>3, Zenon
  <2> QED
    BY <1>1, <2>2, <2>4
<1>8. Len(r) = m + 6
  BY <1>1, <1>4
<1> QED
  BY <1>1, <1>4, <1>5, <1>6, <1>7, <1>8 DEF m

LEMMA ListingIsLong ==
  ASSUME NEW b \in Seq(Symbols), PlainBody(b), b[1] = "ch",
         NEW r, r = <<"plus", "cr", "lf">> \o b \o <<"dot", "cr", "lf">>
  PROVE  Long(r)
<1> DEFINE m == Len(b)
           n == Len(r)
<1>1. /\ r \in Seq(Symbols) /\ m \in Nat /\ n = m + 6
      /\ r[1] = "plus" /\ r[2] = "cr" /\ r[3] = "lf"
      /\ \A i \in 1..m : r[i + 3] = b[i]
      /\ r[m + 4] = "dot" /\ r[m + 5] = "cr" /\ r[m + 6] = "lf"
  BY ReplyOf
<1>2. m >= 3 /\ b[m] = "lf"
  BY DEF PlainBody
<1>3. ASSUME NEW i \in 2..m
      PROVE  /\ b[i] = "lf" => b[i - 1] = "cr"
             /\ b[i] = "cr" => b[i - 1] \notin {"cr", "lf"} /\ (b[i - 1] = "dot" => i > 2 /\ b[i - 2] # "lf")
  BY DEF PlainBody
<1> HIDE DEF m, n
<1>4. n >= 9 /\ n - 3 = m + 3 /\ n - 2 = m + 4 /\ n - 1 = m + 5 /\ m \in 1..m /\ 1 \in 1..m /\ 1 + 3 = 4
  BY <1>1, <1>2
<1>5. r[4] = "ch" /\ r[n - 3] = "lf" /\ r[n - 2] = "dot" /\ r[n - 1] = "cr" /\ r[n] = "lf"
  <2>1. r[1 + 3] = b[1] /\ r[m + 3] = b[m]
    BY <1>1, <1>4
  <2> QED
    BY <1>1, <1>2, <1>4, <2>1
<1>6. ASSUME NEW i \in 5..n - 3
      PROVE  /\ r[i] = "lf" => r[i - 1] = "cr"
             /\ r[i] = "cr" => r[i - 1] \notin {"cr", "lf"} /\ (r[i - 1] = "dot" => r[i - 2] # "lf")
  <2> DEFINE j == i - 3
  <2>1. j \in 2..m /\ j \in 1..m /\ j + 3 = i /\ j - 1 \in 1..m /\ j - 1 + 3 = i - 1
    BY <1>1, <1>4
  <2>2. j > 2 => j - 2 \in 1..m /\ j - 2 + 3 = i - 2
    BY <1>1, <1>4
  <2> HIDE DEF j
  <2>3. r[i] = b[j] /\ r[i - 1] = b[j - 1] /\ (j > 2 => r[i - 2] = b[j - 2])
    BY <1>1, <2>1, <2>2
  <2>4. /\ b[j] = "lf" => b[j - 1] = "cr"
        /\ b[j] = "cr" => b[j - 1] \notin {"cr", "lf"} /\ (b[j - 1] = "dot" => j > 2 /\ b[j - 2] # "lf")
    BY <1>3, <2>1
  <2> QED
    BY <2>3, <2>4
<1>7. n >= 9 /\ r[1] = "plus" /\ r[2] = "cr" /\ r[3] = "lf"
  BY <1>1, <1>4
<1> QED
  BY <1>5, <1>6, <1>7 DEF Long, n

\* The command that the parser recognised, and the one the origin answers.
LEMMA ListingTold ==
  ASSUME NEW c, Recognised(c)
  PROVE  Listing <=> toupper(c[1]) = "RETR" \/ (toupper(c[1]) = "LIST" /\ c[2] # "sp")
<1> DEFINE y == toupper(c[1])
<1>1. get_command_type(<<y>>) = IF y = "RETR" THEN "MULTILINE" ELSE IF y = "LIST" THEN "OVERLOADED" ELSE "SINGLELINE"
  <2> HIDE DEF y
  <2>1. (<<y>> = <<"RETR">> <=> y = "RETR") /\ (<<y>> = <<"LIST">> <=> y = "LIST")
    OBVIOUS
  <2> QED
    BY <2>1 DEF get_command_type, multiline_commands, overloaded_commands
<1>2. cmd_type = get_command_type(<<y>>) /\ (has_args <=> c[2] = "sp")
  BY DEF Recognised
<1> HIDE DEF y
<1>3. Listing <=> y = "RETR" \/ (y = "LIST" /\ c[2] # "sp")
  BY <1>1, <1>2 DEF Listing
<1> QED
  BY <1>3 DEF y

\* The plain replies of the origin are those the parser takes for what they are.
LEMMA RepliesApt ==
  ASSUME PlainInputs, NEW c, Recognised(c), NEW r \in Replies(c), ~(Len(r) > 3 /\ r[4] # "ch")
  PROVE  Apt(r) /\ r \in Seq(Symbols)
<1> DEFINE multi == toupper(c[1]) = "RETR" \/ (toupper(c[1]) = "LIST" /\ c[2] # "sp")
           P == <<"plus", "cr", "lf">>
           M == <<"minus", "cr", "lf">>
<1>1. Listing <=> multi
  BY ListingTold
<1>2. Short(P) /\ Short(M) /\ P[1] = "plus" /\ M[1] # "plus" /\ P \in Seq(Symbols) /\ M \in Seq(Symbols)
  BY DEF Short, Symbols, Bytes
<1>3. r = M \/ (multi /\ \E b \in Bodies : r = P \o b \o <<"dot", "cr", "lf">>) \/ (~multi /\ r = P)
  BY DEF Replies
<1> HIDE DEF multi, M
<1>4. CASE r = M
  BY <1>2, <1>4 DEF Apt
<1>5. CASE ~multi /\ r = P
  BY <1>1, <1>2, <1>5 DEF Apt
<1>6. CASE multi /\ \E b \in Bodies : r = P \o b \o <<"dot", "cr", "lf">>
  <2>1. PICK b \in Bodies : r = <<"plus", "cr", "lf">> \o b \o <<"dot", "cr", "lf">>
    BY <1>6
  <2>2. b \in Seq(Symbols)
    BY ThreadInputsAssumption DEF Symbols
  <2>3. /\ r \in Seq(Symbols) /\ Len(b) \in Nat /\ Len(r) = Len(b) + 6
        /\ \A i \in 1..Len(b) : r[i + 3] = b[i]
        /\ r[Len(b) + 4] = "dot"
    BY <2>1, <2>2, ReplyOf
  <2>4. r[4] = "ch"
    BY <2>3
  <2>5. b # <<>>
    BY <2>3, <2>4
  <2>6. 1 \in 1..Len(b)
    BY <2>2, <2>5, EmptySeq
  <2>7. b[1] = "ch"
    BY <2>3, <2>4, <2>6
  <2>8. PlainBody(b)
    BY <2>5, <2>7 DEF PlainInputs
  <2>9. Long(r)
    BY <2>1, <2>2, <2>7, <2>8, ListingIsLong
  <2> QED
    BY <1>1, <1>6, <2>3, <2>9 DEF Apt
<1> QED
  BY <1>3, <1>4, <1>5, <1>6

\* The origin answers the command the thread waits for.
LEMMA OriginServesLands ==
  ASSUME PlainInputs, Typed, InStep, NEW t \in Threads, origin_serves(t), odd = 0, odd' = 0
  PROVE  Lands(t)
<1>1. fate = "live" /\ server_fd[t] = "up" /\ answered[t] < Lines(sgot[t]) /\ DOMAIN obj = Ids
  BY DEF origin_serves, InStep
<1>2. pc[t] # "off"
  BY <1>1 DEF Typed, IInv, Local, Silent
<1>3. InTurn(t)
  BY <1>2 DEF InStep
<1>4. answered[t] \in Nat /\ sgot[t] \in Seq(Symbols) /\ typed[t] \in Seq(Symbols)
  BY DEF Typed, Counted, IInv, StreamsTyped
<1>5. answered[t] # Lines(sgot[t])
  BY <1>1, <1>4
<1>6. ~Idle(t) /\ ~Replied(t) /\ ~Relays(t)
  BY <1>5 DEF Idle, Replied, Relays, Settled
<1>7. ~Hearing(t)
  <2> SUFFICES ASSUME NEW p \in Seq(Symbols), NEW c \in Commands, Sending(t, p, c) PROVE FALSE
    BY DEF Hearing
  <2>1. Last(t, p, c) /\ Len(sgot[t]) \in Len(p)..Len(p) + Len(c) - 1
    BY DEF Sending
  <2> QED
    BY <1>1, <1>5, <2>1, LinesForwarded
<1>8. PICK p \in Seq(Symbols), c \in Commands : Waits(t, p, c)
  BY <1>3, <1>6, <1>7 DEF InTurn, Hearing, Waiting
<1>9. /\ c \in Seq(Symbols) /\ PlainCommand(c)
      /\ Last(t, p, c) /\ sgot[t] = p \o c /\ typed[t] = p \o c /\ Whole(p) /\ answered[t] = Lines(p) /\ sin[t] = <<>>
  BY <1>8, ThreadInputsAssumption DEF Waits, Last, PlainInputs, Symbols
<1>10. Line(sgot[t], answered[t] + 1) = c /\ Lines(p \o c) = Lines(p) + 1 /\ Whole(p \o c)
  BY <1>9, LastLine, CommandCounts
<1>11. PICK r \in Replies(c) : sin' = [sin EXCEPT ![t] = @ \o r] /\ Unusual(Len(r) > 3 /\ r[4] # "ch")
  BY <1>10 DEF origin_serves
<1>12. ~(Len(r) > 3 /\ r[4] # "ch")
  BY <1>11 DEF Unusual
<1>13. Recognised(c) /\ curr_parser = NULL /\ ~answer_status /\ pc[t] = "server" /\ cin[t] = <<>> /\ buffer[t] = <<>>
  BY <1>8 DEF Waits
<1>14. Apt(r) /\ r \in Seq(Symbols)
  BY <1>12, <1>13, RepliesApt
<1>15. /\ answered' = [answered EXCEPT ![t] = @ + 1]
       /\ UNCHANGED <<curr_parser, cmd, has_args, cmd_type, answer_status, obj, pc, buffer, fate, server_fd, cin, ceof, typed, sgot, issued>>
  BY DEF origin_serves, globals, locals
<1>16. sin'[t] = r /\ answered'[t] = answered[t] + 1
  <2>1. <<>> \o r = r
    BY <1>14, EmptyStream
  <2> QED
    BY <1>9, <1>11, <1>15, <2>1 DEF Typed, IInv, StreamsTyped, Counted
<1>17. Apt(sin[t])'
  BY <1>14, <1>15, <1>16 DEF Apt, Listing
<1>18. Settled(t)'
  <2>1. issued[t] = answered[t] + 1
    BY <1>9 DEF Last
  <2> QED
    BY <1>9, <1>10, <1>13, <1>15, <1>16, <2>1 DEF Settled
<1>19. Replied(t)'
  BY <1>13, <1>15, <1>17, <1>18 DEF Replied
<1>20. InTurn(t)'
  <2>1. server_fd'[t] = "up" /\ ~ceof'[t]
    BY <1>3, <1>15 DEF InTurn
  <2> QED
    BY <1>19, <2>1, TurnIs
<1> QED
  BY <1>1, <1>2, <1>15, <1>20 DEF Lands

\* The next symbol of the command.
LEMMA NextSymbol ==
  ASSUME PlainInputs, Typed, NEW t \in Threads, server_fd[t] = "up",
         NEW p \in Seq(Symbols), NEW c \in Commands, Sending(t, p, c), pc[t] \in FromClient, buffer_pos[t] < Len(buffer[t])
  PROVE  /\ Fed(t, p) \in 0..Len(c) - 1 /\ Symbol(t) = c[Fed(t, p) + 1] /\ Symbol(t) \in Symbols
         /\ c \in Seq(Symbols) /\ PlainCommand(c) /\ Len(c) \in Nat /\ Len(c) >= 3
         /\ Fed(t, p) = Len(sgot[t]) - Len(p) + buffer_pos[t]
<1> DEFINE b == buffer[t]
           h == Held(t, FromClient)
           g == sgot[t]
           z == cin[t]
           k == buffer_pos[t]
           q == Fed(t, p)
<1>1. Last(t, p, c) /\ bytes[t] = Len(b) /\ q \in 0..Len(c) /\ pc[t] # "client"
  BY DEF Sending, FromClient
<1>2. /\ c \in Seq(Symbols) /\ PlainCommand(c) /\ Len(p) \in Nat /\ Len(c) \in Nat /\ Len(c) >= 3
      /\ h \in Seq(Symbols) /\ z \in Seq(Symbols) /\ g \in Seq(Symbols)
      /\ g \o (h \o z) = p \o c /\ Len(g) + Len(h) + Len(z) = Len(p) + Len(c)
  BY <1>1, OnItsWay
<1>3. b \in Seq(Symbols) /\ Len(b) \in Nat /\ k \in Nat /\ k < Len(b)
  BY DEF Typed, IInv, StreamsTyped, Counted
<1>4. h = b
  <2>1. Take(b, Len(b)) = b
    BY <1>3, SubSeqFull DEF Take
  <2> QED
    BY <1>1, <2>1 DEF Held
<1>5. q = Len(g) - Len(p) + k
  BY DEF Fed
<1>6. Len(g) \in Nat /\ Len(z) \in Nat /\ Len(b) \in Nat
  BY <1>2, <1>3
<1>7. Symbol(t) = b[k + 1]
  BY DEF Symbol
<1>8. p \o c = g \o (b \o z)
  BY <1>2, <1>4
<1>9. Len(g) + Len(b) + Len(z) = Len(p) + Len(c)
  BY <1>2, <1>4
<1> HIDE DEF b, h, g, z, k, q
<1>10. q \in 0..Len(c) - 1
  BY <1>1, <1>2, <1>3, <1>5, <1>6, <1>9
<1>11. b[k + 1] = (b \o z)[k + 1] /\ k + 1 \in 1..Len(b \o z) /\ b \o z \in Seq(Symbols) /\ b[k + 1] \in Symbols
  <2>1. b \o z \in Seq(Symbols) /\ Len(b \o z) = Len(b) + Len(z)
    BY <1>2, <1>3, ConcatProperties
  <2>2. \A i \in 1..Len(b) + Len(z) : (b \o z)[i] = IF i <= Len(b) THEN b[i] ELSE z[i - Len(b)]
    BY <1>2, <1>3, ConcatProperties
  <2>3. k + 1 \in 1..Len(b) + Len(z) /\ k + 1 <= Len(b) /\ k + 1 \in 1..Len(b)
    BY <1>3, <1>6
  <2>4. b[k + 1] \in Symbols
    BY <1>3, <2>3, ElementOfSeq
  <2> QED
    BY <2>1, <2>2, <2>3, <2>4
<1> DEFINE w == b \o z
<1>12. w[k + 1] = (g \o w)[Len(g) + k + 1] 
  <2>1. w \in Seq(Symbols) /\ k + 1 \in 1..Len(w)
    BY <1>11
  <2> HIDE DEF w
  <2>2. \A i \in 1..Len(g) + Len(w) : (g \o w)[i] = IF i <= Len(g) THEN g[i] ELSE w[i - Len(g)]
    BY <1>2, <2>1, ConcatProperties
  <2> DEFINE i == Len(g) + k + 1
  <2>3. i \in 1..Len(g) + Len(w) /\ ~(i <= Len(g)) /\ i - Len(g) = k + 1
    BY <1>3, <1>6, <2>1
  <2> HIDE DEF i
  <2>4. (g \o w)[i] = w[k + 1]
    BY <2>2, <2>3
  <2> QED
    BY <2>4 DEF i
<1>13. c[q + 1] = (p \o c)[Len(p) + q + 1]
  <2>1. \A i \in 1..Len(p) + Len(c) : (p \o c)[i] = IF i <= Len(p) THEN p[i] ELSE c[i - Len(p)]
    BY <1>2, ConcatProperties
  <2> DEFINE i == Len(p) + q + 1
  <2>2. i \in 1..Len(p) + Len(c) /\ ~(i <= Len(p)) /\ i - Len(p) = q + 1
    BY <1>2, <1>10
  <2> HIDE DEF i
  <2>3. (p \o c)[i] = c[q + 1]
    BY <2>1, <2>2
  <2> QED
    BY <2>3 DEF i
<1>14. Len(p) + q + 1 = Len(g) + k + 1
  BY <1>2, <1>3, <1>5, <1>6
<1>15. b[k + 1] = c[q + 1]
  <2>1. g \o w = p \o c
    BY <1>8 DEF w
  <2>2. b[k + 1] = w[k + 1]
    BY <1>11 DEF w
  <2> HIDE DEF w
  <2> QED
    BY <1>12, <1>13, <1>14, <2>1, <2>2
<1> QED
  BY <1>2, <1>5, <1>7, <1>10, <1>11, <1>15 DEF q, g, k

LEMMA FreshParsers ==
  /\ IsParser(parser_init("command"), "command", "KWRD")
  /\ IsParser(parser_init("singleline"), "singleline", "STAT")
  /\ IsParser(parser_init("multiline"), "multiline", "CRLFDOT")
<1>1. ASSUME NEW k PROVE IsParser(parser_init(k), k, Definition(k).start_state)
  BY DEF IsParser, parser_init, ParserFields
<1>2. Definition("command").start_state = "KWRD"
  BY Definitions DEF command_definition, pop3_command_definition
<1>3. Definition("singleline").start_state = "STAT"
  BY Definitions DEF singleline_definition, pop3_singleline_response_definition
<1>4. Definition("multiline").start_state = "CRLFDOT"
  BY Definitions DEF multiline_definition, pop3_multiline_response_definition
<1> QED
  BY <1>1, <1>2, <1>3, <1>4

\* The first byte of a reply, or of a command, chooses its parser.
LEMMA Picked ==
  ASSUME Typed, NEW t \in Threads, pick_parser(t), DOMAIN obj = Ids
  PROVE  /\ DOMAIN obj' = Ids
         /\ curr_parser # NULL => curr_parser' = curr_parser /\ obj' = obj
         /\ curr_parser = NULL /\ Class(Symbol(t)) \in {"plus", "minus"} => Parsing("singleline", "STAT")'
         /\ curr_parser = NULL /\ Class(Symbol(t)) \notin {"plus", "minus"} => Parsing("command", "KWRD")'
<1>1. curr_parser # NULL => curr_parser' = curr_parser /\ obj' = obj
  BY DEF pick_parser, no_parser
<1>2. Unused \in Ids
  BY UnusedExists DEF Typed, NullInv
<1>3. ASSUME curr_parser = NULL
      PROVE  /\ DOMAIN obj' = Ids
             /\ Class(Symbol(t)) \in {"plus", "minus"} => Parsing("singleline", "STAT")'
             /\ Class(Symbol(t)) \notin {"plus", "minus"} => Parsing("command", "KWRD")'
  <2> DEFINE kind == IF Class(Symbol(t)) \in {"plus", "minus"} THEN "singleline" ELSE "command"
             new  == parser_init(kind)
             u    == Unused
  <2>1. curr_parser' = u /\ obj' = [obj EXCEPT ![u] = new]
    BY <1>3 DEF pick_parser, no_parser
  <2>2. u \in Ids
    BY <1>2
  <2>3. IsParser(new, kind, IF kind = "singleline" THEN "STAT" ELSE "KWRD")
    BY FreshParsers
  <2> HIDE DEF new, u
  <2>4. DOMAIN obj' = Ids /\ obj'[curr_parser'] = new /\ curr_parser' \in Ids
    BY <2>1, <2>2
  <2>5. ASSUME Class(Symbol(t)) \in {"plus", "minus"} PROVE Parsing("singleline", "STAT")'
    <3>1. IsParser(new, "singleline", "STAT")
      BY <2>3, <2>5
    <3> QED
      BY <2>4, <3>1 DEF Parsing
  <2>6. ASSUME Class(Symbol(t)) \notin {"plus", "minus"} PROVE Parsing("command", "KWRD")'
    <3>1. IsParser(new, "command", "KWRD")
      BY <2>3, <2>6
    <3> QED
      BY <2>4, <3>1 DEF Parsing
  <2> QED
    BY <2>4, <2>5, <2>6
<1> QED
  BY <1>1, <1>3

\* The effect of a byte that the parser takes.
Effect(t, x, fed) ==
  /\ fate' = fate /\ DOMAIN obj' = Ids /\ event'[t] = curr_parser
  /\ cmd' = IF fed.type = "BUFFER_CMD" THEN Append(cmd, toupper(x)) ELSE cmd
  /\ has_args' = (has_args \/ fed.type = "HAS_ARGS")
  /\ cmd_type' = IF fed.type = "SET_CMD" THEN get_command_type(cmd) ELSE cmd_type
  /\ answer_status' = IF fed.type = "END_SINGLELINE" THEN FALSE ELSE answer_status \/ fed.type = "OK_RESP"
  /\ buffer_pos'[t] = buffer_pos[t] + 1
  /\ pc'[t] = IF pc[t] = "use server" THEN "pick server" ELSE "pick client"
  /\ UNCHANGED <<buffer, bytes, server_fd, cin, ceof, sin, typed, sgot, issued, answered>>
  /\ ~(fed.type = "END_SINGLELINE" /\ multiline) => obj'[curr_parser] = fed
  /\ fed.type = "SET_CMD" => curr_parser' = NULL
  /\ fed.type # "SET_CMD" /\ ~(fed.type = "END_SINGLELINE" /\ multiline) => curr_parser' = curr_parser
  /\ fed.type = "END_SINGLELINE" /\ multiline => Parsing("multiline", "CRLFDOT")'

LEMMA Used ==
  ASSUME Typed, NEW t \in Threads, use_parser(t), DOMAIN obj = Ids, curr_parser \in Ids,
         NEW x, x = Symbol(t), NEW fed, fed = feed(obj[curr_parser], x),
         ~(fed.type = "BUFFER_CMD" /\ Room(Append(cmd, x)) > SizeOfCmd)
  PROVE  Effect(t, x, fed)
<1> DEFINE u == Unused
           e == [event EXCEPT ![t] = curr_parser]
           starts == fed.type = "END_SINGLELINE" /\ multiline
           old == [fed EXCEPT !.type = "IGNORE"]
           new == parser_init("multiline")
           o == IF starts THEN [obj EXCEPT ![curr_parser] = old, ![u] = new] ELSE [obj EXCEPT ![curr_parser] = fed]
<1>1. curr_parser # NULL
  BY NullIsNone
<1>2. /\ event' = e
      /\ cmd' = IF fed.type = "BUFFER_CMD" THEN Append(cmd, toupper(x)) ELSE cmd
      /\ has_args' = (has_args \/ fed.type = "HAS_ARGS")
      /\ cmd_type' = IF fed.type = "SET_CMD" THEN get_command_type(cmd) ELSE cmd_type
      /\ answer_status' = IF fed.type = "END_SINGLELINE" THEN FALSE ELSE answer_status \/ fed.type = "OK_RESP"
      /\ curr_parser' = IF fed.type = "SET_CMD" THEN NULL ELSE IF starts THEN u ELSE curr_parser
      /\ obj' = Kept(o, curr_parser', e)
      /\ buffer_pos' = [buffer_pos EXCEPT ![t] = @ + 1]
      /\ pc' = [pc EXCEPT ![t] = IF @ = "use server" THEN "pick server" ELSE "pick client"]
      /\ UNCHANGED <<buffer, bytes, fate>>
      /\ UNCHANGED peers
  BY <1>1, Zenon DEF use_parser
<1>3. u \in Ids
  BY UnusedExists DEF Typed, NullInv
<1>4. event \in [Threads -> Ids \cup {NULL}] /\ buffer_pos \in [Threads -> Nat] /\ pc \in [Threads -> Places]
  BY DEF Typed, NullInv, Counted
<1>5. e[t] = curr_parser
  BY <1>4
<1>6. UNCHANGED <<server_fd, cin, ceof, sin, typed, sgot, issued, answered>>
  BY <1>2 DEF peers
<1>7. IsParser(new, "multiline", "CRLFDOT")
  BY FreshParsers
<1>8. event'[t] = curr_parser
  BY <1>2, <1>5
<1>9. buffer_pos'[t] = buffer_pos[t] + 1 /\ pc'[t] = IF pc[t] = "use server" THEN "pick server" ELSE "pick client"
  BY <1>2, <1>4
<1> HIDE DEF u, e, old, new
<1>10. \A i \in Ids : (i = curr_parser' \/ i = curr_parser) => obj'[i] = o[i]
  <2> HIDE DEF o
  <2> QED
    BY <1>2, <1>5 DEF Kept
<1>11. DOMAIN obj' = Ids
  <2> HIDE DEF o
  <2> QED
    BY <1>2 DEF Kept
<1>12. ~starts => o[curr_parser] = fed
  OBVIOUS
<1>13. starts => o[u] = new
  BY <1>3
<1>14. starts => fed.type # "SET_CMD"
  OBVIOUS
<1> HIDE DEF o
<1>15. starts => Parsing("multiline", "CRLFDOT")'
  <2> SUFFICES ASSUME starts PROVE Parsing("multiline", "CRLFDOT")'
    OBVIOUS
  <2>1. curr_parser' = u /\ curr_parser' \in Ids
    BY <1>2, <1>3, <1>14
  <2>2. obj'[curr_parser'] = new
    BY <1>10, <1>13, <2>1
  <2> QED
    BY <1>7, <2>1, <2>2 DEF Parsing
<1>16. ~starts => obj'[curr_parser] = fed
  BY <1>10, <1>12
<1> QED
  BY <1>2, <1>6, <1>8, <1>9, <1>11, <1>15, <1>16 DEF Effect

\* A parser is chosen for the first byte, and only for that one.
LEMMA PickLands ==
  ASSUME PlainInputs, Typed, InStep, NEW t \in Threads, pick_parser(t)
  PROVE  Lands(t)
<1>1. /\ pc[t] \in {"pick server", "pick client"} /\ fate = "live" /\ buffer_pos[t] < Len(buffer[t])
      /\ InTurn(t) /\ DOMAIN obj = Ids
  BY DEF pick_parser, Feeding, InStep
<1>2. server_fd[t] = "up" /\ ~ceof[t]
  BY <1>1 DEF InTurn
<1>3. /\ UNCHANGED <<cmd, has_args, cmd_type, answer_status, buffer, bytes, buffer_pos, event, fate, server_fd, cin, ceof, sin, typed, sgot, issued, answered>>
      /\ pc' = [pc EXCEPT ![t] = IF @ = "pick server" THEN "use server" ELSE "use client"]
  BY DEF pick_parser, peers
<1>4. pc'[t] = IF pc[t] = "pick server" THEN "use server" ELSE "use client"
  BY <1>3 DEF Typed, IInv, StreamsTyped
<1>5. /\ DOMAIN obj' = Ids
      /\ curr_parser # NULL => curr_parser' = curr_parser /\ obj' = obj
      /\ curr_parser = NULL /\ Class(Symbol(t)) \in {"plus", "minus"} => Parsing("singleline", "STAT")'
      /\ curr_parser = NULL /\ Class(Symbol(t)) \notin {"plus", "minus"} => Parsing("command", "KWRD")'
  BY <1>1, Picked
<1>6. \A k, s : Parsing(k, s) => Parsing(k, s)'
  BY <1>5, NullIsNone DEF Parsing
<1>7. CASE pc[t] = "pick server"
  <2> DEFINE r == buffer[t]
             k == buffer_pos[t]
  <2>1. Relays(t)
    BY <1>1, <1>7, TurnOf DEF FromServer
  <2>2. r \in Seq(Symbols) /\ k \in Nat /\ k < Len(r) /\ k # Len(r)
    <3>1. buffer[t] \in Seq(Symbols) /\ buffer_pos[t] \in Nat
      BY DEF Typed, IInv, StreamsTyped, Counted
    <3>2. \A m, n \in Nat : m < n => m # n
      OBVIOUS
    <3> QED
      BY <1>1, <3>1, <3>2
  <2>3. Parsing(ReplyKind(r, k), ReplyState(r, k))'
    <3>1. CASE k = 0
      <4>1. curr_parser = NULL /\ Apt(r)
        BY <1>7, <2>1, <3>1 DEF Relays
      <4>2. Symbol(t) = r[1] /\ r[1] \in {"plus", "minus"}
        BY <3>1, <4>1 DEF Symbol, Apt, Short, Long
      <4>3. Class(Symbol(t)) \in {"plus", "minus"}
        BY <4>2 DEF Class, Keywords, Upper
      <4>4. ReplyKind(r, 0) = "singleline" /\ ReplyState(r, 0) = "STAT"
        BY DEF ReplyKind, ReplyState
      <4>5. Parsing("singleline", "STAT")'
        BY <1>5, <4>1, <4>3
      <4> QED
        BY <1>3, <3>1, <4>4, <4>5
    <3>2. CASE k # 0
      <4>1. k > 0
        BY <2>2, <3>2
      <4>2. Parsing(ReplyKind(r, k), ReplyState(r, k))
        BY <2>1, <4>1 DEF Relays
      <4> QED
        BY <1>3, <1>6, <4>2
    <3> QED
      BY <3>1, <3>2
  <2>4. Settled(t)' /\ sin'[t] = <<>> /\ Apt(buffer[t])' /\ bytes'[t] = Len(buffer'[t]) /\ buffer_pos'[t] \in 0..Len(buffer'[t])
    BY <1>3, <2>1 DEF Relays, Settled, Apt, Listing
  <2>5. pc'[t] = "use server" /\ pc'[t] \in FromServer /\ buffer_pos'[t] < Len(buffer'[t]) /\ buffer_pos'[t] # Len(buffer'[t])
    BY <1>3, <1>4, <1>7, <2>2 DEF FromServer
  <2>6. /\ buffer_pos'[t] = 0 => ~answer_status'
        /\ buffer_pos'[t] \in 1..2 => (answer_status' <=> buffer'[t][1] = "plus")
    BY <1>3, <2>1 DEF Relays
  <2>7. Relays(t)'
    BY <2>3, <2>4, <2>5, <2>6 DEF Relays
  <2>8. InTurn(t)'
    BY <1>2, <1>3, <2>7, TurnIs
  <2> QED
    BY <1>1, <1>3, <1>5, <2>5, <2>8 DEF Lands
<1>8. CASE pc[t] = "pick client"
  <2>1. pc[t] \in FromClient /\ pc'[t] = "use client" /\ pc'[t] \in FromClient
    BY <1>4, <1>8 DEF FromClient
  <2>2. PICK p \in Seq(Symbols), c \in Commands : Sending(t, p, c)
    BY <1>1, <2>1, TurnOf DEF Hearing
  <2>0. PICK q \in 0..Len(c) - 1 : q = Fed(t, p)
    BY <1>1, <1>2, <2>1, <2>2, NextSymbol
  <2>3. Symbol(t) = c[q + 1] /\ PlainCommand(c) /\ Len(c) \in Nat /\ Len(c) >= 3
    BY <1>1, <1>2, <2>0, <2>1, <2>2, NextSymbol
  <2>4. Fed(t, p)' = q
    BY <1>3, <2>0, <2>1 DEF Fed
  <2>5. Heard(t, c, q)
    BY <2>0, <2>2 DEF Sending
  <2>6. Parsing("command", CommandState(c, q))'
    <3>1. CASE q = 0
      <4>1. curr_parser = NULL
        BY <1>8, <2>5, <3>1 DEF Heard
      <4>2. Symbol(t) \in Keywords
        BY <2>3, <3>1 DEF PlainCommand
      <4>3. Class(Symbol(t)) \notin {"plus", "minus"}
        BY <4>2 DEF Class
      <4>4. CommandState(c, 0) = "KWRD"
        BY DEF CommandState
      <4>5. Parsing("command", "KWRD")'
        BY <1>5, <4>1, <4>3
      <4> QED
        BY <3>1, <4>4, <4>5
    <3>2. CASE q # 0
      <4>1. q > 0 /\ q < Len(c)
        BY <2>3, <3>2
      <4>2. Parsing("command", CommandState(c, q))
        BY <2>5, <4>1 DEF Heard
      <4> QED
        BY <1>6, <4>2
    <3> QED
      BY <3>1, <3>2
  <2>7. Heard(t, c, Fed(t, p))'
    <3>1. q # Len(c)
      BY <2>3
    <3>2. Heard(t, c, q)'
      <4>1. /\ ~answer_status
            /\ q = 0 => cmd = <<>> /\ ~has_args
            /\ q \in 1..Len(c) - 1 => cmd = <<toupper(c[1])>> /\ (has_args <=> q > 1 /\ c[2] = "sp")
        BY <2>5 DEF Heard
      <4>2. /\ ~answer_status'
            /\ q = 0 => cmd' = <<>> /\ ~has_args'
            /\ q \in 1..Len(c) - 1 => cmd' = <<toupper(c[1])>> /\ (has_args' <=> q > 1 /\ c[2] = "sp")
        BY <1>3, <4>1
      <4> QED
        BY <2>1, <2>6, <3>1, <4>2 DEF Heard
    <3> QED
      BY <2>4, <3>2
  <2>8. Last(t, p, c)'
    BY <1>3, <2>2 DEF Sending, Last
  <2>9. Sending(t, p, c)'
    <3>1. Fed(t, p)' \in 0..Len(c) /\ Len(sgot'[t]) \in Len(p)..Len(p) + Len(c) - 1
      <4>1. q \in 0..Len(c)
        BY <2>3
      <4> QED
        BY <1>3, <2>2, <2>4, <4>1 DEF Sending
    <3>2. /\ buffer_pos[t] \in 0..Len(buffer[t]) /\ bytes[t] = Len(buffer[t]) /\ Len(buffer[t]) > 0
          /\ buffer_pos[t] > 0 =>
               event[t] \in Ids /\ obj[event[t]].type # "BAD_CMD" /\ (obj[event[t]].type = "SET_CMD" <=> q = Len(c))
      BY <1>8, <2>0, <2>2 DEF Sending
    <3>3. buffer_pos[t] > 0 => obj' = obj
      <4> SUFFICES ASSUME buffer_pos[t] > 0 PROVE obj' = obj
        OBVIOUS
      <4>1. q > 0 /\ q < Len(c)
        <5>1. q = Len(sgot[t]) - Len(p) + buffer_pos[t] /\ Len(sgot[t]) \in Len(p)..Len(p) + Len(c) - 1
          BY <2>0, <2>1, <2>2 DEF Fed, Sending
        <5>2. Len(p) \in Nat /\ buffer_pos[t] \in Nat
          BY DEF Typed, Counted
        <5> DEFINE a == Len(sgot[t])
                   m == Len(p)
                   k == buffer_pos[t]
        <5>3. q = a - m + k /\ a \in m..m + Len(c) - 1 /\ m \in Nat /\ k \in Nat /\ k > 0
          BY <5>1, <5>2
        <5> HIDE DEF a, m, k
        <5> QED
          BY <2>3, <5>3
      <4>2. curr_parser # NULL
        BY <2>5, <4>1, NullIsNone DEF Heard, Parsing
      <4> QED
        BY <1>5, <4>2
    <3> QED
      BY <1>1, <1>3, <2>1, <2>4, <2>7, <2>8, <3>1, <3>2, <3>3 DEF Sending
  <2>10. InTurn(t)'
    BY <1>2, <1>3, <2>9, TurnIs DEF Hearing
  <2> QED
    BY <1>1, <1>3, <1>5, <2>1, <2>10 DEF Lands
<1> QED
  BY <1>1, <1>7, <1>8

\* The event of the symbol after the first q of a command.
CommandEvent(c, q) ==
  IF q = 0 THEN "BUFFER_CMD"
  ELSE IF q = 1 /\ c[2] = "sp" THEN "HAS_ARGS"
  ELSE IF q + 1 = Len(c) THEN "SET_CMD" ELSE "IGNORE"

LEMMA CommandByte ==
  ASSUME NEW c \in Seq(Symbols), PlainCommand(c), NEW q \in 0..Len(c) - 1,
         NEW o, IsParser(o, "command", CommandState(c, q))
  PROVE  /\ q + 1 < Len(c) => IsParser(feed(o, c[q + 1]), "command", CommandState(c, q + 1))
         /\ feed(o, c[q + 1]).type = CommandEvent(c, q)
<1> DEFINE n == Len(c)
           s == CommandState(c, q)
           x == c[q + 1]
           row == CommandNow(s, x)
<1>1. n \in Nat /\ n >= 3 /\ q \in Nat /\ q + 1 <= n
  BY DEF PlainCommand
<1>2. c[1] \in Keywords /\ c[2] \in {"sp", "cr"} /\ c[n - 1] = "cr" /\ c[n] = "lf" /\ \A i \in 2..n - 2 : c[i] \notin {"cr", "lf"}
  BY DEF PlainCommand
<1>3. x \in Symbols
  <2>1. q + 1 \in 1..Len(c)
    BY <1>1
  <2> QED
    BY <2>1, ElementOfSeq
<1>4. s \in CommandStates
  BY DEF CommandState, CommandStates
<1>5. Now(feed(o, x), "command", row)
  BY <1>3, <1>4, CommandFed
<1> HIDE DEF n
<1>6. ASSUME q = 0 PROVE row = To("KWRD", "BUFFER_CMD") /\ CommandState(c, q + 1) = "KWRD" /\ CommandEvent(c, q) = "BUFFER_CMD"
  <2>1. x \in Keywords
    BY <1>2, <1>6
  <2>2. x # "sp" /\ x # "cr"
    BY <2>1 DEF Keywords, Upper
  <2>3. s = "KWRD"
    BY <1>6 DEF CommandState
  <2> HIDE DEF x, s
  <2> QED
    BY <1>6, <2>2, <2>3 DEF CommandNow, CommandState, CommandEvent
<1>7. ASSUME q = 1
      PROVE  row = (IF c[2] = "sp" THEN To("ARG", "HAS_ARGS") ELSE To("CR", "IGNORE"))
             /\ CommandState(c, q + 1) = (IF c[2] = "sp" THEN "ARG" ELSE "CR")
             /\ CommandEvent(c, q) = (IF c[2] = "sp" THEN "HAS_ARGS" ELSE "IGNORE")
  <2>1. x = c[2] /\ s = "KWRD" /\ q + 1 = 2 /\ q + 1 # n
    BY <1>1, <1>7 DEF CommandState
  <2> HIDE DEF x, s
  <2>2. row = (IF c[2] = "sp" THEN To("ARG", "HAS_ARGS") ELSE To("CR", "IGNORE"))
    BY <1>2, <2>1 DEF CommandNow
  <2>3. CommandState(c, 2) = (IF c[2] = "sp" THEN "ARG" ELSE "CR")
    BY <1>2 DEF CommandState
  <2>4. CommandEvent(c, 1) = (IF c[2] = "sp" THEN "HAS_ARGS" ELSE "IGNORE")
    BY <1>7, <2>1 DEF CommandEvent, n
  <2> QED
    BY <1>7, <2>1, <2>2, <2>3, <2>4
<1>8. ASSUME q > 1, q + 1 = n PROVE row = To("CRLF", "SET_CMD") /\ CommandEvent(c, q) = "SET_CMD"
  <2>1. q = n - 1 /\ q # 0 /\ q # 1 /\ ~(q <= 1)
    BY <1>1, <1>8
  <2>2. c[q] = "cr" /\ x = "lf"
    BY <1>2, <1>8, <2>1
  <2>3. s = "CR"
    BY <2>1, <2>2 DEF CommandState
  <2> HIDE DEF x, s
  <2>4. row = To("CRLF", "SET_CMD")
    BY <2>2, <2>3 DEF CommandNow
  <2> QED
    BY <1>8, <2>1, <2>4 DEF CommandEvent, n
<1>9. ASSUME q > 1, q + 1 # n
      PROVE  row = (IF x = "cr" THEN To("CR", "IGNORE") ELSE To("ARG", "IGNORE"))
             /\ CommandState(c, q + 1) = (IF x = "cr" THEN "CR" ELSE "ARG")
             /\ CommandEvent(c, q) = "IGNORE"
  <2>1. q \in 2..n - 2 /\ q # 0 /\ q # 1 /\ ~(q <= 1) /\ ~(q + 1 <= 1)
    BY <1>1, <1>9
  <2>2. c[q] # "cr"
    BY <1>2, <2>1
  <2>3. s = "ARG"
    BY <2>1, <2>2 DEF CommandState
  <2>4. CommandState(c, q + 1) = (IF x = "cr" THEN "CR" ELSE "ARG")
    BY <2>1 DEF CommandState
  <2> HIDE DEF x, s
  <2>5. row = (IF x = "cr" THEN To("CR", "IGNORE") ELSE To("ARG", "IGNORE"))
    BY <2>3 DEF CommandNow
  <2>6. CommandEvent(c, q) = "IGNORE"
    BY <1>9, <2>1 DEF CommandEvent, n
  <2> QED
    BY <2>4, <2>5, <2>6
<1>10. q = 0 \/ q = 1 \/ (q > 1 /\ q + 1 = n) \/ (q > 1 /\ q + 1 # n)
  BY <1>1
<1> HIDE DEF row
<1>11. (q + 1 < n => row.state = CommandState(c, q + 1)) /\ row.event = CommandEvent(c, q)
  <2>1. \A a, b : To(a, b).state = a /\ To(a, b).event = b
    BY DEF To
  <2>2. q + 1 = n => ~(q + 1 < n)
    BY <1>1
  <2> QED
    BY <1>6, <1>7, <1>8, <1>9, <1>10, <2>1, <2>2
<1> QED
  BY <1>5, <1>11 DEF Now, n

\* A keyword fits in cmd.
LEMMA KeywordFits ==
  ASSUME NEW x \in Keywords
  PROVE  ~(Room(Append(<<>>, x)) > SizeOfCmd) /\ \A y : Append(<<>>, y) = <<y>>
<1>1. \A y : Append(<<>>, y) = <<y>>
  OBVIOUS
<1>2. {i \in 1..Len(<<x>>) : <<x>>[i] \in Keywords} = {1}
  OBVIOUS
<1>3. Cardinality({1}) = 1
  BY FS_Singleton
<1>4. Room(<<x>>) = 1 + 3 * 1
  BY <1>2, <1>3 DEF Room
<1> QED
  BY <1>1, <1>4 DEF SizeOfCmd

\* A symbol of the command is fed.
LEMMA UseClientLands ==
  ASSUME PlainInputs, Typed, InStep, NEW t \in Threads, use_parser(t)
  PROVE  pc[t] = "use client" => Lands(t)
<1>0. SUFFICES ASSUME pc[t] = "use client" PROVE Lands(t)
  OBVIOUS
<1>1. fate = "live" /\ InTurn(t) /\ DOMAIN obj = Ids /\ pc[t] \in FromClient
  BY <1>0 DEF use_parser, Using, InStep, FromClient
<1>2. server_fd[t] = "up" /\ ~ceof[t]
  BY <1>1 DEF InTurn
<1>3. PICK p \in Seq(Symbols), c \in Commands : Sending(t, p, c)
  BY <1>1, TurnOf DEF Hearing
<1>4. /\ buffer_pos[t] < Len(buffer[t]) /\ buffer_pos[t] \in 0..Len(buffer[t]) /\ bytes[t] = Len(buffer[t]) /\ Len(buffer[t]) > 0
      /\ Last(t, p, c) /\ Len(sgot[t]) \in Len(p)..Len(p) + Len(c) - 1
  BY <1>0, <1>3 DEF Sending
<1>5. PICK q \in 0..Len(c) - 1 : q = Fed(t, p)
  BY <1>1, <1>2, <1>3, <1>4, NextSymbol
<1>6. /\ Symbol(t) = c[q + 1] /\ c \in Seq(Symbols) /\ PlainCommand(c) /\ Len(c) \in Nat /\ Len(c) >= 3
      /\ q = Len(sgot[t]) - Len(p) + buffer_pos[t]
  BY <1>1, <1>2, <1>3, <1>4, <1>5, NextSymbol
<1>7. q \in Nat /\ q < Len(c) /\ q # Len(c) /\ (q # 0 => q \in 1..Len(c) - 1)
  BY <1>6
<1>8. Heard(t, c, q)
  BY <1>3, <1>5 DEF Sending
<1>9. Parsing("command", CommandState(c, q))
  BY <1>0, <1>7, <1>8 DEF Heard
<1> DEFINE x == Symbol(t)
           fed == feed(obj[curr_parser], x)
<1>10. /\ q + 1 < Len(c) => IsParser(fed, "command", CommandState(c, q + 1))
       /\ fed.type = CommandEvent(c, q)
  BY <1>6, <1>9, CommandByte DEF Parsing
<1>11. c[1] \in Keywords /\ c[2] \in {"sp", "cr"}
  BY <1>6 DEF PlainCommand
<1>12. ~(fed.type = "BUFFER_CMD" /\ Room(Append(cmd, x)) > SizeOfCmd)
  <2> HIDE DEF fed
  <2>1. CASE q = 0
    <3>0. x \in Keywords
      BY <1>6, <1>11, <2>1
    <3>1. cmd = <<>> /\ x \in Keywords
      BY <1>8, <2>1, <3>0 DEF Heard
    <3> HIDE DEF x
    <3> QED
      BY <3>1, KeywordFits
  <2>2. CASE q # 0
    BY <1>10, <2>2 DEF CommandEvent
  <2> QED
    BY <2>1, <2>2
<1>13. PICK y : y = x
  OBVIOUS
<1>14. PICK f : f = fed
  OBVIOUS
<1>24. y = Symbol(t) /\ f = feed(obj[curr_parser], y) /\ ~(f.type = "BUFFER_CMD" /\ Room(Append(cmd, y)) > SizeOfCmd)
  BY <1>12, <1>13, <1>14
<1>25. curr_parser \in Ids
  BY <1>9 DEF Parsing
<1>15. /\ fate' = fate /\ DOMAIN obj' = Ids /\ event'[t] = curr_parser
       /\ cmd' = IF f.type = "BUFFER_CMD" THEN Append(cmd, toupper(y)) ELSE cmd
       /\ has_args' = (has_args \/ f.type = "HAS_ARGS")
       /\ cmd_type' = IF f.type = "SET_CMD" THEN get_command_type(cmd) ELSE cmd_type
       /\ answer_status' = IF f.type = "END_SINGLELINE" THEN FALSE ELSE answer_status \/ f.type = "OK_RESP"
       /\ buffer_pos'[t] = buffer_pos[t] + 1
       /\ pc'[t] = IF pc[t] = "use server" THEN "pick server" ELSE "pick client"
       /\ UNCHANGED <<buffer, bytes, server_fd, cin, ceof, sin, typed, sgot, issued, answered>>
       /\ ~(f.type = "END_SINGLELINE" /\ multiline) => obj'[curr_parser] = f
       /\ f.type = "SET_CMD" => curr_parser' = NULL
       /\ f.type # "SET_CMD" /\ ~(f.type = "END_SINGLELINE" /\ multiline) => curr_parser' = curr_parser
  <2> HIDE DEF x, fed
  <2>1. Effect(t, y, f)
    BY <1>1, <1>24, <1>25, Used
  <2> QED
    BY <2>1 DEF Effect
<1>16. f.type = CommandEvent(c, q) /\ y = c[q + 1] /\ (q + 1 < Len(c) => IsParser(f, "command", CommandState(c, q + 1)))
  BY <1>6, <1>10, <1>13, <1>14
<1> HIDE DEF x, fed
<1>17. f.type \notin {"END_SINGLELINE", "OK_RESP", "BAD_CMD"} /\ (f.type = "SET_CMD" <=> q + 1 = Len(c))
  <2>1. q \in {0, 1} => q + 1 # Len(c)
    BY <1>6, <1>7
  <2> QED
    BY <1>16, <2>1 DEF CommandEvent
<1>18. /\ pc'[t] = "pick client" /\ pc'[t] \in FromClient /\ obj'[curr_parser] = f /\ ~answer_status'
       /\ curr_parser' = IF q + 1 = Len(c) THEN NULL ELSE curr_parser
  <2>1. ~answer_status
    BY <1>8 DEF Heard
  <2> QED
    BY <1>0, <1>15, <1>17, <2>1 DEF FromClient
<1>19. Fed(t, p)' = q + 1
  <2>1. Fed(t, p)' = Len(sgot[t]) - Len(p) + (buffer_pos[t] + 1)
    BY <1>15, <1>18 DEF Fed
  <2>2. Len(sgot[t]) \in Nat /\ Len(p) \in Nat /\ buffer_pos[t] \in Nat
    BY DEF Typed, IInv, StreamsTyped, Counted
  <2> QED
    BY <1>6, <2>1, <2>2
<1>20. /\ cmd' = <<toupper(c[1])>> \/ q + 1 = Len(c)
       /\ q + 1 < Len(c) => (has_args' <=> q + 1 > 1 /\ c[2] = "sp")
       /\ q + 1 = Len(c) => Recognised(c)'
  <2>1. CASE q = 0
    <3>4. cmd = <<>> /\ ~has_args
      BY <1>8, <2>1 DEF Heard
    <3>1. cmd = <<>> /\ ~has_args /\ f.type = "BUFFER_CMD" /\ y = c[1]
      BY <1>16, <2>1, <3>4 DEF CommandEvent
    <3>2. cmd' = <<toupper(c[1])>>
      BY <1>11, <1>15, <3>1, KeywordFits
    <3>3. ~has_args' /\ ~(q + 1 > 1) /\ q + 1 # Len(c)
      <4>1. ~has_args'
        BY <1>15, <3>1
      <4>2. ~(q + 1 > 1) /\ q + 1 # Len(c)
        BY <1>6, <2>1
      <4> QED
        BY <4>1, <4>2
    <3> QED
      BY <3>2, <3>3
  <2>2. CASE q = 1
    <3>1. cmd = <<toupper(c[1])>> /\ ~has_args /\ 1 \in 1..Len(c) - 1
      BY <1>7, <1>8, <2>2 DEF Heard
    <3>2. q + 1 > 1 /\ q + 1 # Len(c) /\ q # 0
      BY <1>6, <2>2
    <3>3. f.type = IF c[2] = "sp" THEN "HAS_ARGS" ELSE "IGNORE"
      BY <1>16, <2>2, <3>2 DEF CommandEvent
    <3>4. cmd' = cmd /\ (has_args' <=> c[2] = "sp")
      BY <1>15, <3>1, <3>3
    <3> QED
      BY <3>1, <3>2, <3>4
  <2>3. CASE q > 1
    <3>1. cmd = <<toupper(c[1])>> /\ (has_args <=> c[2] = "sp")
      <4>1. q \in 1..Len(c) - 1
        BY <1>7, <2>3
      <4> QED
        BY <1>8, <2>3, <4>1 DEF Heard
    <3>2. q # 0 /\ q # 1 /\ q + 1 > 1
      BY <1>7, <2>3
    <3>3. f.type = IF q + 1 = Len(c) THEN "SET_CMD" ELSE "IGNORE"
      BY <1>16, <3>2 DEF CommandEvent
    <3>4. cmd' = cmd /\ (has_args' <=> has_args) /\ (q + 1 = Len(c) => cmd_type' = get_command_type(cmd))
      BY <1>15, <3>3
    <3> QED
      BY <3>1, <3>2, <3>4 DEF Recognised
  <2> QED
    BY <1>7, <2>1, <2>2, <2>3
<1>21. Heard(t, c, q + 1)'
  <2>1. q + 1 # 0 /\ (q + 1 \in 1..Len(c) - 1 <=> q + 1 < Len(c)) /\ (q + 1 = Len(c) <=> ~(q + 1 < Len(c)))
    BY <1>6, <1>7
  <2>2. q + 1 < Len(c) => Parsing("command", CommandState(c, q + 1))'
    BY <1>9, <1>16, <1>18, <2>1 DEF Parsing
  <2> QED
    BY <1>18, <1>20, <2>1, <2>2 DEF Heard
<1>22. Sending(t, p, c)'
  <2>1. Last(t, p, c)'
    BY <1>4, <1>15 DEF Last
  <2>2. q + 1 \in 0..Len(c)
    BY <1>6, <1>7
  <2>3. buffer_pos[t] + 1 \in 0..Len(buffer[t])
    <3>1. buffer[t] \in Seq(Symbols) /\ buffer_pos[t] \in Nat
      BY DEF Typed, IInv, StreamsTyped, Counted
    <3>2. \A a, b \in Nat : a < b => a + 1 \in 0..b
      OBVIOUS
    <3> QED
      BY <1>4, <3>1, <3>2
  <2>4. event'[t] \in Ids /\ obj'[event'[t]] = f
    BY <1>9, <1>15, <1>18 DEF Parsing
  <2>5. Heard(t, c, Fed(t, p))'
    BY <1>19, <1>21
  <2>6. pc'[t] # "use client"
    BY <1>18
  <2> QED
    BY <1>4, <1>15, <1>17, <1>18, <1>19, <2>1, <2>2, <2>3, <2>4, <2>5, <2>6 DEF Sending
<1>23. InTurn(t)'
  BY <1>2, <1>15, <1>22, TurnIs DEF Hearing
<1> QED
  BY <1>1, <1>15, <1>18, <1>23 DEF Lands

\* A byte of the reply is fed.
LEMMA UseServerLands ==
  ASSUME Typed, InStep, NEW t \in Threads, use_parser(t)
  PROVE  pc[t] = "use server" => Lands(t)
<1>0. SUFFICES ASSUME pc[t] = "use server" PROVE Lands(t)
  OBVIOUS
<1>1. fate = "live" /\ InTurn(t) /\ DOMAIN obj = Ids /\ pc[t] \in FromServer
  BY <1>0 DEF use_parser, Using, InStep, FromServer
<1>2. server_fd[t] = "up" /\ ~ceof[t]
  BY <1>1 DEF InTurn
<1>3. Relays(t)
  BY <1>1, TurnOf
<1>4. PICK r \in Seq(Symbols) : r = buffer[t]
  BY DEF Typed, IInv, StreamsTyped
<1>5. PICK k \in Nat : k = buffer_pos[t]
  BY DEF Typed, Counted
<1>6. k < Len(r) /\ Apt(r) /\ Parsing(ReplyKind(r, k), ReplyState(r, k)) /\ bytes[t] = Len(r)
  BY <1>0, <1>3, <1>4, <1>5 DEF Relays
<1>7. Len(r) \in Nat /\ k \in 0..Len(r) - 1 /\ k + 1 \in 0..Len(r) /\ k + 1 > 0 /\ k + 1 # 0
  <2>1. Len(r) \in Nat
    OBVIOUS
  <2>2. \A n \in Nat : k < n => k \in 0..n - 1 /\ k + 1 \in 0..n /\ k + 1 > 0 /\ k + 1 # 0
    OBVIOUS
  <2> QED
    BY <1>6, <2>1, <2>2
<1>8. /\ k = 0 => ~answer_status
      /\ k \in 1..2 => (answer_status <=> r[1] = "plus")
  BY <1>3, <1>4, <1>5 DEF Relays
<1>9. PICK f : f = feed(obj[curr_parser], r[k + 1])
  OBVIOUS
<1>10. Short(r) \/ Long(r)
  BY <1>6 DEF Apt
<1>11. /\ k = 0 => IsParser(f, "singleline", ReplyState(r, 1)) /\ f.type = IF r[1] = "plus" THEN "OK_RESP" ELSE "ERR_RESP"
       /\ k = 1 => IsParser(f, "singleline", "CR") /\ f.type = "IGNORE"
       /\ k = 2 => IsParser(f, "singleline", "CRLF") /\ f.type = "END_SINGLELINE"
       /\ k > 2 => /\ IsParser(f, "multiline", ReplyState(r, k + 1)) /\ f.type = "DAT_STUFFED"
                   /\ k + 1 = Len(r) => f.next
  <2>1. IsParser(obj[curr_parser], ReplyKind(r, k), ReplyState(r, k))
    BY <1>6 DEF Parsing
  <2> QED
    BY <1>7, <1>9, <1>10, <2>1, ReplyByte
<1>12. k = 0 \/ k = 1 \/ k = 2 \/ k > 2
  OBVIOUS
<1>13. f.type \notin {"BUFFER_CMD", "HAS_ARGS", "SET_CMD"} /\ (f.type = "END_SINGLELINE" <=> k = 2) /\ (f.type = "OK_RESP" <=> k = 0 /\ r[1] = "plus")
  <2>1. k > 2 => k # 2 /\ k # 0
    OBVIOUS
  <2> QED
    BY <1>11, <1>12, <2>1
<1>14. Effect(t, r[k + 1], f)
  <2>1. r[k + 1] = Symbol(t)
    BY <1>4, <1>5 DEF Symbol
  <2>2. curr_parser \in Ids
    BY <1>6 DEF Parsing
  <2> QED
    BY <1>1, <1>9, <1>13, <2>1, <2>2, Used
<1>15. /\ fate' = fate /\ DOMAIN obj' = Ids /\ event'[t] = curr_parser
       /\ (has_args' <=> has_args) /\ cmd_type' = cmd_type
       /\ buffer_pos'[t] = k + 1 /\ pc'[t] = "pick server" /\ buffer'[t] = r /\ bytes'[t] = Len(r)
       /\ server_fd'[t] = "up" /\ ~ceof'[t] /\ sin'[t] = sin[t]
  BY <1>0, <1>2, <1>4, <1>5, <1>6, <1>13, <1>14 DEF Effect
<1>16. Settled(t)' /\ sin'[t] = <<>>
  BY <1>3, <1>14 DEF Relays, Settled, Effect
<1>17. Listing' <=> Listing
  BY <1>15 DEF Listing
<1>18. Apt(r)'
  BY <1>6, <1>17 DEF Apt
<1>19. multiline <=> answer_status /\ Listing
  BY DEF multiline, Listing
<1>20. k + 1 \in 1..2 => (answer_status' <=> r[1] = "plus")
  <2>1. CASE k = 0
    BY <1>8, <1>13, <1>14, <2>1 DEF Effect
  <2>2. CASE k = 1
    <3>1. f.type # "END_SINGLELINE" /\ f.type # "OK_RESP" /\ (answer_status <=> r[1] = "plus")
      BY <1>8, <1>13, <2>2
    <3> QED
      BY <1>14, <3>1 DEF Effect
  <2>3. CASE k # 0 /\ k # 1
    <3>1. k + 1 \notin 1..2
      BY <2>3
    <3> QED
      BY <3>1
  <2> QED
    BY <2>1, <2>2, <2>3
<1>21. /\ Parsing(ReplyKind(r, k + 1), ReplyState(r, k + 1))'
       /\ k + 1 = Len(r) => event'[t] = curr_parser' /\ (obj'[curr_parser'].type = "END_SINGLELINE" \/ obj'[curr_parser'].next)
  <2>1. ASSUME ~(k = 2 /\ multiline) PROVE curr_parser' = curr_parser /\ curr_parser' \in Ids /\ obj'[curr_parser'] = f
    <3>1. curr_parser' = curr_parser /\ obj'[curr_parser] = f
      BY <1>13, <1>14, <2>1 DEF Effect
    <3> QED
      BY <1>6, <3>1 DEF Parsing
  <2>2. CASE k = 0 \/ k = 1
    <3>1. k # 2 /\ (k + 1 = 1 \/ k + 1 = 2) /\ k + 1 < 3
      BY <2>2
    <3>2. k + 1 # Len(r)
      <4>1. Len(r) >= 3
        BY <1>6, AptLength
      <4>2. \A n \in Nat : n >= 3 /\ k + 1 < 3 => k + 1 # n
        OBVIOUS
      <4> QED
        BY <1>7, <3>1, <4>1, <4>2
    <3>3. ReplyKind(r, k + 1) = "singleline"
      BY <3>1 DEF ReplyKind
    <3>4. IsParser(f, "singleline", ReplyState(r, k + 1))
      <4>1. ReplyState(r, 2) = "CR"
        BY DEF ReplyState
      <4>2. CASE k = 0
        BY <1>11, <4>2
      <4>3. CASE k = 1
        <5>1. k + 1 = 2
          BY <4>3
        <5> QED
          BY <1>11, <4>1, <4>3, <5>1
      <4> QED
        BY <2>2, <4>2, <4>3
    <3> QED
      BY <2>1, <3>1, <3>2, <3>3, <3>4 DEF Parsing
  <2>3. CASE k = 2 /\ Short(r) /\ (r[1] = "plus" => ~Listing)
    <3>1. k + 1 = 3 /\ Len(r) = 3 /\ ~multiline
      <4>1. ~(answer_status /\ Listing)
        BY <1>8, <2>3
      <4> QED
        BY <1>19, <2>3, <4>1 DEF Short
    <3>2. ReplyKind(r, 3) = "singleline" /\ ReplyState(r, 3) = "CRLF"
      BY <3>1 DEF ReplyKind, ReplyState
    <3>3. IsParser(f, "singleline", "CRLF") /\ f.type = "END_SINGLELINE"
      BY <1>11, <2>3
    <3>4. Parsing("singleline", "CRLF")'
      BY <2>1, <3>1, <3>3 DEF Parsing
    <3>5. event'[t] = curr_parser' /\ obj'[curr_parser'].type = "END_SINGLELINE"
      BY <1>15, <2>1, <3>1, <3>3
    <3> QED
      BY <3>1, <3>2, <3>4, <3>5
  <2>4. CASE k = 2 /\ Long(r) /\ Listing
    <3>1. k + 1 = 3 /\ Len(r) # 3 /\ r[1] = "plus"
      BY <1>7, <2>4 DEF Long
    <3>2. answer_status /\ f.type = "END_SINGLELINE" /\ multiline
      <4>1. answer_status
        BY <1>8, <2>4, <3>1
      <4> QED
        BY <1>13, <1>19, <2>4, <4>1
    <3>3. ReplyKind(r, 3) = "multiline" /\ ReplyState(r, 3) = "CRLFDOT"
      BY <3>1 DEF ReplyKind, ReplyState
    <3>4. Parsing("multiline", "CRLFDOT")'
      BY <1>14, <3>2 DEF Effect
    <3> QED
      BY <3>1, <3>3, <3>4
  <2>5. CASE k > 2
    <3>1. k # 2 /\ ~(k + 1 < 3)
      BY <2>5
    <3>2. Len(r) # 3
      <4>1. \A n \in Nat : k < n => n # 3
        BY <2>5
      <4> QED
        BY <1>6, <1>7, <4>1
    <3>3. ReplyKind(r, k + 1) = "multiline"
      BY <3>1, <3>2 DEF ReplyKind
    <3>4. IsParser(f, "multiline", ReplyState(r, k + 1)) /\ (k + 1 = Len(r) => f.next)
      BY <1>11, <2>5
    <3> QED
      BY <1>15, <2>1, <3>1, <3>3, <3>4 DEF Parsing
  <2> QED
    BY <1>6, <1>12, <2>2, <2>3, <2>4, <2>5 DEF Apt
<1>22. Relays(t)'
  <2>1. pc'[t] \in FromServer /\ pc'[t] # "use server"
    BY <1>15 DEF FromServer
  <2> QED
    BY <1>7, <1>15, <1>16, <1>18, <1>20, <1>21, <2>1 DEF Relays
<1>23. InTurn(t)'
  BY <1>15, <1>22, TurnIs
<1>24. pc'[t] # "off"
  BY <1>15
<1> QED
  BY <1>1, <1>15, <1>23, <1>24 DEF Lands

------------------------------------------------------------------------------
(* The two properties.                                                       *)

LEMMA InitSolo == Init => SoloInv
<1> SUFFICES ASSUME Init PROVE SoloInv
  OBVIOUS
<1>1. Counted
  BY DEF Init, Counted
<1>2. fate = "live" /\ DOMAIN obj = Ids /\ \A t \in Threads : pc[t] = "off" /\ Resting(t)
  BY DEF Init, Resting
<1>3. Cleared /\ cmd_type = "NOT_CMD"
  BY DEF Init, Cleared
<1> QED
  BY <1>1, <1>2, <1>3 DEF SoloInv, InStep

\* The step of one thread, or of its peers.
LEMMA SoloLands ==
  ASSUME PlainInputs, Typed, InStep, NEW t \in Threads, Goes(t), odd = 0, odd' = 0, Solo',
         start(t) \/ Thread(t) \/ client_sends(t) \/ client_closes(t) \/ origin_serves(t) \/ origin_closes(t)
  PROVE  Lands(t)
<1>1. CASE start(t)
  BY <1>1, StartLands
<1>2. CASE pick_parser(t)
  BY <1>2, PickLands
<1>3. CASE use_parser(t)
  <2>1. pc[t] = "use server" \/ pc[t] = "use client"
    BY <1>3 DEF use_parser, Using
  <2> QED
    BY <1>3, <2>1, UseServerLands, UseClientLands
<1>4. CASE read_server(t)
  BY <1>4, ReadServerLands
<1>5. CASE write_client(t)
  BY <1>5, WriteClientLands
<1>6. CASE read_client(t)
  BY <1>6, ReadClientLands
<1>7. CASE write_server(t)
  BY <1>7, WriteServerLands
<1>8. CASE client_sends(t)
  BY <1>8, ClientSendsLands
<1>9. CASE origin_serves(t)
  BY <1>9, OriginServesLands
<1>10. CASE read_server_fails(t) \/ read_client_fails(t)
  <2>1. pc[t] # "off" /\ (server_fd[t] # "up" \/ ceof[t])
    BY <1>10 DEF read_server_fails, read_client_fails, Running
  <2>2. InTurn(t)
    BY <2>1 DEF InStep
  <2> QED
    BY <2>1, <2>2 DEF InTurn
<1>11. CASE client_closes(t) \/ origin_closes(t)
  <2>1. odd' = odd + 1
    BY <1>11 DEF client_closes, origin_closes, Unusual
  <2> QED
    BY <2>1
<1> QED
  BY <1>1, <1>2, <1>3, <1>4, <1>5, <1>6, <1>7, <1>8, <1>9, <1>10, <1>11 DEF Thread

LEMMA StepSolo ==
  ASSUME PlainInputs, IInv, NullInv, SoloInv, [Next]_vars
  PROVE  SoloInv'
<1>1. CASE UNCHANGED vars
  <2>1. UNCHANGED <<curr_parser, cmd, has_args, cmd_type, answer_status, obj, pc, buffer, bytes, buffer_pos, event, fate,
                    server_fd, cin, ceof, sin, typed, sgot, issued, answered, odd>>
    BY <1>1 DEF vars, globals, locals, peers
  <2>2. Counted' /\ (Solo' <=> Solo)
    BY <2>1 DEF SoloInv, Counted, Solo, Several
  <2>3. ASSUME NEW t \in Threads, InTurn(t) PROVE InTurn(t)'
    <3>1. Idle(t)' <=> Idle(t)
      BY <2>1 DEF Idle, Settled, Cleared
    <3>2. Replied(t)' <=> Replied(t)
      BY <2>1 DEF Replied, Settled, Apt, Listing
    <3>3. Relays(t)' <=> Relays(t)
      BY <2>1 DEF Relays, Settled, Apt, Listing, Parsing
    <3>4. ASSUME NEW p, NEW c PROVE (Sending(t, p, c)' <=> Sending(t, p, c)) /\ (Waits(t, p, c)' <=> Waits(t, p, c))
      <4>1. Last(t, p, c)' <=> Last(t, p, c)
        BY <2>1 DEF Last
      <4>2. Fed(t, p)' = Fed(t, p)
        BY <2>1 DEF Fed
      <4>3. \A q : Heard(t, c, q)' <=> Heard(t, c, q)
        BY <2>1 DEF Heard, Recognised, Parsing
      <4> QED
        BY <2>1, <4>1, <4>2, <4>3 DEF Sending, Waits, Recognised
    <3> QED
      BY <2>1, <2>3, <3>1, <3>2, <3>3, <3>4 DEF InTurn
  <2>4. InStep => InStep'
    BY <2>1, <2>3 DEF InStep, Resting, Cleared
  <2> QED
    BY <2>2, <2>4 DEF SoloInv
<1>2. CASE Next
  <2>1. PICK t \in Threads :
          start(t) \/ Thread(t) \/ client_sends(t) \/ client_closes(t) \/ origin_serves(t) \/ origin_closes(t)
    BY <1>2 DEF Next
  <2>2. Typed
    BY DEF Typed, SoloInv
  <2>3. Goes(t) /\ Counted'
    BY <2>1, <2>2, StepGoes
  <2>4. CASE ~Solo'
    BY <2>3, <2>4 DEF SoloInv
  <2>5. CASE Solo'
    <3>1. InStep /\ odd = 0 /\ odd' = 0
      BY <2>2, <2>3, <2>5, SoloBefore
    <3>2. Lands(t)
      BY <2>1, <2>2, <2>3, <2>5, <3>1, SoloLands
    <3> QED
      BY <2>2, <2>3, <2>5, <3>1, <3>2, SoloAfter DEF Lands
  <2> QED
    BY <2>4, <2>5
<1> QED
  BY <1>1, <1>2

LEMMA SoloLoops ==
  ASSUME PlainInputs, IInv, NullInv, SoloInv
  PROVE  LoopsInStep
<1> SUFFICES ASSUME ~Several, odd = 0, fate = "live", NEW t \in Threads
             PROVE  /\ pc[t] = "server" => sin[t] # <<>> \/ answered[t] < Lines(typed[t])
                    /\ pc[t] = "client" => sin[t] = <<>> /\ answered[t] = Lines(sgot[t])
  BY DEF LoopsInStep
<1>1. Typed /\ InStep
  BY DEF Typed, SoloInv, Solo
<1>2. ASSUME pc[t] = "server" PROVE sin[t] # <<>> \/ answered[t] < Lines(typed[t])
  <2>1. InTurn(t)
    BY <1>1, <1>2 DEF InStep
  <2>2. Replied(t) \/ Waiting(t)
    BY <1>2, <2>1, TurnOf
  <2>3. CASE Replied(t)
    <3>1. sin[t] \in Seq(Symbols) /\ Apt(sin[t])
      BY <1>1, <2>3 DEF Typed, IInv, StreamsTyped, Replied
    <3> QED
      BY <3>1, AptLength
  <2>4. CASE Waiting(t)
    <3>1. PICK p \in Seq(Symbols), c \in Commands : Waits(t, p, c)
      BY <2>4 DEF Waiting
    <3>2. typed[t] = p \o c /\ answered[t] = Lines(p) /\ c \in Seq(Symbols) /\ PlainCommand(c)
      BY <3>1, ThreadInputsAssumption DEF Waits, Last, PlainInputs, Symbols
    <3>3. Lines(p \o c) = Lines(p) + 1 /\ Lines(p) \in Nat
      BY <3>2, CommandCounts, LinesCounted
    <3> QED
      BY <3>2, <3>3
  <2> QED
    BY <2>2, <2>3, <2>4
<1>3. ASSUME pc[t] = "client" PROVE sin[t] = <<>> /\ answered[t] = Lines(sgot[t])
  <2>1. InTurn(t)
    BY <1>1, <1>3 DEF InStep
  <2>2. Idle(t) \/ Hearing(t)
    BY <1>3, <2>1, TurnOf
  <2>3. CASE Idle(t)
    BY <2>3 DEF Idle, Settled
  <2>4. CASE Hearing(t)
    <3>1. PICK p \in Seq(Symbols), c \in Commands : Sending(t, p, c)
      BY <2>4 DEF Hearing
    <3>2. Last(t, p, c) /\ Len(sgot[t]) \in Len(p)..Len(p) + Len(c) - 1 /\ server_fd[t] = "up"
      BY <2>1, <3>1 DEF Sending, InTurn
    <3> QED
      BY <1>1, <3>2, LinesForwarded DEF Last
  <2> QED
    BY <2>2, <2>3, <2>4
<1> QED
  BY <1>2, <1>3

LEMMA LoneClient ==
  ASSUME PlainInputs
  PROVE  Spec => [](IInv /\ NullInv /\ SoloInv)
<1>1. Init => IInv /\ NullInv /\ SoloInv
  BY InitIInv, InitNull, InitSolo
<1>2. (IInv /\ NullInv /\ SoloInv) /\ [Next]_vars => (IInv /\ NullInv /\ SoloInv)'
  BY StepIInv, StepNull, StepSolo
<1> QED
  BY <1>1, <1>2, PTL DEF Spec

\* LoopsInStep for any plain commands and listings, in any number and cut anywhere by
\* the reads of runSocket: while the first client is alone and the origin's replies
\* arrive whole, the parser ends each inner loop at the end of its line or listing,
\* so that the thread never waits for the peer that waits for it.
THEOREM LoneClientInStep ==
  ASSUME PlainInputs
  PROVE  Spec => []LoopsInStep
<1>1. Spec => [](IInv /\ NullInv /\ SoloInv)
  BY LoneClient
<1>2. IInv /\ NullInv /\ SoloInv => LoopsInStep
  BY SoloLoops
<1> QED
  BY <1>1, <1>2, PTL

\* OverrunOnlyTogether under the same inputs: cmd, which pop3_parser.c resets with the
\* end of each reply, never holds more than the keyword of one command, and a keyword
\* is written past its end only when a second client or something unusual has come.
THEOREM LoneClientNoOverrun ==
  ASSUME PlainInputs
  PROVE  Spec => []OverrunOnlyTogether
<1>1. Spec => [](IInv /\ NullInv /\ SoloInv)
  BY LoneClient
<1>2. SoloInv => OverrunOnlyTogether
  <2> SUFFICES ASSUME SoloInv, fate = "wild", ~Several, ~(odd > 0) PROVE FALSE
    BY DEF OverrunOnlyTogether
  <2>1. odd = 0
    <3>1. odd \in Nat
      BY DEF SoloInv, Counted
    <3> QED
      BY <3>1
  <2>2. InStep
    BY <2>1 DEF SoloInv, Solo
  <2> QED
    BY <2>2 DEF InStep
<1> QED
  BY <1>1, <1>2, PTL
================================================================================

-------------------------------- MODULE Admin --------------------------------
(***************************************************************************)
(* The administration protocol: the console client of pop3adminclient, the *)
(* connection of pop3_admin_nio.c and the decoder of speedwagon_decoder.c. *)
(*                                                                         *)
(* The operator types a line of words.  The client packs it into one byte  *)
(* and a list of parameters, always sent as a message of MAX_BUFFER bytes, *)
(* and waits; the proxy decodes the byte, performs the operation and sends *)
(* one byte back, of which the client only tells 0x00 from the rest.  A    *)
(* byte is the set of its bits that are 1.  fgets keeps the end of the     *)
(* line: the last word of a line only equals a name that ends with it, and *)
(* as a parameter it takes it along.                                       *)
(*                                                                         *)
(* The requests are served by the thread of the selector, which other      *)
(* sessions may keep in a read of their filter, and two of the operations  *)
(* have undefined behaviour, which may end the proxy.                      *)
(***************************************************************************)
EXTENDS Naturals, Sequences

CONSTANTS
  Admins,       \* the administration clients
  Words,        \* what an operator may type
  Lines,        \* the lines each operator may type
  MaxRequests   \* bound: requests of one client

\* The client has room for six words.
ASSUME LinesAssumption ==
  /\ Lines \in [Admins -> SUBSET (Seq(Words) \ {<<>>})]
  /\ \A a \in Admins : \A l \in Lines[a] : Len(l) <= 6
ASSUME MaxRequestsAssumption == MaxRequests \in Nat

VARIABLES
  console,    \* typing, waiting (for the answer) or gone
  line,       \* the last line typed
  requests,   \* how many requests the client has sent
  wire,       \* the request on its way to the proxy, if any
  answer,     \* the answer on its way to the client, if any
  conn,       \* the proxy's side: open or closed
  proxy,      \* the selector's thread: up, blocked (in a filter's read) or crashed
  heap,       \* whole, or overrun past the end of a block
  medias,     \* FILTER_MEDIAS, the entries between its commas
  total,      \* total_bytes_transfered
  performed   \* the operation performed for the client's last line (history)

vars == <<console, line, requests, wire, answer, conn, proxy, heap, medias, total, performed>>

NoRequest == [byte |-> {}, params |-> <<>>, full |-> FALSE]
NoAnswer  == "none"
UNSET     == <<>>      \* FILTER_MEDIAS is not in the environment

------------------------------------------------------------------------------
(* The client's encoder.                                                   *)

\* strcmp(argv[i], w) == 0 for a name without, and for one with an end of line.
Is(l, i, w)     == i < Len(l) /\ l[i] = w
IsLast(l, i, w) == i = Len(l) /\ l[i] = w

\* A word as a C string, with what follows it: nothing, the end of the line, or
\* bytes that were never part of it.
argv(l, i) == [word |-> l[i], end |-> IF i = Len(l) THEN "eol" ELSE "none"]

\* What an encoder returns: the byte and the parameters, or -1.
Sends(byte, params) == {[byte |-> byte, params |-> params, full |-> TRUE]}
Invalid == {}

\* A wrong number of words is reported and the byte sent all the same.
sock_encoder(l) ==
  LET place == IF Is(l, 3, "local") THEN {2} ELSE {}
      what  == IF Is(l, 4, "address") THEN {0} ELSE {}
  IN  IF Is(l, 2, "status") /\ Len(l) >= 6
      THEN IF Is(l, 3, "origin") \/ Is(l, 3, "local") THEN Sends(place, <<>>) ELSE Invalid
      ELSE IF Is(l, 2, "mod") /\ Len(l) = 5
      THEN IF /\ Is(l, 3, "origin") \/ Is(l, 3, "local")
              /\ Is(l, 4, "port") \/ Is(l, 4, "address")
           THEN Sends({4} \cup place \cup what, <<argv(l, 5)>>) ELSE Invalid
      ELSE Sends({}, <<>>)

\* The parameters of a ban: every word after the fourth.
ban_parameters(l) == [j \in 1..(Len(l) - 4) |-> argv(l, j + 4)]

\* (slip) the bit of the ban is set for any operation on mime types
mime_any_operation(l) == Sends({6, 4, 2}, ban_parameters(l))

mime_operation(l) == IF Is(l, 4, "ban") THEN Sends({6, 4, 2}, ban_parameters(l)) ELSE Invalid

\* What the array of words held before.
stale == [word : Words, end : {"junk"}]

\* `replace' takes two parameters; with one, the second is a stale word.
trans_encoder(l) ==
  IF Is(l, 2, "status") THEN Invalid
  ELSE IF Is(l, 2, "mod") /\ Len(l) >= 5
  THEN IF Is(l, 3, "general")
       THEN IF Is(l, 4, "replace")
            THEN UNION {Sends({6, 4}, <<argv(l, 5), w>>) :
                          w \in IF Len(l) >= 6 THEN {argv(l, 6)} ELSE stale}
            ELSE Invalid
       ELSE IF Is(l, 3, "mime") THEN mime_operation(l) ELSE Invalid
  ELSE Sends({6}, <<>>)

metrics_encoder(l) ==
  IF IsLast(l, 2, "bytes") THEN Sends({7}, <<>>)
  ELSE IF IsLast(l, 2, "access") THEN Sends({7, 4}, <<>>)
  ELSE IF IsLast(l, 2, "conections") THEN Sends({7, 5}, <<>>)
  ELSE Invalid

encode_request(l) ==
  IF Is(l, 1, "sock") THEN sock_encoder(l)
  ELSE IF Is(l, 1, "trans") THEN trans_encoder(l)
  ELSE IF Is(l, 1, "metrics") THEN metrics_encoder(l)
  ELSE IF Is(l, 1, "config") THEN Sends({7, 6}, <<>>)
  ELSE Invalid

------------------------------------------------------------------------------
(* The proxy's decoder.  An answer is "bad" for 0x00 and "ok" for 0x80.    *)

Does(op, resp) == [op |-> op, resp |-> resp]

\* The first character of a port is looked at; Words that start with a digit.
Numbers == {"1100"}

\* Changing an address, or the local port, leaves the answer at 0x00, which is
\* also what fill_byte makes of SUCCESS.
sock_decoder(e, params) ==
  LET place == IF 2 \in e THEN "local" ELSE "origin"
  IN  IF e \cap {5, 4, 3} = {} THEN {Does(<<"status", place>>, "ok")}
      ELSE IF e \cap {5, 4, 3} = {4}
      THEN IF 0 \in e THEN {Does(<<"mod", place, "address">>, "bad")}
           ELSE {Does(<<"mod", place, "port">>,
                      IF 2 \notin e /\ params[1].word \in Numbers THEN "ok" ELSE "bad")}
      ELSE {Does(<<"unimplemented">>, "ok")}

\* What the printing of the types and their copy may do besides is in Undefined.
trans_decoder(e) ==
  IF e = {6} THEN {Does(<<"status", "trans">>, "ok")}
  ELSE IF e = {6, 4} THEN {Does(<<"replace">>, "bad")}
  ELSE IF e = {6, 4, 2} THEN {Does(<<"ban">>, "ok")}
  ELSE {Does(<<"unimplemented">>, "ok")}

\* (slip) the access log and the connections have each other's byte
metrics_decoder_swapped(e) ==
  IF e = {7} THEN {Does(<<"metrics", "bytes">>, "ok")}
  ELSE IF e = {7, 5} THEN {Does(<<"metrics", "access">>, "ok")}
  ELSE IF e = {7, 4} THEN {Does(<<"metrics", "conections">>, "ok")}
  ELSE {Does(<<"unimplemented">>, "bad")}

metrics_decoder(e) ==
  IF e = {7} THEN {Does(<<"metrics", "bytes">>, "ok")}
  ELSE IF e = {7, 4} THEN {Does(<<"metrics", "access">>, "ok")}
  ELSE IF e = {7, 5} THEN {Does(<<"metrics", "conections">>, "ok")}
  ELSE {Does(<<"unimplemented">>, "bad")}

\* The answer of config_decoder is dropped: decode_request returns a byte it never
\* assigned.
decode_request(e, params) ==
  CASE e \cap {7, 6} = {}     -> sock_decoder(e, params)
    [] e \cap {7, 6} = {6}    -> trans_decoder(e)
    [] e \cap {7, 6} = {7}    -> metrics_decoder(e)
    [] e \cap {7, 6} = {7, 6} -> {Does(<<"config">>, "ok"), Does(<<"config">>, "bad")}

\* The bytes an operation adds to the count, a word taken as one byte.
counted(op, params) ==
  IF op = <<"ban">> THEN 2 + Len(params) ELSE IF op[1] = "metrics" THEN 2 ELSE 0

------------------------------------------------------------------------------
Init ==
  /\ console = [a \in Admins |-> "typing"]
  /\ line = [a \in Admins |-> <<>>]
  /\ requests = [a \in Admins |-> 0]
  /\ wire = [a \in Admins |-> NoRequest]
  /\ answer = [a \in Admins |-> NoAnswer]
  /\ conn = [a \in Admins |-> "open"]
  /\ proxy = "up" /\ heap = "whole"
  /\ medias = UNSET /\ total = 0
  /\ performed = [a \in Admins |-> <<"none">>]

\* The operator types a line the encoder accepts.  (One it does not accept is
\* reported and forgotten, and without a connection no line goes anywhere.)
type(a) ==
  /\ console[a] = "typing" /\ conn[a] = "open" /\ requests[a] < MaxRequests
  /\ \E l \in Lines[a] : \E r \in encode_request(l) :
       /\ line' = [line EXCEPT ![a] = l]
       /\ wire' = [wire EXCEPT ![a] = r]
  /\ console'   = [console EXCEPT ![a] = "waiting"]
  /\ requests'  = [requests EXCEPT ![a] = @ + 1]
  /\ performed' = [performed EXCEPT ![a] = <<"none">>]
  /\ UNCHANGED <<answer, conn, proxy, heap, medias, total>>

\* The client prints "all OK" or "Bad request response", or nothing where its
\* recvmsg finds the connection closed.
hear(a) ==
  /\ console[a] = "waiting" /\ (answer[a] # NoAnswer \/ conn[a] = "closed")
  /\ console' = [console EXCEPT ![a] = "typing"]
  /\ answer'  = [answer EXCEPT ![a] = NoAnswer]
  /\ UNCHANGED <<line, requests, wire, conn, proxy, heap, medias, total, performed>>

\* The client ends, at any time.
leave(a) ==
  /\ console[a] # "gone"
  /\ console' = [console EXCEPT ![a] = "gone"]
  /\ UNCHANGED <<line, requests, wire, answer, conn, proxy, heap, medias, total, performed>>

\* (slip) the proxy performs the operation and waits for the next request
respond_never(a, resp) == answer' = answer /\ conn' = conn

\* response_write, in the same callback: the send fails only when the client is
\* gone, and then the connection is closed.
respond(a, resp) ==
  \/ answer' = [answer EXCEPT ![a] = resp] /\ UNCHANGED conn
  \/ console[a] = "gone" /\ conn' = [conn EXCEPT ![a] = "closed"] /\ UNCHANGED answer

\* The block for the types has room for their characters and one byte more, and
\* each of them takes a byte for the comma or the zero after it.
Overruns(op, params) == op = <<"ban">> /\ Len(params) >= 2

\* Where the block is overrun, the zero that ends the last type may be the first
\* byte of the block that setenv takes next.
Trampled(params) == [params EXCEPT ![Len(params)].end = "junk"]

\* setenv("FILTER_MEDIAS"): the types, joined.
environment(op, params) ==
  IF op # <<"ban">> THEN {medias}
  ELSE {params} \cup (IF Overruns(op, params) THEN {Trampled(params)} ELSE {})

\* The behaviour of the operation is undefined: the block is overrun, or printf
\* takes the string for its "%s" from wherever its argument would be.
Undefined(op, params) ==
  Overruns(op, params) \/ (op = <<"status", "trans">> /\ medias = UNSET)

\* The process dies and its connections with it; what it had answered arrives.
die ==
  /\ proxy' = "crashed"
  /\ conn' = [a \in Admins |-> "closed"] /\ wire' = [a \in Admins |-> NoRequest]
  /\ UNCHANGED <<console, line, requests, answer, heap, medias, total, performed>>

\* request_read: recv, decode_request and response_write; the end of the stream
\* closes the connection.
request_read(a) ==
  /\ conn[a] = "open" /\ proxy = "up"
  /\ \/ /\ wire[a].full
        /\ \E d \in decode_request(wire[a].byte, wire[a].params) :
             /\ medias' \in environment(d.op, wire[a].params)
             /\ heap' = IF Overruns(d.op, wire[a].params) THEN "overrun" ELSE heap
             /\ total' = total + counted(d.op, wire[a].params)
             /\ performed' = [performed EXCEPT ![a] = d.op]
             /\ respond(a, d.resp)
        /\ wire' = [wire EXCEPT ![a] = NoRequest]
        /\ UNCHANGED <<console, line, requests, proxy>>
     \/ /\ wire[a].full
        /\ \E d \in decode_request(wire[a].byte, wire[a].params) : Undefined(d.op, wire[a].params)
        /\ die
     \/ /\ ~wire[a].full /\ console[a] = "gone"
        /\ conn' = [conn EXCEPT ![a] = "closed"]
        /\ UNCHANGED <<console, line, requests, wire, answer, proxy, heap, medias, total, performed>>

\* malloc or free finds the heap overrun, in any handler of the proxy.
corrupted == proxy = "up" /\ heap = "overrun" /\ die

\* Another session's handler waits for its filter, and may wait for ever.
read_filter ==
  /\ \/ proxy = "up" /\ proxy' = "blocked"
     \/ proxy = "blocked" /\ proxy' = "up"
  /\ UNCHANGED <<console, line, requests, wire, answer, conn, heap, medias, total, performed>>

Next ==
  \/ \E a \in Admins : type(a) \/ hear(a) \/ leave(a) \/ request_read(a)
  \/ corrupted \/ read_filter

Spec == Init /\ [][Next]_vars

\* A client that waits reads; the selector serves every readable connection of an
\* iteration, so one whose thread keeps coming back serves each of them.
Fairness == \A a \in Admins : SF_vars(request_read(a)) /\ WF_vars(hear(a))

FairSpec == Spec /\ Fairness

------------------------------------------------------------------------------
(* Properties.                                                             *)

\* The operation a line asks for, by the syntax the client prints.
Asked(l) ==
  CASE Len(l) = 3 /\ l[1] = "sock" /\ l[2] = "status" /\ l[3] \in {"origin", "local"}
                                                            -> <<"status", l[3]>>
    [] Len(l) = 5 /\ l[1] = "sock" /\ l[2] = "mod" /\ l[3] \in {"origin", "local"}
         /\ l[4] \in {"port", "address"}                    -> <<"mod", l[3], l[4]>>
    [] l = <<"trans", "status">>                            -> <<"status", "trans">>
    [] Len(l) >= 5 /\ SubSeq(l, 1, 4) = <<"trans", "mod", "general", "replace">>
                                                            -> <<"replace">>
    [] Len(l) >= 5 /\ SubSeq(l, 1, 4) = <<"trans", "mod", "mime", "ban">>
                                                            -> <<"ban">>
    [] Len(l) = 2 /\ l[1] = "metrics"                       -> <<"metrics", l[2]>>
    [] OTHER                                                -> <<"unclear">>

\* The operations that print, and leave every address, port and list as it was.
PrintsOnly == {"status", "replace", "config"}

\* A line in the syntax the client prints makes the proxy perform the operation it
\* asks for ("Syntax: <sock> <status> <origin/local>"), and one outside it changes
\* nothing.
Understood ==
  \A a \in Admins : performed[a] # <<"none">> =>
    IF Asked(line[a]) # <<"unclear">> THEN performed[a] = Asked(line[a])
    ELSE performed[a][1] \in PrintsOnly

\* Every line in the syntax but the status of the local socket, which the encoder
\* takes for too short, makes the proxy perform the operation it asks for; that
\* line, and those the client complains about and sends all the same, never
\* make it change an address, a port or the banned types.
UnderstoodButLocalStatus ==
  \A a \in Admins : performed[a] # <<"none">> =>
    IF Asked(line[a]) \notin {<<"unclear">>, <<"status", "local">>}
    THEN performed[a] = Asked(line[a])
    ELSE performed[a][1] \in PrintsOnly

\* The request of a's complete ban line is served in this step.
BanServed(a) ==
  /\ console[a] # "typing" /\ wire[a].full /\ ~wire'[a].full
  /\ Asked(line[a]) = <<"ban">>

\* What is typed after `ban' is what FILTER_MEDIAS holds, word by word, and every
\* word but the last exactly as it was typed.
Lists(m, l) ==
  /\ DOMAIN m = 1..(Len(l) - 4)
  /\ \A i \in 1..(Len(l) - 4) : m[i].word = l[i + 4] /\ (i + 4 < Len(l) => m[i].end = "none")

\* The banned types only change when the request of a complete ban line is served,
\* to the types of that line, all of them, in its order, the last one followed
\* by the end of the line.
BansAreExact ==
  [][medias' # medias => \E a \in Admins : BanServed(a) /\ Lists(medias', line[a])]_vars

\* The types the filter finds in FILTER_MEDIAS: a subtype with an end of line, or
\* anything else, after it is the subtype of no part.
Filtered(m) == {m[i].word : i \in {j \in DOMAIN m : m[j].end = "none"}}

\* The transformations can be changed while the proxy runs ("Las transformaciones
\* DEBEN poder modificarse en tiempo de ejecucion"): once the request of a ban is
\* served, the types of its line are the ones the filter removes.
BansTakeEffect ==
  [][medias' # medias =>
       \E a \in Admins : BanServed(a) /\ Filtered(medias') = {line[a][i] : i \in 5..Len(line[a])}]_vars

\* A client that waits is answered, unless it leaves, the proxy dies, or the
\* selector's thread stays in the read of a filter for ever.
RequestsAnswered ==
  \A a \in Admins :
    console[a] = "waiting" ~>
      (console[a] # "waiting" \/ proxy = "crashed" \/ [](proxy = "blocked"))
==============================================================================

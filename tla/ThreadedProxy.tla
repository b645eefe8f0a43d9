---------------------------- MODULE ThreadedProxy ----------------------------
(***************************************************************************)
(* The first proxy of the repository: proxy.c, one thread per client, and  *)
(* pop3_parser.c, which follows commands and replies for every thread with *)
(* one set of global variables.                                            *)
(*                                                                         *)
(* The grammars are those of ParserFactory.  A keyword is one symbol that  *)
(* stands for its four characters; every other symbol is a byte class.  A  *)
(* thread's `event' points into a parser object, and so sees what other    *)
(* threads feed to that object.  pop3_parser_feed is two steps: it reads   *)
(* curr_parser, and again to use it.                                       *)
(***************************************************************************)
EXTENDS Tokens, ParserFactory, FiniteSetsExt

CONSTANTS
  Threads,    \* the clients that may connect, each with its thread
  Commands,   \* what a client may send: sequences of symbols that end with CR LF
  Bodies,     \* the data of multi-line replies
  MaxCmds,    \* bound: commands while one client is connected
  MaxShared,  \* bound: commands of all the clients, once several are
  MaxOdd,     \* bound: unusual events
  MaxCuts,    \* bound: reads that return only a part of what a client has sent
  Faults      \* which of AllThreadFaults may happen

AllThreadFaults ==
  { "exit",       \* the origin's address is of IPv6, or the pipes cannot be made
    "noserver",   \* connect(2) fails
    "negative",   \* the origin answers a command with -ERR
    "segments",   \* TCP delivers a reply in several pieces
    "pipelining", \* the client does not wait for the reply
    "origineof",  \* the origin closes
    "clienteof" } \* the client closes

ASSUME ThreadFaultsAssumption == Faults \subseteq AllThreadFaults
ASSUME ThreadBoundsAssumption == {MaxCmds, MaxShared, MaxOdd, MaxCuts} \subseteq Nat

VARIABLES
  (* pop3_parser.c *)
  curr_parser,   \* the parser object in use; NULL
  cmd,           \* the symbols buffered in cmd
  has_args,
  cmd_type,
  answer_status,
  obj,           \* the parser objects something points to
  (* runSocket, for each thread *)
  pc,            \* off, or where in its loops the thread is
  buffer,        \* up to its first NUL
  bytes,         \* what the last read returned
  buffer_pos,
  event,         \* the object whose event it points to; NULL
  server_fd,     \* up, eof or none (connect failed)
  fate,          \* of the process: live, exited, crashed or wild
  (* the peers *)
  cin, ceof,     \* sent by the client and not yet read; it has closed
  sin,           \* sent by the origin and not yet read
  typed, sgot,   \* all the client sent, and the origin received (histories)
  said, cgot,    \* all the origin sent, and the client received (histories)
  issued,        \* how many commands the client sent
  answered,      \* how many the origin has answered
  odd,           \* events other than whole, plain replies, one at a time (history)
  cuts           \* reads of a part of what a client had sent (history)

globals == <<curr_parser, cmd, has_args, cmd_type, answer_status, obj>>
locals  == <<pc, buffer, bytes, buffer_pos, event>>
peers   == <<server_fd, cin, ceof, sin, typed, sgot, said, cgot, issued, answered, odd, cuts>>
vars    == <<globals, locals, fate, peers>>

------------------------------------------------------------------------------
(* Symbols and parsers.                                                     *)

Upper    == [STAT |-> "STAT", LIST |-> "LIST", list |-> "LIST", RETR |-> "RETR"]
Keywords == DOMAIN Upper
toupper(x) == IF x \in Keywords THEN Upper[x] ELSE x
Class(x)   == IF x \in Keywords THEN "ch" ELSE x

ASSUME ThreadInputsAssumption ==
  IsFiniteSet(Threads) /\ Commands \cup Bodies \subseteq Seq(Keywords \cup Bytes)

\* The characters the symbols take in cmd.
Room(s) == Len(s) + 3 * Cardinality({i \in 1..Len(s) : s[i] \in Keywords})
SizeOfCmd == 5

NULL  == 0
Ids   == 1..(Cardinality(Threads) + 2)
Blank == [kind |-> "none", state |-> "", type |-> "", next |-> FALSE]

\* The tables of this program are earlier copies of those of pop3filter.  The last
\* state of its multi-line table ignores what follows.
command_definition     == pop3_command_definition
singleline_definition  == pop3_singleline_response_definition
ST_CRLFDOTCRLF_ignores == <<T(ANY, "CRLFDOTCRLF", "IGNORE")>>
multiline_definition   ==
  [pop3_multiline_response_definition EXCEPT !.states["CRLFDOTCRLF"] = ST_CRLFDOTCRLF_ignores]

Definition(k) ==
  CASE k = "command"    -> command_definition
    [] k = "singleline" -> singleline_definition
    [] k = "multiline"  -> multiline_definition

\* parser_init: a new object, with its event blank.
parser_init(k) == [kind |-> k, state |-> Definition(k).start_state, type |-> "", next |-> FALSE]

\* parser_feed: the state and the event it leaves in the object.
feed(o, x) ==
  LET row == parser_feed(Definition(o.kind), o.state, Class(x))
  IN  [o EXCEPT !.state = row.dest, !.type = row.event, !.next = row.next # ""]

\* An object nothing points to.  (The program never frees one.)
Unused == CHOOSE i \in Ids \ ({curr_parser} \cup {event[t] : t \in Threads}) : TRUE

\* The objects after curr_parser and the events have become c and e.
Kept(o, c, e) == [i \in Ids |-> IF i = c \/ \E t \in Threads : e[t] = i THEN o[i] ELSE Blank]

overloaded_commands == {<<"LIST">>}
multiline_commands  == {<<"RETR">>}

get_command_type(s) ==
  IF s \in multiline_commands THEN "MULTILINE"
  ELSE IF s \in overloaded_commands THEN "OVERLOADED" ELSE "SINGLELINE"

------------------------------------------------------------------------------
Init ==
  /\ curr_parser = NULL /\ cmd = <<>> /\ has_args = FALSE /\ cmd_type = "NOT_CMD"
  /\ answer_status = FALSE /\ obj = [i \in Ids |-> Blank]
  /\ pc = [t \in Threads |-> "off"]
  /\ buffer = [t \in Threads |-> <<>>] /\ bytes = [t \in Threads |-> 0]
  /\ buffer_pos = [t \in Threads |-> 0] /\ event = [t \in Threads |-> NULL]
  /\ server_fd = [t \in Threads |-> "none"] /\ fate = "live"
  /\ cin = [t \in Threads |-> <<>>] /\ ceof = [t \in Threads |-> FALSE]
  /\ sin = [t \in Threads |-> <<>>]
  /\ typed = [t \in Threads |-> <<>>] /\ sgot = [t \in Threads |-> <<>>]
  /\ said = [t \in Threads |-> <<>>] /\ cgot = [t \in Threads |-> <<>>]
  /\ issued = [t \in Threads |-> 0] /\ answered = [t \in Threads |-> 0] /\ odd = 0
  /\ cuts = 0

\* An unusual event, or not.
Unusual(b) == /\ b => odd < MaxOdd
              /\ odd' = IF b THEN odd + 1 ELSE odd

Running(t, at) == fate = "live" /\ pc[t] = at

GREETING == <<"plus", "cr", "lf">>

\* main accepts a client and starts its thread, which connects (it goes on when it
\* cannot), and starts a filter it will not use.
start(t) ==
  /\ Running(t, "off")
  /\ \/ /\ \/ /\ server_fd' = [server_fd EXCEPT ![t] = "up"]
              /\ sin' = [sin EXCEPT ![t] = GREETING] /\ said' = [said EXCEPT ![t] = GREETING]
              /\ Unusual(FALSE)
           \/ "noserver" \in Faults /\ Unusual(TRUE) /\ UNCHANGED <<server_fd, sin, said>>
        /\ pc' = [pc EXCEPT ![t] = "server"] /\ UNCHANGED fate
     \/ "exit" \in Faults /\ fate' = "exited" /\ UNCHANGED <<pc, server_fd, sin, said, odd>>
  /\ UNCHANGED <<globals, buffer, bytes, buffer_pos, event, cin, ceof, typed, sgot, cgot, issued, answered, cuts>>

------------------------------------------------------------------------------
(* pop3_parser_feed.                                                        *)

Feeding(t) == pc[t] \in {"pick server", "pick client"} /\ fate = "live"
Using(t)   == pc[t] \in {"use server", "use client"} /\ fate = "live"
Symbol(t)  == buffer[t][buffer_pos[t] + 1]

\* (slip) a command chooses no parser
no_parser_for_status(t) == curr_parser = NULL /\ Class(Symbol(t)) \in {"plus", "minus"}

no_parser(t) == curr_parser = NULL

\* Without a parser the first byte chooses one.
pick_parser(t) ==
  /\ Feeding(t) /\ buffer_pos[t] < Len(buffer[t])
  /\ IF ~no_parser(t) THEN UNCHANGED <<curr_parser, obj>>
     ELSE LET kind == IF Class(Symbol(t)) \in {"plus", "minus"} THEN "singleline" ELSE "command"
          IN  curr_parser' = Unused /\ obj' = [obj EXCEPT ![Unused] = parser_init(kind)]
  /\ pc' = [pc EXCEPT ![t] = IF @ = "pick server" THEN "use server" ELSE "use client"]
  /\ UNCHANGED <<cmd, has_args, cmd_type, answer_status, buffer, bytes, buffer_pos, event, fate, peers>>

\* The reply to the current command goes on after its status line.
multiline == answer_status /\ (cmd_type = "MULTILINE" \/ (cmd_type = "OVERLOADED" /\ ~has_args))

\* The byte reaches the parser that is current by now, if there is one.
use_parser(t) ==
  /\ Using(t)
  /\ LET x   == Symbol(t)
         fed == feed(obj[curr_parser], x)
         e   == [event EXCEPT ![t] = curr_parser]
         full   == fed.type = "BUFFER_CMD" /\ Room(Append(cmd, x)) > SizeOfCmd
         starts == fed.type = "END_SINGLELINE" /\ multiline
     IN  \/ /\ curr_parser = NULL
            /\ fate' = "crashed" /\ UNCHANGED <<globals, locals>>
         \/ /\ curr_parser # NULL /\ full
            /\ fate' = "wild" /\ UNCHANGED <<globals, locals>>
         \/ /\ curr_parser # NULL /\ ~full
            /\ event' = e
            /\ cmd' = IF fed.type = "BUFFER_CMD" THEN Append(cmd, toupper(x)) ELSE cmd
            /\ has_args' = (has_args \/ fed.type = "HAS_ARGS")
            /\ cmd_type' = IF fed.type = "SET_CMD" THEN get_command_type(cmd) ELSE cmd_type
            /\ answer_status' = IF fed.type = "END_SINGLELINE" THEN FALSE
                                ELSE answer_status \/ fed.type = "OK_RESP"
            /\ curr_parser' = IF fed.type = "SET_CMD" THEN NULL ELSE IF starts THEN Unused ELSE curr_parser
            /\ obj' = Kept(IF starts THEN [obj EXCEPT ![curr_parser] = [fed EXCEPT !.type = "IGNORE"],
                                                      ![Unused] = parser_init("multiline")]
                           ELSE [obj EXCEPT ![curr_parser] = fed],
                           curr_parser', e)
            /\ buffer_pos' = [buffer_pos EXCEPT ![t] = @ + 1]
            /\ pc' = [pc EXCEPT ![t] = IF @ = "use server" THEN "pick server" ELSE "pick client"]
            /\ UNCHANGED <<buffer, bytes, fate>>
  /\ UNCHANGED peers

\* (slip) the flag of the arguments is not reset
pop3_parser_reset_keeping_args ==
  /\ curr_parser' = NULL /\ cmd' = <<>> /\ answer_status' = FALSE
  /\ obj' = Kept(obj, NULL, event)
  /\ UNCHANGED <<cmd_type, has_args>>

\* (slip) the length of the keyword is not reset
pop3_parser_reset_keeping_cmd ==
  /\ curr_parser' = NULL /\ has_args' = FALSE /\ answer_status' = FALSE
  /\ obj' = Kept(obj, NULL, event)
  /\ UNCHANGED <<cmd_type, cmd>>

\* Everything but cmd_type.
pop3_parser_reset ==
  /\ curr_parser' = NULL /\ cmd' = <<>> /\ has_args' = FALSE /\ answer_status' = FALSE
  /\ obj' = Kept(obj, NULL, event)
  /\ UNCHANGED cmd_type

------------------------------------------------------------------------------
(* runSocket.                                                               *)

\* The ends of the two inner loops, from what `event' points to by now.
ServerDone(t) == event[t] = NULL \/ obj[event[t]].type = "END_SINGLELINE" \/ obj[event[t]].next
ClientDone(t) == event[t] = NULL \/ obj[event[t]].type \in {"SET_CMD", "BAD_CMD"}

\* The server's loop goes round, or ends: the parser is reset and the buffer cleared.
server_again(t) ==
  IF ServerDone(t)
  THEN /\ pop3_parser_reset
       /\ pc' = [pc EXCEPT ![t] = "client"] /\ buffer' = [buffer EXCEPT ![t] = <<>>]
  ELSE pc' = [pc EXCEPT ![t] = "server"] /\ UNCHANGED <<globals, buffer>>

client_again(t) ==
  /\ pc' = [pc EXCEPT ![t] = IF ClientDone(t) THEN "server" ELSE "client"]
  /\ buffer' = [buffer EXCEPT ![t] = <<>>]
  /\ UNCHANGED globals

\* read(2) puts the bytes over the start of the buffer, which the server's loop does
\* not clear: a longer read before leaves its end behind them.
read_server(t) ==
  /\ Running(t, "server") /\ sin[t] # <<>>
  /\ \E n \in (IF "segments" \in Faults THEN 1..Len(sin[t]) ELSE {Len(sin[t])}) :
       /\ buffer' = [buffer EXCEPT ![t] = Take(sin[t], n) \o Drop(@, n)]
       /\ bytes' = [bytes EXCEPT ![t] = n] /\ sin' = [sin EXCEPT ![t] = Drop(@, n)]
       /\ Unusual(n < Len(sin[t]))
  /\ buffer_pos' = [buffer_pos EXCEPT ![t] = 0]
  /\ pc' = [pc EXCEPT ![t] = "pick server"]
  /\ UNCHANGED <<globals, event, fate, server_fd, cin, ceof, typed, sgot, said, cgot, issued, answered, cuts>>

\* It returns 0 or -1: the thread looks at an old event.
read_server_fails(t) ==
  /\ Running(t, "server") /\ sin[t] = <<>> /\ server_fd[t] # "up"
  /\ server_again(t) /\ bytes' = [bytes EXCEPT ![t] = 0]
  /\ UNCHANGED <<buffer_pos, event, fate, peers>>

\* (slip) the buffer is sent as a string
outgoing_string(t) == buffer[t]

\* The bytes of the last read.
outgoing(t) == Take(buffer[t], bytes[t])

\* All of the buffer has been fed: it is written to the client.
write_client(t) ==
  /\ Running(t, "pick server") /\ buffer_pos[t] = Len(buffer[t])
  /\ cgot' = IF ceof[t] THEN cgot ELSE [cgot EXCEPT ![t] = @ \o outgoing(t)]
  /\ server_again(t)
  /\ UNCHANGED <<bytes, buffer_pos, event, fate, server_fd, cin, ceof, sin, typed, sgot, said, issued, answered, odd, cuts>>

read_client(t) ==
  /\ Running(t, "client") /\ cin[t] # <<>>
  /\ \E n \in 1..Len(cin[t]) :
       /\ buffer' = [buffer EXCEPT ![t] = Take(cin[t], n)]
       /\ bytes' = [bytes EXCEPT ![t] = n] /\ cin' = [cin EXCEPT ![t] = Drop(@, n)]
       /\ cuts' = cuts + (IF n < Len(cin[t]) THEN 1 ELSE 0) /\ cuts' <= MaxCuts
  /\ buffer_pos' = [buffer_pos EXCEPT ![t] = 0]
  /\ pc' = [pc EXCEPT ![t] = "pick client"]
  /\ UNCHANGED <<globals, event, fate, server_fd, ceof, sin, typed, sgot, said, cgot, issued, answered, odd>>

read_client_fails(t) ==
  /\ Running(t, "client") /\ cin[t] = <<>> /\ ceof[t]
  /\ client_again(t) /\ bytes' = [bytes EXCEPT ![t] = 0]
  /\ UNCHANGED <<buffer_pos, event, fate, peers>>

write_server(t) ==
  /\ Running(t, "pick client") /\ buffer_pos[t] = Len(buffer[t])
  /\ sgot' = IF server_fd[t] = "up" THEN [sgot EXCEPT ![t] = @ \o outgoing(t)] ELSE sgot
  /\ client_again(t)
  /\ UNCHANGED <<bytes, buffer_pos, event, fate, server_fd, cin, ceof, sin, typed, said, cgot, issued, answered, odd, cuts>>

Thread(t) ==
  \/ pick_parser(t) \/ use_parser(t)
  \/ read_server(t) \/ read_server_fails(t) \/ write_client(t)
  \/ read_client(t) \/ read_client_fails(t) \/ write_server(t)

------------------------------------------------------------------------------
(* The peers.                                                               *)

\* The k-th line of s.
Lines(s)    == Cardinality({i \in 1..Len(s) : s[i] = "lf"})
EndOf(s, k) == IF k = 0 THEN 0
               ELSE CHOOSE i \in 1..Len(s) : s[i] = "lf" /\ Lines(Take(s, i)) = k
Line(s, k)  == SubSeq(s, EndOf(s, k - 1) + 1, EndOf(s, k))

\* Every command of the client has been answered, and the answer is all there.
AllAnswered(t) == answered[t] = issued[t] /\ said[t] # <<>> /\ cgot[t] = said[t]

\* The commands of all the clients.
Total == MapThenSumSet(LAMBDA t : issued[t], Threads)

\* More than one client has been accepted since the program started.
Several == Cardinality({t \in Threads : pc[t] # "off"}) > 1

\* A command; one that is sent before the last is answered is unusual.
client_sends(t) ==
  /\ fate = "live" /\ pc[t] # "off" /\ ~ceof[t]
  /\ Total < (IF Several THEN MaxShared ELSE MaxCmds)
  /\ "pipelining" \in Faults \/ AllAnswered(t)
  /\ \E c \in Commands : cin' = [cin EXCEPT ![t] = @ \o c] /\ typed' = [typed EXCEPT ![t] = @ \o c]
  /\ issued' = [issued EXCEPT ![t] = @ + 1]
  /\ Unusual(~AllAnswered(t))
  /\ UNCHANGED <<globals, locals, fate, server_fd, ceof, sin, sgot, said, cgot, answered, cuts>>

client_closes(t) ==
  /\ "clienteof" \in Faults /\ fate = "live" /\ pc[t] # "off" /\ ~ceof[t]
  /\ ceof' = [ceof EXCEPT ![t] = TRUE] /\ Unusual(TRUE)
  /\ UNCHANGED <<globals, locals, fate, server_fd, cin, sin, typed, sgot, said, cgot, issued, answered, cuts>>

\* The replies to a command; the origin knows its keywords in either case.
Replies(c) ==
  LET multi == toupper(c[1]) = "RETR" \/ (toupper(c[1]) = "LIST" /\ c[2] # "sp")
  IN  (IF multi THEN {<<"plus", "cr", "lf">> \o b \o <<"dot", "cr", "lf">> : b \in Bodies}
       ELSE {<<"plus", "cr", "lf">>})
        \cup (IF "negative" \in Faults THEN {<<"minus", "cr", "lf">>} ELSE {})

\* A listing whose data is empty, or starts with a blank line, is unusual.
origin_serves(t) ==
  /\ fate = "live" /\ server_fd[t] = "up" /\ answered[t] < Lines(sgot[t])
  /\ \E r \in Replies(Line(sgot[t], answered[t] + 1)) :
       /\ sin' = [sin EXCEPT ![t] = @ \o r] /\ said' = [said EXCEPT ![t] = @ \o r]
       /\ Unusual(Len(r) > 3 /\ r[4] # "ch")
  /\ answered' = [answered EXCEPT ![t] = @ + 1]
  /\ UNCHANGED <<globals, locals, fate, server_fd, cin, ceof, typed, sgot, cgot, issued, cuts>>

origin_closes(t) ==
  /\ "origineof" \in Faults /\ fate = "live" /\ server_fd[t] = "up"
  /\ server_fd' = [server_fd EXCEPT ![t] = "eof"] /\ Unusual(TRUE)
  /\ UNCHANGED <<globals, locals, fate, cin, ceof, sin, typed, sgot, said, cgot, issued, answered, cuts>>

Next ==
  \E t \in Threads :
    \/ start(t)
    \/ Thread(t)
    \/ client_sends(t)
    \/ client_closes(t)
    \/ origin_serves(t)
    \/ origin_closes(t)

Spec == Init /\ [][Next]_vars

------------------------------------------------------------------------------
(* Properties.                                                              *)

\* However the threads interleave in the parser they share, and wherever the reads
\* end, each client and its origin exchange exactly their own bytes, in order: what
\* was delivered, what the thread holds and what is still to be read make up what
\* was sent.
OwnBytes ==
  \A t \in Threads :
    LET held(at) == IF pc[t] \in at THEN Take(buffer[t], bytes[t]) ELSE <<>>
    IN  /\ ~ceof[t] => cgot[t] \o held({"pick server", "use server"}) \o sin[t] = said[t]
        /\ server_fd[t] = "up" => sgot[t] \o held({"pick client", "use client"}) \o cin[t] = typed[t]

\* A thread never loses the parser it has chosen but to another: pop3_parser_feed
\* uses a NULL curr_parser only after two clients have connected, whatever else
\* has happened (peers that close, connects that fail, replies cut anywhere).
NullOnlyTogether == fate = "crashed" => Several

\* Clients that send the keywords of POP3 lose the process to a keyword written past
\* the end of cmd only after two of them have connected, or after something unusual:
\* a reply cut or without data, a command ahead of a reply, a peer that is not there.
OverrunOnlyTogether == fate = "wild" => Several \/ odd > 0

\* As long as the first client is the only one, and the origin's replies are plain
\* and arrive whole, the two loops of runSocket end where they should: the thread
\* waits for the origin only while a reply is due, and for the client only when
\* none is, so that neither peer waits for the other through the proxy for ever.
LoopsInStep ==
  ~Several /\ odd = 0 /\ fate = "live" =>
    \A t \in Threads :
      /\ pc[t] = "server" => sin[t] # <<>> \/ answered[t] < Lines(typed[t])
      /\ pc[t] = "client" => sin[t] = <<>> /\ answered[t] = Lines(sgot[t])
==============================================================================

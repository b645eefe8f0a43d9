----------------------------- MODULE Pop3Session -----------------------------
(***************************************************************************)
(* One proxied POP3 connection of pop3filter: the `struct pop3' of         *)
(* pop3_client_nio.c, its state machine (stm.c), its interests in the      *)
(* selector and the two peers it relays between.                           *)
(*                                                                         *)
(* Every handler of client_statbl is one action; the arrival callback of   *)
(* the state it jumps to, and finished_suscription when it returns ERROR,  *)
(* are part of the same action, as they run in the same selector callback. *)
(*                                                                         *)
(* Byte streams are sequences of tokens.  A command is a keyword token,    *)
(* `args' argument tokens and an end of line.  A reply is a status token   *)
(* (ok or err) with its end of line and, when it is multi-line, body lines *)
(* and the final dot.  TCP may cut a stream anywhere: a recv from the      *)
(* client returns any non-empty prefix of what is queued, send takes any   *)
(* non-empty prefix of what is offered, and with the fault "segments" a    *)
(* recv from the origin returns any non-empty prefix too.                  *)
(***************************************************************************)
EXTENDS Tokens

CONSTANTS
  Commands,   \* the commands the client may issue: records [kw, args]
  Bodies,     \* the bodies of multi-line replies: sequences over BodyKinds
  BufSize,    \* tokens that fit in raw_buff_a and in raw_buff_b
  MaxCmds,    \* bound: commands issued in one session
  Pipelining, \* may the client send a command before the previous reply?
  AddrTypes,  \* the kinds of origin address the session may start with
  Faults      \* the environment faults that may happen, among AllFaults

AllFaults ==
  { "nosocket",    \* socket(2) fails
    "nonio",       \* selector_fd_set_nio fails on the new socket
    "unreachable", \* connect(2) fails at once
    "instant",     \* connect(2) succeeds at once
    "noregister",  \* the selector has no room for the origin descriptor
    "nothread",    \* pthread_create fails
    "noresolve",   \* getaddrinfo fails
    "refused",     \* the pending connection is refused
    "badgreeting", \* the origin greets with -ERR
    "negative",    \* the origin answers a command with -ERR
    "segments",    \* TCP delivers a reply in several pieces
    "origineof",   \* the origin closes the connection
    "clienteof",   \* the client closes the connection
    "race",        \* the filter runs before its input is written
    "bans" }       \* the administrator has banned a media type

BodyKinds == {"line", "eol"}
Keywords == {"STAT", "QUIT", "LIST", "UIDL", "CAPA", "RETR", "TOP", "retr", "OVERLONG"}

ASSUME CommandsAssumption == Commands \subseteq [kw : Keywords, args : Nat]
ASSUME BodiesAssumption   == Bodies \subseteq Seq(BodyKinds)
ASSUME BoundsAssumption   == /\ BufSize \in Nat \ {0}
                             /\ MaxCmds \in Nat
                             /\ Pipelining \in BOOLEAN
ASSUME AddrAssumption     == AddrTypes \subseteq {"ip", "domain"}
ASSUME FaultsAssumption   == Faults \subseteq AllFaults

VARIABLES
  (* struct pop3 *)
  addr,       \* origin_server.dest_addr_type
  st,         \* stm.current
  interest,   \* the interest the selector holds for each descriptor
  refs,       \* references; 0 when the object is back in the pool
  cmd,        \* current_command
  transform,  \* transform
  rbuf,       \* read_buffer: unsent command tokens
  wbuf,       \* write_buffer: unsent reply tokens
  tbuf,       \* trans_buffer: unsent filtered tokens
  resolver,   \* the resolv_connection_blocking thread
  conn,       \* origin_fd as the kernel sees it; "none" is -1
  fate,       \* live, closed, or the whole process aborted or blocked
  (* the peers *)
  cin,        \* sent by the client, not yet received by the proxy
  ceof,       \* the client has closed
  oin,        \* sent by the origin, not yet received by the proxy
  oout,       \* sent to the origin, not yet served by it
  served,     \* requests the origin has answered
  (* histories *)
  issued,     \* commands the client issued
  sent,       \* tokens the origin sent
  got,        \* tokens the client received
  fwd         \* tokens the origin received

sessionVars == <<cmd, transform, rbuf, wbuf, tbuf>>
wires       == <<cin, ceof, oin, oout, served, issued, sent, got, fwd>>
vars == <<addr, st, interest, refs, sessionVars, resolver, conn, fate, wires>>

------------------------------------------------------------------------------
(* Tokens, and what the parsers make of a segment of them.                 *)

States == { "PROCESS_CONNECTION", "RESOLV_CONNECTION", "ESTABL_CONNECTION",
            "GREETING_SREAD", "GREETING_CWRITE", "COMMAND_CREAD",
            "COMMAND_SWRITE", "RESPONSE_SREAD", "DOT_DATA_SREAD",
            "DOT_DATA_CWRITE", "RESPONSE_CWRITE", "ERROR" }

CmdToken   == [k : {"kw", "arg", "eol"}, n : Nat, i : Nat]
ReplyToken == [k : {"ok", "err", "eol", "line", "dot", "mime", "junk"},
               of : Nat, i : Nat]

\* The text of the n-th command the client issued.
Text(c, n) ==
  [i \in 1..(c.args + 2) |->
     [k |-> IF i = 1 THEN "kw" ELSE IF i = c.args + 2 THEN "eol" ELSE "arg",
      n |-> n, i |-> i]]

\* The tokens of the reply to the n-th request, from the kinds of its parts.
ReplyOf(kinds, n) == [i \in 1..Len(kinds) |-> [k |-> kinds[i], of |-> n, i |-> i]]

\* The tables of pop3.c; strcmp is case sensitive.
get_command_type(kw) ==
  IF kw \in {"RETR", "TOP", "LANG", "CAPA"} THEN "MULTILINE"
  ELSE IF kw \in {"UIDL", "LIST"} THEN "OVERLOADED"
  ELSE "SINGLELINE"

\* set_pop3_command_builder_next refuses a fifth keyword character.
TooLong == {"OVERLONG"}

\* What command_builder makes of the tokens of one recv: its verdict and how
\* many of them it read.  It stops at the first end of line.
Stops(seg) ==
  {i \in 1..Len(seg) : \/ seg[i].k = "eol"
                       \/ seg[i].k = "kw" /\ issued[seg[i].n].kw \in TooLong}
ReadUpTo(seg) ==
  IF Stops(seg) = {} THEN Len(seg)
  ELSE CHOOSE i \in Stops(seg) : \A j \in Stops(seg) : i <= j
command_builder(seg) ==
  IF Stops(seg) = {} THEN "BUILDING"
  ELSE IF seg[ReadUpTo(seg)].k = "eol" THEN "BUILD_FINISHED" ELSE "BUILD_FAILED"

\* The keyword and the has_args flag after the builder read the tokens `part'.
\* A segment that starts in the middle of a command leaves the keyword empty.
Built(part) ==
  [kw   |-> IF part[1].k = "kw" THEN issued[part[1].n].kw ELSE cmd.kw,
   args |-> cmd.args \/ \E i \in 1..Len(part) : part[i].k = "arg"]

\* The command set with -t, or mime_filter, rewrites parts of a segment; a
\* filter that found its input empty prints a line of its own making.
Filtered(seg, kinds) ==
  [i \in 1..Len(seg) |-> IF seg[i].k \in kinds THEN [seg[i] EXCEPT !.k = "mime"]
                         ELSE seg[i]]
Junk == <<[k |-> "junk", of |-> 0, i |-> 0]>>

\* GREETING_OK, the proxy's own greeting.
GREETING_OK == ReplyOf(<<"ok", "eol">>, 0)

NoCommand == [kw |-> "", args |-> FALSE]

------------------------------------------------------------------------------
(* The selector's view of the session, and the jump of stm.c.              *)

Peers == {"client", "origin"}

\* What pselect reports for a descriptor of this session.
Readable(fd) == IF fd = "client" THEN cin # <<>> \/ ceof
                ELSE oin # <<>> \/ conn \in {"refused", "eof"}
Writable(fd) == fd = "client" \/ conn \in {"up", "refused", "eof"}

ReadEvent(fd)  == fate = "live" /\ interest[fd] = "READ"  /\ Readable(fd)
WriteEvent(fd) == fate = "live" /\ interest[fd] = "WRITE" /\ Writable(fd)

ReadStates  == {"GREETING_SREAD", "COMMAND_CREAD", "RESPONSE_SREAD", "DOT_DATA_SREAD"}
WriteStates == {"PROCESS_CONNECTION", "ESTABL_CONNECTION", "GREETING_CWRITE",
                "COMMAND_SWRITE", "DOT_DATA_CWRITE", "RESPONSE_CWRITE"}

\* How many tokens a recv with this much room may return.
Lengths(q, room, cut) ==
  LET most == IF Len(q) < room THEN Len(q) ELSE room
  IN  IF cut THEN 1..most ELSE {most} \ {0}

\* The interests after selector_set_interest on the two descriptors.
Polls(c, o) == [fd \in Peers |-> IF fd = "client" THEN c ELSE o]

\* (slip) the origin stays polled while the reply is written
to_client_keeping_origin == [interest EXCEPT !["client"] = "WRITE"]

\* (slip) the client is not asked for room to write
to_client_unasked == Polls("NOOP", "NOOP")

\* A reply is in the buffer: stop polling the origin, wait for the client.
to_client == Polls("WRITE", "NOOP")

\* (slip) the on_arrival callback also runs when a handler stays in its state
jump_rearriving(next, c, r, w, t) ==
  /\ st'   = next
  /\ cmd'  = IF next = "COMMAND_CREAD" THEN NoCommand ELSE c
  /\ rbuf' = IF next = "COMMAND_CREAD" THEN <<>> ELSE r
  /\ wbuf' = IF next = "GREETING_SREAD" THEN GREETING_OK
             ELSE IF next \in {"COMMAND_CREAD", "RESPONSE_SREAD", "DOT_DATA_SREAD"} THEN <<>> ELSE w
  /\ tbuf' = IF next \in {"RESPONSE_SREAD", "DOT_DATA_SREAD"} THEN <<>> ELSE t

\* stm.c: go to state `next' with these contents of current_command and the
\* buffers.  A state that is really entered runs its on_arrival callback.
jump(next, c, r, w, t) ==
  LET entered == next # st
      resets  == {"COMMAND_CREAD", "RESPONSE_SREAD", "DOT_DATA_SREAD"}
  IN  /\ st'   = next
      /\ cmd'  = IF entered /\ next = "COMMAND_CREAD" THEN NoCommand ELSE c
      /\ rbuf' = IF entered /\ next = "COMMAND_CREAD" THEN <<>> ELSE r
      /\ wbuf' = IF entered /\ next = "GREETING_SREAD" THEN GREETING_OK
                 ELSE IF entered /\ next \in resets THEN <<>> ELSE w
      /\ tbuf' = IF entered /\ next \in resets \ {"COMMAND_CREAD"} THEN <<>> ELSE t

\* A handler that returns with these interests, in a state other than ERROR.
continue(polls) ==
  interest' = polls /\ UNCHANGED <<refs, conn, fate>>

\* (slip) the reference of the origin's registration is not dropped
finished_suscription_leaking ==
  /\ jump("ERROR", cmd, rbuf, wbuf, tbuf)
  /\ fate' = "closed" /\ interest' = Polls("NONE", "NONE")
  /\ refs' = refs - 1 /\ conn' = "none"

\* A handler that returns ERROR: finished_suscription unregisters and closes
\* both descriptors, and each unregistration drops one reference.
finished_suscription ==
  /\ jump("ERROR", cmd, rbuf, wbuf, tbuf)
  /\ IF conn # "none" /\ interest["origin"] = "NONE"
     THEN fate' = "aborted" /\ UNCHANGED <<interest, refs, conn>>
     ELSE /\ fate' = "closed"
          /\ interest' = Polls("NONE", "NONE")
          /\ refs' = refs - (IF conn = "none" THEN 1 ELSE 2)
          /\ conn' = "none"

abort == fate' = "aborted"

------------------------------------------------------------------------------
(* Connecting to the origin.                                               *)

Init ==
  /\ addr \in AddrTypes
  /\ st = "PROCESS_CONNECTION" /\ interest = Polls("WRITE", "NONE") /\ refs = 1
  /\ cmd = NoCommand /\ transform = FALSE
  /\ rbuf = <<>> /\ wbuf = <<>> /\ tbuf = <<>>
  /\ resolver = "idle" /\ conn = "none" /\ fate = "live"
  /\ cin = <<>> /\ ceof = FALSE /\ oin = <<>> /\ oout = <<>> /\ served = 0
  /\ issued = <<>> /\ sent = <<>> /\ got = <<>> /\ fwd = <<>>

\* attempt_connection never reports failure: it returns ESTABL_CONNECTION
\* whatever happened.  A socket that could not be made non-blocking is kept
\* open, in blocking mode and outside the selector ("idle").
attempt_connection(socket_fails) ==
  \/ /\ socket_fails \/ Faults \cap {"nosocket", "unreachable"} # {}
     /\ jump("ESTABL_CONNECTION", cmd, rbuf, wbuf, tbuf)
     /\ UNCHANGED <<interest, refs, conn, fate>>
  \/ /\ ~socket_fails /\ "nonio" \in Faults
     /\ jump("ESTABL_CONNECTION", cmd, rbuf, wbuf, tbuf)
     /\ conn' = "idle"
     /\ UNCHANGED <<interest, refs, fate>>
  \/ /\ ~socket_fails /\ "instant" \in Faults
     /\ abort
     /\ conn' = "up"
     /\ UNCHANGED <<st, interest, refs, cmd, rbuf, wbuf, tbuf>>
  \/ /\ ~socket_fails /\ "noregister" \in Faults
     /\ jump("ESTABL_CONNECTION", cmd, rbuf, wbuf, tbuf)
     /\ continue(Polls("NOOP", "NONE"))
  \/ /\ ~socket_fails
     /\ jump("ESTABL_CONNECTION", cmd, rbuf, wbuf, tbuf)
     /\ interest' = Polls("NOOP", "WRITE") /\ refs' = refs + 1 /\ conn' = "pending"
     /\ UNCHANGED fate

\* An address that is a name is resolved in a thread.  pthread_create reports
\* an error as a positive number, which the comparison with -1 never sees.
process_connection ==
  /\ st = "PROCESS_CONNECTION" /\ WriteEvent("client")
  /\ \/ addr = "ip" /\ attempt_connection(FALSE) /\ UNCHANGED resolver
     \/ /\ addr = "domain"
        /\ resolver' \in {"running"} \cup (IF "nothread" \in Faults THEN {"idle"} ELSE {})
        /\ jump("RESOLV_CONNECTION", cmd, rbuf, wbuf, tbuf)
        /\ continue(Polls("NOOP", "NONE"))
  /\ UNCHANGED <<addr, transform, wires>>

\* The thread: getaddrinfo, then selector_notify_block.
resolv_connection_blocking ==
  /\ resolver = "running" /\ fate = "live"
  /\ resolver' \in {"done"} \cup (IF "noresolve" \in Faults THEN {"failed"} ELSE {})
  /\ UNCHANGED <<addr, st, interest, refs, sessionVars, conn, fate, wires>>

\* Without a resolution origin_domain is still 0 and socket(2) refuses it.
resolv_connection ==
  /\ st = "RESOLV_CONNECTION" /\ fate = "live" /\ resolver \in {"done", "failed"}
  /\ attempt_connection(resolver = "failed")
  /\ resolver' = "idle"
  /\ UNCHANGED <<addr, transform, wires>>

\* SO_ERROR is read and forgotten: a refused connection goes on to the greeting.
establ_connection(fd) ==
  /\ st = "ESTABL_CONNECTION" /\ WriteEvent(fd)
  /\ jump("GREETING_SREAD", cmd, rbuf, wbuf, tbuf)
  /\ continue([Polls("NOOP", interest["origin"]) EXCEPT ![fd] = "READ"])
  /\ UNCHANGED <<addr, transform, resolver, wires>>

------------------------------------------------------------------------------
(* The greeting.                                                           *)

\* The greeting goes to read_buffer, which command_init clears: it is dropped
\* and the proxy's own greeting, loaded by greeting_init, is sent instead.
greeting_sread(fd) ==
  /\ st = "GREETING_SREAD" /\ ReadEvent(fd)
  /\ \/ \E n \in Lengths(oin, BufSize, "segments" \in Faults) :
          /\ oin' = Drop(oin, n)
          /\ IF singleline_builder(Take(oin, n)) = "BUILD_FINISHED"
             THEN /\ jump("GREETING_CWRITE", cmd, rbuf, wbuf, tbuf)
                  /\ continue(to_client)
             ELSE finished_suscription
     \/ \* recv returned 0 or -1; errno is read either way, so a stale EAGAIN
        \* left by an earlier call keeps the state.
        /\ oin = <<>>
        /\ \/ jump("GREETING_CWRITE", cmd, rbuf, wbuf, tbuf)
           \/ conn \in {"refused", "eof"} /\ jump(st, cmd, rbuf, wbuf, tbuf)
        /\ continue(interest)
        /\ UNCHANGED oin
  /\ UNCHANGED <<addr, transform, resolver, cin, ceof, oout, served, issued, sent, got, fwd>>

\* send(2) to the client of a prefix of q, leaving `left'.
SendToClient(q, left) == got' = got \o Take(q, Len(q) - Len(left))
Leftovers(q) == {Drop(q, n) : n \in 1..Len(q)} \cup (IF q = <<>> THEN {q} ELSE {})

\* (slip) the state is left after the first send, complete or not
after_send_hasty(left, next) == next

\* A state that writes is left when buffer_can_read says that all was sent.
after_send(left, next) == IF left = <<>> THEN next ELSE st

greeting_cwrite ==
  /\ st = "GREETING_CWRITE" /\ WriteEvent("client")
  /\ \/ \E left \in Leftovers(wbuf) :
          /\ SendToClient(wbuf, left)
          /\ jump(after_send(left, "COMMAND_CREAD"), cmd, rbuf, left, tbuf)
          /\ continue(IF left = <<>> THEN [interest EXCEPT !["client"] = "READ"] ELSE interest)
     \/ ceof /\ finished_suscription /\ UNCHANGED got
  /\ UNCHANGED <<addr, transform, resolver, cin, ceof, oin, oout, served, issued, sent, fwd>>

------------------------------------------------------------------------------
(* Commands, from the client to the origin.                                *)

\* (slip) the write pointer is moved back to the start of the buffer
accumulate_rewound(part) == part

\* read_buffer once its write pointer was moved to the end of what was parsed.
accumulate(part) == rbuf \o part

\* The builder stops at the first end of line and the write pointer is moved
\* back to it: what the segment held after it is not looked at again (the
\* flag `pipelined' is set, and no handler reads it).  Without room left,
\* recv returns 0 as at the end of the stream.
command_cread ==
  /\ st = "COMMAND_CREAD" /\ ReadEvent("client")
  /\ \/ \E n \in Lengths(cin, BufSize - Len(rbuf), TRUE) :
          LET seg  == Take(cin, n)
              part == Take(seg, ReadUpTo(seg))
          IN  /\ cin' = Drop(cin, n)
              /\ \/ /\ command_builder(seg) = "BUILD_FINISHED"
                    /\ jump("COMMAND_SWRITE", Built(part), accumulate(part), wbuf, tbuf)
                    /\ continue(Polls("NOOP", "WRITE"))
                 \/ /\ command_builder(seg) = "BUILDING"
                    /\ jump(st, Built(part), accumulate(part), wbuf, tbuf)
                    /\ continue(interest)
                 \/ /\ command_builder(seg) = "BUILD_FAILED"
                    /\ finished_suscription
     \/ /\ cin = <<>> \/ Len(rbuf) = BufSize
        /\ finished_suscription
        /\ UNCHANGED cin
  /\ UNCHANGED <<addr, transform, resolver, ceof, oin, oout, served, issued, sent, got, fwd>>

command_swrite ==
  /\ st = "COMMAND_SWRITE" /\ WriteEvent("origin")
  /\ \/ \E left \in Leftovers(rbuf) :
          LET out == Take(rbuf, Len(rbuf) - Len(left))
          IN  /\ oout' = oout \o out /\ fwd' = fwd \o out
              /\ jump(after_send(left, "RESPONSE_SREAD"), cmd, left, wbuf, tbuf)
              /\ continue(IF left = <<>> THEN [interest EXCEPT !["origin"] = "READ"] ELSE interest)
     \/ conn = "eof" /\ finished_suscription /\ UNCHANGED <<oout, fwd>>
  /\ UNCHANGED <<addr, transform, resolver, cin, ceof, oin, served, issued, sent, got>>

------------------------------------------------------------------------------
(* Replies, from the origin to the client.                                 *)

\* (slip) the arguments of LIST and UIDL are not looked at
multiline_by_keyword(c) == get_command_type(c.kw) \in {"MULTILINE", "OVERLOADED"}

\* The `switch' on get_command_type.
multiline(c) == \/ get_command_type(c.kw) = "MULTILINE"
                \/ get_command_type(c.kw) = "OVERLOADED" /\ ~c.args

\* (slip) the flag is set by a mail and not cleared by the next reply
to_filter_sticky(c) == transform \/ c.kw \in {"RETR", "TOP"}

\* The value a multi-line reply gives to `transform'.
to_filter(c) == c.kw \in {"RETR", "TOP"}

\* create_transformation, the write of the segment and the read of the result:
\* what the read can return.  The filter reads until its pipe is empty, once,
\* and writes when it exits; if it runs before the segment is written it
\* prints a line of its own, or nothing.  With a list of banned media types
\* mime_filter also swallows the final dot (module MailFilter).
transformation(seg) ==
  {Filtered(seg, {"line"})}
    \cup (IF "bans" \in Faults THEN {Filtered(seg, {"line", "dot"})} ELSE {})
    \cup (IF "race" \in Faults THEN {Junk} ELSE {})

\* The read of the filter's output waits for ever: the filter has exited and
\* the proxy itself holds the write end of the pipe.
block(w) ==
  /\ fate' = "blocked" /\ wbuf' = w
  /\ UNCHANGED <<st, interest, refs, cmd, rbuf, tbuf, conn>>

\* A status line that one recv does not complete is an error.  Whether the
\* reply is multi-line is decided by the command alone, whatever the status,
\* and `transform' is only assigned when it is.
response_sread ==
  /\ st = "RESPONSE_SREAD" /\ ReadEvent("origin")
  /\ \/ \E n \in Lengths(oin, BufSize, "segments" \in Faults) :
          LET seg  == Take(oin, n)
              next == IF multiline_checker(seg) = "FINISHED_CONSUMING"
                      THEN "RESPONSE_CWRITE" ELSE "DOT_DATA_CWRITE"
              filtered == to_filter(cmd)
          IN  /\ oin' = Drop(oin, n)
              /\ \/ /\ singleline_builder(seg) # "BUILD_FINISHED"
                    /\ finished_suscription
                    /\ UNCHANGED transform
                 \/ /\ singleline_builder(seg) = "BUILD_FINISHED" /\ ~multiline(cmd)
                    /\ jump("RESPONSE_CWRITE", cmd, rbuf, seg, tbuf)
                    /\ continue(to_client)
                    /\ UNCHANGED transform
                 \/ /\ singleline_builder(seg) = "BUILD_FINISHED" /\ multiline(cmd)
                    /\ \E out \in IF filtered THEN transformation(seg) ELSE {tbuf} :
                         jump(next, cmd, rbuf, seg, out)
                    /\ continue(to_client)
                    /\ transform' = filtered
                 \/ /\ singleline_builder(seg) = "BUILD_FINISHED" /\ multiline(cmd)
                    /\ filtered /\ "race" \in Faults
                    /\ block(seg)
                    /\ transform' = TRUE
     \/ /\ oin = <<>>
        /\ finished_suscription
        /\ UNCHANGED <<oin, transform>>
  /\ UNCHANGED <<addr, resolver, cin, ceof, oout, served, issued, sent, got, fwd>>

\* The call of the multi-line checker is commented out: consumer_state is read
\* uninitialized, so either branch may be taken.
dot_data_sread ==
  /\ st = "DOT_DATA_SREAD" /\ ReadEvent("origin")
  /\ \/ \E n \in Lengths(oin, BufSize, "segments" \in Faults) :
          /\ oin' = Drop(oin, n)
          /\ \/ transform /\ block(Take(oin, n))
             \/ /\ ~transform
                /\ \E next \in {"RESPONSE_CWRITE", "DOT_DATA_CWRITE"} :
                     jump(next, cmd, rbuf, Take(oin, n), tbuf)
                /\ continue(to_client)
     \/ oin = <<>> /\ finished_suscription /\ UNCHANGED oin
  /\ UNCHANGED <<addr, transform, resolver, cin, ceof, oout, served, issued, sent, got, fwd>>

\* send(2) of the buffer `transform' selects, then on to `next' once it is empty.
write_reply(next, polls) ==
  LET q == IF transform THEN tbuf ELSE wbuf
  IN  /\ WriteEvent("client")
      /\ \/ \E left \in Leftovers(q) :
              /\ SendToClient(q, left)
              /\ jump(after_send(left, next), cmd, rbuf,
                      IF transform THEN wbuf ELSE left, IF transform THEN left ELSE tbuf)
              /\ continue(IF left = <<>> THEN polls ELSE interest)
         \/ ceof /\ finished_suscription /\ UNCHANGED got
      /\ UNCHANGED <<addr, transform, resolver, cin, ceof, oin, oout, served, issued, sent, fwd>>

dot_data_cwrite == st = "DOT_DATA_CWRITE" /\ write_reply("DOT_DATA_SREAD", Polls("NOOP", "READ"))
response_cwrite == st = "RESPONSE_CWRITE" /\ write_reply("COMMAND_CREAD", [interest EXCEPT !["client"] = "READ"])

\* stm.c aborts the process on an event the current state has no handler for.
missing_handler ==
  /\ \E fd \in Peers : \/ ReadEvent(fd)  /\ st \notin ReadStates
                       \/ WriteEvent(fd) /\ st \notin WriteStates
  /\ abort
  /\ UNCHANGED <<addr, st, interest, refs, sessionVars, resolver, conn, wires>>

------------------------------------------------------------------------------
(* The peers.                                                              *)

\* The origin's reply to the n-th request has reached the client to its end.
Answered(n) ==
  \E j \in 1..Len(sent) : /\ sent[j].of = n
                          /\ \A k \in (j + 1)..Len(sent) : sent[k].of # n
                          /\ \E i \in 1..Len(got) : got[i] = sent[j]

proxyAndOrigin == <<addr, st, interest, refs, sessionVars, resolver, conn, fate,
                    oin, oout, served, sent, got, fwd>>

\* A client waits for the greeting and, unless it pipelines, for each reply.
ClientSend ==
  /\ fate = "live" /\ ~ceof /\ Len(issued) < MaxCmds
  /\ Len(got) >= 2
  /\ Pipelining \/ issued = <<>> \/ Answered(Len(issued))
  /\ \E c \in Commands :
       issued' = Append(issued, c) /\ cin' = cin \o Text(c, Len(issued) + 1)
  /\ UNCHANGED <<ceof, proxyAndOrigin>>

ClientClose ==
  /\ "clienteof" \in Faults /\ fate = "live" /\ ~ceof
  /\ ceof' = TRUE
  /\ UNCHANGED <<cin, issued, proxyAndOrigin>>

OriginConnection(from, to) ==
  /\ fate = "live" /\ conn = from
  /\ conn' = to
  /\ UNCHANGED <<addr, st, interest, refs, sessionVars, resolver, fate, wires>>
OriginAccept == OriginConnection("pending", "up")
OriginRefuse == "refused" \in Faults /\ OriginConnection("pending", "refused")
OriginClose  == "origineof" \in Faults /\ OriginConnection("up", "eof")

OriginSays(kinds, n) ==
  /\ fate = "live" /\ conn = "up"
  /\ oin' = oin \o ReplyOf(kinds, n) /\ sent' = sent \o ReplyOf(kinds, n)
  /\ UNCHANGED <<addr, st, interest, refs, sessionVars, resolver, conn, fate,
                 cin, ceof, issued, got, fwd>>

OriginGreet ==
  /\ sent = <<>>
  /\ \E s \in {"ok"} \cup (IF "badgreeting" \in Faults THEN {"err"} ELSE {}) :
       OriginSays(<<s, "eol">>, 0)
  /\ UNCHANGED <<oout, served>>

\* The replies the origin may give to a request; it knows its keywords in
\* either case, and refuses what does not start with one.
OriginReplies(req) ==
  LET c     == issued[req[1].n]
      multi == \/ c.kw \in {"RETR", "retr", "TOP", "CAPA"}
               \/ c.kw \in {"LIST", "UIDL"} /\ c.args = 0
  IN  (IF req[1].k # "kw" \/ "negative" \in Faults THEN {<<"err", "eol">>} ELSE {})
        \cup (IF req[1].k # "kw" THEN {}
              ELSE IF multi THEN {<<"ok", "eol">> \o b \o <<"dot">> : b \in Bodies}
              ELSE {<<"ok", "eol">>})

OriginServe ==
  /\ sent # <<>>
  /\ \E e \in 1..Len(oout) :
       /\ oout[e].k = "eol" /\ \A i \in 1..(e - 1) : oout[i].k # "eol"
       /\ \E kinds \in OriginReplies(Take(oout, e)) : OriginSays(kinds, served + 1)
       /\ oout' = Drop(oout, e)
  /\ served' = served + 1

------------------------------------------------------------------------------
Selector ==
  \/ process_connection
  \/ resolv_connection
  \/ \E fd \in Peers : establ_connection(fd)
  \/ \E fd \in Peers : greeting_sread(fd)
  \/ greeting_cwrite
  \/ command_cread
  \/ command_swrite
  \/ response_sread
  \/ dot_data_sread
  \/ dot_data_cwrite
  \/ response_cwrite
  \/ missing_handler

Next ==
  \/ Selector
  \/ resolv_connection_blocking
  \/ ClientSend
  \/ ClientClose
  \/ OriginAccept
  \/ OriginRefuse
  \/ OriginClose
  \/ OriginGreet
  \/ OriginServe

Spec == Init /\ [][Next]_vars

\* The selector loop serves every ready descriptor, the resolver returns, and
\* the origin accepts, greets and serves.  The client may stop at any time.
Fairness ==
  /\ WF_vars(Selector) /\ WF_vars(resolv_connection_blocking)
  /\ WF_vars(OriginAccept) /\ WF_vars(OriginGreet) /\ WF_vars(OriginServe)

FairSpec == Spec /\ Fairness

------------------------------------------------------------------------------
(* Properties.                                                             *)

\* Every variable has its type: the fields of struct pop3, the interests the
\* selector holds for its two descriptors and the byte streams of the peers.
TypeOK ==
  /\ addr \in AddrTypes
  /\ st \in States
  /\ interest \in [Peers -> {"NONE", "NOOP", "READ", "WRITE"}]
  /\ refs \in 0..2
  /\ cmd \in [kw : Keywords \cup {""}, args : BOOLEAN]
  /\ transform \in BOOLEAN
  /\ rbuf \in Seq(CmdToken) /\ Len(rbuf) <= BufSize
  /\ wbuf \in Seq(ReplyToken) /\ tbuf \in Seq(ReplyToken)
  /\ resolver \in {"idle", "running", "done", "failed"}
  /\ conn \in {"none", "idle", "pending", "up", "refused", "eof"}
  /\ fate \in {"live", "closed", "aborted", "blocked"}
  /\ cin \in Seq(CmdToken) /\ oout \in Seq(CmdToken) /\ fwd \in Seq(CmdToken)
  /\ oin \in Seq(ReplyToken) /\ sent \in Seq(ReplyToken) /\ got \in Seq(ReplyToken)
  /\ ceof \in BOOLEAN /\ served \in Nat
  /\ issued \in Seq(Commands)

Registered == {fd \in Peers : interest[fd] # "NONE"}
Relaying   == {"COMMAND_CREAD", "COMMAND_SWRITE", "RESPONSE_SREAD",
               "DOT_DATA_SREAD", "DOT_DATA_CWRITE", "RESPONSE_CWRITE"}

\* The one interest each relaying state needs: its handler receives from, or
\* sends to, that descriptor and no other.  (The comments of enum states over
\* RESPONSE_SREAD and RESPONSE_CWRITE are copies of those over COMMAND_CREAD and
\* COMMAND_SWRITE and name the other peer.)
Duty ==
  [s \in Relaying |->
     CASE s = "COMMAND_CREAD"                           -> Polls("READ", "NOOP")
       [] s = "COMMAND_SWRITE"                          -> Polls("NOOP", "WRITE")
       [] s \in {"RESPONSE_SREAD", "DOT_DATA_SREAD"}    -> Polls("NOOP", "READ")
       [] s \in {"DOT_DATA_CWRITE", "RESPONSE_CWRITE"}  -> Polls("WRITE", "NOOP")]

\* A live session polls at most one of its two descriptors, and while it relays
\* exactly the one its state's handler is written for: no handler of
\* client_statbl runs with the other peer's key, and no event of the other peer
\* can be pending in the same iteration of the selector.
HalfDuplex ==
  fate = "live" =>
    /\ \E fd \in Peers : interest[fd] \in {"NONE", "NOOP"}
    /\ st \in Relaying => interest = Duty[st]

\* The reference count always equals the number of descriptors registered with
\* this struct pop3 as their data, so that the last handle_close, and no
\* earlier one, returns it to the pool.
RefsMatchRegistrations ==
  fate # "aborted" =>
    refs = (IF "client" \in Registered THEN 1 ELSE 0) + (IF "origin" \in Registered THEN 1 ELSE 0)

\* The proxy aborts on behalf of a session only before its client has received
\* a byte: the abort() calls of stm.c, attempt_connection and
\* finished_suscription are out of reach once the greeting is being sent.
NoAbortAfterGreeting == fate = "aborted" => got = <<>>

\* A session that waits for no event of either peer, so that nothing but a
\* resolver thread can ever wake it, has no connection to the origin and has
\* told its client nothing: the errors of pthread_create, getaddrinfo and
\* attempt_connection that are ignored strand a session before its greeting,
\* and no later state does.
StrandedOnlyUnconnected ==
  fate = "live" /\ (\A fd \in Peers : interest[fd] \notin {"READ", "WRITE"}) =>
    /\ st \in {"RESOLV_CONNECTION", "ESTABL_CONNECTION"}
    /\ conn \in {"none", "idle"} /\ got = <<>>

\* Only the reply to a RETR or a TOP can block the selector's thread: a value
\* of `transform' left by an earlier command never sends another command's
\* reply to the filter.
OnlyMailBlocks == fate = "blocked" => cmd.kw \in {"RETR", "TOP"}

AllText ==
  LET texts[n \in 0..Len(issued)] ==
        IF n = 0 THEN <<>> ELSE texts[n - 1] \o Text(issued[n], n)
  IN  texts[Len(issued)]

\* Of a client that does not pipeline, no byte is lost, duplicated or reordered
\* on the way to the origin, whatever the segments: what the origin received,
\* what read_buffer holds and what is still to be received make up exactly what
\* the client sent.
CommandsConserved == fate = "live" => fwd \o rbuf \o cin = AllText

\* After the greeting, what the client received, what the reply states hold in
\* write_buffer and what is still to be received make up exactly what the origin
\* sent (for commands that are not filtered).
RepliesConserved ==
  fate = "live" /\ st \in Relaying =>
    LET held == IF st \in {"RESPONSE_CWRITE", "DOT_DATA_CWRITE"} THEN wbuf ELSE <<>>
    IN  got \o held \o oin = GREETING_OK \o Drop(sent, 2)

Direct == INSTANCE Relay WITH
  Greeting <- GREETING_OK, asked <- AllText, told <- fwd, said <- GREETING_OK \o Drop(sent, 2),
  heard <- got, open <- (fate = "live")

\* For unfiltered commands of a client that does not pipeline, the session is a relay:
\* every step of it delivers the next part of one stream, takes more of one from a
\* peer, ends the session, or does nothing a peer could see, and after its end no
\* byte reaches either peer.
IsRelay == Direct!Spec

Mail(c)     == c.kw \in {"RETR", "TOP"}
HasLines(c) == Mail(c) \/ c.kw = "CAPA" \/ (c.kw \in {"LIST", "UIDL"} /\ c.args = 0)

\* Until the first mail, commands and replies go in lockstep: whenever the proxy
\* is ready for the next command, every command forwarded so far has been
\* answered and every byte of the answers delivered.
Lockstep ==
  /\ fate = "live" /\ st = "COMMAND_CREAD"
  /\ \A k \in 1..Len(issued) : ~Mail(issued[k])
  => /\ oin = <<>> /\ oout = <<>>
     /\ \A n \in 1..served : Answered(n)

\* Every command the client sends is answered, unless the client leaves.
EveryCommandAnswered ==
  \A n \in 1..MaxCmds : (Len(issued) >= n) ~> (Answered(n) \/ ceof)

\* The reply to the n-th command is one line, and the last reply with lines
\* before it was a mail: `transform' is still set, and write_reply takes the
\* reply from trans_buffer instead of write_buffer.
LeftToFilter(n) ==
  /\ ~HasLines(issued[n])
  /\ \E m \in 1..(n - 1) :
       Mail(issued[m]) /\ \A k \in (m + 1)..(n - 1) : ~HasLines(issued[k])

\* A client that waits for its replies is answered, to the last byte of each
\* reply, in sessions with mails too, or has left.  The one exception is what a
\* mail leaves behind: the one-line replies between it and the next reply with
\* lines, which the stale `transform' sends to the wrong buffer.
AnsweredUnlessAfterMail ==
  \A n \in 1..MaxCmds :
    (Len(issued) >= n /\ ~LeftToFilter(n)) ~> (Answered(n) \/ ceof)

\* A session whose client has left is torn down: its descriptors are released.
AbandonedSessionCloses == ceof ~> (fate = "closed" /\ refs = 0)

==============================================================================

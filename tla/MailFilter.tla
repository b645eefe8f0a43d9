------------------------------ MODULE MailFilter ------------------------------
(***************************************************************************)
(* mime_filter at work, in the two ways it is run: on a mail in a file, as *)
(* its main does with an argument, and as the child of a pop3filter        *)
(* session that sends it the reply to a RETR through a pipe and waits for  *)
(* what it prints (transformations.c and the calls in response_sread and   *)
(* dot_data_sread).                                                        *)
(*                                                                         *)
(* The mail is composed line by line.  Beside the program runs a reference *)
(* that knows what each line is: which parts are of a filtered type and    *)
(* what should come out.  It follows the plain mails (`tame'); an unusual  *)
(* line, and a read that ends inside one, count against MaxOdd.            *)
(***************************************************************************)
EXTENDS MimeFilter, FiniteSets

CONSTANTS
  Sources,    \* how the filter is run: "file", "pipe"
  MediaLists, \* the values of FILTER_MEDIAS for each source: sequences of <<type, subtype>>
  MaxLines,   \* bound: lines of a mail, for each source
  MaxOddLines,\* bound: lines of a mail with an unusual one, for each source
  MaxHeads,   \* bound: header lines of one part
  MaxOdd,     \* bound: unusual lines and cuts in one mail
  Failures    \* what may fail: "pipe", "fork", "exec", "log"

UNSET == <<>>   \* FILTER_MEDIAS is not in the environment

ASSUME SourcesAssumption == Sources \subseteq {"file", "pipe"}
ASSUME FilterBoundsAssumption ==
  /\ MaxLines \in [Sources -> Nat] /\ MaxOddLines \in [Sources -> Nat]
  /\ MaxOdd \in Nat /\ MaxHeads \in Nat
ASSUME FailuresAssumption == Failures \subseteq {"pipe", "fork", "exec", "log"}
ASSUME FileAssumption == "file" \in Sources => UNSET \notin MediaLists["file"]

VARIABLES
  source,   \* how this filter is run
  medias,   \* FILTER_MEDIAS
  mail,     \* the mail so far, as the reference sees it
  ctx,      \* struct ctx of the filter
  proc,     \* the process of the filter
  reply,    \* what the session has received and not yet written
  stdin,    \* in sender_pipe
  stdout,   \* in receiver_pipe
  handler,  \* where the session's handler is
  got,      \* what its read returned
  written   \* the first segment it wrote (history)

pipeVars == <<reply, stdin, stdout, handler, got, written>>
vars == <<source, medias, mail, ctx, proc, pipeVars>>

------------------------------------------------------------------------------
(* Lines, and what the reference makes of them.                             *)

EOL == <<"cr", "lf">>
CT  == CONTENT_TYPE \o <<":", " ">>
IMAGE == <<"i", "m">>
PNG   == <<"p", "g">>
GIF   == <<"g", "f">>
MULTIPART == <<"m", "u", "/", "x", ";">>
Quoted(b) == BOUNDARY \o <<"=", "q", b, "q">>

Spelling ==
  [other    |-> <<"S", "T", ":", " ", "h">>,
   cte      |-> CONTENT_TRANSFER_ENCODING \o <<":", " ", "6">>,
   png      |-> CT \o IMAGE \o <<"/">> \o PNG,
   gif      |-> CT \o IMAGE \o <<"/">> \o GIF,
   plain    |-> CT \o <<"t", "x", "/", "p", "n">>,
   multi1   |-> CT \o MULTIPART \o <<" ">> \o Quoted("1"),
   multi2   |-> CT \o MULTIPART \o EOL \o <<" ">> \o Quoted("2"),
   message  |-> CT \o MESSAGE \o <<"/">> \o RFC822,
   blank    |-> <<>>,
   text     |-> <<"v">>,
   stuffed  |-> <<".", ".", "v">>,
   sep1     |-> <<"-", "-", "1">>,
   sep2     |-> <<"-", "-", "2">>,
   end1     |-> <<"-", "-", "1", "-", "-">>,
   end2     |-> <<"-", "-", "2", "-", "-">>,
   final    |-> <<".">>,
   (* unusual *)
   empty    |-> <<"S", "T", ":", " ">>,
   fold     |-> <<" ", "h">>,
   tight    |-> CONTENT_TYPE \o <<":">> \o IMAGE \o <<"/">> \o PNG,
   longer   |-> CT \o IMAGE \o <<"/">> \o PNG \o <<"x">>,
   extra    |-> CT \o MULTIPART \o <<" ">> \o Quoted("1") \o <<";", "c", "=", "d">>,
   unquoted |-> CT \o MULTIPART \o BOUNDARY \o <<"=", "1">>,
   dashes   |-> <<"v", "-", "-", "v">>]

Kinds  == DOMAIN Spelling
LineOf(k) == Spelling[k] \o EOL

Multis == {"multi1", "multi2"}
Types  == {"png", "gif", "plain", "message"} \cup Multis
Odd    == {"empty", "fold", "tight", "longer", "extra", "unquoted", "dashes"}
HeadKinds == Types \cup {"other", "cte", "blank"} \cup (Odd \ {"dashes"})
BodyKinds == {"text", "stuffed", "dashes", "final", "sep1", "sep2", "end1", "end2"}

BoundaryOf(k) == IF k \in {"multi1", "sep1", "end1"} THEN "1" ELSE "2"

\* What is compared: everything but blanks and line ends.
Ink(s) == SelectSeq(s, LAMBDA c : c \notin {" ", "cr", "lf"})

\* The declared type of a part is one the user asked to filter by name.
Banned(k) == \/ k = "png" /\ \E i \in 1..Len(medias) : medias[i] = <<IMAGE, PNG>>
             \/ k = "gif" /\ \E i \in 1..Len(medias) : medias[i] = <<IMAGE, GIF>>

NoMail ==
  [where |-> "head", heads |-> {}, open |-> <<>>, banned |-> FALSE, drop |-> FALSE,
   stale |-> FALSE,   \* in a message within a message, no separator since
   tame |-> TRUE, before |-> TRUE,   \* plain so far; plain up to the line before
   lines |-> 0, odd |-> 0, last |-> "none", strays |-> {}, text |-> 0, want |-> <<>>]

\* The line is what the reference does not follow: an unusual one, a second type,
\* an encoding given before the type, a part without headers, a separator of
\* another multipart, a filtered part within a message, a wildcard.
Strays(m, k) ==
  \/ k \in Odd
  \/ k \in Types /\ m.heads \cap Types # {}
  \/ k = "cte" /\ m.heads \cap Types = {}
  \/ k = "blank" /\ m.heads = {}
  \/ k \in {"sep1", "sep2", "end1", "end2"} /\ (m.open = <<>> \/ Last(m.open) # BoundaryOf(k))
  \/ k \in {"png", "gif"} /\ (m.stale \/ \E i \in 1..Len(medias) : medias[i][2] = WILDCARD)
  \/ k \in Multis /\ \E i \in 1..Len(m.open) : m.open[i] = BoundaryOf(k)

\* What should come out for the line.
Wanted(m, k) ==
  CASE medias = UNSET                 -> Ink(Spelling[k])
    [] Banned(k)                      -> CONTENT_TYPE \o <<":", "text/plain">>
    [] k = "cte" /\ m.banned          -> CONTENT_TRANSFER_ENCODING \o <<":", "8BIT">>
    [] k = "blank"                    -> IF m.banned THEN <<"notice">> ELSE <<>>
    [] k \in {"text", "stuffed"}      -> IF m.drop THEN <<>> ELSE Ink(IF k = "text" THEN Spelling.text ELSE Tail(Spelling.stuffed))
    [] k = "final"                    -> <<>>
    [] OTHER                          -> Ink(Spelling[k])

\* The mail with one more line.
Composed(m, k) ==
  LET to == [m EXCEPT
        !.tame = @ /\ ~Strays(m, k), !.before = m.tame, !.lines = @ + 1, !.last = k,
        !.strays = IF Strays(m, k) THEN @ \cup {k} ELSE @,
        !.odd = @ + (IF Strays(m, k) \/ k = "stuffed" THEN 1 ELSE 0),
        !.text = @ + (IF k = "dashes" THEN 2 ELSE IF k \in {"text", "stuffed"} THEN 1 ELSE 0),
        !.want = IF m.tame THEN @ \o Wanted(m, k) ELSE @]
      part == [to EXCEPT !.where = "head", !.heads = {}, !.banned = FALSE, !.drop = FALSE]
  IN  CASE k = "blank" /\ "message" \in m.heads -> [part EXCEPT !.stale = TRUE]
        [] k = "blank"              -> [to EXCEPT !.where = "body", !.drop = m.banned]
        [] m.where = "head"         -> [to EXCEPT !.heads = @ \cup {k}, !.banned = @ \/ Banned(k),
                                                  !.open = IF k \in Multis THEN Append(@, BoundaryOf(k)) ELSE @]
        [] k \in {"sep1", "sep2"}   -> [part EXCEPT !.stale = FALSE]
        [] k \in {"end1", "end2"}   -> [to EXCEPT !.drop = FALSE, !.open = IF @ = <<>> THEN @ ELSE Front(@)]
        [] k = "final"              -> [to EXCEPT !.where = "end"]
        [] OTHER                    -> to

\* There may be one more unusual line, or cut.
MayStray(m) == m.odd < MaxOdd /\ m.lines < MaxOddLines[source]

\* The lines that may come next.
MayCome(m, k) ==
  /\ k \in (IF m.where = "head" THEN HeadKinds ELSE IF m.where = "body" THEN BodyKinds ELSE {})
  /\ m.lines < (IF m.odd = 0 THEN MaxLines[source] ELSE MaxOddLines[source])
  /\ m.where = "head" /\ k # "blank" => Cardinality(m.heads) < MaxHeads /\ k \notin m.heads
  /\ k = "fold" => m.heads # {}
  /\ k \in {"text", "stuffed", "dashes"} => m.last \notin {"text", "stuffed", "dashes"}
  /\ Strays(m, k) \/ k = "stuffed" => MayStray(m)

------------------------------------------------------------------------------
(* The program: main of stripmime.c.                                        *)

\* What the loop of main makes of the characters of a read, and what is printed
\* at the end of it.
Filter(x, text) == Fed(x, text)
Flushed(x)      == IF medias = UNSET THEN x ELSE Printed(x)

\* Without FILTER_MEDIAS they are copied to `transformed', which is cleared only
\* after the first read: up to its first zero, what the stack held there follows
\* the characters of that read.
Copied(x, text) ==
  {Emit(x, text)} \cup (IF x.out = <<>> THEN {Emit(Emit(x, text), <<"junk">>)} ELSE {})

\* Either loop.
Loops(x, text) == IF medias = UNSET THEN Copied(x, text) ELSE {Filter(x, text)}

STATUS_LINE == <<"+", "O", "K", "cr", "lf">>

Init ==
  /\ source \in Sources
  /\ medias \in MediaLists[source]
  /\ mail = NoMail
  /\ ctx = NewContext(media_types(medias))
  /\ proc = IF source = "file" THEN "running" ELSE "none"
  /\ reply = IF source = "file" THEN <<>> ELSE STATUS_LINE
  /\ stdin = <<>> /\ stdout = <<>> /\ got = <<>> /\ written = <<>>
  /\ handler = IF source = "file" THEN "none" ELSE "receiving"

\* The filter goes on with context x, or is gone.
Becomes(x) == ctx' = x /\ proc' = (IF Running(x) THEN "running" ELSE x.fate)

\* The next line of the file, within one read.
read_line ==
  /\ source = "file" /\ proc = "running"
  /\ \E k \in Kinds :
       /\ MayCome(mail, k)
       /\ mail' = Composed(mail, k)
       /\ Becomes(Filter(ctx, LineOf(k)))
  /\ UNCHANGED <<source, medias, pipeVars>>

\* The same, where a read ends after the first i characters of the line.  Only a
\* line whose type is replaced is not followed by the reference then.
read_line_cut ==
  /\ source = "file" /\ proc = "running" /\ MayStray(mail)
  /\ \E k \in Kinds \ {"stuffed"} : \E i \in 1..(Len(LineOf(k)) - 1) :
       /\ MayCome(mail, k) /\ ~Strays(mail, k)
       /\ mail' = [Composed(mail, k) EXCEPT !.odd = @ + 1, !.tame = @ /\ ~Banned(k)]
       /\ Becomes(Filter(Flushed(Filter(ctx, SubSeq(LineOf(k), 1, i))),
                         SubSeq(LineOf(k), i + 1, Len(LineOf(k)))))
  /\ UNCHANGED <<source, medias, pipeVars>>

\* The same, where the heap does not end the strings that the lists return.
read_line_junk ==
  /\ source = "file" /\ proc = "running" /\ MayStray(mail)
  /\ \E k \in Multis \cup {"sep1", "sep2", "end1", "end2"} :
       /\ MayCome(mail, k) /\ ~Strays(mail, k)
       /\ mail' = [Composed(mail, k) EXCEPT !.odd = @ + 1, !.tame = FALSE]
       /\ Becomes([Filter([ctx EXCEPT !.junk = TRUE], LineOf(k)) EXCEPT !.junk = FALSE])
  /\ UNCHANGED <<source, medias, pipeVars>>

\* read returns 0 at the end of the file: the filter exits and its output is
\* written.
read_end ==
  /\ source = "file" /\ proc = "running" /\ mail.lines > 0
  /\ ctx' = Flushed(ctx) /\ proc' = "exited" /\ stdout' = ctx'.out
  /\ UNCHANGED <<source, medias, mail, reply, stdin, handler, got, written>>

\* write_log comes before the printing: where ../../logs.txt cannot be opened, the
\* filter dies of the NULL it got, and nothing of its output is written.
write_log_fails ==
  /\ "log" \in Failures /\ proc = "running" /\ medias # UNSET
  /\ source = "file" => mail.lines > 0
  /\ proc' = "unlogged" /\ stdin' = <<>>
  /\ UNCHANGED <<source, medias, mail, ctx, reply, stdout, handler, got, written>>

------------------------------------------------------------------------------
(* The pipe: create_transformation and its caller.                          *)

\* recv in response_sread, or again in dot_data_sread once the output of the first
\* segment has gone to the client: one more line of the reply.
recv_line ==
  /\ handler \in {"receiving", "returned", "again"}
  /\ \E k \in Kinds :
       /\ MayCome(mail, k)
       /\ mail' = Composed(mail, k)
       /\ reply' = reply \o LineOf(k)
  /\ handler' = IF handler = "receiving" THEN handler ELSE "again"
  /\ UNCHANGED <<source, medias, ctx, proc, stdin, stdout, got, written>>

\* pipe, fcntl and fork.  Its result is not looked at: without pipes the handler
\* reads and writes whatever descriptors the fields hold.
create_transformation ==
  /\ handler = "receiving"
  /\ \/ handler' = "created" /\ proc' = "forked"
     \/ "pipe" \in Failures /\ handler' = "astray" /\ proc' = proc
     \/ "fork" \in Failures /\ handler' = "created" /\ proc' = proc
  /\ UNCHANGED <<source, medias, mail, ctx, reply, stdin, stdout, got, written>>

\* write to sender_pipe: of the first segment, in response_sread, or of a later one.
write_segment ==
  /\ handler \in {"created", "again"}
  /\ stdin' = stdin \o reply /\ reply' = <<>>
  /\ written' = IF handler = "created" THEN reply ELSE written
  /\ handler' = "waiting"
  /\ UNCHANGED <<source, medias, mail, ctx, proc, stdout, got>>

\* execl in the child.  Where it fails the child returns into the handler as a
\* second proxy, whose standard output is the pipe.
execl ==
  /\ proc = "forked"
  /\ \/ proc' = "running"
     \/ "exec" \in Failures /\ proc' = "clone"
  /\ UNCHANGED <<source, medias, mail, ctx, pipeVars>>

\* The printf calls of the second proxy reach the pipe, if its stdio writes lines.
clone_prints ==
  /\ proc = "clone" /\ stdout = <<>> /\ got = <<>>
  /\ stdout' = <<"junk">>
  /\ UNCHANGED <<source, medias, mail, ctx, proc, reply, stdin, handler, got, written>>

\* A read of the child that finds characters.
child_reads ==
  /\ source = "pipe" /\ proc = "running" /\ stdin # <<>>
  /\ \E x \in Loops(ctx, stdin) : Becomes(Flushed(x))
  /\ stdin' = <<>>
  /\ UNCHANGED <<source, medias, mail, reply, stdout, handler, got, written>>


\* A read of an empty pipe fails at once (EAGAIN).
would_block == stdin = <<>>

\* It ends the loop: the filter exits, and only then is its output written.
\* Without FILTER_MEDIAS, a first read that fails prints `transformed' as it was.
child_exits ==
  /\ source = "pipe" /\ proc = "running" /\ would_block
  /\ proc' = "exited" /\ ctx' = Flushed(ctx)
  /\ \/ stdout' = ctx'.out
     \/ medias = UNSET /\ ctx.out = <<>> /\ stdout' = <<"junk">>
  /\ UNCHANGED <<source, medias, mail, reply, stdin, handler, got, written>>

\* The handler's read returns what is in the pipe; it waits while there is nothing.
read_result ==
  /\ handler = "waiting" /\ stdout # <<>>
  /\ got' = stdout /\ stdout' = <<>> /\ handler' = "returned"
  /\ UNCHANGED <<source, medias, mail, ctx, proc, reply, stdin, written>>

Next ==
  \/ read_line \/ read_line_cut \/ read_line_junk \/ read_end \/ write_log_fails
  \/ recv_line \/ create_transformation \/ write_segment \/ execl \/ clone_prints
  \/ child_reads \/ child_exits \/ read_result

Spec == Init /\ [][Next]_vars

\* A step of the filter in the pipe: child_reads and write_log_fails are the only
\* ones that empty the pipe, child_exits and write_log_fails the only ones that
\* end the process.
child_runs ==
  /\ source = "pipe" /\ proc = "running"
  /\ \/ stdin # <<>> /\ stdin' = <<>> /\ proc' \in {"running", "crashed", "wild", "unlogged"}
     \/ would_block /\ proc' \in {"exited", "unlogged"} /\ stdin' = stdin

\* Processes run: the child and the handler take the steps open to them.
Fairness ==
  /\ WF_vars(create_transformation) /\ WF_vars(write_segment) /\ WF_vars(read_result)
  /\ WF_vars(execl) /\ WF_<<proc, stdin>>(child_runs)
FairSpec == Spec /\ Fairness

------------------------------------------------------------------------------
(* Properties.                                                              *)

Count(c, s) == Cardinality({i \in 1..Len(s) : s[i] = c})

\* In a mail from a file whose lines are all plain, mime_filter changes exactly the
\* parts of a filtered type, at any depth of nesting: their Content-Type becomes
\* text/plain, the encoding that follows it 8BIT and their body the notice, and
\* every other header, body and boundary comes out as it was.
PartsReplaced ==
  source = "file" /\ mail.tame => Running(ctx) /\ Ink(ctx.out) = mail.want

\* Whatever the mail and wherever its reads end, body text only disappears from the
\* output together with the notice that says so, as long as every Content-Type has
\* a blank before its value (the search for the blank would erase what came before).
NoSilentRemoval ==
  source = "file" /\ Running(ctx) /\ "tight" \notin mail.strays /\ Count("v", ctx.out) < mail.text
    => Count("notice", ctx.out) > 0

\* After plain lines only, the filter dies of a line with two dashes only where no
\* multipart is open: the boundary of an open one is on the stack whenever a body
\* line is compared with it.
CrashOnlyOutsideMultipart ==
  proc = "crashed" /\ mail.before => mail.open = <<>>

\* The reply without its stuffing: what a dot-free reading of it leaves.
Unstuffed(s) ==
  LET keep == {i \in 1..Len(s) : ~(s[i] = "." /\ i > 1 /\ s[i - 1] = "lf")}
      text[i \in 0..Len(s)] ==
        IF i = 0 THEN <<>> ELSE IF i \in keep THEN Append(text[i - 1], s[i]) ELSE text[i - 1]
  IN  text[Len(s)]

\* What the handler reads, when it reads anything, is what its session may rely on:
\* the whole segment it wrote, first and in its order (without stuffing and final
\* dot once FILTER_MEDIAS is set; without it, stack bytes may follow), or a line of
\* a filter that ran too early or never became one.
TextReachesSession ==
  got # <<>> =>
    \/ Ink(got) \in {<<>>, <<"junk">>}
    \/ medias # UNSET /\ Ink(got) = Ink(Unstuffed(written))
    \/ medias = UNSET /\ Ink(got) \in {Ink(written), Ink(written) \o <<"junk">>}


\* The parts of a mail that a session relays are replaced like those of a file
\* ("las partes MIME ... seran reemplazadas por una parte de tipo text/plain").
RepliesFiltered ==
  handler = "returned" /\ medias # UNSET /\ mail.tame /\ Ink(got) \notin {<<>>, <<"junk">>} =>
    Ink(got) = Ink(STATUS_LINE) \o mail.want
==============================================================================

-------------------------------- MODULE Tokens --------------------------------
(***************************************************************************)
(* The reply parsers of pop3filter on streams of tokens rather than bytes: *)
(* a token is a record whose field k says what it spells.  "ok" and "err"  *)
(* are a status without its end of line, "eol" is CR LF, "line" a line of  *)
(* text with its CR LF, and "dot" the final dot with its CR LF.            *)
(* TokenAgreement checks these definitions against the byte tables.        *)
(***************************************************************************)
EXTENDS Naturals, Sequences

Take(s, n) == SubSeq(s, 1, n)
Drop(s, n) == SubSeq(s, n + 1, Len(s))

\* (slip) the status alone ends the line
singleline_builder_eager(seg) ==
  IF seg[1].k \notin {"ok", "err"} THEN "BUILD_FAILED" ELSE "BUILD_FINISHED"

\* pop3_singleline_response_builder, with a new parser, on the tokens of a recv.
singleline_builder(seg) ==
  IF seg[1].k \notin {"ok", "err"} THEN "BUILD_FAILED"
  ELSE IF \E i \in 2..Len(seg) : seg[i].k \in {"eol", "line", "dot"}
       THEN "BUILD_FINISHED" ELSE "BUILDING"

\* The multi-line automaton on the bytes of one token.  A bare end of line
\* after an end of line leaves the automaton in the middle of a line.
multiline_step(s, k) ==
  CASE s = "CRLFDOTCRLF"             -> "CRLFDOTCRLF"
    [] k \in {"ok", "err"}           -> "DOT_DATA"
    [] k = "eol" /\ s = "CRLF"       -> "DOT_DATA"
    [] k = "dot" /\ s = "CRLF"       -> "CRLFDOTCRLF"
    [] OTHER                         -> "CRLF"

multiline_checker(seg) ==
  LET run[i \in 0..Len(seg)] ==
        IF i = 0 THEN "CRLFDOT" ELSE multiline_step(run[i - 1], seg[i].k)
  IN  IF run[Len(seg)] = "CRLFDOTCRLF" THEN "FINISHED_CONSUMING" ELSE "CONSUMING"
==============================================================================

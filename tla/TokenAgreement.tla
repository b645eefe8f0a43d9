---------------------------- MODULE TokenAgreement ----------------------------
(***************************************************************************)
(* The token-level parsers that Pop3Session uses give, on every reply, the *)
(* verdict of the byte-level tables of pop3filter on what the tokens spell.*)
(***************************************************************************)
EXTENDS Tokens, ParserFactory

CONSTANT MaxTokens   \* bound: tokens in one reply

VARIABLE reply       \* the tokens of the reply so far

NoReply == reply = <<>>

\* The origin's reply grows by a token; only its status comes first.
Extend(k) ==
  /\ Len(reply) < MaxTokens
  /\ k \in {"ok", "err"} <=> reply = <<>>
  /\ reply' = Append(reply, [k |-> k])

ReplyGrows == \E k \in {"ok", "err", "eol", "line", "dot"} : Extend(k)

------------------------------------------------------------------------------
Spell(k) == CASE k = "ok"   -> <<"plus", "ch">>
              [] k = "err"  -> <<"minus", "ch">>
              [] k = "eol"  -> <<"cr", "lf">>
              [] k = "line" -> <<"ch", "dot", "cr", "lf">>
              [] k = "dot"  -> <<"dot", "cr", "lf">>

\* The bytes of the tokens of r.
Spelled(r) == Joined([i \in 1..Len(r) |-> Spell(r[i].k)])

\* Some byte of s raises the event.
Raised(def, event, s) ==
  \E i \in 1..Len(s) : event \in {RowAt(def, s, i).event, RowAt(def, s, i).next}

\* The multi-line checker ends on the same replies.
MultilineAgrees ==
  reply # <<>> =>
    (multiline_checker(reply) = "FINISHED_CONSUMING"
       <=> Raised(pop3_multiline_response_definition, "DAT_STUFFED_END", Spelled(reply)))

\* The status line is complete in the same replies.
SinglelineAgrees ==
  reply # <<>> =>
    (singleline_builder(reply) = "BUILD_FINISHED"
       <=> Raised(pop3_singleline_response_definition, "END_SINGLELINE", Spelled(reply)))

\* Pop3Session's parsers on tokens give, on every reply, the verdict of the byte
\* tables of pop3filter on what the tokens spell, cut anywhere between two tokens.
TokensAgree == MultilineAgrees /\ SinglelineAgrees
==============================================================================

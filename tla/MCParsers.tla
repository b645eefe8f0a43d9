------------------------------ MODULE MCParsers ------------------------------
(***************************************************************************)
(* Values for the constants of Parsers, and one state machine that feeds   *)
(* the builders bytes or, beside them, spells replies for the token-level  *)
(* parsers (TokenAgreement) or mails for the stuffing services (Stuffing). *)
(* The multi-line tables tell apart only CR, LF and the dot; `plus' stands *)
(* for every other byte.                                                   *)
(***************************************************************************)
EXTENDS Parsers, TokenAgreement, Stuffing

AllKinds == {"command", "singleline", "multiline"}

Alphabets == [k \in AllKinds |-> IF k = "multiline" THEN {"cr", "lf", "dot", "plus"} ELSE Bytes]

\* Seven bytes hold a full keyword and its end of line; ten hold a status line,
\* a data line and the final dot.
TextBounds == [k \in AllKinds |-> IF k = "multiline" THEN 10 ELSE 7]

MCInit == Init /\ NoReply /\ NoBytes

MCNext ==
  \/ reply = <<>> /\ mail = <<>> /\ Next /\ UNCHANGED <<reply, mail>>
  \/ kind = "multiline" /\ text = <<>> /\ mail = <<>> /\ ReplyGrows /\ UNCHANGED <<vars, mail>>
  \/ kind = "multiline" /\ text = <<>> /\ reply = <<>> /\ MailGrows /\ UNCHANGED <<vars, reply>>

MCSpec == MCInit /\ [][MCNext]_<<vars, reply, mail>>
==============================================================================

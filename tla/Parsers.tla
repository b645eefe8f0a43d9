------------------------------- MODULE Parsers -------------------------------
(***************************************************************************)
(* The builders that drive the parsers of ParserFactory byte by byte:      *)
(* command_builder, pop3_singleline_response_builder and                   *)
(* pop3_multiline_response_checker.  A behaviour is one parser fed one     *)
(* byte at a time; a builder keeps all of its state in the parser and in   *)
(* the structure it builds, so how recv cut the bytes does not matter.     *)
(***************************************************************************)
EXTENDS ParserFactory

CONSTANTS
  Kinds,     \* which of "command", "singleline" and "multiline" to build
  Alphabet,  \* the byte classes fed to each kind
  MaxText    \* bound: the bytes fed to a parser of each kind

ASSUME KindsAssumption    == Kinds \subseteq {"command", "singleline", "multiline"}
ASSUME AlphabetAssumption == Alphabet \in [Kinds -> SUBSET Bytes]
ASSUME MaxTextAssumption  == MaxText \in [Kinds -> Nat]

VARIABLES
  kind,      \* which parser this is
  text,      \* the bytes fed so far (history)
  state,     \* parser->state
  kwrd_ptr,  \* how much of current_command.kwrd is filled
  has_args,  \* current_command.has_args
  status,    \* resp->status
  verdict    \* what the builder's last call returned; FINISHED_CONSUMING is
             \* BUILD_FINISHED here

vars == <<kind, text, state, kwrd_ptr, has_args, status, verdict>>

MAX_KEYWORD_LENGTH == 4

Definition(k) == CASE k = "command"    -> pop3_command_definition
                   [] k = "singleline" -> pop3_singleline_response_definition
                   [] k = "multiline"  -> pop3_multiline_response_definition

\* parser_init, with the structure to build blank.
Init ==
  /\ kind \in Kinds
  /\ text = <<>>
  /\ state = Definition(kind).start_state
  /\ kwrd_ptr = 0 /\ has_args = FALSE /\ status = "none"
  /\ verdict = "BUILDING"

\* The byte reaches the parser; a builder that has returned its verdict is not
\* called again.
feed(k, c) ==
  /\ kind = k /\ verdict = "BUILDING" /\ Len(text) < MaxText[k]
  /\ text' = Append(text, c)
  /\ state' = parser_feed(Definition(k), state, c).dest
  /\ UNCHANGED kind

\* set_pop3_command_builder_next has no room for the character.
set_next_fails == kwrd_ptr >= MAX_KEYWORD_LENGTH

command_builder(c) ==
  /\ feed("command", c)
  /\ LET e    == parser_feed(pop3_command_definition, state, c).event
         full == e = "BUFFER_CMD" /\ set_next_fails
     IN  /\ kwrd_ptr' = IF e = "BUFFER_CMD" /\ ~full THEN kwrd_ptr + 1 ELSE kwrd_ptr
         /\ has_args' = (has_args \/ e = "HAS_ARGS")
         /\ verdict'  = IF full \/ e = "BAD_CMD" THEN "BUILD_FAILED"
                        ELSE IF e = "SET_CMD" THEN "BUILD_FINISHED" ELSE "BUILDING"
  /\ UNCHANGED status

pop3_singleline_response_builder(c) ==
  /\ feed("singleline", c)
  /\ LET e == parser_feed(pop3_singleline_response_definition, state, c).event
     IN  /\ status'  = IF e = "OK_RESP" THEN "STATUS_OK"
                       ELSE IF e = "ERR_RESP" THEN "STATUS_ERR" ELSE status
         /\ verdict' = IF e = "TRAPPED" THEN "BUILD_FAILED"
                       ELSE IF e = "END_SINGLELINE" THEN "BUILD_FINISHED" ELSE "BUILDING"
  /\ UNCHANGED <<kwrd_ptr, has_args>>

\* The checker is only called on a reply whose status line has been recognised:
\* its first byte is neither a dot nor the end of a line.
pop3_multiline_response_checker(c) ==
  /\ text = <<>> => c = "plus"
  /\ feed("multiline", c)
  /\ verdict' = IF parser_feed(pop3_multiline_response_definition, state, c).next = "DAT_STUFFED_END"
                THEN "BUILD_FINISHED" ELSE "BUILDING"
  /\ UNCHANGED <<kwrd_ptr, has_args, status>>

Next == \E c \in Alphabet[kind] : \/ command_builder(c)
                            \/ pop3_singleline_response_builder(c)
                            \/ pop3_multiline_response_checker(c)

Spec == Init /\ [][Next]_vars

------------------------------------------------------------------------------
(* Reference definitions, from the text alone.                             *)

Fed == Len(text)
At(i, b) == i \in 1..Fed /\ text[i] = b
First(S) == CHOOSE i \in S : \A j \in S : i <= j

EndsWith(s)  == Fed >= Len(s) /\ SubSeq(text, Fed - Len(s) + 1, Fed) = s
Contains(s)  == \E i \in 0..(Fed - Len(s)) : SubSeq(text, i + 1, i + Len(s)) = s

\* The bytes before the first blank or carriage return.
KeywordLength ==
  LET stops == {i \in 1..Fed : text[i] \in {"sp", "cr"}}
  IN  IF stops = {} THEN Fed ELSE First(stops) - 1

FirstCR == LET crs == {i \in 1..Fed : text[i] = "cr"} IN IF crs = {} THEN 0 ELSE First(crs)

\* A line in which a carriage return is only ever followed by a line feed, and a
\* line feed only ever follows one: what RFC 1939 allows in a reply.
WellFormed ==
  \A i \in 1..Fed : /\ (text[i] = "cr" /\ i < Fed) => At(i + 1, "lf")
                    /\ text[i] = "lf" => At(i - 1, "cr")

BlankLine == Contains(<<"cr", "lf", "cr", "lf">>)

------------------------------------------------------------------------------
(* Properties.                                                             *)

\* command_builder accepts exactly the lines whose keyword has at most four
\* characters and whose first carriage return is followed by a line feed; it
\* stops at the byte that decides, so everything after it is left unread.
CommandVerdict ==
  kind = "command" =>
    /\ verdict = "BUILD_FAILED" <=>
         \/ KeywordLength > MAX_KEYWORD_LENGTH
         \/ FirstCR # 0 /\ FirstCR < Fed /\ ~At(FirstCR + 1, "lf")
    /\ verdict = "BUILD_FINISHED" <=>
         /\ KeywordLength <= MAX_KEYWORD_LENGTH
         /\ FirstCR # 0 /\ FirstCR + 1 = Fed /\ At(Fed, "lf")
    /\ verdict # "BUILD_FAILED" => kwrd_ptr = KeywordLength
    /\ has_args <=> At(KeywordLength + 1, "sp")

\* The status line is recognised at its end of line, neither before nor after,
\* with the status its first byte announces, whenever it is well formed; a reply
\* that starts with anything else is refused at once.
StatusLineVerdict ==
  kind = "singleline" /\ Fed > 0 =>
    /\ verdict = "BUILD_FAILED" <=> text[1] \notin {"plus", "minus"}
    /\ verdict = "BUILD_FINISHED" => EndsWith(<<"cr", "lf">>)
    /\ WellFormed /\ Contains(<<"cr", "lf">>) => verdict # "BUILDING"
    /\ verdict # "BUILD_FAILED" => (status = "STATUS_OK" <=> text[1] = "plus")

\* The checker never takes a dot inside the data for the end of the reply: when it
\* reports the end, the last line is a lone dot; and in a well-formed reply without
\* blank lines it reports the end exactly there.
MultilineVerdict ==
  kind = "multiline" =>
    /\ verdict = "BUILD_FINISHED" => EndsWith(<<"cr", "lf", "dot", "cr", "lf">>)
    /\ WellFormed /\ ~BlankLine =>
         (Contains(<<"cr", "lf", "dot", "cr", "lf">>) <=> verdict = "BUILD_FINISHED")
==============================================================================

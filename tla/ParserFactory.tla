---------------------------- MODULE ParserFactory ----------------------------
(***************************************************************************)
(* The table-driven parser of parser_factory.c and the three definitions   *)
(* pop3filter gives it.  A byte is represented by the class the tables     *)
(* tell apart.                                                             *)
(***************************************************************************)
EXTENDS Naturals, Sequences

Bytes == {"sp", "cr", "lf", "dot", "plus", "minus", "ch"}
ANY   == "ANY"

\* One row of a transition table; `next' is the event of act2, if any.
T(when, dest, event)        == [when |-> when, dest |-> dest, event |-> event, next |-> ""]
T2(when, dest, event, next) == [when |-> when, dest |-> dest, event |-> event, next |-> next]

------------------------------------------------------------------------------
(* pop3_command_parser.c                                                   *)

\* The events its actions raise: buffer_cmd, has_args, set_cmd, bad_cmd, ignore.
pop3_command_events == {"BUFFER_CMD", "HAS_ARGS", "SET_CMD", "BAD_CMD", "IGNORE"}

ST_KWRD == <<T("sp", "ARG", "HAS_ARGS"), T("cr", "CR", "IGNORE"), T(ANY, "KWRD", "BUFFER_CMD")>>
ST_ARG  == <<T("cr", "CR", "IGNORE"), T(ANY, "ARG", "IGNORE")>>

\* (slip) a carriage return that no line feed follows is taken for an argument
ST_CMD_CR_lenient == <<T("lf", "CRLF", "SET_CMD"), T(ANY, "ARG", "IGNORE")>>

ST_CMD_CR   == <<T("lf", "CRLF", "SET_CMD"), T(ANY, "ERR", "BAD_CMD")>>
ST_CMD_ERR  == <<T(ANY, "ERR", "BAD_CMD")>>
ST_CMD_CRLF == <<T(ANY, "CRLF", "IGNORE")>>

pop3_command_definition ==
  [start_state |-> "KWRD",
   states |-> [KWRD |-> ST_KWRD, ARG |-> ST_ARG, CR |-> ST_CMD_CR,
               CRLF |-> ST_CMD_CRLF, ERR |-> ST_CMD_ERR]]

------------------------------------------------------------------------------
(* pop3_singleline_response_parser.c; TRAP is in parser_utils.c.           *)

pop3_singleline_response_events ==
  {"OK_RESP", "ERR_RESP", "END_SINGLELINE", "IGNORE", "TRAPPED"}

ST_TRAP == <<T(ANY, "TRAP", "TRAPPED")>>
ST_STAT == <<T("plus", "OK", "OK_RESP"), T("minus", "ERR", "ERR_RESP"), T(ANY, "TRAP", "TRAPPED")>>
ST_OK   == <<T("cr", "CR", "IGNORE"), T(ANY, "MSG", "IGNORE")>>
ST_ERR  == <<T("cr", "CR", "IGNORE"), T(ANY, "MSG", "IGNORE")>>
ST_MSG  == <<T("cr", "CR", "IGNORE"), T(ANY, "MSG", "IGNORE")>>

\* (slip) any byte after a carriage return ends the line
ST_RESP_CR_hasty == <<T("lf", "CRLF", "END_SINGLELINE"), T(ANY, "CRLF", "END_SINGLELINE")>>

ST_RESP_CR   == <<T("lf", "CRLF", "END_SINGLELINE"), T(ANY, "MSG", "IGNORE")>>
ST_RESP_CRLF == <<T(ANY, "CRLF", "IGNORE")>>

pop3_singleline_response_definition ==
  [start_state |-> "STAT",
   states |-> [TRAP |-> ST_TRAP, STAT |-> ST_STAT, OK |-> ST_OK, ERR |-> ST_ERR,
               MSG |-> ST_MSG, CR |-> ST_RESP_CR, CRLF |-> ST_RESP_CRLF]]

------------------------------------------------------------------------------
(* pop3_multiline_response_parser.c                                        *)

pop3_multiline_response_events == {"DAT_STUFFED", "DAT_STUFFED_END"}

ST_DOT_DATA    == <<T("cr", "CR", "DAT_STUFFED"), T(ANY, "DOT_DATA", "DAT_STUFFED")>>
ST_DAT_CR      == <<T("lf", "CRLF", "DAT_STUFFED"), T(ANY, "DOT_DATA", "DAT_STUFFED")>>
ST_DAT_CRLF    == <<T("dot", "CRLFDOT", "DAT_STUFFED"), T(ANY, "DOT_DATA", "DAT_STUFFED")>>

\* (slip) a line that only starts with a dot goes on as if it were the dot
ST_CRLFDOT_sticky == <<T("cr", "CRLFDOTCR", "DAT_STUFFED"), T(ANY, "CRLFDOT", "DAT_STUFFED")>>

ST_CRLFDOT     == <<T("cr", "CRLFDOTCR", "DAT_STUFFED"), T(ANY, "DOT_DATA", "DAT_STUFFED")>>

ST_CRLFDOTCR   == <<T2("lf", "CRLFDOTCRLF", "DAT_STUFFED", "DAT_STUFFED_END"),
                    T(ANY, "DOT_DATA", "DAT_STUFFED")>>
ST_CRLFDOTCRLF == <<T(ANY, "CRLFDOTCRLF", "DAT_STUFFED")>>

pop3_multiline_response_definition ==
  [start_state |-> "CRLFDOT",
   states |-> [DOT_DATA |-> ST_DOT_DATA, CR |-> ST_DAT_CR, CRLF |-> ST_DAT_CRLF,
               CRLFDOT |-> ST_CRLFDOT, CRLFDOTCR |-> ST_CRLFDOTCR,
               CRLFDOTCRLF |-> ST_CRLFDOTCRLF]]

------------------------------------------------------------------------------
\* parser_feed takes the first row of the state's table that matches the byte.
parser_feed(def, state, c) ==
  LET rows == def.states[state]
      hits == {i \in 1..Len(rows) : rows[i].when \in {c, ANY}}
  IN  rows[CHOOSE i \in hits : \A j \in hits : i <= j]

\* The states a definition goes through on the bytes of s, from its start, and the
\* row that the i-th byte takes.
Trail(def, s) ==
  LET at[i \in 0..Len(s)] == IF i = 0 THEN def.start_state ELSE parser_feed(def, at[i - 1], s[i]).dest
  IN  at
RowAt(def, s, i) == parser_feed(def, Trail(def, s)[i - 1], s[i])

\* Sequences put one after the other.
Joined(pieces) ==
  LET upTo[i \in 0..Len(pieces)] == IF i = 0 THEN <<>> ELSE upTo[i - 1] \o pieces[i]
  IN  upTo[Len(pieces)]

\* Every table has a row for every byte, goes to a state of its definition and
\* raises an event its builder knows.
Complete(def, events) ==
  /\ def.start_state \in DOMAIN def.states
  /\ \A s \in DOMAIN def.states, c \in Bytes :
       /\ \E i \in 1..Len(def.states[s]) : def.states[s][i].when \in {c, ANY}
       /\ parser_feed(def, s, c).dest \in DOMAIN def.states
       /\ {parser_feed(def, s, c).event, parser_feed(def, s, c).next} \subseteq events \cup {""}

ASSUME TablesComplete ==
  /\ Complete(pop3_command_definition, pop3_command_events)
  /\ Complete(pop3_singleline_response_definition, pop3_singleline_response_events)
  /\ Complete(pop3_multiline_response_definition, pop3_multiline_response_events)
==============================================================================

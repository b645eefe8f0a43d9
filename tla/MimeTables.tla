------------------------------ MODULE MimeTables ------------------------------
(***************************************************************************)
(* The parser of mime_filter (parser.c) and its three tables: the reply    *)
(* (pop3_multi.c), the message (mime_msg.c) and the value of Content-Type  *)
(* (content_type_parser.c).                                                *)
(***************************************************************************)
EXTENDS Naturals, Sequences

(* The characters of the model.  Words are two letters long: CT and CE     *)
(* stand for content-type and content-transfer-encoding, im/pg and im/gf   *)
(* for two subtypes of image, mu, me and tx for the types multipart,       *)
(* message and text, rf for rfc822, bo for boundary; 1 and 2 are           *)
(* boundaries, v is body text, h and 6 are values of headers, q a quote.   *)
Letters == {"C", "T", "E", "S", "i", "m", "p", "g", "f", "x", "u", "e", "t", "n",
            "r", "b", "o", "c", "d", "O", "K", "v", "h", "1", "2", "6"}
Chars   == Letters \cup {":", " ", "/", ";", "=", "q", "-", ".", "+", "cr", "lf"}

(* The classes of mime_chars.c, as sets of characters.                     *)
TOKEN_CHAR            == Chars
TOKEN_CTL             == {"cr", "lf"}
TOKEN_LWSP            == {" "}
TOKEN_REST_NAME_FIRST == Letters
TOKEN_REST_NAME_CHARS == Letters \cup {"-", ".", "+"}
TOKEN_BCHARS_NOSPACE  == Letters \cup {"-", ".", "+", "/", ":", "="}
ANY                   == Chars

\* One row of a table: the characters it is for, the state it goes to and the
\* events it raises.  An event is a name and the character it carries; SELF is
\* the character that was read.
SELF == "SELF"
Ev(name, c) == <<name, c>>
T(when, dest, acts) == [when |-> when, dest |-> dest, acts |-> acts]

------------------------------------------------------------------------------
(* pop3_multi.c                                                            *)

byte    == Ev("BYTE", SELF)
byte_cr == Ev("BYTE", "cr")
wait    == Ev("WAIT", SELF)
fin     == Ev("FIN", SELF)

pop3_multi_parser ==
  [start |-> "NEWLINE",
   states |->
    [NEWLINE |-> <<T({"."}, "DOT", <<wait>>), T({"cr"}, "CR", <<wait>>), T(ANY, "BYTE", <<byte>>)>>,
     BYTE    |-> <<T({"cr"}, "CR", <<wait>>), T(ANY, "BYTE", <<byte>>)>>,
     CR      |-> <<T({"lf"}, "NEWLINE", <<byte_cr, byte>>), T(ANY, "BYTE", <<byte_cr, byte>>)>>,
     DOT     |-> <<T({"cr"}, "DOT_CR", <<wait>>), T(ANY, "BYTE", <<byte>>)>>,
     DOT_CR  |-> <<T({"lf"}, "FIN", <<fin>>), T(ANY, "BYTE", <<byte_cr, byte>>)>>,
     FIN     |-> <<T(ANY, "BYTE", <<byte_cr, byte>>)>>]]

------------------------------------------------------------------------------
(* mime_msg.c                                                              *)

name        == Ev("NAME", SELF)
name_end    == Ev("NAME_END", ":")
value       == Ev("VALUE", SELF)
value_cr    == Ev("VALUE", "cr")
value_fold  == Ev("VALUE_FOLD", SELF)
value_fold_crlf == Ev("VALUE_FOLD", "cr")
value_end   == Ev("VALUE_END", "cr")
body_start  == Ev("BODY_START", "cr")
body        == Ev("BODY", SELF)
body_crlf   == Ev("BODY_CR", SELF)
body_newline == Ev("BODY_NEWLINE", SELF)
unexpected  == Ev("UNEXPECTED", SELF)

ST_NAME0 == <<T({":", " "} \cup TOKEN_CTL, "ERROR", <<unexpected>>), T(TOKEN_CHAR, "NAME", <<name>>)>>
ST_NAME  == <<T({":"}, "VALUE", <<name_end>>), T({" "} \cup TOKEN_CTL, "ERROR", <<unexpected>>),
              T(TOKEN_CHAR, "NAME", <<name>>)>>
ST_VALUE == <<T(TOKEN_LWSP, "FOLD", <<value_fold>>), T({"cr"}, "VALUE_CR", <<wait>>),
              T(ANY, "VALUE", <<value>>)>>
ST_VALUE_CR   == <<T({"lf"}, "VALUE_CRLF", <<wait>>), T(ANY, "VALUE", <<value_cr, value>>)>>
ST_VALUE_CRLF == <<T({":"}, "ERROR", <<unexpected>>), T({"cr"}, "VALUE_CRLF_CR", <<wait>>),
                   T(TOKEN_LWSP, "FOLD", <<value_fold_crlf, value_fold>>),
                   T(TOKEN_CTL, "ERROR", <<value_end, unexpected>>),
                   T(TOKEN_CHAR, "NAME", <<value_end, name>>)>>
ST_FOLD       == <<T(TOKEN_LWSP, "FOLD", <<value_fold>>), T(ANY, "VALUE", <<value>>)>>
ST_VALUE_CRLF_CR == <<T({"lf"}, "BODY", <<value_end, body_start>>),
                      T(ANY, "ERROR", <<value_end, unexpected>>)>>
ST_BODY       == <<T({"cr"}, "BODY_CR", <<body_crlf>>), T(ANY, "BODY", <<body>>)>>
ST_BODY_CR    == <<T({"lf"}, "BODY", <<body_newline>>), T(ANY, "ERROR", <<unexpected>>)>>

\* (slip) a message that could not be understood is tried again at a line feed
ST_MSG_ERROR_forgiving == <<T({"lf"}, "NAME0", <<unexpected>>), T(ANY, "ERROR", <<unexpected>>)>>

ST_MSG_ERROR  == <<T(ANY, "ERROR", <<unexpected>>)>>

mime_message_parser ==
  [start |-> "NAME0",
   states |-> [NAME0 |-> ST_NAME0, NAME |-> ST_NAME, VALUE |-> ST_VALUE,
               VALUE_CR |-> ST_VALUE_CR, VALUE_CRLF |-> ST_VALUE_CRLF, FOLD |-> ST_FOLD,
               VALUE_CRLF_CR |-> ST_VALUE_CRLF_CR, BODY |-> ST_BODY, BODY_CR |-> ST_BODY_CR,
               ERROR |-> ST_MSG_ERROR]]

------------------------------------------------------------------------------
(* content_type_parser.c                                                   *)

type            == Ev("TYPE", SELF)
type_end        == Ev("TYPE_END", "/")
subtype         == Ev("SUBTYPE", SELF)
parameter_start == Ev("PARAMETER_START", ";")
parameter       == Ev("PARAMETER", SELF)
boundary_end    == Ev("BOUNDARY_END", "=")
delimiter_start == Ev("DELIMITER_START", "q")
delimiter       == Ev("DELIMITER", SELF)
delimiter_end   == Ev("DELIMITER_END", SELF)

Otherwise == T(ANY, "ERROR", <<unexpected>>)

ST_TYPE0     == <<T(TOKEN_REST_NAME_FIRST, "TYPE", <<type>>), Otherwise>>
ST_TYPE      == <<T({"/"}, "SUBTYPE", <<type_end>>), T(TOKEN_REST_NAME_CHARS, "TYPE", <<type>>), Otherwise>>
ST_SUBTYPE   == <<T({";"}, "PARAMETER", <<parameter_start>>),
                  T(TOKEN_REST_NAME_CHARS, "SUBTYPE", <<subtype>>), Otherwise>>
ST_PARAMETER == <<T(TOKEN_REST_NAME_CHARS, "PARAMETER", <<parameter>>),
                  T({"="}, "DELIMITER_START", <<boundary_end>>), Otherwise>>
ST_DELIMITER_START == <<T({"q"}, "DELIMITER", <<delimiter_start>>), Otherwise>>
ST_DELIMITER == <<T(TOKEN_REST_NAME_CHARS \cup TOKEN_BCHARS_NOSPACE, "DELIMITER", <<delimiter>>),
                  T({"q"}, "DELIMITER_END", <<delimiter_end>>), Otherwise>>
ST_DELIMITER_END == <<T(ANY, "DELIMITER_END", <<delimiter_end>>)>>
ST_TYPE_ERROR    == <<Otherwise>>

mime_type_parser ==
  [start |-> "TYPE0",
   states |-> [TYPE0 |-> ST_TYPE0, TYPE |-> ST_TYPE, SUBTYPE |-> ST_SUBTYPE,
               PARAMETER |-> ST_PARAMETER, DELIMITER_START |-> ST_DELIMITER_START,
               DELIMITER |-> ST_DELIMITER, DELIMITER_END |-> ST_DELIMITER_END,
               ERROR |-> ST_TYPE_ERROR]]

------------------------------------------------------------------------------
\* parser_feed takes the first row of the state that is for the character.
parser_feed(def, state, c) ==
  LET rows == def.states[state]
      hits == {i \in 1..Len(rows) : c \in rows[i].when}
  IN  rows[CHOOSE i \in hits : \A j \in hits : i <= j]

\* The events of a row, with the characters they carry.
Raised(row, c) ==
  [i \in 1..Len(row.acts) |-> <<row.acts[i][1], IF row.acts[i][2] = SELF THEN c ELSE row.acts[i][2]>>]

\* parser_utils_strcmpi: the state counts the characters of `word' seen; its last
\* two are EQ (Len(word)) and NEQ.  Letter case is left out.
strcmpi(word, state, c) ==
  IF state < Len(word) /\ word[state + 1] = c THEN state + 1 ELSE Len(word) + 1
STRING_CMP_EQ(word, state)  == state = Len(word)
STRING_CMP_NEQ(word, state) == state = Len(word) + 1

\* Every state has a row for every character and every row leads to a state.
ASSUME MimeTablesComplete ==
  \A def \in {pop3_multi_parser, mime_message_parser, mime_type_parser} :
    \A s \in DOMAIN def.states, c \in Chars :
      /\ \E i \in 1..Len(def.states[s]) : c \in def.states[s][i].when
      /\ parser_feed(def, s, c).dest \in DOMAIN def.states
==============================================================================

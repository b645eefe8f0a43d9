----------------------------- MODULE ParsersProofs -----------------------------
(***************************************************************************)
(* The verdicts of the three builders on texts of any length.  What a      *)
(* builder says of a text is a fact about its state after the last byte,   *)
(* so that the induction is over the steps: the invariants say what each   *)
(* state of a table knows about the text that led to it.  Then the same    *)
(* for what a reply of tokens spells and for a mail that is stuffed and    *)
(* unstuffed, where the states are those of two machines side by side.     *)
(***************************************************************************)
EXTENDS MCParsers, SequenceTheorems, WellFoundedInduction, TLAPS

------------------------------------------------------------------------------
(* The tables.                                                               *)

\* The first row that matches.
LEMMA FirstHit ==
  ASSUME NEW H \in SUBSET Nat, NEW k \in H, \A j \in H : k <= j
  PROVE  (CHOOSE i \in H : \A j \in H : i <= j) = k
<1> DEFINE x == CHOOSE i \in H : \A j \in H : i <= j
<1>1. x \in H /\ \A j \in H : x <= j
  OBVIOUS
<1> HIDE DEF x
<1>2. x <= k /\ k <= x /\ x \in Nat /\ k \in Nat
  BY <1>1
<1>3. x = k
  BY <1>2
<1> QED
  BY <1>3 DEF x

LEMMA OneRow ==
  ASSUME NEW def, NEW s, NEW c, NEW a, def.states[s] = <<a>>, a.when = ANY
  PROVE  parser_feed(def, s, c) = a
<1> DEFINE H == {i \in 1..1 : <<a>>[i].when \in {c, ANY}}
           m == CHOOSE i \in H : \A j \in H : i <= j
<1>1. H \in SUBSET Nat /\ 1 \in H /\ \A j \in H : 1 <= j
  OBVIOUS
<1>2. parser_feed(def, s, c) = <<a>>[m]
  BY DEF parser_feed
<1> HIDE DEF H
<1>3. m = 1
  BY <1>1, FirstHit
<1> HIDE DEF m
<1> QED
  BY <1>2, <1>3

LEMMA TwoRows ==
  ASSUME NEW def, NEW s, NEW c, NEW a, NEW b, def.states[s] = <<a, b>>, b.when = ANY
  PROVE  parser_feed(def, s, c) = IF a.when \in {c, ANY} THEN a ELSE b
<1> DEFINE H == {i \in 1..2 : <<a, b>>[i].when \in {c, ANY}}
           m == CHOOSE i \in H : \A j \in H : i <= j
           k == IF a.when \in {c, ANY} THEN 1 ELSE 2
<1>1. H \in SUBSET Nat /\ k \in H /\ \A j \in H : k <= j
  OBVIOUS
<1>2. parser_feed(def, s, c) = <<a, b>>[m]
  BY DEF parser_feed
<1> HIDE DEF H
<1>3. m = k
  BY <1>1, FirstHit
<1> HIDE DEF m
<1> QED
  BY <1>2, <1>3

LEMMA ThreeRows ==
  ASSUME NEW def, NEW s, NEW c, NEW a, NEW b, NEW d, def.states[s] = <<a, b, d>>, d.when = ANY
  PROVE  parser_feed(def, s, c) = IF a.when \in {c, ANY} THEN a ELSE IF b.when \in {c, ANY} THEN b ELSE d
<1> DEFINE H == {i \in 1..3 : <<a, b, d>>[i].when \in {c, ANY}}
           m == CHOOSE i \in H : \A j \in H : i <= j
           k == IF a.when \in {c, ANY} THEN 1 ELSE IF b.when \in {c, ANY} THEN 2 ELSE 3
<1>1. H \in SUBSET Nat /\ k \in H /\ \A j \in H : k <= j
  OBVIOUS
<1>2. parser_feed(def, s, c) = <<a, b, d>>[m]
  BY DEF parser_feed
<1> HIDE DEF H
<1>3. m = k
  BY <1>1, FirstHit
<1> HIDE DEF m
<1> QED
  BY <1>2, <1>3

\* pop3_command_parser.c, state by state.
CommandRow(s, c) ==
  CASE s = "KWRD" -> IF c = "sp" THEN T("sp", "ARG", "HAS_ARGS")
                     ELSE IF c = "cr" THEN T("cr", "CR", "IGNORE") ELSE T(ANY, "KWRD", "BUFFER_CMD")
    [] s = "ARG"  -> IF c = "cr" THEN T("cr", "CR", "IGNORE") ELSE T(ANY, "ARG", "IGNORE")
    [] s = "CR"   -> IF c = "lf" THEN T("lf", "CRLF", "SET_CMD") ELSE T(ANY, "ERR", "BAD_CMD")

LEMMA CommandTable ==
  ASSUME NEW s \in {"KWRD", "ARG", "CR"}, NEW c \in Bytes
  PROVE  parser_feed(pop3_command_definition, s, c) = CommandRow(s, c)
<1>1. c # ANY
  BY DEF Bytes, ANY
<1>2. CASE s = "KWRD"
  <2>1. pop3_command_definition.states[s] = <<T("sp", "ARG", "HAS_ARGS"), T("cr", "CR", "IGNORE"), T(ANY, "KWRD", "BUFFER_CMD")>>
    BY <1>2 DEF pop3_command_definition, ST_KWRD
  <2>2. T("sp", "ARG", "HAS_ARGS").when = "sp" /\ T("cr", "CR", "IGNORE").when = "cr" /\ T(ANY, "KWRD", "BUFFER_CMD").when = ANY
    BY DEF T
  <2>3. "sp" # ANY /\ "cr" # ANY
    BY DEF ANY
  <2> QED
    BY <1>1, <1>2, <2>1, <2>2, <2>3, ThreeRows DEF CommandRow
<1>3. CASE s = "ARG"
  <2>1. pop3_command_definition.states[s] = <<T("cr", "CR", "IGNORE"), T(ANY, "ARG", "IGNORE")>>
    BY <1>3 DEF pop3_command_definition, ST_ARG
  <2>2. T("cr", "CR", "IGNORE").when = "cr" /\ T(ANY, "ARG", "IGNORE").when = ANY /\ "cr" # ANY
    BY DEF T, ANY
  <2> QED
    BY <1>1, <1>3, <2>1, <2>2, TwoRows DEF CommandRow
<1>4. CASE s = "CR"
  <2>1. pop3_command_definition.states[s] = <<T("lf", "CRLF", "SET_CMD"), T(ANY, "ERR", "BAD_CMD")>>
    BY <1>4 DEF pop3_command_definition, ST_CMD_CR
  <2>2. T("lf", "CRLF", "SET_CMD").when = "lf" /\ T(ANY, "ERR", "BAD_CMD").when = ANY /\ "lf" # ANY
    BY DEF T, ANY
  <2> QED
    BY <1>1, <1>4, <2>1, <2>2, TwoRows DEF CommandRow
<1> QED
  BY <1>2, <1>3, <1>4

------------------------------------------------------------------------------
(* Steps and texts.                                                          *)

TextTyped == kind \in Kinds /\ text \in Seq(Bytes)

\* A step of a builder: the text with one more byte.
LEMMA Feeding ==
  ASSUME TextTyped, NEW k, NEW c \in Bytes, feed(k, c)
  PROVE  /\ kind = k /\ verdict = "BUILDING" /\ kind' = kind /\ text' \in Seq(Bytes)
         /\ Len(text) \in Nat /\ Len(text') = Len(text) + 1
         /\ \A i \in 1..Len(text) : text'[i] = text[i]
         /\ text'[Len(text) + 1] = c
<1>1. text \in Seq(Bytes) /\ text' = Append(text, c)
  BY DEF TextTyped, feed
<1>2. kind = k /\ verdict = "BUILDING" /\ kind' = kind
  BY DEF feed
<1>3. Len(text) \in Nat
  BY <1>1
<1>4. /\ Append(text, c) \in Seq(Bytes) /\ Len(Append(text, c)) = Len(text) + 1
      /\ \A i \in 1..Len(text) : Append(text, c)[i] = text[i]
      /\ Append(text, c)[Len(text) + 1] = c
  BY <1>1, AppendProperties
<1> QED
  BY <1>1, <1>2, <1>3, <1>4

\* The bytes of the alphabet are bytes.
LEMMA BytesFed ==
  ASSUME TextTyped, NEW c \in Alphabet[kind]
  PROVE  c \in Bytes
  BY AlphabetAssumption DEF TextTyped

------------------------------------------------------------------------------
(* command_builder.                                                          *)

Stops == {"sp", "cr"}

\* What the keyword is, by the text: its first stop, if any, is at k + 1.
LEMMA KeywordLengthIs ==
  ASSUME TextTyped, NEW k \in 0..Len(text), \A i \in 1..k : text[i] \notin Stops,
         k = Len(text) \/ text[k + 1] \in Stops
  PROVE  KeywordLength = k
<1> DEFINE S == {i \in 1..Fed : text[i] \in {"sp", "cr"}}
           x == CHOOSE i \in S : \A j \in S : i <= j
<1>1. Fed = Len(text) /\ Len(text) \in Nat
  BY DEF Fed, TextTyped
<1>2. KeywordLength = IF S = {} THEN Fed ELSE x - 1
  BY DEF KeywordLength, First
<1>3. CASE k = Len(text)
  <2>1. S = {}
    BY <1>1, <1>3 DEF Stops
  <2> QED
    BY <1>1, <1>2, <1>3, <2>1
<1>4. CASE k # Len(text)
  <2>1. S \in SUBSET Nat /\ k + 1 \in S /\ \A j \in S : k + 1 <= j
    BY <1>1, <1>4 DEF Stops
  <2> HIDE DEF S
  <2>2. x = k + 1
    BY <2>1, FirstHit
  <2> HIDE DEF x
  <2> QED
    BY <1>1, <1>2, <2>1, <2>2
<1> QED
  BY <1>3, <1>4

\* Where the first carriage return is.
LEMMA FirstCRIs ==
  ASSUME TextTyped, NEW k \in 1..Len(text), \A i \in 1..(k - 1) : text[i] # "cr", text[k] = "cr"
  PROVE  FirstCR = k
<1> DEFINE S == {i \in 1..Fed : text[i] = "cr"}
           x == CHOOSE i \in S : \A j \in S : i <= j
<1>1. Fed = Len(text) /\ Len(text) \in Nat
  BY DEF Fed, TextTyped
<1>2. FirstCR = IF S = {} THEN 0 ELSE x
  BY DEF FirstCR, First
<1>3. S \in SUBSET Nat /\ k \in S /\ \A j \in S : k <= j
  BY <1>1
<1> HIDE DEF S
<1>4. x = k
  BY <1>3, FirstHit
<1> HIDE DEF x
<1> QED
  BY <1>2, <1>3, <1>4

LEMMA NoCR ==
  ASSUME \A i \in 1..Len(text) : text[i] # "cr"
  PROVE  FirstCR = 0
<1> DEFINE S == {i \in 1..Fed : text[i] = "cr"}
<1>1. S = {}
  BY DEF Fed
<1> QED
  BY <1>1 DEF FirstCR

\* The text the states of pop3_command_parser.c stand for.  The first kwrd_ptr bytes
\* are the keyword; in KWRD it goes on to the end, unless it is one byte too long.
InKeyword ==
  /\ state = "KWRD" /\ \A i \in 1..Len(text) : text[i] \notin Stops
  /\ has_args = FALSE
  /\ \/ verdict = "BUILDING" /\ kwrd_ptr = Len(text)
     \/ verdict = "BUILD_FAILED" /\ kwrd_ptr = 4 /\ Len(text) = 5

PastKeyword ==
  /\ kwrd_ptr < Len(text) /\ text[kwrd_ptr + 1] \in Stops
  /\ \A i \in 1..kwrd_ptr : text[i] \notin Stops
  /\ has_args = (text[kwrd_ptr + 1] = "sp")
  /\ \/ state = "ARG" /\ verdict = "BUILDING" /\ \A i \in 1..Len(text) : text[i] # "cr"
     \/ /\ state = "CR" /\ verdict = "BUILDING"
        /\ text[Len(text)] = "cr" /\ \A i \in 1..(Len(text) - 1) : text[i] # "cr"
     \/ /\ Len(text) > 1 /\ text[Len(text) - 1] = "cr" /\ \A i \in 1..(Len(text) - 2) : text[i] # "cr"
        /\ kwrd_ptr < Len(text) - 1
        /\ \/ state = "CRLF" /\ verdict = "BUILD_FINISHED" /\ text[Len(text)] = "lf"
           \/ state = "ERR" /\ verdict = "BUILD_FAILED" /\ text[Len(text)] # "lf"

CommandInv == kind = "command" => kwrd_ptr \in 0..4 /\ (InKeyword \/ PastKeyword)

LEMMA CommandStep ==
  ASSUME TextTyped, CommandInv, NEW c \in Bytes, command_builder(c)
  PROVE  CommandInv'
<1> DEFINE n == Len(text)
           row == CommandRow(state, c)
<1>1. /\ kind = "command" /\ verdict = "BUILDING" /\ n \in Nat /\ Len(text') = n + 1
      /\ \A i \in 1..n : text'[i] = text[i]
      /\ text'[n + 1] = c
  BY Feeding DEF command_builder
<1>2. kwrd_ptr \in 0..4 /\ (InKeyword \/ PastKeyword)
  BY <1>1 DEF CommandInv
<1>3. state \in {"KWRD", "ARG", "CR"}
  BY <1>1, <1>2 DEF InKeyword, PastKeyword
<1>4. parser_feed(pop3_command_definition, state, c) = row
  BY <1>3, CommandTable
<1>5. /\ state' = row.dest
      /\ kwrd_ptr' = IF row.event = "BUFFER_CMD" /\ ~(kwrd_ptr >= 4) THEN kwrd_ptr + 1 ELSE kwrd_ptr
      /\ has_args' = (has_args \/ row.event = "HAS_ARGS")
      /\ verdict' = IF (row.event = "BUFFER_CMD" /\ kwrd_ptr >= 4) \/ row.event = "BAD_CMD" THEN "BUILD_FAILED"
                    ELSE IF row.event = "SET_CMD" THEN "BUILD_FINISHED" ELSE "BUILDING"
  BY <1>4 DEF command_builder, feed, Definition, set_next_fails, MAX_KEYWORD_LENGTH
<1>6. CASE state = "KWRD"
  <2>1. InKeyword /\ kwrd_ptr = n
    BY <1>1, <1>2, <1>6 DEF InKeyword, PastKeyword
  <2>2. CASE c \notin Stops
    <3>1. row.dest = "KWRD" /\ row.event = "BUFFER_CMD"
      BY <1>6, <2>2 DEF CommandRow, T, Stops
    <3>2. \A i \in 1..(n + 1) : text'[i] \notin Stops
      BY <1>1, <2>1, <2>2 DEF InKeyword
    <3>3. has_args' = FALSE
      BY <1>5, <2>1, <3>1 DEF InKeyword
    <3>4. \/ verdict' = "BUILDING" /\ kwrd_ptr' = n + 1 /\ kwrd_ptr' \in 0..4
          \/ verdict' = "BUILD_FAILED" /\ kwrd_ptr' = 4 /\ n + 1 = 5
      BY <1>1, <1>2, <1>5, <2>1, <3>1
    <3> QED
      BY <1>1, <1>5, <3>1, <3>2, <3>3, <3>4 DEF CommandInv, InKeyword
  <2>3. CASE c \in Stops
    <3>1. kwrd_ptr' = n /\ verdict' = "BUILDING" /\ state' = (IF c = "sp" THEN "ARG" ELSE "CR")
      BY <1>5, <1>6, <2>1, <2>3 DEF CommandRow, T, Stops
    <3>2. has_args' = (c = "sp")
      BY <1>5, <1>6, <2>1, <2>3 DEF CommandRow, T, Stops, InKeyword
    <3>3. \A i \in 1..n : text'[i] \notin Stops /\ text'[i] # "cr"
      BY <1>1, <2>1 DEF InKeyword, Stops
    <3>4. n < n + 1 /\ (n + 1) - 1 = n
      BY <1>1
    <3>5. c = "sp" => \A i \in 1..(n + 1) : text'[i] # "cr"
      BY <1>1, <3>3
    <3>6. PastKeyword'
      BY <1>1, <2>3, <3>1, <3>2, <3>3, <3>4, <3>5 DEF PastKeyword, Stops
    <3> QED
      BY <1>2, <2>1, <3>1, <3>6 DEF CommandInv
  <2> QED
    BY <2>2, <2>3
<1>7. CASE state \in {"ARG", "CR"}
  <2>1. PastKeyword /\ kwrd_ptr < n
    BY <1>2, <1>7 DEF InKeyword, PastKeyword
  <2>2. row.event \notin {"BUFFER_CMD", "HAS_ARGS"}
    BY <1>7 DEF CommandRow, T
  <2>3. kwrd_ptr' = kwrd_ptr /\ has_args' = has_args
    BY <1>5, <2>1, <2>2 DEF PastKeyword
  <2>4. /\ kwrd_ptr' < n + 1 /\ text'[kwrd_ptr' + 1] = text[kwrd_ptr + 1]
        /\ \A i \in 1..kwrd_ptr' : text'[i] = text[i]
    BY <1>1, <1>2, <2>1, <2>3
  <2>5. (n + 1) - 1 = n /\ (n + 1) - 2 = n - 1
    BY <1>1
  <2>6. CASE state = "ARG"
    <3>1. verdict' = "BUILDING" /\ state' = (IF c = "cr" THEN "CR" ELSE "ARG")
      BY <1>5, <2>6 DEF CommandRow, T
    <3>2. \A i \in 1..n : text'[i] # "cr"
      BY <1>1, <2>1, <2>6 DEF PastKeyword
    <3>3. c # "cr" => \A i \in 1..(n + 1) : text'[i] # "cr"
      BY <1>1, <3>2
    <3>4. PastKeyword'
      BY <1>1, <2>1, <2>3, <2>4, <2>5, <3>1, <3>2, <3>3 DEF PastKeyword
    <3> QED
      BY <1>2, <2>3, <3>4 DEF CommandInv
  <2>7. CASE state = "CR"
    <3>1. \/ state' = "CRLF" /\ verdict' = "BUILD_FINISHED" /\ c = "lf"
          \/ state' = "ERR" /\ verdict' = "BUILD_FAILED" /\ c # "lf"
      BY <1>5, <2>7 DEF CommandRow, T
    <3>2. text[n] = "cr" /\ \A i \in 1..(n - 1) : text[i] # "cr"
      BY <2>1, <2>7 DEF PastKeyword
    <3>3. n >= 1 /\ text'[n] = "cr" /\ \A i \in 1..(n - 1) : text'[i] # "cr"
      BY <1>1, <1>2, <2>1, <3>2
    <3>4. PastKeyword'
      BY <1>1, <2>1, <2>3, <2>4, <2>5, <3>1, <3>3 DEF PastKeyword
    <3> QED
      BY <1>2, <2>3, <3>4 DEF CommandInv
  <2> QED
    BY <1>7, <2>6, <2>7
<1> QED
  BY <1>3, <1>6, <1>7

\* In each state the text gives the verdict.
LEMMA CommandJudged == TextTyped /\ CommandInv => CommandVerdict
<1> SUFFICES ASSUME TextTyped, CommandInv, kind = "command" PROVE CommandVerdict
  BY DEF CommandVerdict
<1>1. Fed = Len(text) /\ Len(text) \in Nat /\ kwrd_ptr \in 0..4 /\ MAX_KEYWORD_LENGTH = 4
  BY DEF Fed, TextTyped, CommandInv, MAX_KEYWORD_LENGTH
<1>2. CASE InKeyword
  <2>1. KeywordLength = Len(text)
    <3>1. Len(text) \in 0..Len(text)
      BY <1>1
    <3> QED
      BY <1>2, <3>1, KeywordLengthIs DEF InKeyword
  <2>2. FirstCR = 0
    BY <1>2, NoCR DEF InKeyword, Stops
  <2>3. ~At(KeywordLength + 1, "sp")
    BY <1>1, <2>1 DEF At
  <2>4. has_args = FALSE
    BY <1>2 DEF InKeyword
  <2>5. CASE verdict = "BUILDING" /\ kwrd_ptr = Len(text)
    BY <1>1, <2>1, <2>2, <2>3, <2>4, <2>5 DEF CommandVerdict
  <2>6. CASE verdict = "BUILD_FAILED" /\ kwrd_ptr = 4 /\ Len(text) = 5
    BY <1>1, <2>1, <2>2, <2>3, <2>4, <2>6 DEF CommandVerdict
  <2> QED
    BY <1>2, <2>5, <2>6 DEF InKeyword
<1>3. CASE PastKeyword
  <2>1. KeywordLength = kwrd_ptr
    <3>1. kwrd_ptr \in 0..Len(text)
      BY <1>1, <1>3 DEF PastKeyword
    <3> QED
      BY <1>3, <3>1, KeywordLengthIs DEF PastKeyword
  <2>2. At(KeywordLength + 1, "sp") <=> text[kwrd_ptr + 1] = "sp"
    BY <1>1, <1>3, <2>1 DEF At, PastKeyword
  <2>3. has_args <=> At(KeywordLength + 1, "sp")
    BY <1>3, <2>2, Zenon DEF PastKeyword
  <2>4. KeywordLength <= 4 /\ ~(KeywordLength > 4)
    BY <1>1, <2>1
  <2>5. CASE state = "ARG" /\ verdict = "BUILDING" /\ \A i \in 1..Len(text) : text[i] # "cr"
    <3>1. FirstCR = 0
      BY <2>5, NoCR
    <3> QED
      BY <1>1, <2>1, <2>3, <2>4, <2>5, <3>1 DEF CommandVerdict
  <2>6. CASE /\ state = "CR" /\ verdict = "BUILDING"
             /\ text[Len(text)] = "cr" /\ \A i \in 1..(Len(text) - 1) : text[i] # "cr"
    <3>1. Len(text) \in 1..Len(text)
      BY <1>1, <1>3 DEF PastKeyword
    <3>2. FirstCR = Len(text)
      BY <2>6, <3>1, FirstCRIs
    <3> QED
      BY <1>1, <2>1, <2>3, <2>4, <2>6, <3>2 DEF CommandVerdict
  <2>7. CASE /\ Len(text) > 1 /\ text[Len(text) - 1] = "cr"
             /\ \A i \in 1..(Len(text) - 2) : text[i] # "cr"
             /\ \/ state = "CRLF" /\ verdict = "BUILD_FINISHED" /\ text[Len(text)] = "lf"
                \/ state = "ERR" /\ verdict = "BUILD_FAILED" /\ text[Len(text)] # "lf"
    <3>1. Len(text) - 1 \in 1..Len(text) /\ (Len(text) - 1) - 1 = Len(text) - 2
      BY <1>1, <2>7
    <3>2. FirstCR = Len(text) - 1
      BY <2>7, <3>1, FirstCRIs
    <3>3. At(FirstCR + 1, "lf") <=> text[Len(text)] = "lf"
      BY <1>1, <2>7, <3>2 DEF At
    <3>4. At(Fed, "lf") <=> text[Len(text)] = "lf"
      BY <1>1, <2>7 DEF At
    <3> QED
      BY <1>1, <2>1, <2>3, <2>4, <2>7, <3>2, <3>3, <3>4 DEF CommandVerdict
  <2> QED
    BY <1>3, <2>5, <2>6, <2>7 DEF PastKeyword
<1> QED
  BY <1>2, <1>3 DEF CommandInv

------------------------------------------------------------------------------
(* pop3_singleline_response_builder.                                         *)

\* pop3_singleline_response_parser.c, state by state.
StatusRow(s, c) ==
  CASE s = "STAT" -> IF c = "plus" THEN T("plus", "OK", "OK_RESP")
                     ELSE IF c = "minus" THEN T("minus", "ERR", "ERR_RESP") ELSE T(ANY, "TRAP", "TRAPPED")
    [] s \in {"OK", "ERR", "MSG"} -> IF c = "cr" THEN T("cr", "CR", "IGNORE") ELSE T(ANY, "MSG", "IGNORE")
    [] s = "CR" -> IF c = "lf" THEN T("lf", "CRLF", "END_SINGLELINE") ELSE T(ANY, "MSG", "IGNORE")

LEMMA StatusTable ==
  ASSUME NEW s \in {"STAT", "OK", "ERR", "MSG", "CR"}, NEW c \in Bytes
  PROVE  parser_feed(pop3_singleline_response_definition, s, c) = StatusRow(s, c)
<1>1. c # ANY
  BY DEF Bytes, ANY
<1>2. CASE s = "STAT"
  <2>1. pop3_singleline_response_definition.states[s] =
          <<T("plus", "OK", "OK_RESP"), T("minus", "ERR", "ERR_RESP"), T(ANY, "TRAP", "TRAPPED")>>
    BY <1>2 DEF pop3_singleline_response_definition, ST_STAT
  <2>2. T("plus", "OK", "OK_RESP").when = "plus" /\ T("minus", "ERR", "ERR_RESP").when = "minus" /\ T(ANY, "TRAP", "TRAPPED").when = ANY
    BY DEF T
  <2>3. "plus" # ANY /\ "minus" # ANY
    BY DEF ANY
  <2> QED
    BY <1>1, <1>2, <2>1, <2>2, <2>3, ThreeRows DEF StatusRow
<1>3. CASE s \in {"OK", "ERR", "MSG"}
  <2>1. pop3_singleline_response_definition.states[s] = <<T("cr", "CR", "IGNORE"), T(ANY, "MSG", "IGNORE")>>
    BY <1>3 DEF pop3_singleline_response_definition, ST_OK, ST_ERR, ST_MSG
  <2>2. T("cr", "CR", "IGNORE").when = "cr" /\ T(ANY, "MSG", "IGNORE").when = ANY /\ "cr" # ANY
    BY DEF T, ANY
  <2> QED
    BY <1>1, <1>3, <2>1, <2>2, TwoRows DEF StatusRow
<1>4. CASE s = "CR"
  <2>1. pop3_singleline_response_definition.states[s] = <<T("lf", "CRLF", "END_SINGLELINE"), T(ANY, "MSG", "IGNORE")>>
    BY <1>4 DEF pop3_singleline_response_definition, ST_RESP_CR
  <2>2. T("lf", "CRLF", "END_SINGLELINE").when = "lf" /\ T(ANY, "MSG", "IGNORE").when = ANY /\ "lf" # ANY
    BY DEF T, ANY
  <2> QED
    BY <1>1, <1>4, <2>1, <2>2, TwoRows DEF StatusRow
<1> QED
  BY <1>2, <1>3, <1>4

\* A carriage return that no line feed follows.
StrayCR == \E i \in 1..(Len(text) - 1) : text[i] = "cr" /\ text[i + 1] # "lf"

\* The end of a line.
LineEnd(i) == text[i] = "cr" /\ text[i + 1] = "lf"

\* The text the states of pop3_singleline_response_parser.c stand for.  CR is entered
\* from a byte that is not one, so a line end is missed only after a stray CR.
OnLine ==
  /\ text[1] \in {"plus", "minus"}
  /\ status = IF text[1] = "plus" THEN "STATUS_OK" ELSE "STATUS_ERR"
  /\ \/ /\ verdict = "BUILDING" /\ state \in {"OK", "ERR", "MSG", "CR"}
        /\ state = "CR" => text[Len(text)] = "cr"
        /\ StrayCR \/ /\ state # "CR" => text[Len(text)] # "cr"
                      /\ \A i \in 1..(Len(text) - 1) : ~LineEnd(i)
     \/ /\ verdict = "BUILD_FINISHED" /\ state = "CRLF"
        /\ Len(text) > 1 /\ LineEnd(Len(text) - 1)

StatusInv ==
  kind = "singleline" =>
    \/ text = <<>> /\ state = "STAT" /\ verdict = "BUILDING" /\ status = "none"
    \/ Len(text) > 0 /\ text[1] \notin {"plus", "minus"} /\ verdict = "BUILD_FAILED"
    \/ Len(text) > 0 /\ OnLine

LEMMA StatusStep ==
  ASSUME TextTyped, StatusInv, NEW c \in Bytes, pop3_singleline_response_builder(c)
  PROVE  StatusInv'
<1> DEFINE n == Len(text)
           row == StatusRow(state, c)
<1>1. /\ kind = "singleline" /\ verdict = "BUILDING" /\ n \in Nat /\ Len(text') = n + 1
      /\ \A i \in 1..n : text'[i] = text[i]
      /\ text'[n + 1] = c
  BY Feeding DEF pop3_singleline_response_builder
<1>2. \/ text = <<>> /\ state = "STAT" /\ status = "none"
      \/ n > 0 /\ OnLine
  BY <1>1 DEF StatusInv
<1>3. state \in {"STAT", "OK", "ERR", "MSG", "CR"}
  BY <1>1, <1>2 DEF OnLine
<1>4. parser_feed(pop3_singleline_response_definition, state, c) = row
  BY <1>3, StatusTable
<1>5. /\ state' = row.dest
      /\ status' = IF row.event = "OK_RESP" THEN "STATUS_OK"
                   ELSE IF row.event = "ERR_RESP" THEN "STATUS_ERR" ELSE status
      /\ verdict' = IF row.event = "TRAPPED" THEN "BUILD_FAILED"
                    ELSE IF row.event = "END_SINGLELINE" THEN "BUILD_FINISHED" ELSE "BUILDING"
  BY <1>4 DEF pop3_singleline_response_builder, feed, Definition
<1>6. CASE text = <<>> /\ state = "STAT"
  <2>1. n = 0 /\ Len(text') = 1 /\ text'[1] = c
    BY <1>1, <1>6
  <2>2. \/ c = "plus" /\ state' = "OK" /\ status' = "STATUS_OK" /\ verdict' = "BUILDING"
        \/ c = "minus" /\ state' = "ERR" /\ status' = "STATUS_ERR" /\ verdict' = "BUILDING"
        \/ c \notin {"plus", "minus"} /\ verdict' = "BUILD_FAILED"
    BY <1>5, <1>6 DEF StatusRow, T
  <2>3. c \in {"plus", "minus"} => OnLine'
    BY <2>1, <2>2 DEF OnLine
  <2> QED
    BY <2>1, <2>2, <2>3 DEF StatusInv
<1>7. CASE n > 0 /\ OnLine
  <2>1. /\ state \in {"OK", "ERR", "MSG", "CR"} /\ (state = "CR" => text[n] = "cr")
        /\ StrayCR \/ ((state # "CR" => text[n] # "cr") /\ \A i \in 1..(n - 1) : ~LineEnd(i))
        /\ text[1] \in {"plus", "minus"}
        /\ status = IF text[1] = "plus" THEN "STATUS_OK" ELSE "STATUS_ERR"
    BY <1>1, <1>7 DEF OnLine
  <2>2. text'[1] = text[1] /\ text'[n] = text[n] /\ n + 1 > 0 /\ (n + 1) - 1 = n /\ n \in 1..n
    BY <1>1, <1>7
  <2>3. status' = status /\ state' \in {"CR", "MSG", "CRLF"} /\ (state' = "CR" => c = "cr" /\ state # "CR")
    BY <1>5, <2>1 DEF StatusRow, T
  <2>4. CASE state = "CR" /\ c = "lf"
    <3>1. state' = "CRLF" /\ verdict' = "BUILD_FINISHED"
      BY <1>5, <2>4 DEF StatusRow, T
    <3>2. text'[n] = "cr" /\ text'[n + 1] = "lf" /\ Len(text') > 1
      BY <1>1, <1>7, <2>1, <2>2, <2>4
    <3>3. OnLine'
      BY <1>1, <2>1, <2>2, <2>3, <3>1, <3>2 DEF OnLine, LineEnd
    <3> QED
      BY <1>1, <2>2, <3>3 DEF StatusInv
  <2>5. CASE ~(state = "CR" /\ c = "lf")
    <3>1. verdict' = "BUILDING" /\ state' = (IF c = "cr" /\ state # "CR" THEN "CR" ELSE "MSG")
      BY <1>5, <2>1, <2>5 DEF StatusRow, T
    <3>2. StrayCR => StrayCR'
      <4> SUFFICES ASSUME StrayCR PROVE StrayCR'
        OBVIOUS
      <4>1. PICK i \in 1..(n - 1) : text[i] = "cr" /\ text[i + 1] # "lf"
        BY DEF StrayCR
      <4>2. i \in 1..n /\ i + 1 \in 1..n
        BY <1>1
      <4>3. text'[i] = "cr" /\ text'[i + 1] # "lf" /\ i \in 1..((n + 1) - 1)
        BY <1>1, <4>1, <4>2
      <4> QED
        BY <1>1, <4>3 DEF StrayCR
    <3>3. CASE state = "CR"
      <4>1. text'[n] = "cr" /\ text'[n + 1] # "lf" /\ n \in 1..((n + 1) - 1)
        BY <1>1, <2>1, <2>2, <2>5, <3>3
      <4>2. StrayCR'
        BY <1>1, <4>1 DEF StrayCR
      <4>3. OnLine'
        BY <1>1, <2>1, <2>2, <2>3, <3>1, <3>3, <4>2 DEF OnLine
      <4> QED
        BY <1>1, <2>2, <4>3 DEF StatusInv
    <3>4. CASE state # "CR"
      <4>1. ASSUME ~StrayCR PROVE (state' # "CR" => c # "cr") /\ \A i \in 1..n : ~LineEnd(i)'
        <5>1. text[n] # "cr" /\ \A i \in 1..(n - 1) : ~LineEnd(i)
          BY <2>1, <3>4, <4>1
        <5>2. ASSUME NEW i \in {n} PROVE ~LineEnd(i)'
          BY <2>2, <5>1 DEF LineEnd
        <5>3. ASSUME NEW i \in 1..(n - 1) PROVE ~LineEnd(i)'
          <6>1. i \in 1..n /\ i + 1 \in 1..n
            BY <1>1
          <6>2. text'[i] = text[i] /\ text'[i + 1] = text[i + 1]
            BY <1>1, <6>1
          <6> QED
            BY <5>1, <6>2 DEF LineEnd
        <5>4. \A i \in 1..n : i \in {n} \/ i \in 1..(n - 1)
          BY <1>1
        <5> QED
          BY <3>1, <3>4, <5>2, <5>3, <5>4
      <4>2. StrayCR' \/ ((state' # "CR" => text'[Len(text')] # "cr") /\ \A i \in 1..(Len(text') - 1) : ~LineEnd(i)')
        BY <1>1, <2>2, <3>2, <4>1
      <4>3. OnLine'
        BY <1>1, <2>1, <2>2, <2>3, <3>1, <4>2 DEF OnLine
      <4> QED
        BY <1>1, <2>2, <4>3 DEF StatusInv
    <3> QED
      BY <3>3, <3>4
  <2> QED
    BY <2>4, <2>5
<1> QED
  BY <1>2, <1>6, <1>7

\* The bytes of w are in the text after its first i.
HasAt(w, i) == \A j \in 1..Len(w) : text[i + j] = w[j]

LEMMA IsPiece ==
  ASSUME TextTyped, NEW w \in Seq(Bytes), NEW i \in Nat, i + Len(w) <= Len(text)
  PROVE  SubSeq(text, i + 1, i + Len(w)) = w <=> HasAt(w, i)
<1> DEFINE m == i + 1
           n == i + Len(w)
           p == SubSeq(text, m, n)
<1>1. text \in Seq(Bytes) /\ Len(text) \in Nat /\ Len(w) \in Nat
  BY DEF TextTyped
<1>2. m \in 1..Len(text) + 1 /\ n \in (m - 1)..Len(text)
  BY <1>1
<1>3. n - m + 1 = Len(w) /\ (IF m <= n THEN n - m + 1 ELSE 0) = Len(w) /\ m \in Nat
  BY <1>1
<1>4. \A j \in 1..Len(w) : m + j - 1 = i + j
  BY <1>1
<1> HIDE DEF m, n
<1>5. /\ p \in Seq(Bytes) /\ Len(p) = (IF m <= n THEN n - m + 1 ELSE 0)
      /\ \A j \in 1..(n - m + 1) : p[j] = text[m + j - 1]
  BY <1>1, <1>2, SubSeqProperties
<1> HIDE DEF p
<1>6. p \in Seq(Bytes) /\ Len(p) = Len(w) /\ \A j \in 1..Len(w) : p[j] = text[i + j]
  BY <1>3, <1>4, <1>5
<1>7. p = w <=> \A j \in 1..Len(w) : p[j] = w[j]
  BY <1>6, SeqEqual
<1>8. p = w <=> HasAt(w, i)
  BY <1>6, <1>7 DEF HasAt
<1> QED
  BY <1>8 DEF p, m, n

LEMMA Pieces ==
  ASSUME TextTyped, NEW w \in Seq(Bytes)
  PROVE  /\ EndsWith(w) <=> Len(text) >= Len(w) /\ HasAt(w, Len(text) - Len(w))
         /\ Contains(w) <=> \E i \in 0..(Len(text) - Len(w)) : HasAt(w, i)
<1>1. Fed = Len(text) /\ Len(text) \in Nat /\ Len(w) \in Nat
  BY DEF Fed, TextTyped
<1>2. ASSUME NEW i \in 0..(Len(text) - Len(w)) PROVE SubSeq(text, i + 1, i + Len(w)) = w <=> HasAt(w, i)
  <2>1. i \in Nat /\ i + Len(w) <= Len(text)
    BY <1>1
  <2> QED
    BY <2>1, IsPiece
<1>3. Contains(w) <=> \E i \in 0..(Len(text) - Len(w)) : HasAt(w, i)
  BY <1>1, <1>2 DEF Contains
<1>4. EndsWith(w) <=> Len(text) >= Len(w) /\ HasAt(w, Len(text) - Len(w))
  <2>1. CASE Len(text) >= Len(w)
    <3> DEFINE k == Len(text) - Len(w)
    <3>1. k \in 0..(Len(text) - Len(w)) /\ k + Len(w) = Len(text)
      BY <1>1, <2>1
    <3>2. SubSeq(text, k + 1, k + Len(w)) = w <=> HasAt(w, k)
      BY <1>2, <3>1
    <3>3. EndsWith(w) <=> SubSeq(text, k + 1, k + Len(w)) = w
      BY <1>1, <2>1, <3>1 DEF EndsWith
    <3> QED
      BY <2>1, <3>2, <3>3
  <2>2. CASE ~(Len(text) >= Len(w))
    BY <1>1, <2>2 DEF EndsWith
  <2> QED
    BY <2>1, <2>2
<1> QED
  BY <1>3, <1>4

\* Every line end of the text is a piece of it.
LEMMA LineEnds ==
  ASSUME TextTyped
  PROVE  /\ EndsWith(<<"cr", "lf">>) <=> Len(text) > 1 /\ LineEnd(Len(text) - 1)
         /\ Contains(<<"cr", "lf">>) <=> \E i \in 1..(Len(text) - 1) : LineEnd(i)
<1> DEFINE w == <<"cr", "lf">>
<1>1. Len(text) \in Nat
  BY DEF TextTyped
<1>2. w \in Seq(Bytes) /\ Len(w) = 2 /\ w[1] = "cr" /\ w[2] = "lf"
  BY DEF Bytes
<1> HIDE DEF w
<1>3. ASSUME NEW i \in Int PROVE HasAt(w, i) <=> LineEnd(i + 1)
  <2>1. (i + 1) + 1 = i + 2 /\ 1..2 = {1, 2}
    OBVIOUS
  <2>2. HasAt(w, i) <=> \A j \in {1, 2} : text[i + j] = w[j]
    BY <1>2, <2>1 DEF HasAt
  <2> QED
    BY <1>2, <2>1, <2>2 DEF LineEnd
<1>4. EndsWith(w) <=> Len(text) > 1 /\ LineEnd(Len(text) - 1)
  <2>1. Len(text) - 2 \in Int /\ (Len(text) - 2) + 1 = Len(text) - 1 /\ (Len(text) >= 2 <=> Len(text) > 1)
    BY <1>1
  <2>2. EndsWith(w) <=> Len(text) >= 2 /\ HasAt(w, Len(text) - 2)
    BY <1>2, Pieces
  <2> QED
    BY <1>3, <2>1, <2>2
<1>5. Contains(w) <=> \E i \in 0..(Len(text) - 2) : LineEnd(i + 1)
  <2>1. Contains(w) <=> \E i \in 0..(Len(text) - 2) : HasAt(w, i)
    BY <1>2, Pieces
  <2>2. \A i \in 0..(Len(text) - 2) : i \in Int
    BY <1>1
  <2> QED
    BY <1>3, <2>1, <2>2
<1>6. (\E i \in 0..(Len(text) - 2) : LineEnd(i + 1)) <=> \E i \in 1..(Len(text) - 1) : LineEnd(i)
  <2>1. ASSUME NEW i \in 0..(Len(text) - 2), LineEnd(i + 1) PROVE \E j \in 1..(Len(text) - 1) : LineEnd(j)
    <3>1. i + 1 \in 1..(Len(text) - 1)
      BY <1>1
    <3> QED
      BY <2>1, <3>1
  <2>2. ASSUME NEW j \in 1..(Len(text) - 1), LineEnd(j) PROVE \E i \in 0..(Len(text) - 2) : LineEnd(i + 1)
    <3>1. j - 1 \in 0..(Len(text) - 2) /\ (j - 1) + 1 = j
      BY <1>1
    <3> QED
      BY <2>2, <3>1
  <2> QED
    BY <2>1, <2>2
<1> QED
  BY <1>4, <1>5, <1>6 DEF w

LEMMA StrayIsMalformed == TextTyped /\ StrayCR => ~WellFormed
<1> SUFFICES ASSUME TextTyped, StrayCR PROVE ~WellFormed
  OBVIOUS
<1>1. Len(text) \in Nat /\ Fed = Len(text)
  BY DEF TextTyped, Fed
<1>2. PICK i \in 1..(Len(text) - 1) : text[i] = "cr" /\ text[i + 1] # "lf"
  BY DEF StrayCR
<1>3. i \in 1..Fed /\ i < Fed /\ ~At(i + 1, "lf")
  BY <1>1, <1>2 DEF At
<1> QED
  BY <1>2, <1>3 DEF WellFormed

LEMMA StatusJudged == TextTyped /\ StatusInv => StatusLineVerdict
<1> SUFFICES ASSUME TextTyped, StatusInv, kind = "singleline", Fed > 0 PROVE StatusLineVerdict
  BY DEF StatusLineVerdict
<1>1. Len(text) \in Nat /\ Fed = Len(text) /\ Len(text) > 0 /\ text # <<>>
  BY DEF TextTyped, Fed
<1>2. CASE text[1] \notin {"plus", "minus"} /\ verdict = "BUILD_FAILED"
  BY <1>2 DEF StatusLineVerdict
<1>3. CASE OnLine
  <2>1. text[1] \in {"plus", "minus"} /\ (status = "STATUS_OK" <=> text[1] = "plus") /\ verdict # "BUILD_FAILED"
    BY <1>3 DEF OnLine
  <2>2. verdict = "BUILD_FINISHED" => EndsWith(<<"cr", "lf">>)
    BY <1>3, LineEnds DEF OnLine
  <2>3. WellFormed /\ Contains(<<"cr", "lf">>) => verdict # "BUILDING"
    <3> SUFFICES ASSUME WellFormed, Contains(<<"cr", "lf">>), verdict = "BUILDING" PROVE FALSE
      OBVIOUS
    <3>1. ~StrayCR
      BY StrayIsMalformed
    <3>2. \A i \in 1..(Len(text) - 1) : ~LineEnd(i)
      BY <1>3, <3>1 DEF OnLine
    <3> QED
      BY <3>2, LineEnds
  <2> QED
    BY <2>1, <2>2, <2>3 DEF StatusLineVerdict
<1> QED
  BY <1>1, <1>2, <1>3 DEF StatusInv

------------------------------------------------------------------------------
(* pop3_multiline_response_checker.                                          *)

\* pop3_multiline_response_parser.c, state by state: the byte that leads on, the
\* state it leads to, and the data in the middle of a line for any other.
Onward(s) == CASE s = "DOT_DATA" -> "cr" [] s = "CR" -> "lf" [] s = "CRLF" -> "dot"
               [] s = "CRLFDOT" -> "cr" [] s = "CRLFDOTCR" -> "lf"
Further(s) == CASE s = "DOT_DATA" -> "CR" [] s = "CR" -> "CRLF" [] s = "CRLF" -> "CRLFDOT"
                [] s = "CRLFDOT" -> "CRLFDOTCR" [] s = "CRLFDOTCR" -> "CRLFDOTCRLF"
InData == {"DOT_DATA", "CR", "CRLF", "CRLFDOT", "CRLFDOTCR"}

LEMMA MultilineTable ==
  ASSUME NEW s \in InData, NEW c \in Bytes
  PROVE  /\ parser_feed(pop3_multiline_response_definition, s, c).dest = IF c = Onward(s) THEN Further(s) ELSE "DOT_DATA"
         /\ parser_feed(pop3_multiline_response_definition, s, c).next =
              IF s = "CRLFDOTCR" /\ c = "lf" THEN "DAT_STUFFED_END" ELSE ""
         /\ parser_feed(pop3_multiline_response_definition, s, c).event = "DAT_STUFFED"
<1> DEFINE a == IF s = "CRLFDOTCR" THEN T2("lf", "CRLFDOTCRLF", "DAT_STUFFED", "DAT_STUFFED_END")
                ELSE T(Onward(s), Further(s), "DAT_STUFFED")
           b == T(ANY, "DOT_DATA", "DAT_STUFFED")
<1>1. c # ANY /\ Onward(s) # ANY
  BY DEF Bytes, ANY, Onward, InData
<1>2. pop3_multiline_response_definition.states[s] = <<a, b>>
  BY DEF pop3_multiline_response_definition, ST_DOT_DATA, ST_DAT_CR, ST_DAT_CRLF, ST_CRLFDOT, ST_CRLFDOTCR,
         Onward, Further, InData
<1>3. a.when = Onward(s) /\ a.dest = Further(s) /\ a.next = (IF s = "CRLFDOTCR" THEN "DAT_STUFFED_END" ELSE "")
      /\ a.event = "DAT_STUFFED"
  BY DEF T, T2, Onward, Further, InData
<1>4. b.when = ANY /\ b.dest = "DOT_DATA" /\ b.next = "" /\ b.event = "DAT_STUFFED"
  BY DEF T
<1> HIDE DEF a, b
<1>5. parser_feed(pop3_multiline_response_definition, s, c) = IF a.when \in {c, ANY} THEN a ELSE b
  <2> DEFINE def == pop3_multiline_response_definition
  <2>1. b.when = ANY /\ def.states[s] = <<a, b>>
    BY <1>2, <1>4
  <2> HIDE DEF def
  <2>2. parser_feed(def, s, c) = IF a.when \in {c, ANY} THEN a ELSE b
    BY <2>1, TwoRows
  <2> QED
    BY <2>2 DEF def
<1>6. s = "CRLFDOTCR" => Onward(s) = "lf"
  BY DEF Onward
<1> QED
  BY <1>1, <1>3, <1>4, <1>5, <1>6

\* The byte k before the last.
Back(k, b) == k < Len(text) /\ text[Len(text) - k] = b

EndsCRLF  == Back(1, "cr") /\ Back(0, "lf")
EndsDot   == Back(2, "cr") /\ Back(1, "lf") /\ Back(0, "dot")
EndsDotCR == Back(3, "cr") /\ Back(2, "lf") /\ Back(1, "dot") /\ Back(0, "cr")
EndsFinal == Back(4, "cr") /\ Back(3, "lf") /\ Back(2, "dot") /\ Back(1, "cr") /\ Back(0, "lf")

\* The final dot on a line of its own, after the first i bytes.
FinalAt(i) ==
  /\ text[i + 1] = "cr" /\ text[i + 2] = "lf" /\ text[i + 3] = "dot"
  /\ text[i + 4] = "cr" /\ text[i + 5] = "lf"

\* What a well-formed reply without blank lines does not have.
StrayLF   == \E i \in 1..Len(text) : text[i] = "lf" /\ (i = 1 \/ text[i - 1] # "cr")
BlankAt(i) == text[i + 1] = "cr" /\ text[i + 2] = "lf" /\ text[i + 3] = "cr" /\ text[i + 4] = "lf"
Irregular == StrayCR \/ StrayLF \/ \E i \in 0..(Len(text) - 4) : BlankAt(i)

\* The text the states of pop3_multiline_response_parser.c stand for.  Each state
\* has seen its bytes; and as long as the reply is regular, the state of plain data
\* has not missed the start of an end, but after an empty line.
InReply ==
  /\ state \in InData \cup {"CRLFDOTCRLF"}
  /\ verdict = IF state = "CRLFDOTCRLF" THEN "BUILD_FINISHED" ELSE "BUILDING"
  /\ state = "CR" => Back(0, "cr")
  /\ state = "CRLF" => EndsCRLF
  /\ state = "CRLFDOT" => EndsDot
  /\ state = "CRLFDOTCR" => EndsDotCR
  /\ state = "CRLFDOTCRLF" => EndsFinal
  /\ \/ Irregular
     \/ /\ state = "DOT_DATA" => ~EndsCRLF /\ ~EndsDot /\ (Back(0, "cr") => Back(1, "lf"))
        /\ state = "CR" => ~EndsDotCR
        /\ state # "CRLFDOTCRLF" => \A i \in 0..(Len(text) - 5) : ~FinalAt(i)

MultilineInv ==
  kind = "multiline" =>
    \/ text = <<>> /\ state = "CRLFDOT" /\ verdict = "BUILDING"
    \/ Len(text) > 0 /\ InReply

\* The text with one more byte, seen from its end.
LEMMA BackStep ==
  ASSUME TextTyped, NEW k, NEW c \in Bytes, feed(k, c)
  PROVE  /\ \A b : Back(0, b)' <=> b = c
         /\ \A b : Back(1, b)' <=> Back(0, b)
         /\ \A b : Back(2, b)' <=> Back(1, b)
         /\ \A b : Back(3, b)' <=> Back(2, b)
         /\ \A b : Back(4, b)' <=> Back(3, b)
<1> DEFINE n == Len(text)
<1>1. n \in Nat /\ Len(text') = n + 1 /\ text'[n + 1] = c /\ \A i \in 1..n : text'[i] = text[i]
  BY Feeding
<1>2. \A b : Back(0, b)' <=> b = c
  <2>1. 0 < n + 1 /\ (n + 1) - 0 = n + 1
    BY <1>1
  <2> QED
    BY <1>1, <2>1 DEF Back
<1>3. ASSUME NEW j \in 0..3, NEW b PROVE (j + 1 < Len(text') /\ text'[Len(text') - (j + 1)] = b) <=> Back(j, b)
  <2>1. (j + 1 < n + 1 <=> j < n) /\ (n + 1) - (j + 1) = n - j /\ (j < n => n - j \in 1..n)
    BY <1>1
  <2>2. j < n => text'[n - j] = text[n - j]
    BY <1>1, <2>1
  <2> QED
    BY <1>1, <2>1, <2>2 DEF Back
<1>4. 0 \in 0..3 /\ 1 \in 0..3 /\ 2 \in 0..3 /\ 3 \in 0..3 /\ 0 + 1 = 1 /\ 1 + 1 = 2 /\ 2 + 1 = 3 /\ 3 + 1 = 4
  OBVIOUS
<1>5. \A b : Back(1, b)' <=> Back(0, b)
  BY <1>3, <1>4 DEF Back
<1>6. \A b : Back(2, b)' <=> Back(1, b)
  BY <1>3, <1>4 DEF Back
<1>7. \A b : Back(3, b)' <=> Back(2, b)
  BY <1>3, <1>4 DEF Back
<1>8. \A b : Back(4, b)' <=> Back(3, b)
  BY <1>3, <1>4 DEF Back
<1> QED
  BY <1>2, <1>5, <1>6, <1>7, <1>8

\* What is irregular stays so.
LEMMA IrregularStays ==
  ASSUME TextTyped, NEW k, NEW c \in Bytes, feed(k, c), Irregular
  PROVE  Irregular'
<1> DEFINE n == Len(text)
<1>1. n \in Nat /\ Len(text') = n + 1 /\ \A i \in 1..n : text'[i] = text[i]
  BY Feeding
<1>2. CASE StrayCR
  <2>1. PICK i \in 1..(n - 1) : text[i] = "cr" /\ text[i + 1] # "lf"
    BY <1>2 DEF StrayCR
  <2>2. i \in 1..n /\ i + 1 \in 1..n /\ i \in 1..((n + 1) - 1)
    BY <1>1
  <2>3. text'[i] = "cr" /\ text'[i + 1] # "lf"
    BY <1>1, <2>1, <2>2
  <2> QED
    BY <1>1, <2>2, <2>3 DEF Irregular, StrayCR
<1>3. CASE StrayLF
  <2>1. PICK i \in 1..n : text[i] = "lf" /\ (i = 1 \/ text[i - 1] # "cr")
    BY <1>3 DEF StrayLF
  <2>2. i \in 1..(n + 1) /\ (i = 1 \/ i - 1 \in 1..n)
    BY <1>1
  <2>3. text'[i] = "lf" /\ (i = 1 \/ text'[i - 1] # "cr")
    BY <1>1, <2>1, <2>2
  <2> QED
    BY <1>1, <2>2, <2>3 DEF Irregular, StrayLF
<1>4. CASE \E i \in 0..(n - 4) : BlankAt(i)
  <2>1. PICK i \in 0..(n - 4) : BlankAt(i)
    BY <1>4
  <2>2. i \in 0..((n + 1) - 4) /\ i + 1 \in 1..n /\ i + 2 \in 1..n /\ i + 3 \in 1..n /\ i + 4 \in 1..n
    BY <1>1
  <2>3. BlankAt(i)'
    BY <1>1, <2>1, <2>2 DEF BlankAt
  <2> QED
    BY <1>1, <2>2, <2>3 DEF Irregular
<1> QED
  BY <1>2, <1>3, <1>4 DEF Irregular

\* How a byte makes the text irregular.
LEMMA BecomesIrregular ==
  ASSUME TextTyped, NEW k, NEW c \in Bytes, feed(k, c), Len(text) > 0,
         \/ Back(0, "cr") /\ c # "lf"
         \/ ~Back(0, "cr") /\ c = "lf"
         \/ Back(0, "cr") /\ Back(1, "lf") /\ c = "lf"
  PROVE  Irregular'
<1> DEFINE n == Len(text)
<1>1. n \in Nat /\ n > 0 /\ Len(text') = n + 1 /\ text'[n + 1] = c /\ \A i \in 1..n : text'[i] = text[i]
  BY Feeding
<1>2. n \in 1..n /\ n - 0 = n /\ n \in 1..((n + 1) - 1) /\ n + 1 \in 1..(n + 1) /\ (n + 1) - 1 = n
  BY <1>1
<1>3. \A b : Back(0, b) <=> text'[n] = b
  BY <1>1, <1>2 DEF Back
<1>4. CASE Back(0, "cr") /\ c # "lf"
  BY <1>1, <1>2, <1>3, <1>4 DEF Irregular, StrayCR
<1>5. CASE ~Back(0, "cr") /\ c = "lf"
  BY <1>1, <1>2, <1>3, <1>5 DEF Irregular, StrayLF
<1>6. CASE Back(0, "cr") /\ Back(1, "lf") /\ c = "lf"
  <2>1. n > 1 /\ n - 1 \in 1..n /\ text[n - 1] = "lf"
    BY <1>1, <1>6 DEF Back
  <2>2. CASE n - 1 = 1 \/ text[(n - 1) - 1] # "cr"
    <3>1. StrayLF
      BY <2>1, <2>2 DEF StrayLF
    <3> QED
      BY <3>1, IrregularStays DEF Irregular
  <2>3. CASE n - 1 # 1 /\ text[(n - 1) - 1] = "cr"
    <3> DEFINE i == n - 3
    <3>1. i \in 0..((n + 1) - 4) /\ i + 1 = (n - 1) - 1 /\ i + 2 = n - 1 /\ i + 3 = n /\ i + 4 = n + 1 /\ (n - 1) - 1 \in 1..n
      <4>1. n \in Nat /\ n > 1 /\ n - 1 # 1
        BY <1>1, <2>1, <2>3
      <4> HIDE DEF n
      <4>2. n \in Nat /\ n >= 3
        BY ONLY <4>1
      <4> QED
        BY ONLY <4>2 DEF i
    <3>2. text'[i + 1] = "cr" /\ text'[i + 2] = "lf" /\ text'[i + 3] = "cr" /\ text'[i + 4] = "lf"
      BY <1>1, <1>3, <1>6, <2>1, <2>3, <3>1
    <3>3. PICK j \in 0..((n + 1) - 4) : j = i
      BY <3>1
    <3>4. BlankAt(j)'
      BY <3>2, <3>3 DEF BlankAt
    <3> QED
      BY <1>1, <3>4 DEF Irregular
  <2> QED
    BY <2>2, <2>3
<1> QED
  BY <1>4, <1>5, <1>6

\* A byte ends the reply only as the last of the final dot's five.
LEMMA NoNewEnd ==
  ASSUME TextTyped, NEW k, NEW c \in Bytes, feed(k, c),
         \A i \in 0..(Len(text) - 5) : ~FinalAt(i), ~(EndsDotCR /\ c = "lf")
  PROVE  \A i \in 0..(Len(text') - 5) : ~FinalAt(i)'
<1> DEFINE n == Len(text)
<1>1. n \in Nat /\ Len(text') = n + 1 /\ text'[n + 1] = c /\ \A i \in 1..n : text'[i] = text[i]
  BY Feeding
<1> SUFFICES ASSUME NEW i \in 0..(Len(text') - 5), FinalAt(i)' PROVE FALSE
  OBVIOUS
<1>2. CASE i \in 0..(n - 5)
  <2>1. i + 1 \in 1..n /\ i + 2 \in 1..n /\ i + 3 \in 1..n /\ i + 4 \in 1..n /\ i + 5 \in 1..n
    BY <1>1, <1>2
  <2>2. FinalAt(i)
    BY <1>1, <2>1 DEF FinalAt
  <2> QED
    BY <1>2, <2>2
<1>3. CASE i \notin 0..(n - 5)
  <2>1. /\ i + 1 = n - 3 /\ i + 2 = n - 2 /\ i + 3 = n - 1 /\ i + 4 = n - 0 /\ i + 5 = n + 1
        /\ n - 3 \in 1..n /\ n - 2 \in 1..n /\ n - 1 \in 1..n /\ n - 0 \in 1..n
        /\ 3 < n /\ 2 < n /\ 1 < n /\ 0 < n
    BY <1>1, <1>3
  <2>2. text'[n - 3] = "cr" /\ text'[n - 2] = "lf" /\ text'[n - 1] = "dot" /\ text'[n - 0] = "cr" /\ text'[n + 1] = "lf"
    BY <2>1 DEF FinalAt
  <2>3. text[n - 3] = "cr" /\ text[n - 2] = "lf" /\ text[n - 1] = "dot" /\ text[n - 0] = "cr" /\ c = "lf"
    BY <1>1, <2>1, <2>2
  <2> QED
    BY <2>1, <2>3 DEF EndsDotCR, Back
<1> QED
  BY <1>2, <1>3

LEMMA MultilineStep ==
  ASSUME TextTyped, MultilineInv, NEW c \in Bytes, pop3_multiline_response_checker(c)
  PROVE  MultilineInv'
<1> DEFINE n == Len(text)
<1>1. /\ kind = "multiline" /\ verdict = "BUILDING" /\ n \in Nat /\ Len(text') = n + 1 /\ Len(text') > 0
      /\ feed("multiline", c)
  BY Feeding DEF pop3_multiline_response_checker
<1>2. /\ \A b : Back(0, b)' <=> b = c
      /\ \A b : Back(1, b)' <=> Back(0, b)
      /\ \A b : Back(2, b)' <=> Back(1, b)
      /\ \A b : Back(3, b)' <=> Back(2, b)
      /\ \A b : Back(4, b)' <=> Back(3, b)
  BY <1>1, BackStep
<1>3. /\ EndsCRLF' <=> Back(0, "cr") /\ c = "lf"
      /\ EndsDot' <=> EndsCRLF /\ c = "dot"
      /\ EndsDotCR' <=> EndsDot /\ c = "cr"
      /\ EndsFinal' <=> EndsDotCR /\ c = "lf"
  BY <1>2 DEF EndsCRLF, EndsDot, EndsDotCR, EndsFinal
<1>4. (text = <<>> /\ state = "CRLFDOT") \/ (n > 0 /\ InReply /\ state \in InData)
  BY <1>1 DEF MultilineInv, InReply
<1>5. state \in InData
  BY <1>4 DEF InData
<1>6. /\ state' = IF c = Onward(state) THEN Further(state) ELSE "DOT_DATA"
      /\ verdict' = IF state = "CRLFDOTCR" /\ c = "lf" THEN "BUILD_FINISHED" ELSE "BUILDING"
  BY <1>1, <1>5, MultilineTable DEF pop3_multiline_response_checker, feed, Definition
<1> SUFFICES InReply'
  BY <1>1 DEF MultilineInv
<1>7. CASE text = <<>> /\ state = "CRLFDOT"
  <2>1. c = "plus" /\ state' = "DOT_DATA" /\ verdict' = "BUILDING"
    BY <1>6, <1>7 DEF pop3_multiline_response_checker, Onward
  <2>2. Len(text') = 1 /\ \A i \in 0..(Len(text') - 5) : ~FinalAt(i)'
    BY <1>1, <1>7
  <2>3. ~EndsCRLF' /\ ~EndsDot' /\ ~Back(0, "cr")'
    BY <1>2, <1>3, <2>1
  <2> QED
    BY <2>1, <2>2, <2>3 DEF InReply, InData
<1>8. CASE n > 0 /\ InReply
  <2> DEFINE Regular == /\ state = "DOT_DATA" => ~EndsCRLF /\ ~EndsDot /\ (Back(0, "cr") => Back(1, "lf"))
                        /\ state = "CR" => ~EndsDotCR
                        /\ \A i \in 0..(Len(text) - 5) : ~FinalAt(i)
             Aware == /\ state' = "DOT_DATA" => ~EndsCRLF' /\ ~EndsDot' /\ (Back(0, "cr")' => Back(1, "lf")')
                      /\ state' = "CR" => ~EndsDotCR'
                      /\ state' # "CRLFDOTCRLF" => \A i \in 0..(Len(text') - 5) : ~FinalAt(i)'
  <2>1. Irregular \/ Regular
    BY <1>5, <1>8 DEF InReply, InData
  <2>2. /\ state = "CR" => Back(0, "cr") /\ state' = (IF c = "lf" THEN "CRLF" ELSE "DOT_DATA")
        /\ state = "CRLF" => EndsCRLF /\ state' = (IF c = "dot" THEN "CRLFDOT" ELSE "DOT_DATA")
        /\ state = "CRLFDOT" => EndsDot /\ state' = (IF c = "cr" THEN "CRLFDOTCR" ELSE "DOT_DATA")
        /\ state = "CRLFDOTCR" => EndsDotCR /\ state' = (IF c = "lf" THEN "CRLFDOTCRLF" ELSE "DOT_DATA")
        /\ state = "DOT_DATA" => state' = (IF c = "cr" THEN "CR" ELSE "DOT_DATA")
    BY <1>6, <1>8 DEF InReply, Onward, Further
  <2>3. /\ state' \in InData \cup {"CRLFDOTCRLF"}
        /\ verdict' = IF state' = "CRLFDOTCRLF" THEN "BUILD_FINISHED" ELSE "BUILDING"
        /\ state' = "CR" => Back(0, "cr")'
        /\ state' = "CRLF" => EndsCRLF'
        /\ state' = "CRLFDOT" => EndsDot'
        /\ state' = "CRLFDOTCR" => EndsDotCR'
        /\ state' = "CRLFDOTCRLF" => EndsFinal'
    BY <1>2, <1>3, <1>5, <1>6, <2>2 DEF InData
  <2>4. /\ EndsCRLF => Back(0, "lf") /\ ~Back(0, "cr")
        /\ EndsDot => Back(0, "dot") /\ ~Back(0, "cr") /\ ~EndsCRLF
        /\ EndsDotCR => Back(0, "cr")
    BY DEF EndsCRLF, EndsDot, EndsDotCR, Back
  <2>5. CASE Irregular
    BY <1>1, <2>3, <2>5, IrregularStays DEF InReply
  <2>6. CASE \/ Back(0, "cr") /\ c # "lf"
             \/ ~Back(0, "cr") /\ c = "lf"
             \/ Back(0, "cr") /\ Back(1, "lf") /\ c = "lf"
    BY <1>1, <1>8, <2>3, <2>6, BecomesIrregular DEF InReply
  <2>7. CASE /\ Regular
             /\ Back(0, "cr") <=> c = "lf"
             /\ ~(Back(0, "cr") /\ Back(1, "lf"))
    <3>1. state' = "DOT_DATA" => ~EndsCRLF' /\ ~EndsDot' /\ (Back(0, "cr")' => Back(1, "lf")')
      <4> SUFFICES ASSUME state' = "DOT_DATA" PROVE ~EndsCRLF' /\ ~EndsDot' /\ (Back(0, "cr")' => Back(1, "lf")')
        OBVIOUS
      <4>1. CASE state = "DOT_DATA"
        <5>1. c # "cr" /\ ~Back(0, "cr") /\ ~EndsCRLF
          BY <2>2, <2>7, <4>1
        <5> QED
          BY <1>2, <1>3, <5>1
      <4>2. CASE state = "CR"
        BY <2>2, <2>7, <4>2
      <4>3. CASE state = "CRLF"
        <5>1. c # "dot" /\ Back(0, "lf") /\ ~Back(0, "cr")
          BY <2>2, <2>4, <4>3
        <5> QED
          BY <1>2, <1>3, <5>1
      <4>4. CASE state = "CRLFDOT"
        <5>1. c # "cr" /\ ~Back(0, "cr") /\ ~EndsCRLF
          BY <2>2, <2>4, <4>4
        <5> QED
          BY <1>2, <1>3, <5>1
      <4>5. CASE state = "CRLFDOTCR"
        BY <2>2, <2>4, <2>7, <4>5
      <4> QED
        BY <1>5, <4>1, <4>2, <4>3, <4>4, <4>5 DEF InData
    <3>2. state' = "CR" => ~EndsDotCR'
      <4> SUFFICES ASSUME state' = "CR" PROVE ~EndsDotCR'
        OBVIOUS
      <4>1. state = "DOT_DATA"
        BY <1>5, <2>2 DEF InData
      <4> QED
        BY <1>3, <2>7, <4>1
    <3>3. state' # "CRLFDOTCRLF" => \A i \in 0..(Len(text') - 5) : ~FinalAt(i)'
      <4> SUFFICES ASSUME state' # "CRLFDOTCRLF" PROVE \A i \in 0..(Len(text') - 5) : ~FinalAt(i)'
        OBVIOUS
      <4>1. ~(EndsDotCR /\ c = "lf")
        <5> SUFFICES ASSUME EndsDotCR, c = "lf" PROVE FALSE
          OBVIOUS
        <5>1. Back(0, "cr") /\ Back(1, "dot")
          BY DEF EndsDotCR
        <5>2. ~Back(1, "lf") /\ ~Back(0, "lf") /\ ~Back(0, "dot")
          BY <5>1 DEF Back
        <5>3. state \notin {"DOT_DATA", "CR", "CRLF", "CRLFDOT"}
          BY <2>2, <2>4, <2>7, <5>1, <5>2
        <5> QED
          BY <1>5, <2>2, <5>3 DEF InData
      <4>2. \A i \in 0..(Len(text) - 5) : ~FinalAt(i)
        BY <2>7
      <4> QED
        BY <1>1, <4>1, <4>2, NoNewEnd
    <3> QED
      BY <2>3, <3>1, <3>2, <3>3 DEF InReply
  <2> QED
    BY <2>1, <2>5, <2>6, <2>7
<1> QED
  BY <1>4, <1>7, <1>8

\* In a well-formed reply without blank lines nothing is irregular.
LEMMA RegularReply == TextTyped /\ WellFormed /\ ~BlankLine => ~Irregular
<1> SUFFICES ASSUME TextTyped, WellFormed, Irregular PROVE BlankLine
  OBVIOUS
<1>1. Len(text) \in Nat /\ Fed = Len(text)
  BY DEF TextTyped, Fed
<1>2. ~StrayCR
  BY StrayIsMalformed
<1>3. ~StrayLF
  <2> SUFFICES ASSUME StrayLF PROVE FALSE
    OBVIOUS
  <2>1. PICK i \in 1..Len(text) : text[i] = "lf" /\ (i = 1 \/ text[i - 1] # "cr")
    BY DEF StrayLF
  <2>2. At(i - 1, "cr")
    BY <1>1, <2>1 DEF WellFormed
  <2>3. i - 1 \in 1..Len(text) /\ text[i - 1] = "cr"
    BY <1>1, <2>2 DEF At
  <2> QED
    BY <2>1, <2>3
<1>4. PICK i \in 0..(Len(text) - 4) : BlankAt(i)
  BY <1>2, <1>3 DEF Irregular
<1> DEFINE w == <<"cr", "lf", "cr", "lf">>
<1>5. w \in Seq(Bytes) /\ Len(w) = 4 /\ w[1] = "cr" /\ w[2] = "lf" /\ w[3] = "cr" /\ w[4] = "lf"
  BY DEF Bytes
<1> HIDE DEF w
<1>6. HasAt(w, i)
  <2>1. 1..4 = {1, 2, 3, 4}
    OBVIOUS
  <2> QED
    BY <1>4, <1>5, <2>1 DEF HasAt, BlankAt
<1>7. Contains(w)
  BY <1>5, <1>6, Pieces
<1> QED
  BY <1>7 DEF BlankLine, w

LEMMA MultilineJudged == TextTyped /\ MultilineInv => MultilineVerdict
<1> SUFFICES ASSUME TextTyped, MultilineInv, kind = "multiline" PROVE MultilineVerdict
  BY DEF MultilineVerdict
<1> DEFINE w == <<"cr", "lf", "dot", "cr", "lf">>
           n == Len(text)
<1>1. n \in Nat
  BY DEF TextTyped
<1>2. w \in Seq(Bytes) /\ Len(w) = 5 /\ w[1] = "cr" /\ w[2] = "lf" /\ w[3] = "dot" /\ w[4] = "cr" /\ w[5] = "lf"
  BY DEF Bytes
<1> HIDE DEF w
<1>3. ASSUME NEW i \in Int PROVE HasAt(w, i) <=> FinalAt(i)
  <2>1. 1..5 = {1, 2, 3, 4, 5}
    OBVIOUS
  <2>2. HasAt(w, i) <=> \A j \in {1, 2, 3, 4, 5} : text[i + j] = w[j]
    BY <1>2, <2>1 DEF HasAt
  <2> QED
    BY <1>2, <2>2 DEF FinalAt
<1>4. Contains(w) <=> \E i \in 0..(n - 5) : FinalAt(i)
  <2>1. Contains(w) <=> \E i \in 0..(n - 5) : HasAt(w, i)
    BY <1>2, Pieces
  <2>2. \A i \in 0..(n - 5) : i \in Int
    BY <1>1
  <2> QED
    BY <1>3, <2>1, <2>2
<1>5. EndsFinal => EndsWith(w) /\ Contains(w)
  <2> SUFFICES ASSUME EndsFinal PROVE EndsWith(w) /\ Contains(w)
    OBVIOUS
  <2>1. 4 < n /\ text[n - 4] = "cr" /\ text[n - 3] = "lf" /\ text[n - 2] = "dot" /\ text[n - 1] = "cr" /\ text[n - 0] = "lf"
    BY DEF EndsFinal, Back
  <2>2. n \in Nat /\ 4 < n
    BY <1>1, <2>1
  <2>3. /\ n - 5 \in 0..(n - 5) /\ n - 5 \in Int /\ n >= 5
        /\ (n - 5) + 1 = n - 4 /\ (n - 5) + 2 = n - 3 /\ (n - 5) + 3 = n - 2 /\ (n - 5) + 4 = n - 1 /\ (n - 5) + 5 = n - 0
    <3> HIDE DEF n
    <3> QED
      BY ONLY <2>2
  <2>4. FinalAt(n - 5)
    BY <2>1, <2>3 DEF FinalAt
  <2>5. HasAt(w, n - 5)
    BY <1>3, <2>3, <2>4
  <2>6. EndsWith(w)
    BY <1>2, <2>3, <2>5, Pieces
  <2> QED
    BY <1>4, <2>3, <2>4, <2>6
<1>6. CASE text = <<>> /\ verdict = "BUILDING"
  <2>1. n = 0
    BY <1>6
  <2>2. ~Contains(w)
    BY <1>4, <2>1
  <2> QED
    BY <1>6, <2>2 DEF MultilineVerdict, w
<1>7. CASE InReply
  <2>1. verdict = "BUILD_FINISHED" => EndsWith(w) /\ Contains(w)
    BY <1>5, <1>7 DEF InReply
  <2>2. WellFormed /\ ~BlankLine /\ Contains(w) => verdict = "BUILD_FINISHED"
    BY <1>4, <1>7, RegularReply DEF InReply
  <2> QED
    BY <2>1, <2>2 DEF MultilineVerdict, w
<1> QED
  BY <1>6, <1>7 DEF MultilineInv

------------------------------------------------------------------------------
(* All together.                                                             *)

IInv == TextTyped /\ CommandInv /\ StatusInv /\ MultilineInv

LEMMA InitIInv == Init => IInv
<1> SUFFICES ASSUME Init PROVE IInv
  OBVIOUS
<1>1. text = <<>> /\ Len(text) = 0 /\ verdict = "BUILDING" /\ kwrd_ptr = 0 /\ has_args = FALSE /\ status = "none"
  BY DEF Init
<1>2. TextTyped
  BY DEF Init, TextTyped
<1>3. CommandInv
  <2>1. kind = "command" => state = "KWRD"
    BY DEF Init, Definition, pop3_command_definition
  <2> QED
    BY <1>1, <2>1 DEF CommandInv, InKeyword
<1>4. StatusInv
  <2>1. kind = "singleline" => state = "STAT"
    BY DEF Init, Definition, pop3_singleline_response_definition
  <2> QED
    BY <1>1, <2>1 DEF StatusInv
<1>5. MultilineInv
  <2>1. kind = "multiline" => state = "CRLFDOT"
    BY DEF Init, Definition, pop3_multiline_response_definition
  <2> QED
    BY <1>1, <2>1 DEF MultilineInv
<1> QED
  BY <1>2, <1>3, <1>4, <1>5 DEF IInv

LEMMA StepIInv == IInv /\ [Next]_vars => IInv'
<1> SUFFICES ASSUME IInv, [Next]_vars PROVE IInv'
  OBVIOUS
<1>1. CASE UNCHANGED vars
  BY <1>1 DEF IInv, TextTyped, CommandInv, InKeyword, PastKeyword, StatusInv, OnLine, StrayCR, LineEnd,
              MultilineInv, InReply, Irregular, StrayLF, BlankAt, FinalAt, EndsCRLF, EndsDot, EndsDotCR, EndsFinal, Back, vars
<1>2. CASE Next
  <2>1. PICK c \in Alphabet[kind] :
          command_builder(c) \/ pop3_singleline_response_builder(c) \/ pop3_multiline_response_checker(c)
    BY <1>2 DEF Next
  <2>2. c \in Bytes
    BY BytesFed DEF IInv
  <2>3. CASE command_builder(c)
    <3>1. TextTyped' /\ kind' = "command"
      BY <2>2, <2>3, Feeding DEF IInv, TextTyped, command_builder
    <3>2. CommandInv'
      BY <2>2, <2>3, CommandStep DEF IInv
    <3> QED
      BY <3>1, <3>2 DEF IInv, StatusInv, MultilineInv
  <2>4. CASE pop3_singleline_response_builder(c)
    <3>1. TextTyped' /\ kind' = "singleline"
      BY <2>2, <2>4, Feeding DEF IInv, TextTyped, pop3_singleline_response_builder
    <3>2. StatusInv'
      BY <2>2, <2>4, StatusStep DEF IInv
    <3> QED
      BY <3>1, <3>2 DEF IInv, CommandInv, MultilineInv
  <2>5. CASE pop3_multiline_response_checker(c)
    <3>1. TextTyped' /\ kind' = "multiline"
      BY <2>2, <2>5, Feeding DEF IInv, TextTyped, pop3_multiline_response_checker
    <3>2. MultilineInv'
      BY <2>2, <2>5, MultilineStep DEF IInv
    <3> QED
      BY <3>1, <3>2 DEF IInv, CommandInv, StatusInv
  <2> QED
    BY <2>1, <2>3, <2>4, <2>5
<1> QED
  BY <1>1, <1>2

LEMMA InvariantHolds == Spec => []IInv
  BY InitIInv, StepIInv, PTL DEF Spec

\* CommandVerdict for texts of any length over any alphabet: command_builder accepts
\* exactly the commands it should, and stops at the byte that decides.
THEOREM CommandsJudged == Spec => []CommandVerdict
<1>1. IInv => CommandVerdict
  BY CommandJudged DEF IInv
<1> QED
  BY <1>1, InvariantHolds, PTL

\* StatusLineVerdict for texts of any length: the end of a well-formed status line is
\* never missed by pop3_singleline_response_builder, nor seen where it is not.
THEOREM StatusLinesJudged == Spec => []StatusLineVerdict
<1>1. IInv => StatusLineVerdict
  BY StatusJudged DEF IInv
<1> QED
  BY <1>1, InvariantHolds, PTL

\* MultilineVerdict for texts of any length: pop3_multiline_response_checker never
\* takes data for the end of the reply, and finds the end of every well-formed reply
\* without blank lines.
THEOREM MultilinesJudged == Spec => []MultilineVerdict
<1>1. IInv => MultilineVerdict
  BY MultilineJudged DEF IInv
<1> QED
  BY <1>1, InvariantHolds, PTL

------------------------------------------------------------------------------
(* Recursive functions over a sequence, step by step: the states of a table,  *)
(* the joined pieces and the automaton on tokens are each the one function    *)
(* that its equation defines, and do not change when the sequence grows.      *)

\* The smallest of some numbers.
LEMMA LeastNumber ==
  ASSUME NEW S, S \subseteq Nat, S # {}
  PROVE  \E x \in S : \A y \in S : x <= y
<1>1. PICK x \in S : \A y \in S : ~(<<y, x>> \in OpToRel(<, Nat))
  BY WFMin, NatLessThanWellFounded
<1>2. \A y \in S : <<y, x>> \in Nat \X Nat
  OBVIOUS
<1>3. \A y \in S : ~(y < x)
  BY <1>1, <1>2 DEF OpToRel
<1> QED
  BY <1>3

\* The states a definition goes through, up to the k-th byte.
IsTrail(f, def, s, k) == f = [n \in 0..k |-> IF n = 0 THEN def.start_state ELSE parser_feed(def, f[n - 1], s[n]).dest]

TrailOf(def, s) == CHOOSE f : IsTrail(f, def, s, Len(s))

LEMMA TrailOfExists ==
  ASSUME NEW def, NEW A, NEW s \in Seq(A) PROVE IsTrail(TrailOf(def, s), def, s, Len(s))
<1> DEFINE Without == {k \in 0..Len(s) : ~\E f : IsTrail(f, def, s, k)}
<1>1. Len(s) \in Nat /\ Without \subseteq Nat
  OBVIOUS
<1>2. Without = {}
  <2> SUFFICES ASSUME Without # {} PROVE FALSE
    OBVIOUS
  <2>1. PICK k \in Without : \A j \in Without : k <= j
    BY <1>1, LeastNumber
  <2>2. k \in 0..Len(s) /\ k \in Nat /\ ~\E f : IsTrail(f, def, s, k)
    BY <1>1
  <2>3. CASE k = 0
    <3> DEFINE f == [n \in 0..0 |-> def.start_state]
    <3>1. IsTrail(f, def, s, 0)
      BY DEF IsTrail
    <3> QED
      BY <2>2, <2>3, <3>1
  <2>4. CASE k # 0
    <3>1. k - 1 \in 0..Len(s) /\ k - 1 \in Nat /\ ~(k <= k - 1)
      BY <1>1, <2>2, <2>4
    <3>2. PICK f : IsTrail(f, def, s, k - 1)
      BY <2>1, <3>1
    <3> DEFINE g == [n \in 0..k |-> IF n = k THEN parser_feed(def, f[k - 1], s[k]).dest ELSE f[n]]
    <3>3. \A n \in 0..(k - 1) : f[n] = IF n = 0 THEN def.start_state ELSE parser_feed(def, f[n - 1], s[n]).dest
      BY <3>2 DEF IsTrail
    <3>4. ASSUME NEW n \in 0..k PROVE g[n] = IF n = 0 THEN def.start_state ELSE parser_feed(def, g[n - 1], s[n]).dest
      <4>1. CASE n = k
        <5>1. n # 0 /\ n - 1 \in 0..k /\ n - 1 # k
          BY <2>2, <2>4, <4>1
        <5>2. g[n - 1] = f[k - 1]
          BY <4>1, <5>1
        <5> QED
          BY <4>1, <5>1, <5>2
      <4>2. CASE n # k
        <5>1. n \in 0..(k - 1) /\ g[n] = f[n]
          BY <2>2, <4>2
        <5>2. n # 0 => n - 1 \in 0..k /\ n - 1 # k
          BY <2>2, <4>2
        <5>3. n # 0 => g[n - 1] = f[n - 1]
          BY <5>2
        <5> HIDE DEF g
        <5> QED
          BY <3>3, <5>1, <5>3
      <4> QED
        BY <4>1, <4>2
    <3>5. g = [n \in 0..k |-> g[n]]
      OBVIOUS
    <3> HIDE DEF g
    <3>6. IsTrail(g, def, s, k)
      BY <3>4, <3>5 DEF IsTrail
    <3> QED
      BY <2>2, <3>6
  <2> QED
    BY <2>3, <2>4
<1>3. Len(s) \in 0..Len(s)
  BY <1>1
<1>4. \E f : IsTrail(f, def, s, Len(s))
  BY <1>2, <1>3
<1> QED
  BY <1>4 DEF TrailOf

\* A longer sequence does not change the values for the part it shares.
LEMMA TrailOfAgree ==
  ASSUME NEW def, NEW A, NEW s \in Seq(A), NEW c \in A
  PROVE  \A n \in 0..Len(s) : TrailOf(def, Append(s, c))[n] = TrailOf(def, s)[n]
<1> DEFINE more == Append(s, c)  F == TrailOf(def, s)  G == TrailOf(def, more)
           Differ == {n \in 0..Len(s) : G[n] # F[n]}
<1>1. /\ more \in Seq(A) /\ Len(more) = Len(s) + 1 /\ Len(s) \in Nat
      /\ \A n \in 1..Len(s) : more[n] = s[n]
  OBVIOUS
<1> HIDE DEF more
<1>2. IsTrail(F, def, s, Len(s)) /\ IsTrail(G, def, more, Len(more))
  BY <1>1, TrailOfExists
<1> HIDE DEF F, G
<1>3. \A n \in 0..Len(s) : F[n] = IF n = 0 THEN def.start_state ELSE parser_feed(def, F[n - 1], s[n]).dest
  BY <1>2 DEF IsTrail
<1>4. \A n \in 0..Len(more) : G[n] = IF n = 0 THEN def.start_state ELSE parser_feed(def, G[n - 1], more[n]).dest
  BY <1>2 DEF IsTrail
<1>5. Differ = {}
  <2> SUFFICES ASSUME Differ # {} PROVE FALSE
    OBVIOUS
  <2>1. Differ \subseteq Nat
    BY <1>1
  <2>2. PICK n \in Differ : \A j \in Differ : n <= j
    BY <2>1, LeastNumber
  <2>3. n \in 0..Len(s) /\ n \in 0..Len(more) /\ n \in Nat /\ G[n] # F[n]
    BY <1>1
  <2>4. n # 0
    BY <1>3, <1>4, <2>3
  <2>5. n - 1 \in 0..Len(s) /\ ~(n <= n - 1) /\ n \in 1..Len(s)
    BY <1>1, <2>3, <2>4
  <2>6. G[n - 1] = F[n - 1] /\ more[n] = s[n]
    BY <1>1, <2>2, <2>5
  <2>7. F[n] = parser_feed(def, F[n - 1], s[n]).dest /\ G[n] = parser_feed(def, G[n - 1], more[n]).dest
    BY <1>3, <1>4, <2>3, <2>4
  <2> QED
    BY <2>3, <2>6, <2>7
<1> QED
  BY <1>5 DEF F, G, more

\* The first k pieces, joined.
IsJoin(f, s, k) == f = [n \in 0..k |-> IF n = 0 THEN <<>> ELSE f[n - 1] \o s[n]]

JoinOf(s) == CHOOSE f : IsJoin(f, s, Len(s))

LEMMA JoinOfExists ==
  ASSUME NEW A, NEW s \in Seq(A) PROVE IsJoin(JoinOf(s), s, Len(s))
<1> DEFINE Without == {k \in 0..Len(s) : ~\E f : IsJoin(f, s, k)}
<1>1. Len(s) \in Nat /\ Without \subseteq Nat
  OBVIOUS
<1>2. Without = {}
  <2> SUFFICES ASSUME Without # {} PROVE FALSE
    OBVIOUS
  <2>1. PICK k \in Without : \A j \in Without : k <= j
    BY <1>1, LeastNumber
  <2>2. k \in 0..Len(s) /\ k \in Nat /\ ~\E f : IsJoin(f, s, k)
    BY <1>1
  <2>3. CASE k = 0
    <3> DEFINE f == [n \in 0..0 |-> <<>>]
    <3>1. IsJoin(f, s, 0)
      BY DEF IsJoin
    <3> QED
      BY <2>2, <2>3, <3>1
  <2>4. CASE k # 0
    <3>1. k - 1 \in 0..Len(s) /\ k - 1 \in Nat /\ ~(k <= k - 1)
      BY <1>1, <2>2, <2>4
    <3>2. PICK f : IsJoin(f, s, k - 1)
      BY <2>1, <3>1
    <3> DEFINE g == [n \in 0..k |-> IF n = k THEN f[k - 1] \o s[k] ELSE f[n]]
    <3>3. \A n \in 0..(k - 1) : f[n] = IF n = 0 THEN <<>> ELSE f[n - 1] \o s[n]
      BY <3>2 DEF IsJoin
    <3>4. ASSUME NEW n \in 0..k PROVE g[n] = IF n = 0 THEN <<>> ELSE g[n - 1] \o s[n]
      <4>1. CASE n = k
        <5>1. n # 0 /\ n - 1 \in 0..k /\ n - 1 # k
          BY <2>2, <2>4, <4>1
        <5>2. g[n - 1] = f[k - 1]
          BY <4>1, <5>1
        <5> QED
          BY <4>1, <5>1, <5>2
      <4>2. CASE n # k
        <5>1. n \in 0..(k - 1) /\ g[n] = f[n]
          BY <2>2, <4>2
        <5>2. n # 0 => n - 1 \in 0..k /\ n - 1 # k
          BY <2>2, <4>2
        <5>3. n # 0 => g[n - 1] = f[n - 1]
          BY <5>2
        <5> HIDE DEF g
        <5> QED
          BY <3>3, <5>1, <5>3
      <4> QED
        BY <4>1, <4>2
    <3>5. g = [n \in 0..k |-> g[n]]
      OBVIOUS
    <3> HIDE DEF g
    <3>6. IsJoin(g, s, k)
      BY <3>4, <3>5 DEF IsJoin
    <3> QED
      BY <2>2, <3>6
  <2> QED
    BY <2>3, <2>4
<1>3. Len(s) \in 0..Len(s)
  BY <1>1
<1>4. \E f : IsJoin(f, s, Len(s))
  BY <1>2, <1>3
<1> QED
  BY <1>4 DEF JoinOf

\* A longer sequence does not change the values for the part it shares.
LEMMA JoinOfAgree ==
  ASSUME NEW A, NEW s \in Seq(A), NEW c \in A
  PROVE  \A n \in 0..Len(s) : JoinOf(Append(s, c))[n] = JoinOf(s)[n]
<1> DEFINE more == Append(s, c)  F == JoinOf(s)  G == JoinOf(more)
           Differ == {n \in 0..Len(s) : G[n] # F[n]}
<1>1. /\ more \in Seq(A) /\ Len(more) = Len(s) + 1 /\ Len(s) \in Nat
      /\ \A n \in 1..Len(s) : more[n] = s[n]
  OBVIOUS
<1> HIDE DEF more
<1>2. IsJoin(F, s, Len(s)) /\ IsJoin(G, more, Len(more))
  BY <1>1, JoinOfExists
<1> HIDE DEF F, G
<1>3. \A n \in 0..Len(s) : F[n] = IF n = 0 THEN <<>> ELSE F[n - 1] \o s[n]
  BY <1>2 DEF IsJoin
<1>4. \A n \in 0..Len(more) : G[n] = IF n = 0 THEN <<>> ELSE G[n - 1] \o more[n]
  BY <1>2 DEF IsJoin
<1>5. Differ = {}
  <2> SUFFICES ASSUME Differ # {} PROVE FALSE
    OBVIOUS
  <2>1. Differ \subseteq Nat
    BY <1>1
  <2>2. PICK n \in Differ : \A j \in Differ : n <= j
    BY <2>1, LeastNumber
  <2>3. n \in 0..Len(s) /\ n \in 0..Len(more) /\ n \in Nat /\ G[n] # F[n]
    BY <1>1
  <2>4. n # 0
    BY <1>3, <1>4, <2>3
  <2>5. n - 1 \in 0..Len(s) /\ ~(n <= n - 1) /\ n \in 1..Len(s)
    BY <1>1, <2>3, <2>4
  <2>6. G[n - 1] = F[n - 1] /\ more[n] = s[n]
    BY <1>1, <2>2, <2>5
  <2>7. F[n] = F[n - 1] \o s[n] /\ G[n] = G[n - 1] \o more[n]
    BY <1>3, <1>4, <2>3, <2>4
  <2> QED
    BY <2>3, <2>6, <2>7
<1> QED
  BY <1>5 DEF F, G, more

\* The states of the automaton on tokens.
IsRun(f, s, k) == f = [n \in 0..k |-> IF n = 0 THEN "CRLFDOT" ELSE multiline_step(f[n - 1], s[n].k)]

RunOf(s) == CHOOSE f : IsRun(f, s, Len(s))

LEMMA RunOfExists ==
  ASSUME NEW A, NEW s \in Seq(A) PROVE IsRun(RunOf(s), s, Len(s))
<1> DEFINE Without == {k \in 0..Len(s) : ~\E f : IsRun(f, s, k)}
<1>1. Len(s) \in Nat /\ Without \subseteq Nat
  OBVIOUS
<1>2. Without = {}
  <2> SUFFICES ASSUME Without # {} PROVE FALSE
    OBVIOUS
  <2>1. PICK k \in Without : \A j \in Without : k <= j
    BY <1>1, LeastNumber
  <2>2. k \in 0..Len(s) /\ k \in Nat /\ ~\E f : IsRun(f, s, k)
    BY <1>1
  <2>3. CASE k = 0
    <3> DEFINE f == [n \in 0..0 |-> "CRLFDOT"]
    <3>1. IsRun(f, s, 0)
      BY DEF IsRun
    <3> QED
      BY <2>2, <2>3, <3>1
  <2>4. CASE k # 0
    <3>1. k - 1 \in 0..Len(s) /\ k - 1 \in Nat /\ ~(k <= k - 1)
      BY <1>1, <2>2, <2>4
    <3>2. PICK f : IsRun(f, s, k - 1)
      BY <2>1, <3>1
    <3> DEFINE g == [n \in 0..k |-> IF n = k THEN multiline_step(f[k - 1], s[k].k) ELSE f[n]]
    <3>3. \A n \in 0..(k - 1) : f[n] = IF n = 0 THEN "CRLFDOT" ELSE multiline_step(f[n - 1], s[n].k)
      BY <3>2 DEF IsRun
    <3>4. ASSUME NEW n \in 0..k PROVE g[n] = IF n = 0 THEN "CRLFDOT" ELSE multiline_step(g[n - 1], s[n].k)
      <4>1. CASE n = k
        <5>1. n # 0 /\ n - 1 \in 0..k /\ n - 1 # k
          BY <2>2, <2>4, <4>1
        <5>2. g[n - 1] = f[k - 1]
          BY <4>1, <5>1
        <5> QED
          BY <4>1, <5>1, <5>2
      <4>2. CASE n # k
        <5>1. n \in 0..(k - 1) /\ g[n] = f[n]
          BY <2>2, <4>2
        <5>2. n # 0 => n - 1 \in 0..k /\ n - 1 # k
          BY <2>2, <4>2
        <5>3. n # 0 => g[n - 1] = f[n - 1]
          BY <5>2
        <5> HIDE DEF g
        <5> QED
          BY <3>3, <5>1, <5>3
      <4> QED
        BY <4>1, <4>2
    <3>5. g = [n \in 0..k |-> g[n]]
      OBVIOUS
    <3> HIDE DEF g
    <3>6. IsRun(g, s, k)
      BY <3>4, <3>5 DEF IsRun
    <3> QED
      BY <2>2, <3>6
  <2> QED
    BY <2>3, <2>4
<1>3. Len(s) \in 0..Len(s)
  BY <1>1
<1>4. \E f : IsRun(f, s, Len(s))
  BY <1>2, <1>3
<1> QED
  BY <1>4 DEF RunOf

\* A longer sequence does not change the values for the part it shares.
LEMMA RunOfAgree ==
  ASSUME NEW A, NEW s \in Seq(A), NEW c \in A
  PROVE  \A n \in 0..Len(s) : RunOf(Append(s, c))[n] = RunOf(s)[n]
<1> DEFINE more == Append(s, c)  F == RunOf(s)  G == RunOf(more)
           Differ == {n \in 0..Len(s) : G[n] # F[n]}
<1>1. /\ more \in Seq(A) /\ Len(more) = Len(s) + 1 /\ Len(s) \in Nat
      /\ \A n \in 1..Len(s) : more[n] = s[n]
  OBVIOUS
<1> HIDE DEF more
<1>2. IsRun(F, s, Len(s)) /\ IsRun(G, more, Len(more))
  BY <1>1, RunOfExists
<1> HIDE DEF F, G
<1>3. \A n \in 0..Len(s) : F[n] = IF n = 0 THEN "CRLFDOT" ELSE multiline_step(F[n - 1], s[n].k)
  BY <1>2 DEF IsRun
<1>4. \A n \in 0..Len(more) : G[n] = IF n = 0 THEN "CRLFDOT" ELSE multiline_step(G[n - 1], more[n].k)
  BY <1>2 DEF IsRun
<1>5. Differ = {}
  <2> SUFFICES ASSUME Differ # {} PROVE FALSE
    OBVIOUS
  <2>1. Differ \subseteq Nat
    BY <1>1
  <2>2. PICK n \in Differ : \A j \in Differ : n <= j
    BY <2>1, LeastNumber
  <2>3. n \in 0..Len(s) /\ n \in 0..Len(more) /\ n \in Nat /\ G[n] # F[n]
    BY <1>1
  <2>4. n # 0
    BY <1>3, <1>4, <2>3
  <2>5. n - 1 \in 0..Len(s) /\ ~(n <= n - 1) /\ n \in 1..Len(s)
    BY <1>1, <2>3, <2>4
  <2>6. G[n - 1] = F[n - 1] /\ more[n] = s[n]
    BY <1>1, <2>2, <2>5
  <2>7. F[n] = multiline_step(F[n - 1], s[n].k) /\ G[n] = multiline_step(G[n - 1], more[n].k)
    BY <1>3, <1>4, <2>3, <2>4
  <2> QED
    BY <2>3, <2>6, <2>7
<1> QED
  BY <1>5 DEF F, G, more

\* The functions of the model are these.
LEMMA TrailIs == ASSUME NEW def, NEW s PROVE Trail(def, s) = TrailOf(def, s)
  BY DEF Trail, TrailOf, IsTrail

LEMMA JoinedIs == ASSUME NEW s PROVE Joined(s) = JoinOf(s)[Len(s)]
  BY DEF Joined, JoinOf, IsJoin

LEMMA CheckerIs ==
  ASSUME NEW s
  PROVE  multiline_checker(s) = IF RunOf(s)[Len(s)] = "CRLFDOTCRLF" THEN "FINISHED_CONSUMING" ELSE "CONSUMING"
  BY DEF multiline_checker, RunOf, IsRun

\* The state a definition is in after the bytes of s.
EndState(def, s) == Trail(def, s)[Len(s)]

LEMMA TrailStarts == ASSUME NEW def PROVE EndState(def, <<>>) = def.start_state
<1>1. <<>> \in Seq(Bytes) /\ Len(<<>>) = 0
  OBVIOUS
<1>2. IsTrail(TrailOf(def, <<>>), def, <<>>, Len(<<>>))
  BY <1>1, TrailOfExists
<1>3. IsTrail(TrailOf(def, <<>>), def, <<>>, 0)
  BY <1>1, <1>2
<1> DEFINE F == TrailOf(def, <<>>)
<1> HIDE DEF F
<1>4. F = [n \in 0..0 |-> IF n = 0 THEN def.start_state ELSE parser_feed(def, F[n - 1], <<>>[n]).dest]
  BY <1>3 DEF IsTrail, F
<1>5. F[0] = def.start_state
  BY <1>4
<1> QED
  BY <1>1, <1>5, TrailIs DEF EndState, F

\* One more byte takes the row of the state the others led to.
LEMMA TrailGrows ==
  ASSUME NEW def, NEW s \in Seq(Bytes), NEW c \in Bytes
  PROVE  /\ \A i \in 1..Len(s) : RowAt(def, Append(s, c), i) = RowAt(def, s, i)
         /\ RowAt(def, Append(s, c), Len(s) + 1) = parser_feed(def, EndState(def, s), c)
         /\ EndState(def, Append(s, c)) = parser_feed(def, EndState(def, s), c).dest
<1> DEFINE t == Append(s, c)  F == TrailOf(def, s)  G == TrailOf(def, t)
<1>1. /\ t \in Seq(Bytes) /\ Len(t) = Len(s) + 1 /\ Len(s) \in Nat
      /\ t[Len(s) + 1] = c /\ \A i \in 1..Len(s) : t[i] = s[i]
  OBVIOUS
<1>2. \A n \in 0..Len(s) : G[n] = F[n]
  BY TrailOfAgree
<1>3. IsTrail(G, def, t, Len(t))
  BY <1>1, TrailOfExists
<1>4. Trail(def, s) = F /\ Trail(def, t) = G
  BY TrailIs
<1> HIDE DEF t, F, G
<1>5. ASSUME NEW i \in 1..Len(s) PROVE RowAt(def, t, i) = RowAt(def, s, i)
  <2>1. i - 1 \in 0..Len(s)
    BY <1>1
  <2> QED
    BY <1>1, <1>2, <1>4, <2>1 DEF RowAt
<1>6. Len(s) \in 0..Len(s) /\ (Len(s) + 1) - 1 = Len(s) /\ Len(s) + 1 \in 0..Len(t) /\ Len(s) + 1 # 0
  BY <1>1
<1>7. RowAt(def, t, Len(s) + 1) = parser_feed(def, EndState(def, s), c)
  BY <1>1, <1>2, <1>4, <1>6 DEF RowAt, EndState
<1>8. G[Len(s) + 1] = parser_feed(def, G[(Len(s) + 1) - 1], t[Len(s) + 1]).dest
  BY <1>3, <1>6 DEF IsTrail
<1>9. EndState(def, t) = parser_feed(def, EndState(def, s), c).dest
  BY <1>1, <1>2, <1>4, <1>6, <1>8 DEF EndState
<1> QED
  BY <1>5, <1>7, <1>9 DEF t

LEMMA JoinedNothing == Joined(<<>>) = <<>>
<1> DEFINE F == JoinOf(<<>>)
<1>1. <<>> \in Seq(Bytes) /\ Len(<<>>) = 0
  OBVIOUS
<1>2. IsJoin(F, <<>>, 0)
  BY <1>1, JoinOfExists
<1>3. Joined(<<>>) = F[0]
  BY <1>1, JoinedIs
<1> HIDE DEF F
<1>4. F = [n \in 0..0 |-> IF n = 0 THEN <<>> ELSE F[n - 1] \o <<>>[n]]
  BY <1>2 DEF IsJoin
<1>5. F[0] = <<>>
  BY <1>4
<1> QED
  BY <1>3, <1>5

LEMMA JoinedGrows ==
  ASSUME NEW A, NEW s \in Seq(A), NEW c \in A
  PROVE  Joined(Append(s, c)) = Joined(s) \o c
<1> DEFINE t == Append(s, c)  F == JoinOf(s)  G == JoinOf(t)
<1>1. /\ t \in Seq(A) /\ Len(t) = Len(s) + 1 /\ Len(s) \in Nat /\ t[Len(s) + 1] = c
  OBVIOUS
<1>2. \A n \in 0..Len(s) : G[n] = F[n]
  BY JoinOfAgree
<1>3. IsJoin(G, t, Len(t))
  BY <1>1, JoinOfExists
<1>4. Joined(s) = F[Len(s)] /\ Joined(t) = G[Len(t)]
  BY JoinedIs
<1> HIDE DEF t, F, G
<1>5. Len(s) \in 0..Len(s) /\ (Len(s) + 1) - 1 = Len(s) /\ Len(s) + 1 \in 0..Len(t) /\ Len(s) + 1 # 0
  BY <1>1
<1>6. G[Len(s) + 1] = G[(Len(s) + 1) - 1] \o t[Len(s) + 1]
  BY <1>3, <1>5 DEF IsJoin
<1> QED
  BY <1>1, <1>2, <1>4, <1>5, <1>6 DEF t

LEMMA RunStarts == RunOf(<<>>)[Len(<<>>)] = "CRLFDOT"
<1> DEFINE F == RunOf(<<>>)
<1>1. <<>> \in Seq(Bytes) /\ Len(<<>>) = 0
  OBVIOUS
<1>2. IsRun(F, <<>>, 0)
  BY <1>1, RunOfExists
<1> HIDE DEF F
<1>3. F = [n \in 0..0 |-> IF n = 0 THEN "CRLFDOT" ELSE multiline_step(F[n - 1], <<>>[n].k)]
  BY <1>2 DEF IsRun
<1>4. F[0] = "CRLFDOT"
  BY <1>3
<1> QED
  BY <1>1, <1>4 DEF F

LEMMA RunGrows ==
  ASSUME NEW A, NEW s \in Seq(A), NEW c \in A
  PROVE  RunOf(Append(s, c))[Len(Append(s, c))] = multiline_step(RunOf(s)[Len(s)], c.k)
<1> DEFINE t == Append(s, c)  F == RunOf(s)  G == RunOf(t)
<1>1. /\ t \in Seq(A) /\ Len(t) = Len(s) + 1 /\ Len(s) \in Nat /\ t[Len(s) + 1] = c
  OBVIOUS
<1>2. \A n \in 0..Len(s) : G[n] = F[n]
  BY RunOfAgree
<1>3. IsRun(G, t, Len(t))
  BY <1>1, RunOfExists
<1> HIDE DEF t, F, G
<1>5. Len(s) \in 0..Len(s) /\ (Len(s) + 1) - 1 = Len(s) /\ Len(s) + 1 \in 0..Len(t) /\ Len(s) + 1 # 0
  BY <1>1
<1>6. G[Len(s) + 1] = multiline_step(G[(Len(s) + 1) - 1], t[Len(s) + 1].k)
  BY <1>3, <1>5 DEF IsRun
<1> QED
  BY <1>1, <1>2, <1>5, <1>6 DEF t, F, G

------------------------------------------------------------------------------
(* Tokens and what they spell.                                               *)

\* An event is raised by the bytes so far or by the next one.
LEMMA RaisedGrows ==
  ASSUME NEW def, NEW s \in Seq(Bytes), NEW c \in Bytes, NEW e
  PROVE  Raised(def, e, Append(s, c)) <=>
           \/ Raised(def, e, s)
           \/ e \in {parser_feed(def, EndState(def, s), c).event, parser_feed(def, EndState(def, s), c).next}
<1> DEFINE t == Append(s, c)
           hit(u, i) == e \in {RowAt(def, u, i).event, RowAt(def, u, i).next}
<1>1. Len(s) \in Nat /\ Len(t) = Len(s) + 1
  OBVIOUS
<1>2. /\ \A i \in 1..Len(s) : RowAt(def, t, i) = RowAt(def, s, i)
      /\ RowAt(def, t, Len(s) + 1) = parser_feed(def, EndState(def, s), c)
  BY TrailGrows
<1> HIDE DEF t
<1>3. Raised(def, e, t) <=> \E i \in 1..(Len(s) + 1) : hit(t, i)
  BY <1>1 DEF Raised
<1>4. Raised(def, e, s) <=> \E i \in 1..Len(s) : hit(s, i)
  BY DEF Raised
<1>5. \A i \in 1..Len(s) : hit(t, i) <=> hit(s, i)
  BY <1>2
<1>6. hit(t, Len(s) + 1) <=> e \in {parser_feed(def, EndState(def, s), c).event, parser_feed(def, EndState(def, s), c).next}
  BY <1>2
<1>7. \A i : i \in 1..(Len(s) + 1) <=> i \in 1..Len(s) \/ i = Len(s) + 1
  BY <1>1
<1> HIDE DEF hit
<1> QED
  BY <1>3, <1>4, <1>5, <1>6, <1>7 DEF t

LEMMA NothingRaised == ASSUME NEW def, NEW e PROVE ~Raised(def, e, <<>>)
  BY DEF Raised

\* After its last row the table of multi-line replies stays where it is.
LEMMA MultilineEnd ==
  ASSUME NEW c
  PROVE  LET row == parser_feed(pop3_multiline_response_definition, "CRLFDOTCRLF", c)
         IN  row.dest = "CRLFDOTCRLF" /\ row.event = "DAT_STUFFED" /\ row.next = ""
<1> DEFINE def == pop3_multiline_response_definition
           a   == T(ANY, "CRLFDOTCRLF", "DAT_STUFFED")
<1>1. def.states["CRLFDOTCRLF"] = <<a>>
  BY DEF pop3_multiline_response_definition, ST_CRLFDOTCRLF
<1>2. a.when = ANY /\ a.dest = "CRLFDOTCRLF" /\ a.event = "DAT_STUFFED" /\ a.next = ""
  BY DEF T
<1> HIDE DEF def, a
<1>3. parser_feed(def, "CRLFDOTCRLF", c) = a
  BY <1>1, <1>2, OneRow
<1> QED
  BY <1>2, <1>3 DEF def

\* The multi-line table is in state q after s, and has seen the end if q says so.
MultiAt(s, q) ==
  /\ s \in Seq(Bytes) /\ EndState(pop3_multiline_response_definition, s) = q
  /\ Raised(pop3_multiline_response_definition, "DAT_STUFFED_END", s) <=> q = "CRLFDOTCRLF"

MultiNext(q, c) ==
  IF q = "CRLFDOTCRLF" THEN q ELSE IF c = Onward(q) THEN Further(q) ELSE "DOT_DATA"

LEMMA MultiByte ==
  ASSUME NEW s, NEW q \in InData \cup {"CRLFDOTCRLF"}, NEW c \in Bytes, MultiAt(s, q)
  PROVE  MultiAt(Append(s, c), MultiNext(q, c)) /\ MultiNext(q, c) \in InData \cup {"CRLFDOTCRLF"}
<1> DEFINE def == pop3_multiline_response_definition
           row == parser_feed(def, q, c)
<1>1. s \in Seq(Bytes) /\ EndState(def, s) = q /\ Append(s, c) \in Seq(Bytes)
  BY DEF MultiAt
<1>2. EndState(def, Append(s, c)) = row.dest
  BY <1>1, TrailGrows
<1>3. Raised(def, "DAT_STUFFED_END", Append(s, c)) <=>
        Raised(def, "DAT_STUFFED_END", s) \/ "DAT_STUFFED_END" \in {row.event, row.next}
  BY <1>1, RaisedGrows
<1>4. /\ row.dest = MultiNext(q, c) /\ row.event = "DAT_STUFFED"
      /\ row.next = IF q = "CRLFDOTCR" /\ c = "lf" THEN "DAT_STUFFED_END" ELSE ""
  <2>1. CASE q = "CRLFDOTCRLF"
    BY <2>1, MultilineEnd DEF MultiNext
  <2>2. CASE q # "CRLFDOTCRLF"
    <3>1. q \in InData
      BY <2>2
    <3>2. /\ row.dest = (IF c = Onward(q) THEN Further(q) ELSE "DOT_DATA") /\ row.event = "DAT_STUFFED"
          /\ row.next = IF q = "CRLFDOTCR" /\ c = "lf" THEN "DAT_STUFFED_END" ELSE ""
      BY <3>1, MultilineTable
    <3> HIDE DEF row
    <3> QED
      BY <2>2, <3>2 DEF MultiNext
  <2> QED
    BY <2>1, <2>2
<1>5. MultiNext(q, c) \in InData \cup {"CRLFDOTCRLF"}
  BY DEF MultiNext, InData, Further
<1>6. MultiNext(q, c) = "CRLFDOTCRLF" <=> q = "CRLFDOTCRLF" \/ (q = "CRLFDOTCR" /\ c = "lf")
  BY DEF MultiNext, InData, Further, Onward
<1> HIDE DEF def, row
<1>7. Raised(def, "DAT_STUFFED_END", s) <=> q = "CRLFDOTCRLF"
  BY DEF MultiAt, def
<1>8. "DAT_STUFFED_END" \in {row.event, row.next} <=> q = "CRLFDOTCR" /\ c = "lf"
  BY <1>4
<1> QED
  BY <1>1, <1>2, <1>3, <1>4, <1>5, <1>6, <1>7, <1>8 DEF MultiAt, def

\* The table of status lines, once it is past the line.
LEMMA StatusEnd ==
  ASSUME NEW c
  PROVE  LET row == parser_feed(pop3_singleline_response_definition, "CRLF", c)
         IN  row.dest = "CRLF" /\ row.event = "IGNORE" /\ row.next = ""
<1> DEFINE def == pop3_singleline_response_definition
           a   == T(ANY, "CRLF", "IGNORE")
<1>1. def.states["CRLF"] = <<a>>
  BY DEF pop3_singleline_response_definition, ST_RESP_CRLF
<1>2. a.when = ANY /\ a.dest = "CRLF" /\ a.event = "IGNORE" /\ a.next = ""
  BY DEF T
<1> HIDE DEF def, a
<1>3. parser_feed(def, "CRLF", c) = a
  BY <1>1, <1>2, OneRow
<1> QED
  BY <1>2, <1>3 DEF def

SingleStates == {"STAT", "OK", "ERR", "MSG", "CR", "CRLF"}
SingleAt(s, q) ==
  /\ s \in Seq(Bytes) /\ EndState(pop3_singleline_response_definition, s) = q
  /\ Raised(pop3_singleline_response_definition, "END_SINGLELINE", s) <=> q = "CRLF"

SingleNext(q, c) ==
  CASE q = "CRLF" -> "CRLF"
    [] q = "STAT" -> IF c = "plus" THEN "OK" ELSE "ERR"
    [] q = "CR"   -> IF c = "lf" THEN "CRLF" ELSE "MSG"
    [] OTHER      -> IF c = "cr" THEN "CR" ELSE "MSG"

LEMMA SingleByte ==
  ASSUME NEW s, NEW q \in SingleStates, NEW c \in Bytes, SingleAt(s, q), q = "STAT" => c \in {"plus", "minus"}
  PROVE  SingleAt(Append(s, c), SingleNext(q, c)) /\ SingleNext(q, c) \in SingleStates
<1> DEFINE def == pop3_singleline_response_definition
           row == parser_feed(def, q, c)
<1>1. s \in Seq(Bytes) /\ EndState(def, s) = q /\ Append(s, c) \in Seq(Bytes)
  BY DEF SingleAt
<1>2. EndState(def, Append(s, c)) = row.dest
  BY <1>1, TrailGrows
<1>3. Raised(def, "END_SINGLELINE", Append(s, c)) <=>
        Raised(def, "END_SINGLELINE", s) \/ "END_SINGLELINE" \in {row.event, row.next}
  BY <1>1, RaisedGrows
<1>4. CASE q = "CRLF"
  <2>1. row.dest = "CRLF" /\ row.event = "IGNORE" /\ row.next = "" /\ SingleNext(q, c) = "CRLF"
    BY <1>4, StatusEnd DEF SingleNext
  <2> QED
    BY <1>1, <1>2, <1>3, <1>4, <2>1 DEF SingleAt, SingleStates
<1>5. CASE q # "CRLF"
  <2>1. q \in {"STAT", "OK", "ERR", "MSG", "CR"}
    BY <1>5 DEF SingleStates
  <2>2. row = StatusRow(q, c)
    BY <2>1, StatusTable
  <2> HIDE DEF def, row
  <2>3. row.dest = SingleNext(q, c) /\ row.next = "" /\ (row.event = "END_SINGLELINE" <=> q = "CR" /\ c = "lf")
    <3>1. CASE q = "STAT"
      BY <2>2, <3>1 DEF StatusRow, SingleNext, T
    <3>2. CASE q \in {"OK", "ERR", "MSG"}
      BY <2>2, <3>2 DEF StatusRow, SingleNext, T
    <3>3. CASE q = "CR"
      BY <2>2, <3>3 DEF StatusRow, SingleNext, T
    <3> QED
      BY <2>1, <3>1, <3>2, <3>3
  <2>5. SingleNext(q, c) = "CRLF" <=> q = "CR" /\ c = "lf"
    BY <2>1 DEF SingleNext
  <2>6. ~Raised(def, "END_SINGLELINE", s)
    BY <1>5 DEF SingleAt, def
  <2>7. SingleNext(q, c) \in SingleStates
    BY <2>1 DEF SingleNext, SingleStates
  <2>8. "END_SINGLELINE" \in {row.event, row.next} <=> row.event = "END_SINGLELINE"
    BY <2>3
  <2> QED
    BY <1>1, <1>2, <1>3, <2>3, <2>5, <2>6, <2>7, <2>8 DEF SingleAt, def
<1> QED
  BY <1>4, <1>5

\* A token is a few bytes, one after the other.
LEMMA SpelledBytes ==
  ASSUME NEW s \in Seq(Bytes)
  PROVE  /\ s \o Spell("ok")   = Append(Append(s, "plus"), "ch")
         /\ s \o Spell("err")  = Append(Append(s, "minus"), "ch")
         /\ s \o Spell("eol")  = Append(Append(s, "cr"), "lf")
         /\ s \o Spell("line") = Append(Append(Append(Append(s, "ch"), "dot"), "cr"), "lf")
         /\ s \o Spell("dot")  = Append(Append(Append(s, "dot"), "cr"), "lf")
  BY DEF Spell, Bytes

LineKinds  == {"eol", "line", "dot"}
TokenKinds == {"ok", "err"} \cup LineKinds

LEMMA SpellTyped == \A k \in TokenKinds : Spell(k) \in Seq(Bytes)
<1>1. /\ Spell("ok") = <<"plus", "ch">> /\ Spell("err") = <<"minus", "ch">> /\ Spell("eol") = <<"cr", "lf">>
      /\ Spell("line") = <<"ch", "dot", "cr", "lf">> /\ Spell("dot") = <<"dot", "cr", "lf">>
  BY DEF Spell
<1>2. /\ <<"plus", "ch">> \in Seq(Bytes) /\ <<"minus", "ch">> \in Seq(Bytes) /\ <<"cr", "lf">> \in Seq(Bytes)
      /\ <<"ch", "dot", "cr", "lf">> \in Seq(Bytes) /\ <<"dot", "cr", "lf">> \in Seq(Bytes)
  BY DEF Bytes
<1> QED
  BY <1>1, <1>2 DEF TokenKinds, LineKinds

LEMMA SpelledGrows ==
  ASSUME NEW r \in Seq([k : TokenKinds]), NEW k \in TokenKinds
  PROVE  Spelled(Append(r, [k |-> k])) = Spelled(r) \o Spell(k)
<1> DEFINE t  == Append(r, [k |-> k])
           P  == [i \in 1..Len(r) |-> Spell(r[i].k)]
           P1 == [i \in 1..Len(t) |-> Spell(t[i].k)]
<1>1. /\ Len(r) \in Nat /\ Len(t) = Len(r) + 1 /\ t[Len(r) + 1] = [k |-> k]
      /\ \A i \in 1..Len(r) : t[i] = r[i] /\ r[i].k \in TokenKinds
  <2>1. [k |-> k] \in [k : TokenKinds] /\ \A x \in [k : TokenKinds] : x.k \in TokenKinds
    OBVIOUS
  <2>2. \A i \in 1..Len(r) : r[i] \in [k : TokenKinds]
    BY ElementOfSeq
  <2> HIDE DEF TokenKinds
  <2> QED
    BY <2>1, <2>2, AppendProperties
<1>2. \A i \in 1..Len(r) : Spell(r[i].k) \in Seq(Bytes)
  BY <1>1, SpellTyped
<1>3. P \in Seq(Seq(Bytes)) /\ Len(P) = Len(r)
  BY <1>1, <1>2
<1>4. Spell(k) \in Seq(Bytes)
  BY SpellTyped
<1> HIDE DEF t
<1>5. P1 = Append(P, Spell(k))
  <2>1. Append(P, Spell(k)) = [i \in 1..(Len(r) + 1) |-> IF i = Len(r) + 1 THEN Spell(k) ELSE P[i]]
    BY <1>3, <1>4
  <2>2. \A i \in 1..(Len(r) + 1) : Spell(t[i].k) = IF i = Len(r) + 1 THEN Spell(k) ELSE P[i]
    BY <1>1
  <2> QED
    BY <1>1, <2>1, <2>2
<1>6. Joined(Append(P, Spell(k))) = Joined(P) \o Spell(k)
  BY <1>3, <1>4, JoinedGrows
<1> QED
  BY <1>5, <1>6 DEF Spelled, t

LEMMA SpelledNothing == Spelled(<<>>) = <<>>
  BY JoinedNothing DEF Spelled

\* The token-level automaton takes the states of the table, token by token.
LEMMA MultiToken ==
  ASSUME NEW s, NEW q \in {"DOT_DATA", "CRLF", "CRLFDOTCRLF"}, NEW k \in LineKinds, MultiAt(s, q)
  PROVE  MultiAt(s \o Spell(k), multiline_step(q, k)) /\ multiline_step(q, k) \in {"DOT_DATA", "CRLF", "CRLFDOTCRLF"}
<1> DEFINE All == InData \cup {"CRLFDOTCRLF"}
           N(p, c) == MultiNext(p, c)
<1>1. s \in Seq(Bytes) /\ q \in All /\ {"cr", "lf", "ch", "dot"} \subseteq Bytes
  BY DEF MultiAt, InData, Bytes
<1>2. CASE k = "eol"
  <2>1. MultiAt(Append(s, "cr"), N(q, "cr")) /\ N(q, "cr") \in All
    BY <1>1, MultiByte
  <2>2. MultiAt(Append(Append(s, "cr"), "lf"), N(N(q, "cr"), "lf"))
    BY <1>1, <2>1, MultiByte
  <2>3. N(N(q, "cr"), "lf") = multiline_step(q, k)
    BY <1>2 DEF MultiNext, Onward, Further, multiline_step
  <2> QED
    BY <1>1, <1>2, <2>2, <2>3, SpelledBytes DEF multiline_step
<1>3. CASE k = "line"
  <2>1. MultiAt(Append(s, "ch"), N(q, "ch")) /\ N(q, "ch") \in All
    BY <1>1, MultiByte
  <2> DEFINE s1 == Append(s, "ch")  q1 == N(q, "ch")
  <2>2. MultiAt(Append(s1, "dot"), N(q1, "dot")) /\ N(q1, "dot") \in All
    BY <1>1, <2>1, MultiByte
  <2> DEFINE s2 == Append(s1, "dot")  q2 == N(q1, "dot")
  <2>3. MultiAt(Append(s2, "cr"), N(q2, "cr")) /\ N(q2, "cr") \in All
    BY <1>1, <2>2, MultiByte
  <2>4. MultiAt(Append(Append(s2, "cr"), "lf"), N(N(q2, "cr"), "lf"))
    BY <1>1, <2>3, MultiByte
  <2>5. q1 = (IF q = "CRLFDOTCRLF" THEN q ELSE "DOT_DATA") /\ q2 = q1
    BY DEF MultiNext, Onward, Further
  <2> HIDE DEF q2
  <2>6. N(N(q2, "cr"), "lf") = multiline_step(q, k)
    BY <1>3, <2>5 DEF MultiNext, Onward, Further, multiline_step
  <2> QED
    BY <1>1, <1>3, <2>4, <2>6, SpelledBytes DEF multiline_step
<1>4. CASE k = "dot"
  <2>1. MultiAt(Append(s, "dot"), N(q, "dot")) /\ N(q, "dot") \in All
    BY <1>1, MultiByte
  <2> DEFINE s1 == Append(s, "dot")  q1 == N(q, "dot")
  <2>2. MultiAt(Append(s1, "cr"), N(q1, "cr")) /\ N(q1, "cr") \in All
    BY <1>1, <2>1, MultiByte
  <2>3. MultiAt(Append(Append(s1, "cr"), "lf"), N(N(q1, "cr"), "lf"))
    BY <1>1, <2>2, MultiByte
  <2>4. q1 = IF q = "CRLFDOTCRLF" THEN q ELSE IF q = "CRLF" THEN "CRLFDOT" ELSE "DOT_DATA"
    BY DEF MultiNext, Onward, Further
  <2> HIDE DEF q1
  <2>5. N(N(q1, "cr"), "lf") = multiline_step(q, k)
    BY <1>4, <2>4 DEF MultiNext, Onward, Further, multiline_step
  <2> QED
    BY <1>1, <1>4, <2>3, <2>5, SpelledBytes DEF multiline_step
<1> QED
  BY <1>2, <1>3, <1>4 DEF LineKinds

\* Every token after the status ends its line.
LEMMA SingleToken ==
  ASSUME NEW s, NEW q \in {"MSG", "CRLF"}, NEW k \in LineKinds, SingleAt(s, q)
  PROVE  SingleAt(s \o Spell(k), "CRLF")
<1> DEFINE N(p, c) == SingleNext(p, c)
<1>1. s \in Seq(Bytes) /\ q \in SingleStates /\ {"cr", "lf", "ch", "dot"} \subseteq Bytes
  BY DEF SingleAt, SingleStates, Bytes
<1>2. \A t, p : p \in {"MSG", "CRLF"} /\ SingleAt(t, p) =>
        SingleAt(Append(t, "ch"), p) /\ SingleAt(Append(t, "dot"), p) /\ SingleAt(Append(Append(t, "cr"), "lf"), "CRLF")
  <2> SUFFICES ASSUME NEW t, NEW p \in {"MSG", "CRLF"}, SingleAt(t, p)
               PROVE  SingleAt(Append(t, "ch"), p) /\ SingleAt(Append(t, "dot"), p)
                      /\ SingleAt(Append(Append(t, "cr"), "lf"), "CRLF")
    OBVIOUS
  <2>1. p \in SingleStates /\ p # "STAT"
    BY DEF SingleStates
  <2>2. SingleAt(Append(t, "ch"), N(p, "ch")) /\ SingleAt(Append(t, "dot"), N(p, "dot"))
    BY <1>1, <2>1, SingleByte
  <2>3. SingleAt(Append(t, "cr"), N(p, "cr")) /\ N(p, "cr") \in SingleStates
    BY <1>1, <2>1, SingleByte
  <2>4. N(p, "ch") = p /\ N(p, "dot") = p /\ N(p, "cr") \in {"CR", "CRLF"}
    BY DEF SingleNext
  <2>5. SingleAt(Append(Append(t, "cr"), "lf"), N(N(p, "cr"), "lf"))
    BY <1>1, <2>3, <2>4, SingleByte
  <2>6. N(N(p, "cr"), "lf") = "CRLF"
    BY <2>4 DEF SingleNext
  <2> QED
    BY <2>2, <2>4, <2>5, <2>6
<1>3. CASE k = "eol"
  BY <1>1, <1>2, <1>3, SpelledBytes
<1>4. CASE k = "line"
  <2>1. SingleAt(Append(Append(s, "ch"), "dot"), q)
    BY <1>2
  <2> QED
    BY <1>1, <1>2, <1>4, <2>1, SpelledBytes
<1>5. CASE k = "dot"
  <2>1. SingleAt(Append(s, "dot"), q)
    BY <1>2
  <2> QED
    BY <1>1, <1>2, <1>5, <2>1, SpelledBytes
<1> QED
  BY <1>3, <1>4, <1>5 DEF LineKinds

\* The reply so far: its status and the lines that follow it, and the states the two
\* byte tables are in after what it spells.
TokenInv ==
  /\ reply \in Seq([k : TokenKinds])
  /\ reply # <<>> =>
       /\ reply[1].k \in {"ok", "err"} /\ \A i \in 2..Len(reply) : reply[i].k \in LineKinds
       /\ RunOf(reply)[Len(reply)] \in {"DOT_DATA", "CRLF", "CRLFDOTCRLF"}
       /\ MultiAt(Spelled(reply), RunOf(reply)[Len(reply)])
       /\ SingleAt(Spelled(reply), IF Len(reply) = 1 THEN "MSG" ELSE "CRLF")

LEMMA NothingSpelled == MultiAt(<<>>, "CRLFDOT") /\ SingleAt(<<>>, "STAT")
<1>1. EndState(pop3_multiline_response_definition, <<>>) = "CRLFDOT"
  BY TrailStarts DEF pop3_multiline_response_definition
<1>2. EndState(pop3_singleline_response_definition, <<>>) = "STAT"
  BY TrailStarts DEF pop3_singleline_response_definition
<1> QED
  BY <1>1, <1>2, NothingRaised DEF MultiAt, SingleAt

LEMMA ReplyGrowsKeeps == TokenInv /\ ReplyGrows => TokenInv'
<1> SUFFICES ASSUME TokenInv, NEW k \in TokenKinds, Extend(k) PROVE TokenInv'
  BY DEF ReplyGrows, TokenKinds, LineKinds
<1> DEFINE tok == [k |-> k]
<1>1. reply' = Append(reply, tok) /\ (k \in {"ok", "err"} <=> reply = <<>>) /\ reply \in Seq([k : TokenKinds])
  BY DEF Extend, TokenInv
<1>2. tok \in [k : TokenKinds] /\ tok.k = k
  OBVIOUS
<1> HIDE DEF tok
<1>3. /\ reply' \in Seq([k : TokenKinds]) /\ Len(reply') = Len(reply) + 1 /\ Len(reply) \in Nat /\ reply' # <<>>
      /\ reply'[Len(reply) + 1] = tok /\ \A i \in 1..Len(reply) : reply'[i] = reply[i]
  BY <1>1, <1>2, AppendProperties
<1>4. Spelled(reply') = Spelled(reply) \o Spell(k)
  BY <1>1, SpelledGrows DEF tok
<1>5. RunOf(reply')[Len(reply')] = multiline_step(RunOf(reply)[Len(reply)], k)
  BY <1>1, <1>2, RunGrows
<1>6. CASE reply = <<>>
  <2>1. k \in {"ok", "err"} /\ Len(reply) = 0 /\ Spelled(reply) = <<>> /\ RunOf(reply)[Len(reply)] = "CRLFDOT"
    BY <1>1, <1>6, SpelledNothing, RunStarts
  <2>2. PICK b \in {"plus", "minus"} : <<>> \o Spell(k) = Append(Append(<<>>, b), "ch")
    <3>1. <<>> \in Seq(Bytes)
      OBVIOUS
    <3>2. CASE k = "ok"
      BY <3>1, <3>2, SpelledBytes
    <3>3. CASE k = "err"
      BY <3>1, <3>3, SpelledBytes
    <3> QED
      BY <2>1, <3>2, <3>3
  <2>3. b \in Bytes /\ "ch" \in Bytes
    BY DEF Bytes
  <2>4. MultiAt(Append(<<>>, b), "DOT_DATA") /\ MultiAt(Append(Append(<<>>, b), "ch"), "DOT_DATA")
    <3>1. MultiNext("CRLFDOT", b) = "DOT_DATA" /\ MultiNext("DOT_DATA", "ch") = "DOT_DATA"
      BY DEF MultiNext, Onward, Further
    <3>2. MultiAt(Append(<<>>, b), "DOT_DATA")
      BY <2>3, <3>1, NothingSpelled, MultiByte DEF InData
    <3> QED
      BY <2>3, <3>1, <3>2, MultiByte DEF InData
  <2>5. SingleAt(Append(Append(<<>>, b), "ch"), "MSG")
    <3>1. SingleNext("STAT", b) \in {"OK", "ERR"} /\ \A p \in {"OK", "ERR"} : SingleNext(p, "ch") = "MSG"
      BY DEF SingleNext
    <3>2. SingleAt(Append(<<>>, b), SingleNext("STAT", b))
      BY <2>3, NothingSpelled, SingleByte DEF SingleStates
    <3> QED
      BY <2>3, <3>1, <3>2, SingleByte DEF SingleStates
  <2>6. multiline_step("CRLFDOT", k) = "DOT_DATA"
    BY <2>1 DEF multiline_step
  <2>7. Spelled(reply') = Append(Append(<<>>, b), "ch") /\ RunOf(reply')[Len(reply')] = "DOT_DATA"
    BY <1>4, <1>5, <2>1, <2>2, <2>6
  <2>8. Len(reply') = 1 /\ reply'[1].k = k /\ \A i \in 2..Len(reply') : FALSE
    BY <1>2, <1>3, <2>1
  <2>9. /\ MultiAt(Spelled(reply'), RunOf(reply')[Len(reply')])
        /\ SingleAt(Spelled(reply'), IF Len(reply') = 1 THEN "MSG" ELSE "CRLF")
    BY <2>4, <2>5, <2>7, <2>8
  <2> QED
    BY <1>3, <2>1, <2>7, <2>8, <2>9 DEF TokenInv
<1>7. CASE reply # <<>>
  <2>1. k \in LineKinds /\ Len(reply) > 0 /\ Len(reply') # 1
    BY <1>1, <1>3, <1>7 DEF TokenKinds
  <2>2. /\ multiline_step(RunOf(reply)[Len(reply)], k) \in {"DOT_DATA", "CRLF", "CRLFDOTCRLF"}
        /\ MultiAt(Spelled(reply'), multiline_step(RunOf(reply)[Len(reply)], k))
    BY <1>4, <1>7, <2>1, MultiToken DEF TokenInv
  <2>3. SingleAt(Spelled(reply'), "CRLF")
    BY <1>4, <1>7, <2>1, SingleToken DEF TokenInv
  <2>4. reply'[1].k \in {"ok", "err"} /\ \A i \in 2..Len(reply') : reply'[i].k \in LineKinds
    <3>1. reply[1].k \in {"ok", "err"} /\ \A i \in 2..Len(reply) : reply[i].k \in LineKinds
      BY <1>7 DEF TokenInv
    <3>2. \A i \in 2..Len(reply') : i \in 2..Len(reply) \/ i = Len(reply) + 1
      BY <1>3
    <3> QED
      BY <1>2, <1>3, <2>1, <3>1, <3>2
  <2> QED
    BY <1>3, <1>5, <2>1, <2>2, <2>3, <2>4 DEF TokenInv
<1> QED
  BY <1>6, <1>7

LEMMA TokensJudged == TokenInv => TokensAgree
<1> SUFFICES ASSUME TokenInv, reply # <<>> PROVE TokensAgree
  BY DEF TokensAgree, MultilineAgrees, SinglelineAgrees
<1>1. MultilineAgrees
  <2>1. multiline_checker(reply) = "FINISHED_CONSUMING" <=> RunOf(reply)[Len(reply)] = "CRLFDOTCRLF"
    BY CheckerIs
  <2> QED
    BY <2>1 DEF TokenInv, MultiAt, MultilineAgrees
<1>2. SinglelineAgrees
  <2>1. reply[1].k \in {"ok", "err"} /\ Len(reply) \in Nat /\ Len(reply) > 0
    BY DEF TokenInv
  <2>2. singleline_builder(reply) = "BUILD_FINISHED" <=> \E i \in 2..Len(reply) : reply[i].k \in LineKinds
    BY <2>1 DEF singleline_builder, LineKinds
  <2>3. (\E i \in 2..Len(reply) : reply[i].k \in LineKinds) <=> Len(reply) # 1
    <3>1. Len(reply) # 1 => 2 \in 2..Len(reply)
      BY <2>1
    <3> QED
      BY <2>1, <3>1 DEF TokenInv
  <2> QED
    BY <2>2, <2>3 DEF TokenInv, SingleAt, SinglelineAgrees
<1> QED
  BY <1>1, <1>2 DEF TokensAgree

------------------------------------------------------------------------------
(* The stuffing services.                                                    *)

\* pop3_decrypt_parser.c: the byte that leads on from each state, where to, and
\* plain data for any other; only a dot at the start of a line is stuffed.
DecStates == {"DOT_DATA", "CR", "CRLF", "CRLFDOT", "CRLFDOTMANY"}
DecOnward(p)  == CASE p = "DOT_DATA" -> "cr" [] p = "CR" -> "lf" [] OTHER -> "dot"
DecFurther(p) == CASE p = "DOT_DATA" -> "CR" [] p = "CR" -> "CRLF" [] p = "CRLF" -> "CRLFDOT" [] OTHER -> "CRLFDOTMANY"
DecNext(p, c) == IF c = DecOnward(p) THEN DecFurther(p) ELSE "DOT_DATA"

LEMMA DecTable ==
  ASSUME NEW p \in DecStates, NEW c \in Bytes
  PROVE  LET row == parser_feed(pop3_decrypt_definition, p, c)
         IN  /\ row.dest = DecNext(p, c)
             /\ row.event = IF p = "CRLF" /\ c = "dot" THEN "DAT_STUFFED_DOT" ELSE "DAT_STUFFED"
<1> DEFINE def == pop3_decrypt_definition
           a == T(DecOnward(p), DecFurther(p), IF p = "CRLF" THEN "DAT_STUFFED_DOT" ELSE "DAT_STUFFED")
           b == T(ANY, "DOT_DATA", "DAT_STUFFED")
<1>1. c # ANY /\ DecOnward(p) # ANY
  BY DEF Bytes, ANY, DecOnward
<1>2. def.states[p] = <<a, b>>
  BY DEF pop3_decrypt_definition, ST_DOT_DATA, ST_DAT_CR, ST_DEC_CRLF, ST_DEC_CRLFDOT, ST_DEC_CRLFDOTMANY,
         DecOnward, DecFurther, DecStates
<1>3. /\ a.when = DecOnward(p) /\ a.dest = DecFurther(p)
      /\ a.event = IF p = "CRLF" THEN "DAT_STUFFED_DOT" ELSE "DAT_STUFFED"
  BY DEF T
<1>4. b.when = ANY /\ b.dest = "DOT_DATA" /\ b.event = "DAT_STUFFED"
  BY DEF T
<1> HIDE DEF def, a, b
<1>5. parser_feed(def, p, c) = IF a.when \in {c, ANY} THEN a ELSE b
  BY <1>2, <1>4, TwoRows
<1>6. p = "CRLF" => DecOnward(p) = "dot"
  BY DEF DecOnward
<1> QED
  BY <1>1, <1>3, <1>4, <1>5, <1>6 DEF DecNext, def

\* pop3_encrypt_parser.c, up to the end of the data.
EncNext(q, c) ==
  CASE q = "DOT_DATA"  -> IF c = "cr" THEN "CR" ELSE "DOT_DATA"
    [] q = "CR"        -> IF c = "lf" THEN "CRLF" ELSE "DOT_DATA"
    [] q = "CRLF"      -> IF c = "dot" THEN "CRLFDOT" ELSE "DOT_DATA"
    [] q = "CRLFDOT"   -> IF c = "cr" THEN "CRLFDOTCR" ELSE "DOT_DATA"
    [] q = "CRLFDOTCR" -> IF c = "lf" THEN "CRLFDOTCRLF" ELSE "DOT_DATA"
EncEvent(q, c) ==
  CASE q = "CRLFDOT" /\ c = "dot"  -> "DAT_STUFFED_DOT"
    [] q = "CRLFDOTCR" /\ c = "lf" -> "DAT_STUFFED_END"
    [] OTHER                       -> "DAT_STUFFED"

LEMMA EncTable ==
  ASSUME NEW q \in InData, NEW c \in Bytes
  PROVE  LET row == parser_feed(pop3_encrypt_definition, q, c)
         IN  row.dest = EncNext(q, c) /\ row.event = EncEvent(q, c)
<1> DEFINE def == pop3_encrypt_definition
           b == T(ANY, "DOT_DATA", "DAT_STUFFED")
<1>1. c # ANY
  BY DEF Bytes, ANY
<1>2. b.when = ANY /\ b.dest = "DOT_DATA" /\ b.event = "DAT_STUFFED"
  BY DEF T
<1>3. CASE q = "CRLFDOT"
  <2> DEFINE a1 == T("cr", "CRLFDOTCR", "DAT_STUFFED")  a2 == T("dot", "DOT_DATA", "DAT_STUFFED_DOT")
  <2>1. def.states[q] = <<a1, a2, b>>
    BY <1>3 DEF pop3_encrypt_definition, ST_ENC_CRLFDOT
  <2>2. /\ a1.when = "cr" /\ a1.dest = "CRLFDOTCR" /\ a1.event = "DAT_STUFFED"
        /\ a2.when = "dot" /\ a2.dest = "DOT_DATA" /\ a2.event = "DAT_STUFFED_DOT"
    BY DEF T
  <2>3. "cr" # ANY /\ "dot" # ANY
    BY DEF ANY
  <2> HIDE DEF def, a1, a2, b
  <2>4. parser_feed(def, q, c) = IF a1.when \in {c, ANY} THEN a1 ELSE IF a2.when \in {c, ANY} THEN a2 ELSE b
    BY <1>2, <2>1, ThreeRows
  <2> QED
    BY <1>1, <1>2, <1>3, <2>2, <2>3, <2>4 DEF EncNext, EncEvent, def
<1>4. CASE q # "CRLFDOT"
  <2> DEFINE a == T(Onward(q), Further(q), IF q = "CRLFDOTCR" THEN "DAT_STUFFED_END" ELSE "DAT_STUFFED")
  <2>1. def.states[q] = <<a, b>>
    BY <1>4 DEF pop3_encrypt_definition, ST_DOT_DATA, ST_DAT_CR, ST_DAT_CRLF, ST_ENC_CRLFDOTCR, Onward, Further, InData
  <2>2. /\ a.when = Onward(q) /\ a.dest = Further(q)
        /\ a.event = IF q = "CRLFDOTCR" THEN "DAT_STUFFED_END" ELSE "DAT_STUFFED"
    BY DEF T
  <2>3. Onward(q) # ANY
    BY DEF Onward, InData, ANY
  <2> HIDE DEF def, a, b
  <2>4. parser_feed(def, q, c) = IF a.when \in {c, ANY} THEN a ELSE b
    BY <1>2, <2>1, TwoRows
  <2>5. EncNext(q, c) = IF c = Onward(q) THEN Further(q) ELSE "DOT_DATA"
    BY <1>4 DEF EncNext, Onward, Further, InData
  <2>6. EncEvent(q, c) = IF q = "CRLFDOTCR" /\ c = Onward(q) THEN "DAT_STUFFED_END" ELSE "DAT_STUFFED"
    BY <1>4 DEF EncEvent, Onward, InData
  <2> QED
    BY <1>1, <1>2, <2>2, <2>3, <2>4, <2>5, <2>6 DEF def
<1> QED
  BY <1>3, <1>4

\* Pieces made byte by byte: one more byte is one more piece.
LEMMA BodyGrows ==
  ASSUME NEW s \in Seq(Bytes), NEW c \in Bytes
  PROVE  body(Append(s, c)) = body(s) \o stuffed(c, parser_feed(pop3_decrypt_definition, EndState(pop3_decrypt_definition, s), c).event)
<1> DEFINE def == pop3_decrypt_definition
           t   == Append(s, c)
           e   == parser_feed(def, EndState(def, s), c).event
           P   == [i \in 1..Len(s) |-> stuffed(s[i], RowAt(def, s, i).event)]
           P1  == [i \in 1..Len(t) |-> stuffed(t[i], RowAt(def, t, i).event)]
<1>1. /\ Len(s) \in Nat /\ Len(t) = Len(s) + 1 /\ t[Len(s) + 1] = c
      /\ \A i \in 1..Len(s) : t[i] = s[i] /\ s[i] \in Bytes
  BY AppendProperties, ElementOfSeq
<1>2. /\ \A i \in 1..Len(s) : RowAt(def, t, i) = RowAt(def, s, i)
      /\ RowAt(def, t, Len(s) + 1) = parser_feed(def, EndState(def, s), c)
  BY TrailGrows
<1>3. \A ev : \A x \in Bytes : stuffed(x, ev) \in Seq(Bytes)
  <2>1. \A x \in Bytes : <<"dot", x>> \in Seq(Bytes) /\ <<x>> \in Seq(Bytes)
    BY DEF Bytes
  <2> QED
    BY <2>1 DEF stuffed
<1> HIDE DEF def, t
<1>4. P \in Seq(Seq(Bytes)) /\ Len(P) = Len(s) /\ stuffed(c, e) \in Seq(Bytes)
  BY <1>1, <1>3
<1>5. P1 = Append(P, stuffed(c, e))
  <2>1. Append(P, stuffed(c, e)) = [i \in 1..(Len(s) + 1) |-> IF i = Len(s) + 1 THEN stuffed(c, e) ELSE P[i]]
    BY <1>4
  <2>2. \A i \in 1..(Len(s) + 1) : stuffed(t[i], RowAt(def, t, i).event) = IF i = Len(s) + 1 THEN stuffed(c, e) ELSE P[i]
    BY <1>1, <1>2
  <2> QED
    BY <1>1, <2>1, <2>2
<1>6. Joined(Append(P, stuffed(c, e))) = Joined(P) \o stuffed(c, e)
  BY <1>4, JoinedGrows
<1> QED
  BY <1>5, <1>6 DEF body, t, def

LEMMA OutGrows ==
  ASSUME NEW s \in Seq(Bytes), NEW c \in Bytes
  PROVE  LET ev == parser_feed(pop3_encrypt_definition, EndState(pop3_encrypt_definition, s), c).event
         IN  /\ pop3_encrypt(Append(s, c)).out = pop3_encrypt(s).out \o unstuffed(c, ev)
             /\ pop3_encrypt(Append(s, c)).end <=> pop3_encrypt(s).end \/ ev = "DAT_STUFFED_END"
<1> DEFINE def == pop3_encrypt_definition
           t   == Append(s, c)
           e   == parser_feed(def, EndState(def, s), c).event
           P   == [i \in 1..Len(s) |-> unstuffed(s[i], RowAt(def, s, i).event)]
           P1  == [i \in 1..Len(t) |-> unstuffed(t[i], RowAt(def, t, i).event)]
<1>1. /\ Len(s) \in Nat /\ Len(t) = Len(s) + 1 /\ t[Len(s) + 1] = c
      /\ \A i \in 1..Len(s) : t[i] = s[i] /\ s[i] \in Bytes
  BY AppendProperties, ElementOfSeq
<1>2. /\ \A i \in 1..Len(s) : RowAt(def, t, i) = RowAt(def, s, i)
      /\ RowAt(def, t, Len(s) + 1) = parser_feed(def, EndState(def, s), c)
  BY TrailGrows
<1>3. \A ev : \A x \in Bytes : unstuffed(x, ev) \in Seq(Bytes)
  <2>1. <<>> \in Seq(Bytes) /\ \A x \in Bytes : <<x>> \in Seq(Bytes)
    BY DEF Bytes
  <2> QED
    BY <2>1 DEF unstuffed
<1> HIDE DEF def, t
<1>4. P \in Seq(Seq(Bytes)) /\ Len(P) = Len(s) /\ unstuffed(c, e) \in Seq(Bytes)
  BY <1>1, <1>3
<1>5. P1 = Append(P, unstuffed(c, e))
  <2>1. Append(P, unstuffed(c, e)) = [i \in 1..(Len(s) + 1) |-> IF i = Len(s) + 1 THEN unstuffed(c, e) ELSE P[i]]
    BY <1>4
  <2>2. \A i \in 1..(Len(s) + 1) : unstuffed(t[i], RowAt(def, t, i).event) = IF i = Len(s) + 1 THEN unstuffed(c, e) ELSE P[i]
    BY <1>1, <1>2
  <2> QED
    BY <1>1, <2>1, <2>2
<1>6. Joined(Append(P, unstuffed(c, e))) = Joined(P) \o unstuffed(c, e)
  BY <1>4, JoinedGrows
<1> DEFINE Ends(u, i) == RowAt(def, u, i).event = "DAT_STUFFED_END"
<1>7. pop3_encrypt(t).out = Joined(P1) /\ pop3_encrypt(s).out = Joined(P)
  BY DEF pop3_encrypt, def
<1>8. (pop3_encrypt(t).end <=> \E i \in 1..(Len(s) + 1) : Ends(t, i)) /\ (pop3_encrypt(s).end <=> \E i \in 1..Len(s) : Ends(s, i))
  BY <1>1 DEF pop3_encrypt, def
<1>9. (\A i \in 1..Len(s) : Ends(t, i) <=> Ends(s, i)) /\ (Ends(t, Len(s) + 1) <=> e = "DAT_STUFFED_END")
  BY <1>2
<1>10. \A i : i \in 1..(Len(s) + 1) <=> i \in 1..Len(s) \/ i = Len(s) + 1
  BY <1>1
<1>11. pop3_encrypt(t).out = pop3_encrypt(s).out \o unstuffed(c, e)
  BY <1>5, <1>6, <1>7
<1> HIDE DEF Ends, e
<1>12. pop3_encrypt(t).end <=> pop3_encrypt(s).end \/ e = "DAT_STUFFED_END"
  BY <1>8, <1>9, <1>10
<1> QED
  BY <1>11, <1>12 DEF t, def, e

\* What decrypt has written when it has read s, but for the final line.
Stuffed(s) == leading(s) \o body(s)

\* decrypt is in state p after s.
DecAt(s, p) ==
  /\ s \in Seq(Bytes) /\ body(s) \in Seq(Bytes) /\ Stuffed(s) \in Seq(Bytes)
  /\ EndState(pop3_decrypt_definition, s) = p

\* pop3_encrypt, in state q after t, has given back o.
EncAt(t, q, o) ==
  /\ t \in Seq(Bytes) /\ EndState(pop3_encrypt_definition, t) = q
  /\ pop3_encrypt(t).out = o /\ o \in Seq(Bytes)
  /\ pop3_encrypt(t).end <=> q = "CRLFDOTCRLF"

LEMMA NothingStuffed == DecAt(<<>>, "CRLFDOT") /\ EncAt(<<>>, "CRLFDOT", <<>>) /\ Stuffed(<<>>) = <<>>
<1>1. EndState(pop3_decrypt_definition, <<>>) = "CRLFDOT" /\ EndState(pop3_encrypt_definition, <<>>) = "CRLFDOT"
  BY TrailStarts DEF pop3_decrypt_definition, pop3_encrypt_definition
<1>2. body(<<>>) = <<>> /\ leading(<<>>) = <<>>
  BY JoinedNothing DEF body, leading
<1>3. pop3_encrypt(<<>>).out = <<>> /\ ~pop3_encrypt(<<>>).end
  BY JoinedNothing DEF pop3_encrypt
<1>4. <<>> \o <<>> = <<>> /\ <<>> \in Seq(Bytes)
  OBVIOUS
<1> QED
  BY <1>1, <1>2, <1>3, <1>4 DEF DecAt, EncAt, Stuffed

\* One more byte for decrypt: a dot at the start of a line is doubled.
LEMMA DecByte ==
  ASSUME NEW s, NEW p \in DecStates, NEW c \in Bytes, DecAt(s, p), s = <<>> => p = "CRLFDOT"
  PROVE  /\ DecAt(Append(s, c), DecNext(p, c))
         /\ Stuffed(Append(s, c)) = IF c = "dot" /\ (s = <<>> \/ p = "CRLF")
                                    THEN Append(Append(Stuffed(s), "dot"), c) ELSE Append(Stuffed(s), c)
<1> DEFINE def == pop3_decrypt_definition
           t   == Append(s, c)
           e   == IF p = "CRLF" /\ c = "dot" THEN "DAT_STUFFED_DOT" ELSE "DAT_STUFFED"
<1>1. s \in Seq(Bytes) /\ body(s) \in Seq(Bytes) /\ Stuffed(s) \in Seq(Bytes) /\ EndState(def, s) = p
  BY DEF DecAt
<1>2. parser_feed(def, p, c).dest = DecNext(p, c) /\ parser_feed(def, p, c).event = e
  BY DecTable
<1>3. t \in Seq(Bytes) /\ EndState(def, t) = DecNext(p, c)
  BY <1>1, <1>2, TrailGrows
<1>4. body(t) = body(s) \o stuffed(c, e)
  BY <1>1, <1>2, BodyGrows
<1>5. stuffed(c, e) = IF p = "CRLF" /\ c = "dot" THEN <<"dot", c>> ELSE <<c>>
  BY DEF stuffed
<1>6. "dot" \in Bytes /\ <<"dot", c>> \in Seq(Bytes) /\ <<c>> \in Seq(Bytes)
  BY DEF Bytes
<1>7. \A u \in Seq(Bytes) : u \o <<c>> = Append(u, c) /\ u \o <<"dot", c>> = Append(Append(u, "dot"), c)
  BY <1>6
<1>8. leading(s) \in Seq(Bytes) /\ leading(t) \in Seq(Bytes)
  BY <1>6 DEF leading
<1> HIDE DEF def, e
<1>9. body(t) \in Seq(Bytes) /\ Stuffed(t) \in Seq(Bytes)
  <2>1. stuffed(c, e) \in Seq(Bytes)
    BY <1>5, <1>6
  <2>2. body(t) \in Seq(Bytes)
    BY <1>1, <1>4, <2>1, ConcatProperties
  <2> QED
    BY <1>8, <2>2, ConcatProperties DEF Stuffed
<1>10. Stuffed(t) = IF c = "dot" /\ (s = <<>> \/ p = "CRLF") THEN Append(Append(Stuffed(s), "dot"), c) ELSE Append(Stuffed(s), c)
  <2>1. CASE s = <<>>
    <3>1. t = <<c>> /\ t # <<>> /\ t[1] = c
      BY <2>1
    <3>2. leading(t) = IF c = "dot" THEN <<"dot">> ELSE <<>>
      BY <3>1 DEF leading
    <3>3. body(s) = <<>> /\ Stuffed(s) = <<>>
      BY <2>1, NothingStuffed, JoinedNothing DEF body
    <3>4. body(t) = <<c>>
      <4>1. stuffed(c, e) = <<c>>
        BY <1>5, <2>1
      <4>2. <<>> \o <<c>> = <<c>>
        BY <1>6
      <4> QED
        BY <1>4, <3>3, <4>1, <4>2
    <3>5. <<"dot">> \o <<c>> = Append(Append(<<>>, "dot"), c) /\ <<>> \o <<c>> = Append(<<>>, c)
      BY <1>6
    <3> QED
      BY <2>1, <3>2, <3>3, <3>4, <3>5 DEF Stuffed
  <2>2. CASE s # <<>>
    <3>1. t # <<>> /\ t[1] = s[1]
      BY <1>1, <2>2
    <3>2. leading(t) = leading(s)
      BY <2>2, <3>1 DEF leading
    <3> HIDE DEF t
    <3>3. \A u, v, w \in Seq(Bytes) : u \o (v \o w) = (u \o v) \o w
      OBVIOUS
    <3>4. Stuffed(t) = Stuffed(s) \o stuffed(c, e)
      <4>1. stuffed(c, e) \in Seq(Bytes)
        BY <1>5, <1>6
      <4>2. leading(s) \o (body(s) \o stuffed(c, e)) = (leading(s) \o body(s)) \o stuffed(c, e)
        BY <1>1, <1>8, <3>3, <4>1
      <4> QED
        BY <1>4, <3>2, <4>2 DEF Stuffed
    <3> QED
      BY <1>1, <1>5, <1>7, <2>2, <3>4
  <2> QED
    BY <2>1, <2>2
<1> QED
  BY <1>3, <1>9, <1>10 DEF DecAt, def

\* One more byte for pop3_encrypt: kept, but for the stuffing dot and the line feed
\* of the final line.
LEMMA EncByte ==
  ASSUME NEW t, NEW q \in InData, NEW c \in Bytes, NEW o, EncAt(t, q, o)
  PROVE  EncAt(Append(t, c), EncNext(q, c), IF EncEvent(q, c) = "DAT_STUFFED" THEN Append(o, c) ELSE o)
<1> DEFINE def == pop3_encrypt_definition
           u   == Append(t, c)
           e   == EncEvent(q, c)
           w   == IF e = "DAT_STUFFED" THEN Append(o, c) ELSE o
<1>1. t \in Seq(Bytes) /\ EndState(def, t) = q /\ pop3_encrypt(t).out = o /\ o \in Seq(Bytes) /\ ~pop3_encrypt(t).end
  BY DEF EncAt, InData
<1>2. parser_feed(def, q, c).dest = EncNext(q, c) /\ parser_feed(def, q, c).event = e
  BY EncTable
<1>3. u \in Seq(Bytes) /\ EndState(def, u) = EncNext(q, c)
  BY <1>1, <1>2, TrailGrows
<1>4. pop3_encrypt(u).out = o \o unstuffed(c, e) /\ (pop3_encrypt(u).end <=> e = "DAT_STUFFED_END")
  BY <1>1, <1>2, OutGrows
<1>5. o \o unstuffed(c, e) = w /\ w \in Seq(Bytes)
  BY <1>1 DEF unstuffed
<1>6. EncNext(q, c) = "CRLFDOTCRLF" <=> e = "DAT_STUFFED_END"
  BY DEF EncNext, EncEvent, InData
<1> HIDE DEF def, u, e, w
<1>7. EncAt(u, EncNext(q, c), w)
  BY <1>3, <1>4, <1>5, <1>6 DEF EncAt, def
<1> QED
  BY <1>7 DEF u, w, e

\* A line of dots so far, or one that has just ended.
DotsSoFar(s) == \E i \in 1..Len(s) : DotLine(s, i, Len(s))
DotsEnded(s) ==
  /\ Len(s) > 2 /\ s[Len(s) - 1] = "cr" /\ s[Len(s)] = "lf"
  /\ \E i \in 1..(Len(s) - 2) : DotLine(s, i, Len(s) - 2)

\* What a regular mail does not have: a blank line, or a line of dots alone before
\* one that starts with a dot.
BlankFirst(s) == Len(s) > 0 /\ s[1] = "cr"
BlankLater(s) == \E i \in 1..(Len(s) - 1) : s[i] = "lf" /\ s[i + 1] = "cr"
DotAfterDots(s) ==
  \E j \in 1..(Len(s) - 3) :
    /\ \E i \in 1..j : DotLine(s, i, j)
    /\ s[j + 1] = "cr" /\ s[j + 2] = "lf" /\ s[j + 3] = "dot"
Irregularity(s) == BlankFirst(s) \/ BlankLater(s) \/ DotAfterDots(s)

\* The two tables after a regular mail: pop3_encrypt knows where the line stands, and
\* so does decrypt, but after a line of dots alone.
InStep(s, p, q) ==
  \/ s = <<>> /\ p = "CRLFDOT" /\ q = "CRLFDOT"
  \/ /\ s # <<>> /\ s[Len(s)] \in {"dot", "ch"} /\ q = "DOT_DATA"
     /\ p = "DOT_DATA" \/ (p \in {"CRLFDOT", "CRLFDOTMANY"} /\ DotsSoFar(s))
  \/ /\ s # <<>> /\ s[Len(s)] = "lf" /\ q = "CRLF"
     /\ p = "CRLF" \/ (p = "DOT_DATA" /\ DotsEnded(s))

MailInv ==
  /\ mail \in Seq(Bytes)
  /\ Irregularity(mail) \/ \E p \in DecStates, q \in InData :
       DecAt(mail, p) /\ EncAt(Stuffed(mail), q, mail) /\ InStep(mail, p, q)

LEMMA DotLineStays ==
  ASSUME NEW s \in Seq(Bytes), NEW c \in Bytes, NEW j \in 1..Len(s), NEW i \in 1..j
  PROVE  DotLine(Append(s, c), i, j) <=> DotLine(s, i, j)
<1>1. Len(s) \in Nat /\ \A k \in 1..Len(s) : Append(s, c)[k] = s[k]
  BY AppendProperties
<1>2. \A k \in i..j : k \in 1..Len(s)
  BY <1>1
<1>3. i # 1 => i - 1 \in 1..Len(s)
  BY <1>1
<1> QED
  BY <1>1, <1>2, <1>3 DEF DotLine

LEMMA IrregularityStays ==
  ASSUME NEW s \in Seq(Bytes), NEW c \in Bytes, Irregularity(s)
  PROVE  Irregularity(Append(s, c))
<1> DEFINE t == Append(s, c)
<1>1. Len(s) \in Nat /\ Len(t) = Len(s) + 1 /\ \A k \in 1..Len(s) : t[k] = s[k]
  BY AppendProperties
<1>2. CASE BlankFirst(s)
  BY <1>1, <1>2 DEF BlankFirst, Irregularity
<1>3. CASE BlankLater(s)
  <2>1. PICK i \in 1..(Len(s) - 1) : s[i] = "lf" /\ s[i + 1] = "cr"
    BY <1>3 DEF BlankLater
  <2>2. i \in 1..(Len(t) - 1) /\ i \in 1..Len(s) /\ i + 1 \in 1..Len(s)
    BY <1>1
  <2>3. BlankLater(t)
    BY <1>1, <2>1, <2>2 DEF BlankLater
  <2> QED
    BY <2>3 DEF Irregularity
<1>4. CASE DotAfterDots(s)
  <2>1. PICK j \in 1..(Len(s) - 3) : /\ \E i \in 1..j : DotLine(s, i, j)
                                    /\ s[j + 1] = "cr" /\ s[j + 2] = "lf" /\ s[j + 3] = "dot"
    BY <1>4 DEF DotAfterDots
  <2>2. PICK i \in 1..j : DotLine(s, i, j)
    BY <2>1
  <2>3. j \in 1..(Len(t) - 3) /\ j \in 1..Len(s) /\ j + 1 \in 1..Len(s) /\ j + 2 \in 1..Len(s) /\ j + 3 \in 1..Len(s)
    BY <1>1
  <2>4. DotLine(t, i, j)
    BY <2>2, <2>3, DotLineStays
  <2> HIDE DEF t
  <2>5. DotAfterDots(t)
    BY <1>1, <2>1, <2>3, <2>4 DEF DotAfterDots
  <2> QED
    BY <2>5 DEF Irregularity, t
<1> QED
  BY <1>2, <1>3, <1>4 DEF Irregularity

\* One more dot, plain byte or end of line.
LEMMA DotGrows ==
  ASSUME NEW s, NEW p \in DecStates, NEW q \in InData, DecAt(s, p), EncAt(Stuffed(s), q, s), InStep(s, p, q),
         ~Irregularity(Append(s, "dot"))
  PROVE  \E p1 \in DecStates, q1 \in InData :
           DecAt(Append(s, "dot"), p1) /\ EncAt(Stuffed(Append(s, "dot")), q1, Append(s, "dot")) /\ InStep(Append(s, "dot"), p1, q1)
<1> DEFINE t == Append(s, "dot")  W == Stuffed(s)  p1 == DecNext(p, "dot")
<1>1. s \in Seq(Bytes) /\ W \in Seq(Bytes) /\ "dot" \in Bytes
  BY DEF DecAt, Bytes
<1>2. /\ Len(s) \in Nat /\ t # <<>> /\ Len(t) = Len(s) + 1 /\ t[Len(t)] = "dot" /\ t[Len(s) + 1] = "dot"
      /\ \A k \in 1..Len(s) : t[k] = s[k]
  BY <1>1, AppendProperties
<1>3. s = <<>> => p = "CRLFDOT"
  BY DEF InStep
<1>4. /\ DecAt(t, p1)
      /\ Stuffed(t) = IF s = <<>> \/ p = "CRLF" THEN Append(Append(W, "dot"), "dot") ELSE Append(W, "dot")
  BY <1>1, <1>3, DecByte
<1>5. p1 \in DecStates /\ "DOT_DATA" \in InData /\ "CRLFDOT" \in InData
  BY DEF DecNext, DecOnward, DecFurther, DecStates, InData
<1>6. EncAt(Stuffed(t), "DOT_DATA", t) /\ InStep(t, p1, "DOT_DATA")
  <2>1. CASE s = <<>>
    <3>1. q = "CRLFDOT" /\ p = "CRLFDOT" /\ p1 = "CRLFDOTMANY"
      BY <2>1 DEF InStep, DecNext, DecOnward, DecFurther
    <3>2. EncAt(Append(W, "dot"), "DOT_DATA", s)
      <4>1. EncNext(q, "dot") = "DOT_DATA" /\ EncEvent(q, "dot") # "DAT_STUFFED"
        BY <3>1 DEF EncNext, EncEvent
      <4> QED
        BY <1>1, <4>1, EncByte
    <3>3. EncAt(Append(Append(W, "dot"), "dot"), "DOT_DATA", t)
      <4>1. EncNext("DOT_DATA", "dot") = "DOT_DATA" /\ EncEvent("DOT_DATA", "dot") = "DAT_STUFFED"
        BY DEF EncNext, EncEvent
      <4> QED
        BY <1>1, <1>5, <3>2, <4>1, EncByte
    <3>4. DotsSoFar(t)
      <4>1. Len(t) = 1 /\ t[1] = "dot"
        BY <1>2, <2>1
      <4>2. DotLine(t, 1, 1)
        BY <4>1 DEF DotLine
      <4> QED
        BY <4>1, <4>2 DEF DotsSoFar
    <3> QED
      BY <1>2, <1>4, <2>1, <3>1, <3>3, <3>4 DEF InStep
  <2>2. CASE s # <<>> /\ s[Len(s)] \in {"dot", "ch"}
    <3>1. q = "DOT_DATA" /\ p # "CRLF"
      BY <2>2 DEF InStep
    <3>2. EncAt(Append(W, "dot"), "DOT_DATA", t)
      <4>1. EncNext(q, "dot") = "DOT_DATA" /\ EncEvent(q, "dot") = "DAT_STUFFED"
        BY <3>1 DEF EncNext, EncEvent
      <4> QED
        BY <1>1, <4>1, EncByte
    <3>3. p1 = "DOT_DATA" \/ (p1 = "CRLFDOTMANY" /\ DotsSoFar(t))
      <4>1. CASE p = "DOT_DATA"
        BY <4>1 DEF DecNext, DecOnward
      <4>2. CASE p \in {"CRLFDOT", "CRLFDOTMANY"} /\ DotsSoFar(s)
        <5>1. p1 = "CRLFDOTMANY"
          BY <4>2 DEF DecNext, DecOnward, DecFurther
        <5>2. PICK i \in 1..Len(s) : DotLine(s, i, Len(s))
          BY <4>2 DEF DotsSoFar
        <5>3. (i # 1 => i - 1 \in 1..Len(s)) /\ i \in 1..Len(t)
          BY <1>2
        <5>4. \A k \in i..Len(t) : t[k] = "dot"
          <6> SUFFICES ASSUME NEW k \in i..Len(t) PROVE t[k] = "dot"
            OBVIOUS
          <6>1. k = Len(t) \/ (k \in i..Len(s) /\ k \in 1..Len(s))
            BY <1>2
          <6> HIDE DEF t
          <6> QED
            BY <1>2, <5>2, <6>1 DEF DotLine
        <5>5. i = 1 \/ t[i - 1] = "lf"
          BY <1>2, <5>2, <5>3 DEF DotLine
        <5> QED
          BY <5>1, <5>3, <5>4, <5>5 DEF DotsSoFar, DotLine
      <4> QED
        BY <2>2, <4>1, <4>2 DEF InStep
    <3> QED
      BY <1>2, <1>4, <2>2, <3>1, <3>2, <3>3 DEF InStep
  <2>3. CASE s # <<>> /\ s[Len(s)] = "lf"
    <3>1. q = "CRLF" /\ (p = "CRLF" \/ DotsEnded(s))
      BY <2>3 DEF InStep
    <3>2. p = "CRLF"
      <4> SUFFICES ASSUME DotsEnded(s) PROVE FALSE
        BY <3>1
      <4>1. PICK i \in 1..(Len(s) - 2) : DotLine(s, i, Len(s) - 2)
        BY DEF DotsEnded
      <4> DEFINE j == Len(s) - 2
      <4>2. /\ j \in 1..Len(s) /\ j \in 1..(Len(t) - 3) /\ j + 1 = Len(s) - 1 /\ j + 2 = Len(s) /\ j + 3 = Len(t)
            /\ j + 1 \in 1..Len(s) /\ j + 2 \in 1..Len(s)
        BY <1>2 DEF DotsEnded
      <4>3. i \in 1..j /\ DotLine(t, i, j)
        BY <1>1, <4>1, <4>2, DotLineStays
      <4>4. t[j + 1] = "cr" /\ t[j + 2] = "lf" /\ t[j + 3] = "dot"
        BY <1>2, <4>2 DEF DotsEnded
      <4> HIDE DEF j, t
      <4>5. DotAfterDots(t)
        BY <4>2, <4>3, <4>4 DEF DotAfterDots
      <4> QED
        BY <4>5 DEF Irregularity, t
    <3>3. EncAt(Append(W, "dot"), "CRLFDOT", t)
      <4>1. EncNext(q, "dot") = "CRLFDOT" /\ EncEvent(q, "dot") = "DAT_STUFFED"
        BY <3>1 DEF EncNext, EncEvent
      <4> QED
        BY <1>1, <4>1, EncByte
    <3>4. EncAt(Append(Append(W, "dot"), "dot"), "DOT_DATA", t)
      <4>1. EncNext("CRLFDOT", "dot") = "DOT_DATA" /\ EncEvent("CRLFDOT", "dot") # "DAT_STUFFED"
        BY DEF EncNext, EncEvent
      <4> QED
        BY <1>1, <1>5, <3>3, <4>1, EncByte
    <3>5. p1 = "CRLFDOT"
      BY <3>2 DEF DecNext, DecOnward, DecFurther
    <3>6. DotsSoFar(t)
      <4>1. Len(t) \in 1..Len(t) /\ Len(t) - 1 = Len(s) /\ Len(s) \in 1..Len(s)
        BY <1>1, <1>2, <2>3
      <4>2. t[Len(t) - 1] = "lf" /\ \A k \in Len(t)..Len(t) : t[k] = "dot"
        BY <1>2, <2>3, <4>1
      <4>3. DotLine(t, Len(t), Len(t))
        BY <4>2 DEF DotLine
      <4> QED
        BY <4>1, <4>3 DEF DotsSoFar
    <3> QED
      BY <1>2, <1>4, <3>2, <3>4, <3>5, <3>6 DEF InStep
  <2> QED
    BY <2>1, <2>2, <2>3 DEF InStep
<1> QED
  BY <1>4, <1>5, <1>6

LEMMA PlainGrows ==
  ASSUME NEW s, NEW p \in DecStates, NEW q \in InData, DecAt(s, p), EncAt(Stuffed(s), q, s), InStep(s, p, q)
  PROVE  \E p1 \in DecStates, q1 \in InData :
           DecAt(Append(s, "ch"), p1) /\ EncAt(Stuffed(Append(s, "ch")), q1, Append(s, "ch")) /\ InStep(Append(s, "ch"), p1, q1)
<1> DEFINE t == Append(s, "ch")  W == Stuffed(s)
<1>1. s \in Seq(Bytes) /\ W \in Seq(Bytes) /\ "ch" \in Bytes
  BY DEF DecAt, Bytes
<1>2. t # <<>> /\ t[Len(t)] = "ch"
  BY <1>1, AppendProperties
<1>3. s = <<>> => p = "CRLFDOT"
  BY DEF InStep
<1>4. DecNext(p, "ch") = "DOT_DATA" /\ EncNext(q, "ch") = "DOT_DATA" /\ EncEvent(q, "ch") = "DAT_STUFFED"
  BY DEF DecNext, DecOnward, EncNext, EncEvent, InData
<1>5. DecAt(t, "DOT_DATA") /\ Stuffed(t) = Append(W, "ch")
  BY <1>1, <1>3, <1>4, DecByte
<1>6. EncAt(Stuffed(t), "DOT_DATA", t)
  BY <1>1, <1>4, <1>5, EncByte
<1>7. InStep(t, "DOT_DATA", "DOT_DATA") /\ "DOT_DATA" \in DecStates /\ "DOT_DATA" \in InData
  BY <1>2 DEF InStep, DecStates, InData
<1> QED
  BY <1>5, <1>6, <1>7

LEMMA LineGrows ==
  ASSUME NEW s, NEW p \in DecStates, NEW q \in InData, DecAt(s, p), EncAt(Stuffed(s), q, s), InStep(s, p, q),
         ~Irregularity(Append(s, "cr"))
  PROVE  LET t == Append(Append(s, "cr"), "lf")
         IN  \E p1 \in DecStates, q1 \in InData : DecAt(t, p1) /\ EncAt(Stuffed(t), q1, t) /\ InStep(t, p1, q1)
<1> DEFINE u == Append(s, "cr")  t == Append(u, "lf")  W == Stuffed(s)
           pu == DecNext(p, "cr")  pt == DecNext(pu, "lf")
<1>1. s \in Seq(Bytes) /\ W \in Seq(Bytes) /\ "cr" \in Bytes /\ "lf" \in Bytes
  BY DEF DecAt, Bytes
<1>2. /\ u \in Seq(Bytes) /\ u # <<>> /\ Len(s) \in Nat /\ Len(u) = Len(s) + 1 /\ u[Len(u)] = "cr"
      /\ \A k \in 1..Len(s) : u[k] = s[k]
  BY <1>1, AppendProperties
<1>3. /\ t # <<>> /\ Len(t) = Len(u) + 1 /\ t[Len(t)] = "lf" /\ \A k \in 1..Len(u) : t[k] = u[k]
  BY <1>1, <1>2, AppendProperties
<1>4. s # <<>> /\ s[Len(s)] \in {"dot", "ch"}
  <2>1. s # <<>>
    <3>1. s = <<>> => BlankFirst(u)
      BY <1>2 DEF BlankFirst
    <3> QED
      BY <3>1 DEF Irregularity
  <2>2. s[Len(s)] # "lf"
    <3>1. Len(s) \in 1..(Len(u) - 1) /\ Len(s) \in 1..Len(s)
      BY <1>1, <1>2, <2>1
    <3>2. s[Len(s)] = "lf" => BlankLater(u)
      BY <1>2, <3>1 DEF BlankLater
    <3> QED
      BY <3>2 DEF Irregularity
  <2> QED
    BY <2>1, <2>2 DEF InStep
<1>5. q = "DOT_DATA" /\ (p = "DOT_DATA" \/ (p \in {"CRLFDOT", "CRLFDOTMANY"} /\ DotsSoFar(s)))
  BY <1>4 DEF InStep
<1>6. DecAt(u, pu) /\ Stuffed(u) = Append(W, "cr") /\ pu \in DecStates
  <2>1. pu \in DecStates
    BY DEF DecNext, DecFurther, DecStates
  <2> QED
    BY <1>1, <1>4, <2>1, DecByte
<1>7. DecAt(t, pt) /\ Stuffed(t) = Append(Stuffed(u), "lf") /\ pt \in DecStates
  <2>1. pt \in DecStates
    BY DEF DecNext, DecFurther, DecStates
  <2> HIDE DEF pu, u
  <2> QED
    BY <1>1, <1>2, <1>6, <2>1, DecByte
<1>8. EncAt(Stuffed(u), "CR", u)
  <2>1. EncNext(q, "cr") = "CR" /\ EncEvent(q, "cr") = "DAT_STUFFED"
    BY <1>5 DEF EncNext, EncEvent
  <2> QED
    BY <1>1, <1>6, <2>1, EncByte
<1>9. EncAt(Stuffed(t), "CRLF", t)
  <2>1. EncNext("CR", "lf") = "CRLF" /\ EncEvent("CR", "lf") = "DAT_STUFFED" /\ "CR" \in InData
    BY DEF EncNext, EncEvent, InData
  <2> HIDE DEF u
  <2> QED
    BY <1>1, <1>7, <1>8, <2>1, EncByte
<1>10. pt = "CRLF" \/ (pt = "DOT_DATA" /\ DotsEnded(t))
  <2>1. CASE p = "DOT_DATA"
    BY <2>1 DEF DecNext, DecOnward, DecFurther
  <2>2. CASE p \in {"CRLFDOT", "CRLFDOTMANY"} /\ DotsSoFar(s)
    <3>1. pt = "DOT_DATA"
      BY <2>2 DEF DecNext, DecOnward, DecFurther
    <3>2. PICK i \in 1..Len(s) : DotLine(s, i, Len(s))
      BY <2>2 DEF DotsSoFar
    <3>3. Len(s) \in 1..Len(s) /\ Len(s) \in 1..Len(u) /\ Len(u) \in 1..Len(u)
          /\ Len(t) - 2 = Len(s) /\ Len(t) - 1 = Len(u) /\ Len(t) > 2
      BY <1>2, <1>3, <3>2
    <3>4. DotLine(u, i, Len(s))
      BY <1>1, <3>2, <3>3, DotLineStays
    <3>5. DotLine(t, i, Len(s))
      BY <1>1, <1>2, <3>3, <3>4, DotLineStays
    <3>6. t[Len(t) - 1] = "cr"
      BY <1>2, <1>3, <3>3
    <3> HIDE DEF t
    <3> QED
      BY <1>3, <3>1, <3>3, <3>5, <3>6 DEF DotsEnded
  <2> QED
    BY <1>5, <2>1, <2>2
<1>11. InStep(t, pt, "CRLF") /\ "CRLF" \in InData
  BY <1>3, <1>10 DEF InStep, InData
<1> QED
  BY <1>7, <1>9, <1>11

LEMMA MailGrowsKeeps == MailInv /\ MailGrows => MailInv'
<1> SUFFICES ASSUME MailInv, MailGrows PROVE MailInv'
  OBVIOUS
<1>1. mail \in Seq(Bytes) /\ {"cr", "lf", "dot", "ch"} \subseteq Bytes
  BY DEF MailInv, Bytes
<1>2. mail \o <<"dot">> = Append(mail, "dot") /\ mail \o <<"ch">> = Append(mail, "ch")
  BY <1>1
<1>3. mail \o <<"cr", "lf">> = Append(Append(mail, "cr"), "lf")
  BY <1>1
<1>4. CASE mail' = mail \o <<"dot">>
  <2>1. mail' = Append(mail, "dot") /\ mail' \in Seq(Bytes)
    BY <1>1, <1>2, <1>4, AppendProperties
  <2>2. CASE Irregularity(mail)
    BY <1>1, <2>1, <2>2, IrregularityStays DEF MailInv
  <2>3. CASE ~Irregularity(mail) /\ ~Irregularity(mail')
    <3>1. PICK p \in DecStates, q \in InData : DecAt(mail, p) /\ EncAt(Stuffed(mail), q, mail) /\ InStep(mail, p, q)
      BY <2>3 DEF MailInv
    <3> QED
      BY <2>1, <2>3, <3>1, DotGrows DEF MailInv
  <2> QED
    BY <2>1, <2>2, <2>3 DEF MailInv
<1>5. CASE mail' = mail \o <<"ch">>
  <2>1. mail' = Append(mail, "ch") /\ mail' \in Seq(Bytes)
    BY <1>1, <1>2, <1>5, AppendProperties
  <2>2. CASE Irregularity(mail)
    BY <1>1, <2>1, <2>2, IrregularityStays DEF MailInv
  <2>3. CASE ~Irregularity(mail)
    <3>1. PICK p \in DecStates, q \in InData : DecAt(mail, p) /\ EncAt(Stuffed(mail), q, mail) /\ InStep(mail, p, q)
      BY <2>3 DEF MailInv
    <3> QED
      BY <2>1, <3>1, PlainGrows DEF MailInv
  <2> QED
    BY <2>2, <2>3
<1>6. CASE mail' = mail \o <<"cr", "lf">>
  <2> DEFINE u == Append(mail, "cr")
  <2>1. u \in Seq(Bytes) /\ mail' = Append(u, "lf") /\ mail' \in Seq(Bytes)
    BY <1>1, <1>3, <1>6, AppendProperties
  <2>2. Irregularity(mail) => Irregularity(u)
    BY <1>1, IrregularityStays
  <2>3. Irregularity(u) => Irregularity(mail')
    BY <1>1, <2>1, IrregularityStays
  <2>4. CASE Irregularity(u)
    BY <2>1, <2>3, <2>4 DEF MailInv
  <2>5. CASE ~Irregularity(u)
    <3>1. PICK p \in DecStates, q \in InData : DecAt(mail, p) /\ EncAt(Stuffed(mail), q, mail) /\ InStep(mail, p, q)
      BY <2>2, <2>5 DEF MailInv
    <3> QED
      BY <2>1, <2>5, <3>1, LineGrows DEF MailInv
  <2> QED
    BY <2>4, <2>5
<1> QED
  BY <1>4, <1>5, <1>6 DEF MailGrows

LEMMA RegularIsNot ==
  ASSUME NEW s \in Seq(Bytes), RegularMail(s)
  PROVE  s # <<>> /\ s[Len(s)] = "lf" /\ ~Irregularity(s)
<1>1. ~BlankFirst(s) /\ ~BlankLater(s)
  BY DEF RegularMail, BlankFirst, BlankLater
<1>2. ~DotAfterDots(s)
  <2> SUFFICES ASSUME DotAfterDots(s) PROVE FALSE
    OBVIOUS
  <2>1. PICK j \in 1..(Len(s) - 3) : /\ \E i \in 1..j : DotLine(s, i, j)
                                    /\ s[j + 1] = "cr" /\ s[j + 2] = "lf" /\ s[j + 3] = "dot"
    BY DEF DotAfterDots
  <2>2. SubSeq(s, j + 1, j + 3) # <<"cr", "lf", "dot">>
    BY <2>1 DEF RegularMail
  <2>3. SubSeq(s, j + 1, j + 3) = [i \in 1..3 |-> s[j + i]]
    OBVIOUS
  <2>4. [i \in 1..3 |-> s[j + i]] = <<"cr", "lf", "dot">>
    BY <2>1
  <2> QED
    BY <2>2, <2>3, <2>4
<1> QED
  BY <1>1, <1>2 DEF Irregularity, RegularMail

\* The final line that decrypt adds, read back.
LEMMA MailJudged == MailInv => StuffingRoundTrip
<1> SUFFICES ASSUME MailInv, RegularMail(mail)
             PROVE  /\ pop3_encrypt(decrypt(mail)).end
                    /\ \A i \in 1..Len(mail) : /\ i <= Len(pop3_encrypt(decrypt(mail)).out)
                                               /\ pop3_encrypt(decrypt(mail)).out[i] = mail[i]
  BY DEF StuffingRoundTrip
<1> DEFINE W == Stuffed(mail)
<1>1. mail \in Seq(Bytes) /\ {"cr", "lf", "dot"} \subseteq Bytes
  BY DEF MailInv, Bytes
<1>2. mail # <<>> /\ mail[Len(mail)] = "lf" /\ ~Irregularity(mail)
  BY <1>1, RegularIsNot
<1>3. W \in Seq(Bytes) /\ EncAt(W, "CRLF", mail)
  BY <1>2 DEF MailInv, InStep, DecAt
<1>4. EncAt(Append(W, "dot"), "CRLFDOT", Append(mail, "dot"))
  <2>1. EncNext("CRLF", "dot") = "CRLFDOT" /\ EncEvent("CRLF", "dot") = "DAT_STUFFED" /\ "CRLF" \in InData
    BY DEF EncNext, EncEvent, InData
  <2> QED
    BY <1>1, <1>3, <2>1, EncByte
<1>5. EncAt(Append(Append(W, "dot"), "cr"), "CRLFDOTCR", Append(Append(mail, "dot"), "cr"))
  <2>1. EncNext("CRLFDOT", "cr") = "CRLFDOTCR" /\ EncEvent("CRLFDOT", "cr") = "DAT_STUFFED" /\ "CRLFDOT" \in InData
    BY DEF EncNext, EncEvent, InData
  <2> QED
    BY <1>1, <1>4, <2>1, EncByte
<1>6. EncAt(Append(Append(Append(W, "dot"), "cr"), "lf"), "CRLFDOTCRLF", Append(Append(mail, "dot"), "cr"))
  <2>1. EncNext("CRLFDOTCR", "lf") = "CRLFDOTCRLF" /\ EncEvent("CRLFDOTCR", "lf") # "DAT_STUFFED" /\ "CRLFDOTCR" \in InData
    BY DEF EncNext, EncEvent, InData
  <2> QED
    BY <1>1, <1>5, <2>1, EncByte
<1>7. decrypt(mail) = Append(Append(Append(W, "dot"), "cr"), "lf")
  <2>1. decrypt(mail) = W \o <<"dot", "cr", "lf">>
    BY DEF decrypt, Stuffed
  <2> HIDE DEF W
  <2> QED
    BY <1>1, <1>3, <2>1
<1>8. pop3_encrypt(decrypt(mail)).end /\ pop3_encrypt(decrypt(mail)).out = Append(Append(mail, "dot"), "cr")
  BY <1>6, <1>7 DEF EncAt
<1>9. \A i \in 1..Len(mail) : /\ i <= Len(Append(Append(mail, "dot"), "cr"))
                              /\ Append(Append(mail, "dot"), "cr")[i] = mail[i]
  BY <1>1
<1> QED
  BY <1>8, <1>9

------------------------------------------------------------------------------
(* The machine that spells replies and mails beside the texts.               *)

LEMMA BesideInit == MCInit => TokenInv /\ MailInv
<1> SUFFICES ASSUME reply = <<>>, mail = <<>> PROVE TokenInv /\ MailInv
  BY DEF MCInit, NoReply, NoBytes
<1>1. TokenInv
  BY DEF TokenInv
<1>2. "CRLFDOT" \in DecStates /\ "CRLFDOT" \in InData /\ InStep(<<>>, "CRLFDOT", "CRLFDOT") /\ <<>> \in Seq(Bytes)
  BY DEF DecStates, InData, InStep
<1>3. MailInv
  BY <1>2, NothingStuffed DEF MailInv
<1> QED
  BY <1>1, <1>3

LEMMA BesideStep == TokenInv /\ MailInv /\ [MCNext]_<<vars, reply, mail>> => TokenInv' /\ MailInv'
<1> SUFFICES ASSUME TokenInv, MailInv, [MCNext]_<<vars, reply, mail>> PROVE TokenInv' /\ MailInv'
  OBVIOUS
<1>1. (reply' = reply \/ ReplyGrows) /\ (mail' = mail \/ MailGrows)
  BY DEF MCNext
<1>2. reply' = reply => TokenInv'
  BY DEF TokenInv
<1>3. mail' = mail => MailInv'
  BY DEF MailInv
<1> QED
  BY <1>1, <1>2, <1>3, ReplyGrowsKeeps, MailGrowsKeeps

LEMMA BesideHolds == MCSpec => [](TokenInv /\ MailInv)
<1> DEFINE Both == TokenInv /\ MailInv
<1>1. MCInit => Both
  BY BesideInit
<1>2. Both /\ [MCNext]_<<vars, reply, mail>> => Both'
  BY BesideStep
<1> HIDE DEF Both
<1>3. MCSpec => []Both
  BY <1>1, <1>2, PTL DEF MCSpec
<1> QED
  BY <1>3 DEF Both

\* The parsers of Pop3Session, which read tokens, give on every reply of any length
\* the verdict that the tables of pop3_multiline_response_parser.c and
\* pop3_singleline_response_parser.c give on its bytes: abstracting the bytes of a
\* reply to its lines loses no end of a reply and makes none up.
THEOREM TokensAgreed == MCSpec => []TokensAgree
<1>1. TokenInv /\ MailInv => TokensAgree
  BY TokensJudged
<1> QED
  BY <1>1, BesideHolds, PTL

\* A mail of any number of regular lines, stuffed by decrypt and read back by
\* pop3_encrypt, is found to end and comes back, byte for byte, with all its dots.
THEOREM MailsRoundTrip == MCSpec => []StuffingRoundTrip
<1>1. TokenInv /\ MailInv => StuffingRoundTrip
  BY MailJudged
<1> QED
  BY <1>1, BesideHolds, PTL
================================================================================

------------------------------ MODULE MimeFilter ------------------------------
(***************************************************************************)
(* stripmime.c, the program mime_filter: what its handlers do to           *)
(* `struct ctx' on every character of a mail.  A context is a record; an   *)
(* operator named after a handler takes it to the context the handler      *)
(* leaves.                                                                 *)
(***************************************************************************)
EXTENDS MimeTables

CONTENT_TYPE              == <<"C", "T">>
CONTENT_TRANSFER_ENCODING == <<"C", "E">>
MESSAGE                   == <<"m", "e">>
RFC822                    == <<"r", "f">>
BOUNDARY                  == <<"b", "o">>
WILDCARD                  == <<"*">>

Last(s)     == s[Len(s)]
Front(s)    == SubSeq(s, 1, Len(s) - 1)
Emit(x, s)  == [x EXCEPT !.out = @ \o s]
Running(x)  == x.fate = "running"

------------------------------------------------------------------------------
(* The list of filtered media types, from the value of FILTER_MEDIAS.       *)

\* add_media_type walks the subtypes of a known type by moving the head of the
\* list, so that only the last two of them are kept; nothing is added after a
\* wildcard.
add_media_type(list, type_, subtype_) ==
  LET known == {i \in 1..Len(list) : list[i].type = type_}
  IN  IF known = {} THEN Append(list, [type |-> type_, subtypes |-> <<subtype_>>])
      ELSE LET i    == CHOOSE i \in known : TRUE
               tail == Last(list[i].subtypes)
           IN  [list EXCEPT ![i].subtypes =
                  IF tail = WILDCARD THEN <<tail>> ELSE <<tail, subtype_>>]

media_types(medias) ==
  LET list[i \in 0..Len(medias)] ==
        IF i = 0 THEN <<>> ELSE add_media_type(list[i - 1], medias[i][1], medias[i][2])
  IN  list[Len(medias)]

\* The detectors of the listed types and subtypes, at their start.
TypeParsers(list)    == [i \in 1..Len(list) |-> 0]
SubtypeParsers(list) == [i \in 1..Len(list) |-> [j \in 1..Len(list[i].subtypes) |-> 0]]

\* The context main builds; `list' is the list of filtered media types.
NewContext(list) ==
  [list |-> list, multi |-> "NEWLINE", msg |-> "NAME0", content_type |-> "TYPE0",
   ctype_header |-> 0, cte_header |-> 0, message_type |-> 0, rfc822 |-> 0, boundary_parser |-> 0,
   types |-> TypeParsers(list), subtypes |-> SubtypeParsers(list),
   media_subtypes |-> 0,              \* which list of subtypes; 0 is NULL
   ct |-> "NULL", cte |-> "NULL",     \* msg_content_type_field_detected, ..._encoding_...
   type_detected |-> FALSE, apply |-> FALSE, replace |-> FALSE,
   multipart_section |-> FALSE, boundary_detected |-> FALSE,
   dash |-> FALSE, double |-> FALSE, end |-> FALSE,
   message_detected |-> FALSE, rfc822_detected |-> FALSE,
   candidate |-> <<>>,                \* possible_boundary_string
   boundary_name |-> <<>>, stack |-> <<>>,
   out |-> <<>>,                      \* what was written to `transformed' and printed
   base |-> 0,                        \* how much of it earlier reads printed
   junk |-> FALSE,                    \* does the heap hold a byte after an unended string?
   fate |-> "running"]

\* list_return_string and list_ret_end_string do not end the string they return:
\* what follows it on the heap may or may not belong to it.
Returned(x, s) == IF x.junk THEN Append(s, "junk") ELSE s
Matches(x, s)  == ~x.junk /\ s = Last(x.stack)

------------------------------------------------------------------------------
(* The value of Content-Type.                                               *)

\* What a detector's event makes of a flag.
Detected(word, s, old) ==
  IF STRING_CMP_EQ(word, s) THEN "T" ELSE IF STRING_CMP_NEQ(word, s) THEN "F" ELSE old

\* message_header and rfc822_header
message_header(x, c) ==
  LET s == strcmpi(MESSAGE, x.message_type, c)
  IN  [x EXCEPT !.message_type = s,
                !.message_detected = IF s < Len(MESSAGE) THEN @ ELSE STRING_CMP_EQ(MESSAGE, s)]
rfc822_header(x, c) ==
  LET s == strcmpi(RFC822, x.rfc822, c)
  IN  [x EXCEPT !.rfc822 = s,
                !.rfc822_detected = IF s < Len(RFC822) THEN @ ELSE STRING_CMP_EQ(RFC822, s)]

\* content_type_match feeds the types of the list up to the first that is found.
content_type_match(x, c) ==
  LET n     == Len(x.list)
      fed   == [i \in 1..n |-> strcmpi(x.list[i].type, x.types[i], c)]
      found == {i \in 1..n : STRING_CMP_EQ(x.list[i].type, fed[i])}
      stop  == IF found = {} THEN n + 1 ELSE CHOOSE i \in found : \A j \in found : i <= j
  IN  IF n = 0 THEN x
      ELSE [x EXCEPT !.types = [i \in 1..n |-> IF i <= stop THEN fed[i] ELSE @[i]],
                     !.type_detected = found # {},
                     !.media_subtypes = IF found = {} THEN @ ELSE stop]

\* A wildcard at the head matches any character; one further on has no parser to
\* feed.
content_subtype_match(x, c) ==
  LET t     == x.media_subtypes
      names == x.list[t].subtypes
      fed   == [j \in 1..Len(names) |->
                  IF names[j] = WILDCARD THEN 0 ELSE strcmpi(names[j], x.subtypes[t][j], c)]
      match == \E j \in 1..Len(names) : names[j] # WILDCARD /\ STRING_CMP_EQ(names[j], fed[j])
  IN  IF names[1] = WILDCARD THEN [x EXCEPT !.apply = TRUE, !.replace = TRUE]
      ELSE IF \E j \in 2..Len(names) : names[j] = WILDCARD THEN [x EXCEPT !.fate = "crashed"]
      ELSE [x EXCEPT !.subtypes[t] = fed, !.apply = match, !.replace = @ \/ match]

\* multipart_section is NULL or true: FALSE stands for NULL.
boundary_charset_match(x, c) ==
  LET s == strcmpi(BOUNDARY, x.boundary_parser, c)
  IN  [x EXCEPT !.boundary_parser = s, !.multipart_section = STRING_CMP_EQ(BOUNDARY, s),
                !.boundary_detected = @ \/ STRING_CMP_EQ(BOUNDARY, s)]

\* The events of the Content-Type parser; the others change nothing.
OnTypeEvent(x, e, c) ==
  CASE e = "TYPE"    -> message_header(content_type_match(x, c), c)
    [] e = "SUBTYPE" ->
         LET y == IF x.type_detected THEN content_subtype_match(x, c) ELSE x
         IN  IF y.message_detected THEN rfc822_header(y, c) ELSE y
    [] e = "PARAMETER" -> boundary_charset_match(x, c)
    [] e = "DELIMITER" /\ x.multipart_section -> [x EXCEPT !.boundary_name = Append(@, c)]
    [] e = "DELIMITER_END" /\ x.boundary_detected ->
         [x EXCEPT !.stack = Append(@, Returned(x, x.boundary_name)), !.boundary_name = <<>>]
    [] OTHER -> x

content_type_msg(x, c) ==
  LET row == parser_feed(mime_type_parser, x.content_type, c)
      e   == Raised(row, c)[1]
  IN  OnTypeEvent([x EXCEPT !.content_type = row.dest], e[1], e[2])

------------------------------------------------------------------------------
(* The message: mime_msg, one operator per event.                           *)

OnName(x, c) ==
  LET s == strcmpi(CONTENT_TYPE, x.ctype_header, c)
      y == IF x.ct = "F" THEN x
           ELSE [x EXCEPT !.ctype_header = s, !.ct = Detected(CONTENT_TYPE, s, @)]
      r == strcmpi(CONTENT_TRANSFER_ENCODING, y.cte_header, c)
      z == IF x.cte = "F" THEN y
           ELSE [y EXCEPT !.cte_header = r, !.cte = Detected(CONTENT_TRANSFER_ENCODING, r, @)]
  IN  Emit(z, <<c>>)

\* The value of this Content-Transfer-Encoding is replaced.
Reencoded(x) == x.cte = "T" /\ x.apply

OnNameEnd(x, c) ==
  LET y == [x EXCEPT !.ctype_header = 0, !.cte_header = 0, !.message_type = 0, !.rfc822 = 0]
  IN  Emit(y, IF Reencoded(x) THEN <<c, " ", "8BIT">> ELSE <<c>>)

\* Back to the last blank written in this read, and the new type over it; with no
\* blank to be found the search leaves the buffer.
ReplaceType(x) ==
  LET blanks == {i \in (x.base + 1)..Len(x.out) : x.out[i] = " "}
  IN  IF blanks = {} THEN [x EXCEPT !.fate = "wild"]
      ELSE LET i == CHOOSE i \in blanks : \A j \in blanks : j <= i
           IN  [x EXCEPT !.out = SubSeq(@, 1, i) \o <<"text/plain">>, !.replace = FALSE]

OnValue(x, c) ==
  LET y == IF x.ct = "T" /\ ~x.apply THEN content_type_msg(x, c) ELSE x
  IN  IF ~Running(y) \/ Reencoded(y) THEN y
      ELSE IF y.replace THEN ReplaceType(y)
      ELSE Emit(y, <<c>>)

OnValueEnd(x) ==
  [x EXCEPT !.ct = "NULL", !.cte = "NULL", !.boundary_detected = FALSE,
            !.msg = IF x.rfc822_detected THEN "NAME0" ELSE @]

\* (slip) print_filter_msg is not called
Notice_missing(x) == <<>>

\* print_filter_msg, when the part is replaced.
Notice(x) == IF x.apply THEN <<"notice", "cr", "lf", "cr", "lf">> ELSE <<>>

OnBodyStart(x) ==
  IF x.rfc822_detected
  THEN [x EXCEPT !.message_detected = FALSE, !.rfc822_detected = FALSE, !.content_type = "TYPE0"]
  ELSE Emit(x, <<"cr", "lf">> \o Notice(x))

\* Two dashes in a row, anywhere in the line, start the candidate.
OnBody(x, c) ==
  LET y      == IF x.apply THEN x ELSE Emit(x, <<c>>)
      double == x.double \/ (c = "-" /\ x.dash)
      first  == c = "-" /\ x.candidate = <<>>
  IN  [y EXCEPT !.dash = (c = "-"), !.double = double,
                !.end = @ \/ (double /\ c = "-" /\ ~first /\ Last(x.candidate) = "-"),
                !.candidate = IF double /\ ~first THEN Append(@, c) ELSE @]

\* (slip) the part after a separator inherits the decision taken on the one before
NextPart_inherits(x) ==
  [x EXCEPT !.candidate = <<>>, !.msg = "NAME0", !.boundary_parser = 0,
            !.boundary_detected = FALSE, !.media_subtypes = 0,
            !.types = TypeParsers(x.list), !.subtypes = SubtypeParsers(x.list),
            !.cte = "NULL", !.content_type = "TYPE0"]

\* What a recognised separator resets; reset_parser_types_and_subtypes included.
NextPart(x) ==
  [x EXCEPT !.candidate = <<>>, !.msg = "NAME0", !.apply = FALSE, !.boundary_parser = 0,
            !.boundary_detected = FALSE, !.media_subtypes = 0,
            !.types = TypeParsers(x.list), !.subtypes = SubtypeParsers(x.list),
            !.cte = "NULL", !.content_type = "TYPE0"]

\* (slip) the end of a multipart takes the boundaries around it off the stack too
Closed_all(x) == [x EXCEPT !.stack = <<>>, !.candidate = <<>>, !.apply = FALSE]

\* What the end of a multipart resets.
Closed(x) == [x EXCEPT !.stack = Front(@), !.candidate = <<>>, !.apply = FALSE]

\* A line with two dashes is compared with the innermost boundary; stack_peek has
\* none to return when no multipart is open, and the process dies of it.
OnBodyNewline(x, c) ==
  LET y    == IF x.apply THEN x ELSE Emit(x, <<c>>)
      line == IF x.apply THEN <<"-", "-">> \o x.candidate ELSE <<>>
      z    == IF x.double /\ ~x.end /\ Matches(x, x.candidate)
              THEN NextPart(Emit(y, IF x.apply THEN Append(line, "lf") ELSE <<>>))
              ELSE IF x.end /\ Matches(x, Front(Front(x.candidate)))
              THEN Closed(Emit(y, Append(line, "lf")))
              ELSE y
  IN  IF x.double /\ x.stack = <<>> THEN [x EXCEPT !.fate = "crashed"]
      ELSE [z EXCEPT !.dash = FALSE, !.double = FALSE, !.end = FALSE]

\* The switch of mime_msg.  WAIT, VALUE_FOLD and UNEXPECTED are its default.
OnMsgEvent(x, e) ==
  LET c == e[2]
  IN  CASE ~Running(x)             -> x
        [] e[1] = "NAME"           -> OnName(x, c)
        [] e[1] = "NAME_END"       -> OnNameEnd(x, c)
        [] e[1] = "VALUE"          -> OnValue(x, c)
        [] e[1] = "VALUE_END"      -> OnValueEnd(x)
        [] e[1] = "BODY_START"     -> OnBodyStart(x)
        [] e[1] = "BODY"           -> OnBody(x, c)
        [] e[1] = "BODY_CR"        -> IF x.apply THEN x ELSE Emit(x, <<c>>)
        [] e[1] = "BODY_NEWLINE"   -> OnBodyNewline(x, c)
        [] OTHER                   -> Emit(x, <<c>>)

mime_msg(x, c) ==
  LET row == parser_feed(mime_message_parser, x.msg, c)
      es  == Raised(row, c)
      after[i \in 0..Len(es)] ==
        IF i = 0 THEN [x EXCEPT !.msg = row.dest] ELSE OnMsgEvent(after[i - 1], es[i])
  IN  after[Len(es)]

\* The end of the reply; its dot is not written.
OnFin(x) == [x EXCEPT !.msg = "NAME0", !.content_type = "TYPE0", !.ct = "NULL", !.cte = "NULL"]

OnMultiEvent(x, e) ==
  CASE ~Running(x)      -> x
    [] e[1] = "BYTE"    -> mime_msg(x, e[2])
    [] e[1] = "FIN"     -> OnFin(x)
    [] OTHER            -> x

pop3_multi(x, c) ==
  LET row == parser_feed(pop3_multi_parser, x.multi, c)
      es  == Raised(row, c)
      fed == [x EXCEPT !.multi = row.dest]
  IN  OnMultiEvent(IF Len(es) = 1 THEN fed ELSE OnMultiEvent(fed, es[1]), Last(es))

\* The characters of one read, one after the other.  (The sets of one context have
\* TLC evaluate it before the next character is fed.)
Fed(x, text) ==
  LET at[i \in 0..Len(text)] ==
        IF i = 0 THEN x
        ELSE CHOOSE y \in {pop3_multi(before, text[i]) : before \in {at[i - 1]}} : TRUE
  IN  at[Len(text)]

\* The read is printed with a line feed of its own.
Printed(x) == IF Running(x) THEN [x EXCEPT !.out = Append(@, "lf"), !.base = Len(x.out) + 1] ELSE x
==============================================================================

------------------------------- MODULE Stuffing -------------------------------
(***************************************************************************)
(* The byte-stuffing services of the repository, services/encrypt.c and    *)
(* services/decrypt.c, with the tables they drive (pop3_encrypt_parser.c   *)
(* and pop3_decrypt_parser.c): decrypt makes the data of a multi-line      *)
(* reply of a mail, pop3_encrypt takes the mail out of such data.          *)
(***************************************************************************)
EXTENDS ParserFactory

CONSTANT MaxMail   \* bound: the length at which a mail grows no more

VARIABLE mail        \* the bytes of the mail so far

------------------------------------------------------------------------------
(* pop3_encrypt_parser.c                                                    *)

\* (slip) the dot that stuffs a line is copied like any other
ST_ENC_CRLFDOT_keeping ==
  <<T("cr", "CRLFDOTCR", "DAT_STUFFED"), T(ANY, "DOT_DATA", "DAT_STUFFED")>>

ST_ENC_CRLFDOT ==
  <<T("cr", "CRLFDOTCR", "DAT_STUFFED"), T("dot", "DOT_DATA", "DAT_STUFFED_DOT"),
    T(ANY, "DOT_DATA", "DAT_STUFFED")>>
ST_ENC_CRLFDOTCR ==
  <<T("lf", "CRLFDOTCRLF", "DAT_STUFFED_END"), T(ANY, "DOT_DATA", "DAT_STUFFED")>>
ST_ENC_CRLFDOTCRLF == <<T(ANY, "CRLFDOTCRLF", "IGNORE")>>

pop3_encrypt_definition ==
  [start_state |-> "CRLFDOT",
   states |-> [DOT_DATA |-> ST_DOT_DATA, CR |-> ST_DAT_CR, CRLF |-> ST_DAT_CRLF,
               CRLFDOT |-> ST_ENC_CRLFDOT, CRLFDOTCR |-> ST_ENC_CRLFDOTCR,
               CRLFDOTCRLF |-> ST_ENC_CRLFDOTCRLF]]

------------------------------------------------------------------------------
(* pop3_decrypt_parser.c                                                    *)

ST_DEC_CRLF == <<T("dot", "CRLFDOT", "DAT_STUFFED_DOT"), T(ANY, "DOT_DATA", "DAT_STUFFED")>>
ST_DEC_CRLFDOT     == <<T("dot", "CRLFDOTMANY", "DAT_STUFFED"), T(ANY, "DOT_DATA", "DAT_STUFFED")>>
ST_DEC_CRLFDOTMANY == <<T("dot", "CRLFDOTMANY", "DAT_STUFFED"), T(ANY, "DOT_DATA", "DAT_STUFFED")>>

pop3_decrypt_definition ==
  [start_state |-> "CRLFDOT",
   states |-> [DOT_DATA |-> ST_DOT_DATA, CR |-> ST_DAT_CR, CRLF |-> ST_DEC_CRLF,
               CRLFDOT |-> ST_DEC_CRLFDOT, CRLFDOTMANY |-> ST_DEC_CRLFDOTMANY]]

------------------------------------------------------------------------------
(* The two services.                                                        *)

\* What decrypt writes for a byte and its event, and what pop3_encrypt does.
stuffed(c, e)   == IF e = "DAT_STUFFED_DOT" THEN <<"dot", c>> ELSE <<c>>
unstuffed(c, e) == IF e = "DAT_STUFFED" THEN <<c>> ELSE <<>>

\* A dot at the start of the text is doubled before the loop, one at the start of a
\* later line by its event.
leading(s) == IF s # <<>> /\ s[1] = "dot" THEN <<"dot">> ELSE <<>>
body(s)    == Joined([i \in 1..Len(s) |-> stuffed(s[i], RowAt(pop3_decrypt_definition, s, i).event)])
decrypt(s) == (leading(s) \o body(s)) \o <<"dot", "cr", "lf">>

\* The loop stops at the end of the data, after which the table only raises IGNORE;
\* by then two of the three bytes of the final line have been copied.
pop3_encrypt(s) ==
  [out |-> Joined([i \in 1..Len(s) |-> unstuffed(s[i], RowAt(pop3_encrypt_definition, s, i).event)]),
   end |-> \E i \in 1..Len(s) : RowAt(pop3_encrypt_definition, s, i).event = "DAT_STUFFED_END"]

------------------------------------------------------------------------------
(* The mails.                                                               *)

NoBytes   == mail = <<>>
MailGrows == \E p \in {<<"cr", "lf">>, <<"dot">>, <<"ch">>} : Len(mail) < MaxMail /\ mail' = mail \o p

\* The bytes of s from the i-th to the j-th are a line of dots, so far.
DotLine(s, i, j) == (i = 1 \/ s[i - 1] = "lf") /\ \A k \in i..j : s[k] = "dot"

\* Complete lines, none of them blank, and no line of dots alone before one that
\* starts with a dot: after such a line the table of decrypt has lost the start of
\* the next, and after a blank one both tables have.
RegularMail(s) ==
  /\ s # <<>> /\ s[1] # "cr" /\ s[Len(s)] = "lf"
  /\ \A i \in 1..(Len(s) - 1) : s[i] = "lf" => s[i + 1] # "cr"
  /\ \A j \in 1..(Len(s) - 3) : \A i \in 1..j :
        DotLine(s, i, j) => SubSeq(s, j + 1, j + 3) # <<"cr", "lf", "dot">>

\* A mail of regular lines survives the two services: pop3_encrypt recognises the
\* end that decrypt put, and what it gives back begins with the mail, byte for byte,
\* the dots of its lines as they were.
StuffingRoundTrip ==
  RegularMail(mail) =>
    LET back == pop3_encrypt(decrypt(mail))
    IN  /\ back.end
        /\ \A i \in 1..Len(mail) : i <= Len(back.out) /\ back.out[i] = mail[i]

\* What the comment of pop3_encrypt says: the final line is removed, so that nothing
\* but the mail is given back.
FinalLineRemoved == RegularMail(mail) => pop3_encrypt(decrypt(mail)).out = mail
==============================================================================

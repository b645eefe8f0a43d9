----------------------------- MODULE MCMailFilter -----------------------------
(***************************************************************************)
(* Values for the constants of MailFilter.                                 *)
(***************************************************************************)
EXTENDS MailFilter

OnePng    == <<<<IMAGE, PNG>>>>
PngAndGif == <<<<IMAGE, PNG>>, <<IMAGE, GIF>>>>
AnyImage  == <<<<IMAGE, WILDCARD>>>>

Lists == [s \in Sources |-> IF s = "file" THEN {OnePng, PngAndGif, AnyImage} ELSE {UNSET, OnePng}]

\* Ten lines hold a filtered part in a multipart in a multipart and its end; six an
\* unusual line in the headers or the body of a part; four a reply with one part.
LineBound    == [s \in Sources |-> IF s = "file" THEN 10 ELSE 4]
OddLineBound == [s \in Sources |-> IF s = "file" THEN 6 ELSE 3]
==============================================================================

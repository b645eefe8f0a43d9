-------------------------------- MODULE Relay --------------------------------
(***************************************************************************)
(* What a session promises a client that waits for its replies, and the    *)
(* origin: a greeting, then two streams, each delivered from its start, in *)
(* order and without gaps, until the session is closed.  Pop3Session       *)
(* implements it.                                                          *)
(***************************************************************************)
EXTENDS Naturals, Sequences

CONSTANT Greeting   \* what the proxy says of its own accord

VARIABLES
  asked,   \* all that the client has sent
  told,    \* what of it the origin has received
  said,    \* the greeting and all that the origin has answered
  heard,   \* what of it the client has received
  open     \* the session has not ended

streams == <<asked, told, said, heard, open>>

Begins(s, t) == Len(s) <= Len(t) /\ SubSeq(t, 1, Len(s)) = s

Init == asked = <<>> /\ told = <<>> /\ said = Greeting /\ heard = <<>> /\ open = TRUE

\* The peers add to what they have sent.
Ask == open /\ Begins(asked, asked') /\ UNCHANGED <<told, said, heard, open>>
Say == open /\ Begins(said, said') /\ UNCHANGED <<asked, told, heard, open>>

\* The proxy delivers more of it, never anything else.
Tell == open /\ Begins(told, told') /\ Begins(told', asked) /\ UNCHANGED <<asked, said, heard, open>>
Hear == open /\ Begins(heard, heard') /\ Begins(heard', said) /\ UNCHANGED <<asked, told, said, open>>

Close == open /\ open' = FALSE /\ UNCHANGED <<asked, told, said, heard>>

Next == Ask \/ Say \/ Tell \/ Hear \/ Close

Spec == Init /\ [][Next]_streams
==============================================================================

------------------------------ MODULE ByteQueue ------------------------------
(***************************************************************************)
(* What buffer.h promises its users: a bounded first-in first-out queue of *)
(* bytes.  Buffer.tla implements it.                                       *)
(***************************************************************************)
EXTENDS Naturals, Sequences

CONSTANTS Bytes, Size

VARIABLE q

Init == q = <<>>

\* Between one and Size bytes are appended, and no byte is overwritten.
Put == \E n \in 1..Size : \E s \in [1..n -> Bytes] :
         Len(q) + n <= Size /\ q' = q \o s

\* Bytes leave from the front.
Get == \E n \in 1..Len(q) : q' = SubSeq(q, n + 1, Len(q))

Clear == q' = <<>>

Next == Put \/ Get \/ Clear

Spec == Init /\ [][Next]_q
==============================================================================

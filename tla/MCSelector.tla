------------------------------ MODULE MCSelector ------------------------------
(***************************************************************************)
(* Selector with its sessions taken as interchangeable: no action and no   *)
(* safety property tells one from another.                                 *)
(***************************************************************************)
EXTENDS Selector, TLC

SessionSymmetry == Permutations(Sessions)
==============================================================================

--------------------------- MODULE MCThreadedProxy ---------------------------
(***************************************************************************)
(* Values for the constants of ThreadedProxy.  No action tells one thread  *)
(* from another.                                                           *)
(***************************************************************************)
EXTENDS ThreadedProxy, TLC

\* One keyword in both of its forms: the overloaded type covers the other two.
Listings == {<<"list", "cr", "lf">>, <<"LIST", "sp", "ch", "cr", "lf">>}

NoLineOrOne == {<<>>, <<"ch", "cr", "lf">>}

ThreadSymmetry == Permutations(Threads)
==============================================================================

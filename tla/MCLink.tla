------------------------------- MODULE MCLink -------------------------------
(* Small instances of Link.                                                *)
EXTENDS Link, TLC

RequestSymmetry == Permutations(Requests)
=============================================================================

------------------------------- MODULE MCTuples -------------------------------
(* Tuple construction with two-element tuples, nested as deep as the          *)
(* addresses allow.                                                           *)
EXTENDS TupleConstruction, TLC

\* No definition tells one address from another.
AnyAddress == Permutations(Addresses)
=============================================================================

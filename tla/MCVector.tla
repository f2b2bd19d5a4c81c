------------------------------ MODULE MCVector ------------------------------
(***************************************************************************)
(* Vector for TLC.                                                          *)
(***************************************************************************)
EXTENDS Vector, TLC

AnyItems == Permutations(Items)
=============================================================================

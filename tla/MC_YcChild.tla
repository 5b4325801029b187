----------------------------- MODULE MC_YcChild -----------------------------
(***************************************************************************)
(* Instances of YcChild for TLC.                                           *)
(***************************************************************************)
EXTENDS YcChild, TLC

CONSTANTS c1, c2, c3

Symmetry == Permutations(Child)
=============================================================================

----------------------------- MODULE MC_TwoPane -----------------------------
(***************************************************************************)
(* Instances of TwoPane for TLC.                                           *)
(***************************************************************************)
EXTENDS TwoPane

CONSTANTS j1, j2, j3

Symmetry == Permutations(Child)
=============================================================================

------------------------------ MODULE MC_RBTree ------------------------------
(***************************************************************************)
(* Instances of RBTree for TLC.                                            *)
(***************************************************************************)
EXTENDS RBTree

MCKeys == 1 .. 9
==============================================================================

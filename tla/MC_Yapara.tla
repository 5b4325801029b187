------------------------------ MODULE MC_Yapara ------------------------------
(***************************************************************************)
(* Instances of Yapara for TLC.                                            *)
(***************************************************************************)
EXTENDS Yapara
=============================================================================

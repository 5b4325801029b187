------------------------------ MODULE MC_LineUI ------------------------------
(***************************************************************************)
(* Instances of LineUI for TLC.                                            *)
(***************************************************************************)
EXTENDS LineUI

\* Neither the jobs nor the pipes are told apart by anything but their names.
Symmetry == {[x \in Child \cup Fd |-> IF x \in Child THEN p[x] ELSE q[x]] :
               p \in Permutations(Child), q \in Permutations(Fd)}
=============================================================================

------------------------------ MODULE JobReport ------------------------------
(***************************************************************************)
(* What yc-ui.h promises a UI about its jobs: each is started, tells its   *)
(* lines, ends, and is destroyed - in this order, each once - what was     *)
(* told stays told, and jobs are numbered from 0 in the order they start.  *)
(***************************************************************************)
EXTENDS Naturals, Sequences, FiniteSets

CONSTANTS Job, Fd

VARIABLES stage, told, number

vars == <<stage, told, number>>

Init ==
  /\ stage = [j \in Job |-> "none"]
  /\ told = [j \in Job |-> [f \in Fd |-> <<>>]]
  /\ number = [j \in Job |-> 0]

Enter(j, from, to) ==
  stage[j] = from /\ stage' = [stage EXCEPT ![j] = to]

\* What was told is a beginning of what is told now.
Extends(j) ==
  /\ \A i \in Job \ {j} : told'[i] = told[i]
  /\ \A f \in Fd :
       /\ Len(told[j][f]) <= Len(told'[j][f])
       /\ \A k \in 1 .. Len(told[j][f]) : told'[j][f][k] = told[j][f][k]

Start(j) ==
  /\ Enter(j, "none", "running")
  /\ number' = [number EXCEPT ![j] = Cardinality({i \in Job : stage[i] # "none"})]
  /\ UNCHANGED told

Tell(j)    == stage[j] = "running" /\ Extends(j) /\ UNCHANGED <<stage, number>>
End(j)     == Enter(j, "running", "ended") /\ Extends(j) /\ UNCHANGED number
Destroy(j) == Enter(j, "ended", "destroyed") /\ UNCHANGED <<told, number>>

Next == \E j \in Job : Start(j) \/ Tell(j) \/ End(j) \/ Destroy(j)

Spec == Init /\ [][Next]_vars
=============================================================================

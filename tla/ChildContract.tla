--------------------------- MODULE ChildContract ---------------------------
(***************************************************************************)
(* What yc-child.h promises of a container, without its bookkeeping: at    *)
(* most MaxChildren jobs hold a slot, a job's pipes only ever close, and   *)
(* the slot is given up - the child is done - once and for good, when the  *)
(* process has exited and every pipe is closed.                            *)
(***************************************************************************)
EXTENDS Naturals, FiniteSets

CONSTANTS Child, Fd, MaxChildren

VARIABLES
  running,   \* the children that hold a slot
  finished,  \* the children that were done
  refused,   \* the children that failed to spawn
  exited,    \* the children whose process has exited
  held       \* the pipes of each child that are not closed yet

vars == <<running, finished, refused, exited, held>>

Used == running \cup finished \cup refused

Init ==
  /\ running = {} /\ finished = {} /\ refused = {} /\ exited = {}
  /\ held = [c \in Child |-> {}]

Spawn(c, P) ==
  /\ c \notin Used /\ Cardinality(running) < MaxChildren
  /\ running' = running \cup {c}
  /\ held' = [held EXCEPT ![c] = P]
  /\ UNCHANGED <<finished, refused, exited>>

Refuse(c) ==
  /\ c \notin Used
  /\ refused' = refused \cup {c}
  /\ UNCHANGED <<running, finished, exited, held>>

Exit(c) ==
  /\ c \in running \ exited
  /\ exited' = exited \cup {c}
  /\ UNCHANGED <<running, finished, refused, held>>

Close(c, f) ==
  /\ c \in running /\ f \in held[c]
  /\ held' = [held EXCEPT ![c] = @ \ {f}]
  /\ UNCHANGED <<running, finished, refused, exited>>

Done(c) ==
  /\ c \in running \cap exited /\ held[c] = {}
  /\ running' = running \ {c}
  /\ finished' = finished \cup {c}
  /\ UNCHANGED <<refused, exited, held>>

Next ==
  \E c \in Child :
    \/ \E P \in SUBSET Fd : Spawn(c, P)
    \/ Refuse(c) \/ Exit(c) \/ Done(c)
    \/ \E f \in Fd : Close(c, f)

Spec == Init /\ [][Next]_vars
=============================================================================

-------------------------- MODULE MC_CircularBuffer --------------------------
(***************************************************************************)
(* Instances of CircularBuffer for TLC: clients that add no line as long   *)
(* as the ring, or none without a byte, and one that adds both.            *)
(***************************************************************************)
EXTENDS CircularBuffer

VARIABLE client

Allowed(text) ==
  \/ client = "not full" /\ Len(Truncate(text)) < BufferSize
  \/ client = "not empty" /\ Len(Truncate(text)) > 0
  \/ client = "any"

MCInit == Init /\ client \in {"not full", "not empty"}

MCNext ==
  /\ \/ \E text \in Texts(MaxText), data \in LineData : Allowed(text) /\ AddStart(text, data)
     \/ Evict \/ AddFinish
  /\ UNCHANGED client

MCSpec    == MCInit /\ [][MCNext]_<<vars, client>>
MixedSpec == Init /\ client = "any" /\ [][MCNext]_<<vars, client>>
=============================================================================

------------------------------- MODULE Yapara -------------------------------
(***************************************************************************)
(* The program (yapara-main.c): it reads command lines and hands them to   *)
(* the UI layer (YcUI) whenever the container offers a slot, waits for the *)
(* jobs, and exits with a status that says whether any of them failed.     *)
(*                                                                         *)
(* The job on line k of the input is child k.  The container appears as    *)
(* its offers of free slots (ready_idle, which is one-shot) and its        *)
(* uv_run, which returns when nothing in the loop is active: no offer is   *)
(* pending, no child is left (YcChild: LoopAliveWhileChildren), and the UI *)
(* has no handle of its own.                                               *)
(***************************************************************************)
EXTENDS YcUI

CONSTANTS
  MaxLines,     \* bound: lines of the input
  UIKeepsLoop   \* has the UI a handle in the loop until it is destroyed?

ASSUME LineAssumption == MaxLines \in Nat /\ Child = 1 .. MaxLines /\ UIKeepsLoop \in BOOLEAN

\* What yc_shell_parse makes of a line: nothing to do, a command, an error.
Line == {"blank", "command", "bad"}

VARIABLES
  input,        \* the job file
  n_lines_read,
  done,         \* state.done: the end of the input was reached
  offer,        \* of a free slot: none, pending (ready_idle_started), or being made
  phase,        \* where main is
  exit_status

main == <<input, n_lines_read, done, offer, phase, exit_status>>
allvars == <<vars, main>>

YInit ==
  /\ Init
  /\ input \in UNION {[1 .. n -> Line] : n \in 0 .. MaxLines}
  /\ n_lines_read = 0 /\ done = FALSE /\ offer = "pending"
  /\ phase = "running" /\ exit_status = 0

\* The lines that are left, and the next of them that is not blank.
Unread == n_lines_read + 1 .. Len(input)

NextLine(k) ==
  /\ k \in Unread /\ input[k] # "blank"
  /\ \A i \in n_lines_read + 1 .. k - 1 : input[i] = "blank"

\* container_ready_idle_cb goes on while there is room.
OffersWhen(room) == offer' = IF room THEN "made" ELSE "none"

OfferStart ==
  /\ phase = "running" /\ at = "idle" /\ offer = "pending"
  /\ OffersWhen(Cardinality(running) < MaxChildren)
  /\ UNCHANGED <<vars, input, n_lines_read, done, phase, exit_status>>

Offered == phase = "running" /\ offer = "made"

\* create_child, reading up to the next command and spawning it.
CreateChild ==
  /\ Offered
  /\ \E k \in Unread, P \in SUBSET Fd :
       /\ NextLine(k) /\ input[k] = "command"
       /\ Spawn(k, P)
       /\ n_lines_read' = k
  /\ OffersWhen(Cardinality(running') < MaxChildren)
  /\ UNCHANGED <<input, done, phase, exit_status>>

\* Mutant: the container offers while there is room, taken or not.
EndOfInput_OffersOn ==
  /\ Offered /\ \A k \in Unread : input[k] = "blank"
  /\ done' = TRUE /\ n_lines_read' = Len(input)
  /\ OffersWhen(Cardinality(running) < MaxChildren)
  /\ UNCHANGED <<vars, input, phase, exit_status>>

\* create_child at the end of the input, and once `done' is set: the container stops
\* when an offer is not taken.
EndOfInput ==
  /\ Offered /\ \A k \in Unread : input[k] = "blank"
  /\ done' = TRUE /\ n_lines_read' = Len(input)
  /\ offer' = "none"
  /\ UNCHANGED <<vars, input, phase, exit_status>>

\* yc_die: a line cannot be parsed, or its command cannot be spawned.
Die ==
  /\ Offered /\ \E k \in Unread : NextLine(k)
  /\ phase' = "died" /\ exit_status' = 1
  /\ UNCHANGED <<vars, input, n_lines_read, done, offer>>

\* uv_run dispatches something else; a slot that becomes free is signalled.
UIWorks ==
  /\ phase = "running" /\ offer # "made" /\ Work
  /\ offer' = IF running' = running THEN offer ELSE "pending"
  /\ UNCHANGED <<input, n_lines_read, done, phase, exit_status>>

\* Mutant: one failure is forgiven.
ExitStatus_Lenient == IF n_failed > 1 THEN 1 ELSE 0

\* The exit status main computes.
ExitStatus == IF n_failed > 0 THEN 1 ELSE 0

\* uv_run returns, and with it yc_child_container_run; main takes the exit status,
\* and frees the UI layer.
RunReturn ==
  /\ phase = "running" /\ offer = "none" /\ running = {} /\ ~UIKeepsLoop
  /\ Free
  /\ exit_status' = ExitStatus
  /\ phase' = "returned"
  /\ UNCHANGED <<input, n_lines_read, done, offer>>

UIFreed == phase = "returned" /\ (Trim \/ FreeReturn) /\ UNCHANGED main

\* main destroys the container, in which no child is left, and returns.
Exits ==
  /\ phase = "returned" /\ at = "freed"
  /\ phase' = "exited"
  /\ UNCHANGED <<vars, input, n_lines_read, done, offer, exit_status>>

Stopped == phase \in {"died", "exited"} /\ UNCHANGED allvars

YNext ==
  \/ OfferStart \/ CreateChild \/ EndOfInput \/ Die \/ UIWorks \/ RunReturn \/ UIFreed \/ Exits \/ Stopped

YSpec == YInit /\ [][YNext]_allvars

(* Properties                                                              *)

Commands == {k \in 1 .. Len(input) : input[k] = "command"}

\* "yapara exits 0 if every job exited 0, and 1 otherwise" (README.md): by then
\* every command of the input was run to its end, under the index of its rank
\* among them, for blank lines take none.
ExitStatusTrue ==
  phase = "exited" =>
    /\ finished = Commands
    /\ \A k \in Commands : index[k] = Cardinality({i \in Commands : i < k})
    /\ exit_status = 0 <=> \A k \in Commands : status[k] = "ok"

(***************************************************************************)
(* Fairness: the loop dispatches what is ready (the idle handle, the ends  *)
(* of pipes and children) and returns when nothing in it is active,        *)
(* callbacks return, and every child lets go of its pipes and exits.  Each *)
(* of these happens finitely often for each job, so that one conjunct for  *)
(* all jobs is enough.  A UI with handles of its own (UIKeepsLoop) never   *)
(* lets run return: TwoPane has one, and QuitEnds is about it.             *)
(***************************************************************************)
YFairness ==
  /\ SF_allvars(OfferStart) /\ WF_allvars(CreateChild \/ EndOfInput \/ Die)
  /\ WF_allvars(RunReturn) /\ WF_allvars(UIFreed) /\ WF_allvars(Exits)
  /\ WF_allvars(UIWorks /\ (Trim \/ TrimReturn \/ DoneReturn))
  /\ SF_allvars(UIWorks /\ \E c \in Child :
       \/ DoneStart(c)
       \/ \E s \in {"ok", "failed"} : Exit(c, s)
       \/ \E f \in Fd : \/ ReadEnd(c, f) \/ Closed(c, f) \/ ChildHangsUp(c, f)
                        \/ \E k \in 1 .. MaxOutput : Read(c, f, k))

YFairSpec == YSpec /\ YFairness

\* The program ends, under a UI that leaves the loop to the container and keeps no
\* finished job (the plain, the prefix and the passthrough one): offers stop when no
\* line is left, and not before, and nothing else keeps uv_run
\* (container_ready_idle_cb, create_child, run).
Ends == [](max_ended_jobs = 0) => <>(phase \in {"exited", "died"})

=============================================================================

---------------------------- MODULE YaparaProofs ----------------------------
(***************************************************************************)
(* Proofs about the program: for every input, every limit of the container *)
(* and every cap on the retained jobs, what main exits with is true.       *)
(***************************************************************************)
EXTENDS Yapara, YcUIProofs

-----------------------------------------------------------------------------
(* The inductive invariant.                                                *)

\* The input, and how far it was read.
InputOK ==
  /\ input \in Seq(Line) /\ Len(input) <= MaxLines
  /\ n_lines_read \in 0 .. Len(input)
  /\ done => n_lines_read = Len(input)

\* The jobs are the commands that were read, numbered by their rank.
JobsRead ==
  /\ Started = {k \in Commands : k <= n_lines_read}
  /\ \A k \in Started : index[k] = Cardinality({i \in Commands : i < k})

\* When main has taken the exit status there is nothing left to read or to run.
ReturnOK ==
  phase \in {"returned", "exited"} =>
    done /\ at \in {"free", "freed"} /\ exit_status = ExitStatus

\* Until the end of the input was seen, an offer or a child keeps uv_run going.
LoopKept == phase = "running" => done \/ offer # "none" \/ running # {}

ProgramInv == CountInv /\ InputOK /\ JobsRead /\ ReturnOK /\ LoopKept

-----------------------------------------------------------------------------
(* The steps.                                                              *)

LEMMA ProgramInit == ASSUME YInit PROVE ProgramInv
<1>1. CountInv
  BY InitLife, InitCounts DEF YInit, CountInv
<1>2. PICK n \in 0 .. MaxLines : input \in [1 .. n -> Line]
  BY DEF YInit
<1>3. input \in Seq(Line) /\ Len(input) = n
  BY <1>2, LineAssumption
<1>4. InputOK
  BY <1>3, LineAssumption DEF YInit, InputOK
<1>5. JobsRead
  <2>1. Started = {}
    BY DEF YInit, Init, Container!Init, Started
  <2>2. {k \in Commands : k <= 0} = {}
    BY DEF Commands
  <2> QED
    BY <2>1, <2>2 DEF JobsRead, YInit
<1>6. ReturnOK
  BY DEF ReturnOK, YInit
<1>7. LoopKept
  BY DEF LoopKept, YInit
<1> QED
  BY <1>1, <1>4, <1>5, <1>6, <1>7 DEF ProgramInv

\* Every step of the program is one of the UI layer's.
LEMMA ProgramSteps == ASSUME InputOK, YNext PROVE [Next]_vars
<1>1. CASE CreateChild
  <2>1. PICK k \in Unread, P \in SUBSET Fd : Spawn(k, P)
    BY <1>1 DEF CreateChild
  <2>2. k \in Child
    BY LineAssumption DEF InputOK, Unread
  <2> QED
    BY <2>1, <2>2 DEF Next
<1>2. CASE OfferStart \/ EndOfInput \/ Die \/ Exits \/ Stopped
  BY <1>2 DEF OfferStart, EndOfInput, Die, Exits, Stopped, allvars
<1>3. CASE UIWorks
  BY <1>3 DEF UIWorks, Next
<1>4. CASE RunReturn
  BY <1>4 DEF RunReturn, Next
<1>5. CASE UIFreed
  BY <1>5 DEF UIFreed, Next, Work
<1> QED
  BY <1>1, <1>2, <1>3, <1>4, <1>5 DEF YNext

\* Once a job was started it stays started, under its index.
LEMMA WorkKeepsJobs ==
  ASSUME CountInv, Work \/ Free \/ FreeReturn PROVE Started' = Started /\ index' = index
<1>1. CASE Trim \/ TrimReturn \/ Free \/ FreeReturn \/ \E m \in Cap : SetCap(m)
  BY <1>1 DEF Trim, TrimReturn, Free, FreeReturn, SetCap, contract, records, Started
<1>2. CASE DoneReturn
  <2>1. /\ job \in running /\ index' = index
        /\ running' = running \ {job} /\ finished' = finished \cup {job}
    BY <1>2 DEF DoneReturn, Container!Done
  <2> QED
    BY <2>1 DEF Started
<1>3. CASE \E c \in Child :
             DoneStart(c) \/ Reap(c) \/ \E s \in {"ok", "failed"} : Exit(c, s)
  BY <1>3 DEF DoneStart, Reap, Exit, Container!Exit, contract, records, Started
<1>4. CASE \E c \in Child, f \in Fd :
             \/ ReadEnd(c, f) \/ Closed(c, f) \/ ChildHangsUp(c, f)
             \/ \E k \in 1 .. MaxOutput : Read(c, f, k)
             \/ \E b \in Byte : ChildWrites(c, f, b)
  BY <1>4, OutputLife DEF CountInv, placevars, records, Started
<1> QED
  BY <1>1, <1>2, <1>3, <1>4 DEF Work

\* create_child, at a command.
LEMMA CreateChildProgram ==
  ASSUME ProgramInv, CreateChild PROVE InputOK' /\ JobsRead' /\ ReturnOK' /\ LoopKept'
<1>0. PICK k \in Unread, P \in SUBSET Fd :
        NextLine(k) /\ input[k] = "command" /\ Spawn(k, P) /\ n_lines_read' = k
  BY DEF CreateChild
<1>1. /\ phase = "running" /\ UNCHANGED <<input, done, phase, exit_status>>
      /\ input \in Seq(Line) /\ Len(input) \in Nat /\ Len(input) <= MaxLines
      /\ n_lines_read \in 0 .. Len(input)
  BY DEF CreateChild, Offered, ProgramInv, InputOK
<1>2. k \in n_lines_read + 1 .. Len(input) /\ k \in 1 .. Len(input) /\ k \in Nat /\ k \in Child
  BY <1>1, LineAssumption DEF Unread
<1>3. /\ running' = running \cup {k} /\ UNCHANGED finished /\ k \notin Started
      /\ index' = [index EXCEPT ![k] = n_started]
  BY <1>0 DEF Spawn, Container!Spawn, Container!Used, Started
<1>4. Started' = Started \cup {k} /\ Commands' = Commands /\ k \in Commands
  BY <1>0, <1>1, <1>2, <1>3 DEF Started, Commands
<1>5. {i \in Commands : i <= k} = {i \in Commands : i <= n_lines_read} \cup {k}
  <2> SUFFICES ASSUME NEW i \in Commands PROVE i <= k <=> i <= n_lines_read \/ i = k
    BY <1>4
  <2>1. i \in 1 .. Len(input) /\ input[i] = "command"
    BY DEF Commands
  <2>2. ~(i > n_lines_read /\ i < k)
    <3> SUFFICES ASSUME i > n_lines_read, i < k PROVE FALSE
      OBVIOUS
    <3>1. i \in n_lines_read + 1 .. k - 1
      BY <1>1, <1>2, <2>1
    <3> QED
      BY <3>1, <2>1, <1>0 DEF NextLine
  <2> QED
    BY <1>1, <1>2, <2>1, <2>2
<1>6. {i \in Commands : i < k} = {i \in Commands : i <= n_lines_read}
  <2> SUFFICES ASSUME NEW i \in Commands PROVE i < k <=> i <= n_lines_read
    OBVIOUS
  <2>1. i \in 1 .. Len(input)
    BY DEF Commands
  <2>2. i <= k <=> i <= n_lines_read \/ i = k
    BY <1>5
  <2> QED
    BY <1>1, <1>2, <2>1, <2>2
<1>7. JobsRead'
  <2>1. Started = {i \in Commands : i <= n_lines_read}
    BY DEF ProgramInv, JobsRead
  <2>2. Started' = {i \in Commands' : i <= n_lines_read'}
    BY <1>0, <1>4, <1>5, <2>1
  <2>3. index \in [Child -> Nat] /\ n_started = Cardinality(Started) /\ Started \subseteq Child
    BY DEF ProgramInv, CountInv, CountsOK, LifeInv, PlaceType, Started
  <2>4. index'[k] = Cardinality({i \in Commands : i < k})
    BY <1>2, <1>3, <1>6, <2>1, <2>3
  <2>5. \A c \in Started : index'[c] = Cardinality({i \in Commands : i < c})
    <3>1. \A c \in Started : index'[c] = index[c]
      BY <1>3, <2>3
    <3> QED
      BY <3>1 DEF ProgramInv, JobsRead
  <2> QED
    BY <1>4, <2>2, <2>4, <2>5 DEF JobsRead
<1>8. InputOK'
  BY <1>0, <1>1, <1>2 DEF ProgramInv, InputOK
<1>9. ReturnOK'
  BY <1>1 DEF ReturnOK
<1>10. LoopKept'
  BY <1>3 DEF LoopKept
<1> QED
  BY <1>7, <1>8, <1>9, <1>10

\* A step that reads no line.
LEMMA SameInput ==
  ASSUME ProgramInv, UNCHANGED <<input, n_lines_read, done>>,
         Started' = Started, index' = index
  PROVE  InputOK' /\ JobsRead'
BY DEF ProgramInv, InputOK, JobsRead, Commands

\* The invariant of the program is inductive.
LEMMA ProgramNext == ASSUME ProgramInv, ~CapInCallback, [YNext]_allvars PROVE ProgramInv'
<1>0. [Next]_vars
  BY ProgramSteps DEF ProgramInv, allvars
<1>1. CountInv'
  BY <1>0, NextLife, NextCounts DEF ProgramInv, CountInv
<1>2. InputOK' /\ JobsRead' /\ ReturnOK' /\ LoopKept'
  <2>1. CASE CreateChild
    BY <2>1, CreateChildProgram
  <2>2. CASE EndOfInput
    <3>1. /\ phase = "running" /\ UNCHANGED <<vars, input, phase, exit_status>>
          /\ n_lines_read' = Len(input) /\ \A k \in Unread : input[k] = "blank"
      BY <2>2 DEF EndOfInput, Offered
    <3>2. input \in Seq(Line) /\ Len(input) \in Nat /\ n_lines_read \in 0 .. Len(input)
      BY DEF ProgramInv, InputOK
    <3>3. {k \in Commands : k <= Len(input)} = {k \in Commands : k <= n_lines_read}
      <4> SUFFICES ASSUME NEW k \in Commands PROVE k <= n_lines_read
        BY <3>2 DEF Commands
      <4>1. k \in 1 .. Len(input) /\ input[k] = "command"
        BY DEF Commands
      <4>2. k \notin n_lines_read + 1 .. Len(input)
        BY <3>1, <4>1 DEF Unread
      <4> QED
        BY <3>2, <4>1, <4>2
    <3>4. Started' = Started /\ index' = index /\ Commands' = Commands
      BY <3>1 DEF vars, Started, Commands
    <3>5. JobsRead'
      BY <3>1, <3>3, <3>4 DEF ProgramInv, JobsRead
    <3>6. InputOK' /\ ReturnOK' /\ LoopKept'
      BY <2>2, <3>1, <3>2 DEF EndOfInput, ProgramInv, InputOK, ReturnOK, LoopKept
    <3> QED
      BY <3>5, <3>6
  <2>3. CASE Die
    <3>1. UNCHANGED <<vars, input, n_lines_read, done>> /\ phase' = "died"
      BY <2>3 DEF Die
    <3> QED
      BY <3>1, SameInput DEF vars, Started, ReturnOK, LoopKept
  <2>4. CASE UIWorks
    <3>1. /\ Work /\ phase = "running"
          /\ UNCHANGED <<input, n_lines_read, done, phase, exit_status>>
      BY <2>4 DEF UIWorks
    <3>2. LoopKept'
      BY <2>4 DEF UIWorks, ProgramInv, LoopKept
    <3> QED
      BY <3>1, <3>2, WorkKeepsJobs, SameInput DEF ProgramInv, ReturnOK
  <2>5. CASE RunReturn
    <3>1. /\ Free /\ done /\ done' = done /\ UNCHANGED <<input, n_lines_read>>
          /\ exit_status' = ExitStatus /\ phase' = "returned"
      BY <2>5 DEF RunReturn, ProgramInv, LoopKept
    <3>2. at' = "free" /\ n_failed' = n_failed
      BY <3>1 DEF Free, counts
    <3> QED
      BY <3>1, <3>2, WorkKeepsJobs, SameInput DEF ProgramInv, ReturnOK, LoopKept, ExitStatus
  <2>6. CASE UIFreed
    <3>1. (Trim \/ FreeReturn) /\ phase = "returned" /\ UNCHANGED main
      BY <2>6 DEF UIFreed
    <3>2. at' \in {"free", "freed"} /\ n_failed' = n_failed
      <4>1. at \in {"free", "freed"}
        BY <3>1 DEF ProgramInv, ReturnOK
      <4> QED
        BY <3>1, <4>1 DEF Trim, FreeReturn, counts
    <3>3. Started' = Started /\ index' = index
      BY <3>1, WorkKeepsJobs DEF ProgramInv, Work
    <3> QED
      BY <3>1, <3>2, <3>3, SameInput DEF ProgramInv, ReturnOK, LoopKept, ExitStatus, main
  <2>7. CASE Exits \/ Stopped \/ UNCHANGED allvars
    <3>1. UNCHANGED <<vars, input, n_lines_read, done, exit_status>>
      BY <2>7 DEF Exits, Stopped, allvars, main
    <3>2. phase' \in {"returned", "exited"} => phase \in {"returned", "exited"}
      BY <2>7 DEF Exits, Stopped, allvars, main
    <3>3. Started' = Started /\ index' = index /\ at' = at /\ n_failed' = n_failed
      BY <3>1 DEF vars, Started
    <3>4. LoopKept'
      BY <2>7 DEF Exits, Stopped, allvars, main, vars, ProgramInv, LoopKept
    <3> QED
      BY <3>1, <3>2, <3>3, <3>4, SameInput DEF ProgramInv, ReturnOK, ExitStatus
  <2>8. CASE OfferStart
    <3>1. /\ UNCHANGED <<vars, input, n_lines_read, done, phase, exit_status>>
          /\ offer' = IF Cardinality(running) < MaxChildren THEN "made" ELSE "none"
      BY <2>8 DEF OfferStart, OffersWhen
    <3>2. Started' = Started /\ index' = index /\ at' = at /\ n_failed' = n_failed
      BY <3>1 DEF vars, Started
    <3>3. offer' = "none" => running # {}
      BY <3>1, UIAssumption, FS_EmptySet
    <3>4. LoopKept'
      BY <3>1, <3>3 DEF vars, LoopKept
    <3> QED
      BY <3>1, <3>2, <3>4, SameInput DEF ProgramInv, ReturnOK, ExitStatus
  <2> QED
    BY <2>1, <2>2, <2>3, <2>4, <2>5, <2>6, <2>7, <2>8 DEF YNext
<1> QED
  BY <1>1, <1>2 DEF ProgramInv

-----------------------------------------------------------------------------
(* The program.                                                            *)

\* When the program exits, every command of the input was run to its end under
\* the index of its rank, and it exits with 0 exactly if all of them succeeded
\* (create_child, ui_child_done, main).
THEOREM ExitStatusAlwaysTrue == ASSUME ~CapInCallback PROVE YSpec => []ExitStatusTrue
<1>1. YInit => ProgramInv
  BY ProgramInit
<1>2. ProgramInv /\ [YNext]_allvars => ProgramInv'
  BY ProgramNext
<1>3. ProgramInv => ExitStatusTrue
  <2> SUFFICES ASSUME ProgramInv, phase = "exited"
               PROVE  /\ finished = Commands
                      /\ \A k \in Commands : index[k] = Cardinality({i \in Commands : i < k})
                      /\ exit_status = 0 <=> \A k \in Commands : status[k] = "ok"
    BY DEF ExitStatusTrue
  <2>1. done /\ at \in {"free", "freed"} /\ exit_status = ExitStatus
    BY DEF ProgramInv, ReturnOK
  <2>2. running = {} /\ Started = finished /\ Over = finished
    BY <2>1 DEF ProgramInv, CountInv, LifeInv, PlaceOK, Started, Over
  <2>3. {k \in Commands : k <= n_lines_read} = Commands
    BY <2>1 DEF ProgramInv, InputOK, Commands
  <2>4. finished = Commands
    BY <2>2, <2>3 DEF ProgramInv, JobsRead
  <2>5. n_failed = Cardinality(Failed) /\ IsFiniteSet(Failed) /\ n_failed \in Nat
    BY CountedFinite DEF ProgramInv, CountInv, CountsOK, Failed, LifeInv, PlaceType
  <2>6. n_failed = 0 <=> Failed = {}
    BY <2>5, FS_EmptySet
  <2>7. Failed = {} <=> \A k \in Commands : status[k] = "ok"
    BY <2>2, <2>4 DEF Failed
  <2>8. exit_status = 0 <=> n_failed = 0
    BY <2>1, <2>5 DEF ExitStatus
  <2> QED
    BY <2>2, <2>4, <2>6, <2>7, <2>8 DEF ProgramInv, JobsRead
<1> QED
  BY <1>1, <1>2, <1>3, PTL DEF YSpec
=============================================================================

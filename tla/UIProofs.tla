------------------------------ MODULE UIProofs ------------------------------
(***************************************************************************)
(* Proofs about the UIs, for every number of jobs and pipes and every      *)
(* length of their output.  The panes: for every height of theirs and      *)
(* every cap on the jobs that are kept, the screen is fresh and the        *)
(* selection stays (TwoPane).  What becomes of the output of jobs: the     *)
(* files of the recorder (JobsRecorder), and what the reader of the plain, *)
(* the prefix and the passthrough UI sees (LineUI).  All of it rests on    *)
(* what YcUIProofs shows of the jobs.                                      *)
(***************************************************************************)
EXTENDS TwoPane, LineUI, YcUIProofs

-----------------------------------------------------------------------------
(* The UI layer below the panes.                                           *)

\* Whatever the UI does, the UI layer takes one of its own steps.
LEMMA LayerStep == [TNext]_panevars => [Next]_vars
<1> SUFFICES ASSUME [TNext]_panevars PROVE [Next]_vars
  OBVIOUS
<1>1. CASE JobDestroyed \/ JobEnded \/ TrimmedStep
  BY <1>1 DEF JobDestroyed, JobEnded, TrimmedStep, Next, Work
<1>2. CASE \E c \in Child : SpawnFails(c) \/ \E P \in SUBSET Fd : JobStarted(c, P)
  BY <1>2 DEF JobStarted, Next
<1>3. CASE \E c \in Child : ExitStep(c) \/ JobDone(c)
  BY <1>3 DEF ExitStep, JobDone, Next, Work
<1>4. CASE \/ ScrollToEnd \/ Quit \/ TermEnds \/ Resize \/ Redraw
           \/ \E d \in {1, -1} : MoveSelection(d)
           \/ \E d \in {Page, -Page, MaxJobLines} : ScrollOutput(d)
           \/ \E c \in Child : JobLine(c)
  BY <1>4 DEF ScrollToEnd, Quit, TermEnds, Resize, Redraw, MoveSelection, ScrollOutput, JobLine
<1>5. CASE Ticks \/ UNCHANGED panevars
  BY <1>5 DEF Ticks, panevars, vars
<1> QED
  BY <1>1, <1>2, <1>3, <1>4, <1>5 DEF TNext, OtherSteps

\* The two-pane UI leaves the layer alone: each of its behaviours is one of the
\* layer.
LEMMA LayerSpec == TSpec => Spec
<1>1. TInit => Init
  BY DEF TInit
<1> QED
  BY <1>1, LayerStep, PTL DEF TSpec, Spec

-----------------------------------------------------------------------------
(* Indices and rows.                                                       *)

\* No two jobs have the same index.
IndexInj == \A c, d \in Started : index[c] = index[d] => c = d

LinesType == n_lines \in [Child -> Nat]

PaneInv == LifeInv /\ IndexInj /\ LinesType

\* The index of a job that was started does not change.
IndexKept == \A c \in Started : c \in Started' /\ index'[c] = index[c]

\* A job keeps its index, and no two started jobs share one.
LEMMA IndexStep == ASSUME LifeInv, [Next]_vars PROVE IndexKept /\ (IndexInj => IndexInj')
<1>t. /\ running \subseteq Child /\ finished \subseteq Child /\ index \in [Child -> Nat]
      /\ job \in Child \cup {NoJob} /\ n_started \in Nat
      /\ \A c \in Started : index[c] < n_started
      /\ Started \subseteq Child
  BY DEF LifeInv, PlaceType, JobsOK, Started
<1>1. CASE \E c \in Child, P \in SUBSET Fd : Spawn(c, P)
  <2>1. PICK c \in Child, P \in SUBSET Fd : Spawn(c, P)
    BY <1>1
  <2>2. Started' = Started \cup {c} /\ c \notin Started
        /\ index' = [index EXCEPT ![c] = n_started]
    BY <2>1 DEF Spawn, Container!Spawn, Container!Used, Started
  <2> QED
    BY <1>t, <2>2 DEF IndexInj, IndexKept
<1>2. CASE UNCHANGED index /\ Started' = Started
  BY <1>2 DEF IndexInj, IndexKept
<1>3. CASE Work
  <2>1. CASE Trim \/ TrimReturn \/ \E m \in Cap : SetCap(m)
    BY <1>2, <2>1 DEF Trim, TrimReturn, SetCap, contract, records, Started
  <2>2. CASE DoneReturn
    BY <1>2, <2>2 DEF DoneReturn, Container!Done, Started
  <2>3. CASE \E c \in Child : DoneStart(c) \/ Reap(c)
    BY <1>2, <2>3 DEF DoneStart, Reap, contract, records, Started
  <2>4. CASE \E c \in Child, s \in {"ok", "failed"} : Exit(c, s)
    BY <1>2, <2>4 DEF Exit, Container!Exit, Started
  <2>5. CASE \E c \in Child, f \in Fd :
               \/ ReadEnd(c, f) \/ Closed(c, f) \/ ChildHangsUp(c, f)
               \/ \E k \in 1 .. MaxOutput : Read(c, f, k)
               \/ \E b \in Byte : ChildWrites(c, f, b)
    BY <1>2, <2>5, OutputLife DEF placevars, records, Started
  <2> QED
    BY <1>3, <2>1, <2>2, <2>3, <2>4, <2>5 DEF Work
<1>4. CASE Free \/ FreeReturn \/ Terminated \/ UNCHANGED vars \/ \E c \in Child : SpawnFails(c)
  BY <1>2, <1>4 DEF Free, FreeReturn, Terminated, vars, contract, records, Started, SpawnFails,
     Container!Refuse
<1> QED
  BY <1>1, <1>3, <1>4 DEF Next

\* The rows are jobs that were started.
RowsOK ==
  /\ Rows \in Seq(Child) /\ Len(Rows) = Len(jobs) + Len(ended_jobs)
  /\ \A i \in 1 .. Len(Rows) : Rows[i] \in Started

\* There is a row for each job of both tables, and it names a started job.
LEMMA RowsLemma == LifeInv => RowsOK
<1> SUFFICES ASSUME LifeInv PROVE RowsOK
  OBVIOUS
<1> DEFINE r == Reverse(ended_jobs)
<1>1. jobs \in Seq(Child) /\ ended_jobs \in Seq(Child)
  BY DEF LifeInv, PlaceType
<1>2. /\ \A i \in 1 .. Len(jobs) : jobs[i] \in Started
      /\ \A i \in 1 .. Len(ended_jobs) : ended_jobs[i] \in Started
  BY DEF LifeInv, JobsOK, EndedOK, Over, Started
<1>3. r = [i \in 1 .. Len(ended_jobs) |-> ended_jobs[Len(ended_jobs) - i + 1]]
  BY DEF Reverse
<1>4. \A i \in 1 .. Len(ended_jobs) : Len(ended_jobs) - i + 1 \in 1 .. Len(ended_jobs)
  BY <1>1
<1>5. r \in Seq(Child) /\ Len(r) = Len(ended_jobs) /\ \A i \in 1 .. Len(r) : r[i] \in Started
  <2>1. r \in [1 .. Len(ended_jobs) -> Child]
    BY <1>1, <1>3, <1>4
  <2>2. \A i \in 1 .. Len(ended_jobs) : r[i] \in Started
    BY <1>2, <1>3, <1>4
  <2> HIDE DEF r
  <2> QED
    BY <1>1, <2>1, <2>2
<1> HIDE DEF r
<1>6. /\ jobs \o r \in Seq(Child) /\ Len(jobs \o r) = Len(jobs) + Len(r)
      /\ \A i \in 1 .. Len(jobs) + Len(r) :
           (jobs \o r)[i] = IF i <= Len(jobs) THEN jobs[i] ELSE r[i - Len(jobs)]
  <2>1. jobs \in Seq(Child) /\ r \in Seq(Child)
    BY <1>1, <1>5
  <2> QED
    BY <2>1
<1>7. \A i \in 1 .. Len(jobs) + Len(r) : (jobs \o r)[i] \in Started
  <2> TAKE i \in 1 .. Len(jobs) + Len(r)
  <2>1. CASE i <= Len(jobs)
    BY <1>1, <1>2, <1>6, <2>1
  <2>2. CASE ~ (i <= Len(jobs))
    <3>1. i - Len(jobs) \in 1 .. Len(r)
      BY <1>1, <1>5, <2>2
    <3> QED
      BY <1>5, <1>6, <2>2, <3>1
  <2> QED
    BY <2>1, <2>2
<1>8. Rows = jobs \o r
  BY DEF Rows, r
<1> QED
  BY <1>5, <1>6, <1>7, <1>8 DEF RowsOK

\* The row of the selected job, if it is listed.
SelectedOK ==
  SelectedIsListed => /\ SelectedRow(Rows) \in 1 .. Len(Rows)
                      /\ SelectedJob(Rows) = Rows[SelectedRow(Rows)]
                      /\ index[SelectedJob(Rows)] = selected
                      /\ SelectedJob(Rows) \in Started

\* The selected row is that of the selected job, if it is listed.
LEMMA SelectedLemma == RowsOK => SelectedOK
<1> SUFFICES ASSUME RowsOK, SelectedIsListed
             PROVE  /\ SelectedRow(Rows) \in 1 .. Len(Rows)
                    /\ SelectedJob(Rows) = Rows[SelectedRow(Rows)]
                    /\ index[SelectedJob(Rows)] = selected
                    /\ SelectedJob(Rows) \in Started
  BY DEF SelectedOK
<1> DEFINE found == {i \in DOMAIN Rows : index[Rows[i]] = selected}
<1>1. Rows \in Seq(Child) /\ DOMAIN Rows = 1 .. Len(Rows)
      /\ \A i \in 1 .. Len(Rows) : Rows[i] \in Started
  BY DEF RowsOK
<1>2. found # {} /\ Rows # << >>
  BY <1>1 DEF SelectedIsListed, ToSet
<1>3. found \in SUBSET Nat
  BY <1>1
<1>4. \E n \in found : \A m \in found : n <= m
  BY <1>2, <1>3, LeastElement
<1>5. Min(found) \in found
  BY <1>4 DEF Min
<1>6. SelectedRow(Rows) = Min(found)
  BY <1>2 DEF SelectedRow
<1>7. SelectedJob(Rows) = Rows[SelectedRow(Rows)]
  BY <1>2 DEF SelectedJob
<1> QED
  BY <1>1, <1>5, <1>6, <1>7

\* The same of the rows in the next state.
LEMMA SelectedNext == LifeInv' => RowsOK' /\ SelectedOK'
<1>1. LifeInv => RowsOK /\ SelectedOK
  BY RowsLemma, SelectedLemma
<1> QED
  BY <1>1, PTL

-----------------------------------------------------------------------------
(* The invariant.                                                          *)

LEMMA PaneInit == ASSUME TInit PROVE PaneInv
<1>1. LifeInv
  BY InitLife DEF TInit
<1>2. IndexInj
  BY DEF TInit, Init, Container!Init, IndexInj, Started
<1>3. LinesType
  BY DEF TInit, LinesType
<1> QED
  BY <1>1, <1>2, <1>3 DEF PaneInv

\* The numbers of lines stay numbers.
LEMMA LinesTypeStep == ASSUME LinesType, [TNext]_panevars PROVE LinesType'
<1>1. ASSUME NEW c \in Child, Tell(c) PROVE LinesType'
  <2>1. PICK n \in 1 .. Min({n_lines[c] + 1, MaxJobLines}) : n_lines' = [n_lines EXCEPT ![c] = n]
    BY <1>1 DEF Tell
  <2>2. n \in Nat
    <3>1. n_lines[c] \in Nat /\ MaxJobLines \in Nat
      BY PaneAssumption DEF LinesType
    <3>2. ASSUME NEW x \in Nat, NEW y \in Nat PROVE Min({x, y}) \in Nat
      <4>1. \E z \in {x, y} : \A w \in {x, y} : z <= w
        OBVIOUS
      <4> QED
        BY <4>1 DEF Min
    <3> QED
      BY <3>1, <3>2
  <2> QED
    BY <2>1, <2>2 DEF LinesType
<1>2. CASE UNCHANGED n_lines
  BY <1>2 DEF LinesType
<1>3. CASE \/ JobDestroyed \/ JobEnded \/ OtherSteps \/ \E c \in Child, P \in SUBSET Fd : JobStarted(c, P)
  BY <1>2, <1>3 DEF JobDestroyed, JobEnded, OtherSteps, TrimmedStep, ExitStep, JobStarted, pane
<1>4. CASE \/ ScrollToEnd \/ Quit \/ TermEnds \/ Resize \/ Redraw \/ Ticks \/ UNCHANGED panevars
           \/ \E d \in {1, -1} : MoveSelection(d)
           \/ \E d \in {Page, -Page, MaxJobLines} : ScrollOutput(d)
  BY <1>2, <1>4 DEF ScrollToEnd, Quit, TermEnds, Resize, Redraw, Ticks, MoveSelection,
     ScrollOutput, panevars
<1>5. CASE \E c \in Child : JobLine(c) \/ JobDone(c)
  BY <1>1, <1>2, <1>5 DEF JobLine, JobDone, pane
<1> QED
  BY <1>3, <1>4, <1>5 DEF TNext

\* The invariant of the panes is inductive.
LEMMA PaneStep == ASSUME PaneInv, ~CapInCallback, [TNext]_panevars PROVE PaneInv'
<1>1. [Next]_vars
  BY LayerStep
<1> QED
  BY <1>1, NextLife, IndexStep, LinesTypeStep DEF PaneInv

\* The jobs, their indices and the number of their lines.
THEOREM PaneAlways == ASSUME ~CapInCallback PROVE TSpec => []PaneInv
<1>1. TInit => PaneInv
  BY PaneInit
<1>2. PaneInv /\ [TNext]_panevars => PaneInv'
  BY PaneStep
<1> QED
  BY <1>1, <1>2, PTL DEF TSpec

-----------------------------------------------------------------------------
(* The screen.                                                             *)

\* What View looks at.
viewvars == <<running, jobs, ended_jobs, n_ended, n_failed, index, status, selected,
              output_scroll, n_lines>>

\* What a redraw would show depends on these variables only.
LEMMA SameView == ASSUME UNCHANGED viewvars PROVE UNCHANGED <<View, SelectedIsListed>>
  BY DEF viewvars, View, Rows, SelectedIsListed, SelectedJob, SelectedRow, StatusText

\* An exit is not seen before the job is done.
LEMMA ExitView ==
  ASSUME PaneInv, NEW c \in Child, ExitStep(c)
  PROVE  UNCHANGED <<View, SelectedIsListed>>
<1>1. /\ c \in running /\ UNCHANGED <<running, jobs, ended_jobs, n_ended, n_failed, index, pane>>
      /\ \E s : status' = [status EXCEPT ![c] = s]
  BY DEF ExitStep, Exit, Container!Exit, tables, counts
<1>2. \A d \in Child : StatusText(d)' = StatusText(d)
  <2>1. status \in [Child -> {"ok", "failed"}]
    BY DEF PaneInv, LifeInv, PlaceType
  <2> QED
    BY <1>1, <2>1 DEF StatusText
<1>3. Rows' = Rows /\ Rows \in Seq(Child)
  BY <1>1, RowsLemma DEF Rows, PaneInv, RowsOK
<1>4. [i \in DOMAIN Rows |-> <<Rows[i], StatusText(Rows[i])>>]'
        = [i \in DOMAIN Rows |-> <<Rows[i], StatusText(Rows[i])>>]
  <2>1. \A i \in DOMAIN Rows : Rows[i] \in Child
    BY <1>3
  <2>2. \A i \in DOMAIN Rows : StatusText(Rows[i])' = StatusText(Rows[i])
    BY <1>2, <1>3, <2>1 DEF StatusText
  <2> QED
    BY <1>3, <2>2
<1>5. SelectedIsListed' = SelectedIsListed /\ \A r : SelectedJob(r)' = SelectedJob(r)
  BY <1>1, <1>3 DEF SelectedIsListed, SelectedJob, SelectedRow, pane
<1>6. SelectedJob(Rows)' = SelectedJob(Rows)
  BY <1>1, <1>3 DEF SelectedJob, SelectedRow, pane
<1> QED
  BY <1>1, <1>3, <1>4, <1>5, <1>6 DEF View, pane

\* A line of a job that is not selected.
LEMMA LineView ==
  ASSUME PaneInv, SelectedIsListed, NEW c \in Child, JobLine(c), index[c] # selected
  PROVE  UNCHANGED <<View, SelectedIsListed>>
<1>1. /\ \E n : n_lines' = [n_lines EXCEPT ![c] = n]
      /\ UNCHANGED <<vars, selected, output_scroll>>
  BY DEF JobLine, Tell
<1>2. UNCHANGED <<running, jobs, ended_jobs, n_ended, n_failed, index, status>>
  BY <1>1 DEF vars
<1>3. /\ UNCHANGED <<Rows, SelectedIsListed>> /\ SelectedJob(Rows)' = SelectedJob(Rows)
      /\ [i \in DOMAIN Rows |-> <<Rows[i], StatusText(Rows[i])>>]'
           = [i \in DOMAIN Rows |-> <<Rows[i], StatusText(Rows[i])>>]
  BY <1>1, <1>2 DEF Rows, SelectedIsListed, SelectedJob, SelectedRow, StatusText
<1>4. RowsOK /\ SelectedOK
  BY RowsLemma, SelectedLemma DEF PaneInv
<1>5. SelectedJob(Rows) \in Child /\ SelectedJob(Rows) # c
  BY <1>4 DEF RowsOK, SelectedOK
<1>6. n_lines'[SelectedJob(Rows)] = n_lines[SelectedJob(Rows)]
  BY <1>1, <1>5 DEF PaneInv, LinesType
<1> QED
  BY <1>1, <1>2, <1>3, <1>6 DEF View

\* No step leaves the screen stale without setting dirty.
LEMMA FreshStep == ASSUME PaneInv, ScreenFresh, [TNext]_panevars PROVE ScreenFresh'
<1> SUFFICES ASSUME at' = "idle", ~dirty', ~quit', SelectedIsListed' PROVE (screen = View)'
  BY DEF ScreenFresh
<1>1. ASSUME at = "idle", ~dirty, ~quit, UNCHANGED <<View, SelectedIsListed, screen>>
      PROVE  (screen = View)'
  BY <1>1 DEF ScreenFresh
<1>2. CASE \/ JobDestroyed \/ JobEnded \/ ScrollToEnd \/ Quit \/ Resize
           \/ \E c \in Child, P \in SUBSET Fd : JobStarted(c, P)
  BY <1>2 DEF JobDestroyed, JobEnded, ScrollToEnd, Quit, Resize, JobStarted
<1>3. CASE TrimmedStep \/ \E c \in Child : JobDone(c)
  BY <1>3 DEF TrimmedStep, TrimReturn, JobDone, DoneStart
<1>4. CASE \E c \in Child : SpawnFails(c) /\ UNCHANGED pane
  <2>1. at = "idle" /\ UNCHANGED viewvars /\ UNCHANGED pane
    BY <1>4 DEF SpawnFails, Container!Refuse, viewvars, pane, tables, counts, records
  <2> QED
    BY <1>1, <2>1, SameView DEF pane
<1>5. CASE \E c \in Child : ExitStep(c)
  <2>1. at = "idle" /\ UNCHANGED pane
    BY <1>5 DEF ExitStep, Exit
  <2> QED
    BY <1>1, <1>5, <2>1, ExitView DEF pane
<1>6. CASE \/ \E d \in {1, -1} : MoveSelection(d)
           \/ \E d \in {Page, -Page, MaxJobLines} : ScrollOutput(d)
  <2>1. at = "idle" /\ ~dirty /\ ~quit /\ UNCHANGED <<vars, selected, output_scroll, n_lines, screen>>
    BY <1>6 DEF MoveSelection, ScrollOutput, Reading
  <2> QED
    BY <1>1, <2>1, SameView DEF vars, viewvars
<1>7. CASE TermEnds \/ Ticks \/ UNCHANGED panevars
  <2>1. at = "idle" /\ ~dirty /\ ~quit /\ UNCHANGED viewvars /\ UNCHANGED screen
    BY <1>7 DEF TermEnds, Ticks, panevars, viewvars, vars
  <2> QED
    BY <1>1, <2>1, SameView
<1>8. CASE Redraw
  <2>1. UNCHANGED viewvars /\ screen' = View
    BY <1>8 DEF Redraw, vars, viewvars
  <2> QED
    BY <2>1, SameView
<1>9. CASE \E c \in Child : JobLine(c)
  <2>1. PICK c \in Child : JobLine(c)
    BY <1>9
  <2>2. at = "idle" /\ ~dirty /\ ~quit /\ index[c] # selected /\ UNCHANGED <<vars, selected, screen>>
    BY <2>1 DEF JobLine, Tell
  <2>3. SelectedIsListed
    BY <2>2 DEF SelectedIsListed, Rows, vars
  <2> QED
    BY <1>1, <2>1, <2>2, <2>3, LineView
<1> QED
  BY <1>2, <1>3, <1>4, <1>5, <1>6, <1>7, <1>8, <1>9 DEF TNext, OtherSteps

\* Whenever the redraw timer finds nothing to do, the screen shows the jobs as
\* they are and all the output of the selected one (every callback and key
\* handler that sets ui->dirty, and on_redraw_timer).
THEOREM ScreenAlwaysFresh == ASSUME ~CapInCallback PROVE TSpec => []ScreenFresh
<1>1. TInit => ScreenFresh
  BY DEF TInit, ScreenFresh
<1>2. PaneInv /\ ScreenFresh /\ [TNext]_panevars => ScreenFresh'
  BY FreshStep
<1> QED
  BY <1>1, <1>2, PaneAlways, PTL DEF TSpec

-----------------------------------------------------------------------------
(* The selection.                                                          *)

LEMMA SelectedKept ==
  ASSUME PaneInv, PaneInv', [TNext]_panevars, SelectedIsListed,
         ~ \E d \in {1, -1} : MoveSelection(d)
  PROVE  UNCHANGED selected
<1>1. CASE \E c \in Child, P \in SUBSET Fd : JobStarted(c, P)
  <2>1. PICK c \in Child, P \in SUBSET Fd : JobStarted(c, P)
    BY <1>1
  <2>2. /\ jobs' = Append(jobs, c) /\ ended_jobs' = ended_jobs
        /\ selected' = IF Len(jobs') = 1 /\ ended_jobs' = << >> THEN index'[c] ELSE selected
    BY <2>1 DEF JobStarted, Spawn
  <2>3. jobs \in Seq(Child) /\ ended_jobs \in Seq(Child)
    BY DEF PaneInv, LifeInv, PlaceType
  <2>4. RowsOK /\ SelectedOK
    BY RowsLemma, SelectedLemma DEF PaneInv
  <2>5. Len(jobs) + Len(ended_jobs) > 0
    BY <2>3, <2>4 DEF RowsOK, SelectedOK
  <2>6. ~ (Len(jobs') = 1 /\ ended_jobs' = << >>)
    BY <2>2, <2>3, <2>5
  <2> QED
    BY <2>2, <2>6
<1>2. CASE JobDestroyed \/ JobEnded \/ OtherSteps
  BY <1>2 DEF JobDestroyed, JobEnded, OtherSteps, TrimmedStep, ExitStep, pane
<1>3. CASE \/ ScrollToEnd \/ Quit \/ TermEnds \/ Resize \/ Redraw \/ Ticks \/ UNCHANGED panevars
           \/ \E d \in {Page, -Page, MaxJobLines} : ScrollOutput(d)
  BY <1>3 DEF ScrollToEnd, Quit, TermEnds, Resize, Redraw, Ticks, ScrollOutput, panevars
<1>4. CASE \E c \in Child : JobLine(c) \/ JobDone(c)
  BY <1>4 DEF JobLine, JobDone, Tell, pane
<1> QED
  BY <1>1, <1>2, <1>3, <1>4 DEF TNext

\* The selection follows its job: rows that come and go do not move it to
\* another one, until a key does or the job is no longer kept
\* (two_pane_job_started, rebuild_rows, selected_row).
THEOREM SelectionAlwaysStays == ASSUME ~CapInCallback PROVE TSpec => SelectionStays
<1> DEFINE Stays == SelectedIsListed =>
                      \/ \E d \in {1, -1} : MoveSelection(d)
                      \/ SelectedJob(Rows)' = SelectedJob(Rows)
                      \/ SelectedJob(Rows) \notin ToSet(Rows')
<1>1. PaneInv /\ PaneInv' /\ [TNext]_panevars => Stays
  <2> SUFFICES ASSUME PaneInv, PaneInv', [TNext]_panevars, SelectedIsListed,
                      ~ \E d \in {1, -1} : MoveSelection(d),
                      SelectedJob(Rows) \in ToSet(Rows')
               PROVE  SelectedJob(Rows)' = SelectedJob(Rows)
    OBVIOUS
  <2> PICK s : s = SelectedJob(Rows)
    OBVIOUS
  <2>1. selected' = selected
    BY SelectedKept
  <2>2. s \in Started /\ index[s] = selected
    BY RowsLemma, SelectedLemma DEF PaneInv, SelectedOK
  <2>3. s \in Started' /\ index'[s] = selected'
    BY <2>1, <2>2, LayerStep, IndexStep DEF PaneInv, IndexKept
  <2>4. SelectedIsListed'
    BY <2>3 DEF SelectedIsListed
  <2>5. RowsOK' /\ SelectedOK'
    BY SelectedNext DEF PaneInv
  <2>6. SelectedJob(Rows)' \in Started' /\ index'[SelectedJob(Rows)'] = selected'
    BY <2>4, <2>5 DEF SelectedOK
  <2> QED
    BY <2>3, <2>6 DEF PaneInv, IndexInj
<1> QED
  BY <1>1, PaneAlways, PTL DEF TSpec, SelectionStays

-----------------------------------------------------------------------------
(* The files of the recorder.                                              *)

\* The files of a job.
Files == [start : BOOLEAN, created : SUBSET Fd, data : [Fd -> Seq(Byte)], end : BOOLEAN]

RecType ==
  /\ stream \in [Child -> SUBSET Fd] /\ n_bytes \in [Child -> [Fd -> Nat]]
  /\ unflushed \in [Child -> [Fd -> Seq(Byte)]]
  /\ disk \in [Child -> Files]

\* While a job is not done, its files and what stdio still buffers of them
\* hold what was read, and there is one for each stream of which something was
\* read; then they hold everything.
RecOK(c) ==
  /\ c \in Started => disk[c].start
  /\ c \notin finished =>
       /\ ~disk[c].end
       /\ stream[c] = {f \in Fd : n_read[c][f] > 0} /\ disk[c].created = stream[c]
       /\ \A f \in Fd :
            /\ n_bytes[c][f] = n_read[c][f]
            /\ disk[c].data[f] \o unflushed[c][f] = SubSeq(wrote[c][f], 1, n_read[c][f])
  /\ c \in finished =>
       /\ disk[c].end /\ stream[c] = {} /\ disk[c].data = wrote[c]
       /\ disk[c].created = {f \in Fd : wrote[c][f] # << >>}
       /\ \A f \in Fd : n_bytes[c][f] = Len(wrote[c][f]) /\ unflushed[c][f] = << >>

\* Once the recorder has ended the program, nothing moves any more.
RecInv == IF died THEN FilesExact ELSE RecType /\ \A c \in Child : RecOK(c)

\* Every step is one of the UI layer, or leaves it alone.
LEMMA LStep == ASSUME [LNext]_lvars PROVE [Next]_vars
<1>1. CASE AllDone \/ LEndDies \/ LStopped \/ UNCHANGED lvars
  BY <1>1 DEF AllDone, LEndDies, LStopped, lvars
<1>2. CASE LDoneReturn \/ \E c \in Child : LDoneStart(c)
  BY <1>2 DEF LDoneReturn, LDoneStart, Next, Work
<1>3. CASE \E c \in Child, P \in SUBSET Fd : LSpawn(c, P) \/ LSpawnDies(c, P)
  BY <1>3 DEF LSpawn, LSpawnDies, Next
<1>4. CASE \E c \in Child, f \in Fd : LReadDies(c, f) \/ \E k \in 1 .. MaxOutput : LRead(c, f, k)
  BY <1>4 DEF LReadDies, LRead, Next, Work
<1>5. CASE LQuietly
  BY <1>5 DEF LQuietly, LWrites, Next, Work
<1>6. CASE LFree
  BY <1>6 DEF LFree, Next
<1> QED
  BY <1>1, <1>2, <1>3, <1>4, <1>5, <1>6 DEF LNext

\* The files of a job that is done hold it all, those of another a beginning,
\* with as much of the buffers as was flushed.
LEMMA FilesOf ==
  ASSUME OutInv, RecType, NEW c \in Child, RecOK(c), NEW F \in SUBSET Fd
  PROVE  /\ \A f \in Fd : IsPrefix(IF f \in F THEN disk[c].data[f] \o unflushed[c][f]
                                   ELSE disk[c].data[f],
                                   SubSeq(wrote[c][f], 1, n_read[c][f]))
         /\ disk[c].end => c \in finished
<1>1. disk[c].end => c \in finished
  BY DEF RecOK
<1>2. ASSUME NEW f \in Fd
      PROVE  IsPrefix(IF f \in F THEN disk[c].data[f] \o unflushed[c][f] ELSE disk[c].data[f],
                      SubSeq(wrote[c][f], 1, n_read[c][f]))
  <2>1. PICK d \in Seq(Byte), u \in Seq(Byte), w \in Seq(Byte) :
          d = disk[c].data[f] /\ u = unflushed[c][f] /\ w = SubSeq(wrote[c][f], 1, n_read[c][f])
    <3>1. wrote[c][f] \in Seq(Byte) /\ n_read[c][f] \in Nat /\ n_read[c][f] <= Len(wrote[c][f])
      BY DEF OutInv, OutType, PipeOK
    <3>2. SubSeq(wrote[c][f], 1, n_read[c][f]) \in Seq(Byte)
      BY <3>1, PrefixFacts
    <3>3. disk[c].data[f] \in Seq(Byte) /\ unflushed[c][f] \in Seq(Byte)
      BY DEF RecType, Files
    <3> QED
      BY <3>2, <3>3
  <2>2. d \o u = w
    <3>1. CASE c \notin finished
      BY <2>1, <3>1 DEF RecOK
    <3>2. CASE c \in finished
      <4>1. held[c] = {}
        BY <3>2 DEF OutInv, HeldOK, Over
      <4>2. w = wrote[c][f]
        BY <2>1, <4>1, ReadToTheEnd
      <4>3. d = w /\ u = << >>
        BY <2>1, <3>2, <4>2 DEF RecOK
      <4> QED
        BY <4>3, ConcatEmpty
    <3> QED
      BY <3>1, <3>2
  <2>3. IsPrefix(d, d \o u) /\ IsPrefix(d \o u, d \o u)
    BY PrefixOfConcat
  <2> QED
    BY <2>1, <2>2, <2>3
<1> QED
  BY <1>1, <1>2

\* The invariant of the recorder says that the files are exact.
LEMMA RecFiles ==
  ASSUME OutInv, RecType, \A c \in Child : RecOK(c) PROVE FilesExact
<1> SUFFICES ASSUME NEW c \in Child
             PROVE  /\ \A f \in Fd : IsPrefix(disk[c].data[f], SubSeq(wrote[c][f], 1, n_read[c][f]))
                    /\ disk[c].end =>
                         /\ disk[c].start /\ stream[c] = {}
                         /\ disk[c].data = wrote[c]
                         /\ n_bytes[c] = [f \in Fd |-> Len(wrote[c][f])]
                         /\ disk[c].created = {f \in Fd : wrote[c][f] # << >>}
  BY DEF FilesExact
<1>1. \A f \in Fd : IsPrefix(disk[c].data[f], SubSeq(wrote[c][f], 1, n_read[c][f]))
  <2>1. PICK F \in SUBSET Fd : F = {}
    OBVIOUS
  <2> QED
    BY <2>1, FilesOf
<1>2. ASSUME c \in finished
      PROVE  /\ disk[c].start /\ stream[c] = {}
             /\ disk[c].data = wrote[c]
             /\ n_bytes[c] = [f \in Fd |-> Len(wrote[c][f])]
             /\ disk[c].created = {f \in Fd : wrote[c][f] # << >>}
  <2>1. c \in Started
    BY <1>2 DEF Started
  <2>2. n_bytes[c] \in [Fd -> Nat] /\ \A f \in Fd : n_bytes[c][f] = Len(wrote[c][f])
    BY <1>2 DEF RecType, RecOK
  <2>3. n_bytes[c] = [f \in Fd |-> Len(wrote[c][f])]
    BY <2>2
  <2> QED
    BY <1>2, <2>1, <2>3 DEF RecOK
<1> QED
  BY <1>1, <1>2, FilesOf

\* A step that leaves the files of a job and what they are about alone.
LEMMA RecSame ==
  ASSUME NEW c \in Child, RecOK(c),
         UNCHANGED <<stream[c], n_bytes[c], unflushed[c], disk[c], n_read[c]>>,
         \A f \in Fd : SubSeq(wrote'[c][f], 1, n_read[c][f]) = SubSeq(wrote[c][f], 1, n_read[c][f]),
         c \in finished => wrote'[c] = wrote[c],
         c \in finished' <=> c \in finished, c \in Started' <=> c \in Started
  PROVE  RecOK(c)'
<1>1. c \in Started' => disk'[c].start
  BY DEF RecOK
<1>2. c \notin finished' =>
        /\ ~disk'[c].end
        /\ stream'[c] = {f \in Fd : n_read'[c][f] > 0} /\ disk'[c].created = stream'[c]
        /\ \A f \in Fd :
             /\ n_bytes'[c][f] = n_read'[c][f]
             /\ disk'[c].data[f] \o unflushed'[c][f] = SubSeq(wrote'[c][f], 1, n_read'[c][f])
  BY DEF RecOK
<1>3. c \in finished' =>
        /\ disk'[c].end /\ stream'[c] = {} /\ disk'[c].data = wrote'[c]
        /\ disk'[c].created = {f \in Fd : wrote'[c][f] # << >>}
        /\ \A f \in Fd : n_bytes'[c][f] = Len(wrote'[c][f]) /\ unflushed'[c][f] = << >>
  BY DEF RecOK
<1> QED
  BY <1>1, <1>2, <1>3 DEF RecOK

\* Flushing a file moves bytes from the buffer to the disk and changes none.
LEMMA FlushedIs ==
  ASSUME RecType, NEW c \in Child, NEW F \in SUBSET Fd
  PROVE  /\ Flushed(c, F) \in Files
         /\ Flushed(c, F).start = disk[c].start /\ Flushed(c, F).created = disk[c].created
         /\ Flushed(c, F).end = disk[c].end
         /\ \A f \in Fd : Flushed(c, F).data[f] =
              IF f \in F THEN disk[c].data[f] \o unflushed[c][f] ELSE disk[c].data[f]
<1> DEFINE d == [f \in Fd |-> IF f \in F THEN disk[c].data[f] \o unflushed[c][f]
                              ELSE disk[c].data[f]]
<1>1. Flushed(c, F) = [disk[c] EXCEPT !.data = d]
  BY DEF Flushed
<1>2. disk[c] \in Files
  BY DEF RecType
<1>3. d \in [Fd -> Seq(Byte)]
  <2>1. ASSUME NEW f \in Fd PROVE d[f] \in Seq(Byte)
    <3>1. disk[c].data[f] \in Seq(Byte) /\ unflushed[c][f] \in Seq(Byte)
      BY DEF RecType, Files
    <3>2. disk[c].data[f] \o unflushed[c][f] \in Seq(Byte)
      BY <3>1, ConcatFacts
    <3> QED
      BY <3>1, <3>2
  <2> QED
    BY <2>1
<1>4. \A f \in Fd : d[f] = IF f \in F THEN disk[c].data[f] \o unflushed[c][f] ELSE disk[c].data[f]
  OBVIOUS
<1> HIDE DEF d
<1>5. PICK x \in Files : x = disk[c]
  BY <1>2
<1>6. /\ [x EXCEPT !.data = d] \in Files
      /\ [x EXCEPT !.data = d].start = x.start /\ [x EXCEPT !.data = d].created = x.created
      /\ [x EXCEPT !.data = d].end = x.end /\ [x EXCEPT !.data = d].data = d
  BY <1>3 DEF Files
<1> QED
  BY <1>1, <1>4, <1>5, <1>6

\* Nothing that has no record of its end gets one when the recorder ends the
\* program, and the other files do not change.
LEMMA DiesRec ==
  ASSUME OutInv, RecInv, ~died, NEW shown, Dies(shown), OutInv',
         UNCHANGED <<wrote, n_read, finished>>
  PROVE  RecInv'
<1>1. died' = TRUE /\ UNCHANGED <<stream, n_bytes, unflushed>>
  BY DEF Dies, RecorderDies
<1>2. PICK F \in [Child -> SUBSET Fd] : disk' = [c \in Child |-> Flushed(c, F[c])]
  BY DEF Dies, RecorderDies
<1>3. RecType /\ \A c \in Child : RecOK(c)
  BY DEF RecInv
<1>4. ASSUME NEW c \in Child
      PROVE  /\ \A f \in Fd : IsPrefix(disk'[c].data[f], SubSeq(wrote'[c][f], 1, n_read'[c][f]))
             /\ disk'[c].end =>
                  /\ disk'[c].start /\ stream'[c] = {}
                  /\ disk'[c].data = wrote'[c]
                  /\ n_bytes'[c] = [f \in Fd |-> Len(wrote'[c][f])]
                  /\ disk'[c].created = {f \in Fd : wrote'[c][f] # << >>}
  <2>1. PICK G \in SUBSET Fd : G = F[c]
    OBVIOUS
  <2>2. /\ disk'[c] \in Files
        /\ disk'[c].start = disk[c].start /\ disk'[c].created = disk[c].created
        /\ disk'[c].end = disk[c].end
        /\ \A f \in Fd : disk'[c].data[f] =
             IF f \in G THEN disk[c].data[f] \o unflushed[c][f] ELSE disk[c].data[f]
    <3>1. disk'[c] = Flushed(c, G)
      BY <1>2, <2>1
    <3> QED
      BY <1>3, <3>1, FlushedIs
  <2>3. \A f \in Fd : IsPrefix(disk'[c].data[f], SubSeq(wrote[c][f], 1, n_read[c][f]))
    <3>1. \A f \in Fd : IsPrefix(IF f \in G THEN disk[c].data[f] \o unflushed[c][f]
                                 ELSE disk[c].data[f],
                                 SubSeq(wrote[c][f], 1, n_read[c][f]))
      BY <1>3, FilesOf
    <3> QED
      BY <2>2, <3>1
  <2>4. ASSUME disk'[c].end
        PROVE  /\ disk'[c].start /\ stream'[c] = {}
               /\ disk'[c].data = wrote'[c]
               /\ n_bytes'[c] = [f \in Fd |-> Len(wrote'[c][f])]
               /\ disk'[c].created = {f \in Fd : wrote'[c][f] # << >>}
    <3>1. /\ disk[c].end /\ c \in finished
      BY <1>3, <2>2, <2>4, FilesOf
    <3>2. FilesExact
      BY <1>3, RecFiles
    <3>3. /\ disk[c].start /\ stream[c] = {} /\ disk[c].data = wrote[c]
          /\ n_bytes[c] = [f \in Fd |-> Len(wrote[c][f])]
          /\ disk[c].created = {f \in Fd : wrote[c][f] # << >>}
      BY <3>1, <3>2 DEF FilesExact
    <3>4. disk'[c].data = disk[c].data
      <4>1. ASSUME NEW f \in Fd PROVE disk'[c].data[f] = disk[c].data[f]
        <5>1. unflushed[c][f] = << >> /\ disk[c].data[f] \in Seq(Byte)
          BY <1>3, <3>1 DEF RecOK, RecType, Files
        <5>2. disk[c].data[f] \o << >> = disk[c].data[f]
          BY <5>1, ConcatEmpty
        <5> QED
          BY <2>2, <5>1, <5>2
      <4>2. disk[c].data \in [Fd -> Seq(Byte)] /\ disk'[c].data \in [Fd -> Seq(Byte)]
        BY <1>3, <2>2 DEF RecType, Files
      <4> QED
        BY <4>1, <4>2
    <3> QED
      BY <1>1, <2>2, <3>3, <3>4
  <2> QED
    BY <2>3, <2>4
<1>5. FilesExact'
  BY <1>4 DEF FilesExact
<1> QED
  BY <1>1, <1>5 DEF RecInv

\* To open a file that is not open loses nothing.
LEMMA OpenedIs ==
  ASSUME OutInv, RecType, NEW c \in Child, RecOK(c), c \notin finished, NEW f \in Fd
  PROVE  /\ Opened(c, f) \in Files
         /\ Opened(c, f).start = disk[c].start /\ Opened(c, f).end = disk[c].end
         /\ Opened(c, f).created = disk[c].created \cup {f}
         /\ Opened(c, f).data = disk[c].data
<1>1. PICK x \in Files : x = disk[c]
  BY DEF RecType
<1>2. CASE f \in stream[c]
  <2>1. Opened(c, f) = x
    BY <1>1, <1>2 DEF Opened
  <2>2. f \in disk[c].created
    BY <1>2 DEF RecOK
  <2> QED
    BY <1>1, <2>1, <2>2
<1>3. CASE f \notin stream[c]
  <2>1. n_read[c][f] = 0
    BY <1>3 DEF RecOK, OutInv, OutType
  <2>2. disk[c].data[f] = << >>
    <3>1. PICK d \in Seq(Byte), u \in Seq(Byte) : d = disk[c].data[f] /\ u = unflushed[c][f]
      BY DEF RecType, Files
    <3>2. d \o u = SubSeq(wrote[c][f], 1, 0)
      BY <2>1, <3>1 DEF RecOK
    <3>3. Len(SubSeq(wrote[c][f], 1, 0)) = 0
      <4>1. PICK w \in Seq(Byte) : w = wrote[c][f]
        BY DEF OutInv, OutType
      <4>2. 0 \in Nat /\ 0 <= Len(w)
        OBVIOUS
      <4> QED
        BY <4>1, <4>2, PrefixFacts
    <3>4. Len(d) + Len(u) = 0
      <4>1. Len(d \o u) = Len(d) + Len(u)
        BY ConcatFacts
      <4> QED
        BY <3>2, <3>3, <4>1
    <3>5. Len(d) = 0
      <4>1. Len(d) \in Nat /\ Len(u) \in Nat
        OBVIOUS
      <4> QED
        BY <3>4, <4>1
    <3>6. d = << >>
      BY <3>5
    <3> QED
      BY <3>1, <3>6
  <2>3. Opened(c, f) = [x EXCEPT !.created = x.created \cup {f}, !.data = [x.data EXCEPT ![f] = << >>]]
    BY <1>1, <1>3 DEF Opened
  <2>4. [x.data EXCEPT ![f] = << >>] = x.data
    BY <1>1, <2>2 DEF Files
  <2>5. PICK e \in SUBSET Fd : e = x.created \cup {f}
    BY DEF Files
  <2>6. Opened(c, f) = [x EXCEPT !.created = e, !.data = x.data]
    BY <2>3, <2>4, <2>5
  <2>7. PICK y : y = [x EXCEPT !.created = e, !.data = x.data]
    OBVIOUS
  <2>8. /\ y \in Files /\ y.start = x.start /\ y.end = x.end /\ y.created = e
        /\ y.data = x.data
    BY <2>7 DEF Files
  <2> QED
    BY <1>1, <2>5, <2>6, <2>7, <2>8
<1> QED
  BY <1>2, <1>3

\* What RecordOutput does to the files of the job.
\* What is or will be in the file of a stream.
OnFile(c, f) == disk[c].data[f] \o unflushed[c][f]

\* A write puts the bytes at the end of what the file has, on the disk or in the
\* buffer.
LEMMA RecordOutputIs ==
  ASSUME OutInv, RecType, NEW c \in Child, RecOK(c), c \notin finished, NEW f \in Fd,
         NEW data \in Seq(Byte), RecordOutput(c, f, data)
  PROVE  /\ disk' \in [Child -> Files] /\ unflushed' \in [Child -> [Fd -> Seq(Byte)]]
         /\ \A e \in Child : e # c => disk'[e] = disk[e] /\ unflushed'[e] = unflushed[e]
         /\ disk'[c].start = disk[c].start /\ disk'[c].end = disk[c].end
         /\ disk'[c].created = disk[c].created \cup {f}
         /\ \A g \in Fd : g # f => /\ disk'[c].data[g] = disk[c].data[g]
                                   /\ unflushed'[c][g] = unflushed[c][g]
         /\ \E v \in Seq(Byte) : v = OnFile(c, f) /\ OnFile(c, f)' = v \o data
<1>1. PICK o \in Files : o = Opened(c, f)
  BY OpenedIs
<1>2. /\ o.start = disk[c].start /\ o.end = disk[c].end
      /\ o.created = disk[c].created \cup {f} /\ o.data = disk[c].data
  BY <1>1, OpenedIs
<1>3. PICK d \in Seq(Byte), u \in Seq(Byte) : d = disk[c].data[f] /\ u = unflushed[c][f]
  BY DEF RecType, Files
<1>4. CASE /\ unflushed' = [unflushed EXCEPT ![c][f] = @ \o data]
           /\ disk' = [disk EXCEPT ![c] = Opened(c, f)]
  <2>1. PICK v \in Seq(Byte) : v = u \o data
    BY ConcatFacts
  <2>2. unflushed' = [unflushed EXCEPT ![c][f] = v] /\ disk' = [disk EXCEPT ![c] = o]
    BY <1>1, <1>3, <1>4, <2>1
  <2>3. /\ disk' \in [Child -> Files] /\ unflushed' \in [Child -> [Fd -> Seq(Byte)]]
        /\ \A e \in Child : e # c => disk'[e] = disk[e] /\ unflushed'[e] = unflushed[e]
        /\ \A g \in Fd : g # f => unflushed'[c][g] = unflushed[c][g]
        /\ disk'[c] = o /\ unflushed'[c][f] = v
    BY <2>2 DEF RecType
  <2>4. (d \o u) \o data = d \o v
    BY <2>1, ConcatAssoc
  <2>5. PICK z \in Seq(Byte) : z = d \o u
    BY ConcatFacts
  <2>6. disk'[c].data[f] \o unflushed'[c][f] = z \o data
    BY <1>2, <1>3, <2>3, <2>4, <2>5
  <2> QED
    BY <1>2, <1>3, <2>3, <2>5, <2>6 DEF OnFile
<1>5. CASE /\ unflushed' = [unflushed EXCEPT ![c][f] = << >>]
           /\ disk' = [disk EXCEPT ![c] =
                [Opened(c, f) EXCEPT !.data[f] = @ \o unflushed[c][f] \o data]]
  <2>1. PICK v \in Seq(Byte) : v = (d \o u) \o data
    BY ConcatFacts
  <2>2. PICK x \in [Fd -> Seq(Byte)] : x = [o.data EXCEPT ![f] = v]
    BY DEF Files
  <2>3. PICK p \in Files : p = [o EXCEPT !.data = x]
    BY DEF Files
  <2>4. [Opened(c, f) EXCEPT !.data[f] = @ \o unflushed[c][f] \o data] = p
    BY <1>1, <1>2, <1>3, <2>1, <2>2, <2>3
  <2>5. unflushed' = [unflushed EXCEPT ![c][f] = << >>] /\ disk' = [disk EXCEPT ![c] = p]
    BY <1>5, <2>4
  <2>6. << >> \in Seq(Byte)
    OBVIOUS
  <2>7. /\ disk' \in [Child -> Files] /\ unflushed' \in [Child -> [Fd -> Seq(Byte)]]
        /\ \A e \in Child : e # c => disk'[e] = disk[e] /\ unflushed'[e] = unflushed[e]
        /\ \A g \in Fd : g # f => unflushed'[c][g] = unflushed[c][g]
        /\ disk'[c] = p /\ unflushed'[c][f] = << >>
    BY <2>5, <2>6 DEF RecType
  <2>8. /\ p.start = o.start /\ p.end = o.end /\ p.created = o.created /\ p.data = x
    BY <2>3 DEF Files
  <2>9. x[f] = v /\ \A g \in Fd : g # f => x[g] = o.data[g]
    BY <2>2 DEF Files
  <2>10. v \o << >> = v
    BY ConcatEmpty
  <2>11. PICK z \in Seq(Byte) : z = d \o u
    BY ConcatFacts
  <2>12. disk'[c].data[f] \o unflushed'[c][f] = z \o data
    BY <2>1, <2>7, <2>8, <2>9, <2>10, <2>11
  <2> QED
    BY <1>2, <1>3, <2>7, <2>8, <2>9, <2>11, <2>12 DEF OnFile
<1> QED
  BY <1>4, <1>5 DEF RecordOutput

\* Recording a read keeps the recorder's invariant.
LEMMA ReadRec ==
  ASSUME OutInv, RecInv, ~died, NEW c \in Child, NEW f \in Fd, NEW k \in 1 .. MaxOutput,
         LRead(c, f, k)
  PROVE  RecInv'
<1>0. RecType /\ \A e \in Child : RecOK(e)
  BY DEF RecInv
<1> DEFINE bytes == SubSeq(wrote[c][f], n_read[c][f] + 1, n_read[c][f] + k)
<1>1. /\ at = "idle" /\ f \in held[c] /\ k \in 1 .. Len(wrote[c][f]) - n_read[c][f]
      /\ n_read' = [n_read EXCEPT ![c][f] = @ + k]
      /\ UNCHANGED <<running, finished, wrote, died>> /\ RecordOutput(c, f, bytes)
  BY DEF LRead, Read, contract, program
<1>2. c \in Started /\ c \notin finished /\ Started' = Started
  BY <1>1, HeldRuns DEF Started
<1>3. PICK w \in Seq(Byte), n \in Nat : w = wrote[c][f] /\ n = n_read[c][f]
  BY DEF OutInv, OutType
<1>4. k \in Nat /\ k > 0 /\ n + k <= Len(w)
  BY <1>1, <1>3
<1>5. PICK data \in Seq(Byte) :
        data = bytes /\ Len(data) = k /\ SubSeq(w, 1, n + k) = SubSeq(w, 1, n) \o data
  <2>1. /\ SubSeq(w, n + 1, n + k) \in Seq(Byte) /\ Len(SubSeq(w, n + 1, n + k)) = k
        /\ SubSeq(w, 1, n + k) = SubSeq(w, 1, n) \o SubSeq(w, n + 1, n + k)
    BY <1>4, PrefixGrows
  <2> QED
    BY <1>3, <2>1
<1> HIDE DEF bytes
<1>6. RecordOutput(c, f, data)
  BY <1>1, <1>5
<1>7. /\ n_read'[c][f] = n + k
      /\ \A d \in Child, g \in Fd : d # c \/ g # f => n_read'[d][g] = n_read[d][g]
      /\ \A d \in Child : d # c => n_read'[d] = n_read[d]
  BY <1>1, <1>3 DEF OutInv, OutType
<1>8. /\ stream' = [stream EXCEPT ![c] = @ \cup {f}]
      /\ n_bytes' = [n_bytes EXCEPT ![c][f] = @ + k]
  BY <1>5, <1>6 DEF RecordOutput
<1>9. /\ stream'[c] = stream[c] \cup {f} /\ n_bytes'[c][f] = n_bytes[c][f] + k
      /\ \A d \in Child : d # c => stream'[d] = stream[d] /\ n_bytes'[d] = n_bytes[d]
      /\ \A g \in Fd : g # f => n_bytes'[c][g] = n_bytes[c][g]
      /\ stream' \in [Child -> SUBSET Fd] /\ n_bytes' \in [Child -> [Fd -> Nat]]
  BY <1>0, <1>4, <1>8 DEF RecType
<1>10. /\ disk' \in [Child -> Files] /\ unflushed' \in [Child -> [Fd -> Seq(Byte)]]
       /\ \A e \in Child : e # c => disk'[e] = disk[e] /\ unflushed'[e] = unflushed[e]
       /\ disk'[c].start = disk[c].start /\ disk'[c].end = disk[c].end
       /\ disk'[c].created = disk[c].created \cup {f}
       /\ \A g \in Fd : g # f => /\ disk'[c].data[g] = disk[c].data[g]
                                 /\ unflushed'[c][g] = unflushed[c][g]
       /\ \E v \in Seq(Byte) : v = OnFile(c, f) /\ OnFile(c, f)' = v \o data
  <2>1. RecOK(c) /\ RecType /\ c \notin finished
    BY <1>0, <1>2
  <2>2. disk' \in [Child -> Files] /\ unflushed' \in [Child -> [Fd -> Seq(Byte)]]
    BY <1>6, <2>1, RecordOutputIs
  <2>3. \A e \in Child : e # c => disk'[e] = disk[e] /\ unflushed'[e] = unflushed[e]
    BY <1>6, <2>1, RecordOutputIs
  <2>4. /\ disk'[c].start = disk[c].start /\ disk'[c].end = disk[c].end
        /\ disk'[c].created = disk[c].created \cup {f}
    BY <1>6, <2>1, RecordOutputIs
  <2>5. \A g \in Fd : g # f => /\ disk'[c].data[g] = disk[c].data[g]
                                 /\ unflushed'[c][g] = unflushed[c][g]
    BY <1>6, <2>1, RecordOutputIs
  <2>6. \E v \in Seq(Byte) : v = OnFile(c, f) /\ OnFile(c, f)' = v \o data
    BY <1>6, <2>1, RecordOutputIs
  <2> QED
    BY <2>2, <2>3, <2>4, <2>5, <2>6
<1>11. RecType'
  BY <1>9, <1>10 DEF RecType
<1>12. ASSUME NEW d \in Child, d # c PROVE RecOK(d)'
  BY <1>0, <1>1, <1>2, <1>7, <1>9, <1>10, <1>12, RecSame
<1>13. RecOK(c)'
  <2>1. stream'[c] = {g \in Fd : n_read'[c][g] > 0}
    <3>1. stream[c] = {g \in Fd : n_read[c][g] > 0}
      BY <1>0, <1>2 DEF RecOK
    <3>2. n + k > 0
      BY <1>4
    <3> QED
      BY <1>7, <1>9, <3>1, <3>2
  <2>2. disk'[c].created = stream'[c] /\ ~disk'[c].end /\ disk'[c].start
    BY <1>0, <1>2, <1>9, <1>10 DEF RecOK
  <2>3. ASSUME NEW g \in Fd
        PROVE  /\ n_bytes'[c][g] = n_read'[c][g]
               /\ disk'[c].data[g] \o unflushed'[c][g] = SubSeq(wrote'[c][g], 1, n_read'[c][g])
    <3>1. /\ n_bytes[c][g] = n_read[c][g]
          /\ disk[c].data[g] \o unflushed[c][g] = SubSeq(wrote[c][g], 1, n_read[c][g])
      BY <1>0, <1>2 DEF RecOK
    <3>2. CASE g = f
      <4>1. disk[c].data[f] \o unflushed[c][f] = SubSeq(w, 1, n)
        BY <1>3, <3>1, <3>2
      <4> QED
        BY <1>1, <1>3, <1>5, <1>7, <1>9, <1>10, <3>1, <3>2, <4>1 DEF OnFile
    <3>3. CASE g # f
      BY <1>1, <1>7, <1>9, <1>10, <3>1, <3>3
    <3> QED
      BY <3>2, <3>3
  <2> QED
    BY <1>1, <1>2, <2>1, <2>2, <2>3 DEF RecOK
<1> QED
  BY <1>1, <1>11, <1>12, <1>13 DEF RecInv

\* No job has a record, and the program is not ended.
LEMMA InitRec == ASSUME LInit PROVE RecInv
<1>1. << >> \in Seq(Byte) /\ 0 \in Nat
  OBVIOUS
<1>2. NoFiles \in Files /\ NoFiles.start = FALSE /\ NoFiles.end = FALSE /\ NoFiles.created = {}
      /\ NoFiles.data = [f \in Fd |-> << >>]
  BY <1>1 DEF NoFiles, Files
<1>3. RecType
  BY <1>1, <1>2 DEF RecType, LInit, RecorderInit
<1>4. ASSUME NEW c \in Child PROVE RecOK(c)
  <2>1. c \notin Started /\ c \notin finished
    BY DEF LInit, Init, Container!Init, Started
  <2>2. ~disk[c].end /\ stream[c] = {} /\ disk[c].created = {}
    BY <1>2 DEF LInit, RecorderInit
  <2>3. ASSUME NEW f \in Fd
        PROVE  /\ n_read[c][f] = 0 /\ n_bytes[c][f] = n_read[c][f]
               /\ disk[c].data[f] \o unflushed[c][f] = SubSeq(wrote[c][f], 1, n_read[c][f])
    <3>1. /\ n_read[c][f] = 0 /\ n_bytes[c][f] = 0
          /\ wrote[c][f] = << >> /\ unflushed[c][f] = << >>
      BY DEF LInit, Init, RecorderInit
    <3>2. disk[c].data[f] = << >>
      BY <1>2 DEF LInit, RecorderInit
    <3>3. PICK e \in Seq(Byte) : e = << >>
      BY <1>1
    <3>4. e \o << >> = e
      BY ConcatEmpty
    <3>5. SubSeq(e, 1, Len(e)) = e
      BY PrefixAll
    <3>6. Len(e) = 0
      BY <3>3
    <3>7. disk[c].data[f] \o unflushed[c][f] = e
      BY <3>1, <3>2, <3>3, <3>4
    <3>8. SubSeq(wrote[c][f], 1, n_read[c][f]) = e
      BY <3>1, <3>3, <3>5, <3>6
    <3> QED
      BY <3>1, <3>7, <3>8
  <2>4. stream[c] = {f \in Fd : n_read[c][f] > 0}
    <3>1. \A f \in Fd : n_read[c][f] = 0
      BY <2>3
    <3>2. \A f \in Fd : ~(n_read[c][f] > 0)
      BY <3>1
    <3>3. {f \in Fd : n_read[c][f] > 0} = {}
      BY <3>2
    <3> QED
      BY <2>2, <3>3
  <2> QED
    BY <2>1, <2>2, <2>3, <2>4 DEF RecOK
<1> QED
  BY <1>3, <1>4 DEF RecInv, LInit

\* A job that starts gets the file that says how it began.
LEMMA SpawnRec ==
  ASSUME OutInv, RecInv, ~died, NEW c \in Child, NEW P \in SUBSET Fd, LSpawn(c, P)
  PROVE  RecInv'
<1>0. RecType /\ \A e \in Child : RecOK(e)
  BY DEF RecInv
<1>1. /\ c \notin Started /\ running' = running \cup {c}
      /\ disk' = [disk EXCEPT ![c].start = TRUE]
      /\ UNCHANGED <<finished, stream, n_bytes, unflushed, wrote, n_read, died>>
  BY DEF LSpawn, Spawn, Container!Spawn, Container!Used, RecordStart, output, program, Started
<1>2. PICK x \in Files : x = disk[c]
  BY <1>0 DEF RecType
<1>3. PICK y : y = [x EXCEPT !.start = TRUE]
  OBVIOUS
<1>4. /\ y \in Files /\ y.start /\ y.end = x.end /\ y.created = x.created /\ y.data = x.data
  BY <1>3 DEF Files
<1>5. disk' = [disk EXCEPT ![c] = y]
  BY <1>1, <1>2, <1>3
<1>6. disk' \in [Child -> Files] /\ disk'[c] = y /\ \A d \in Child : d # c => disk'[d] = disk[d]
  BY <1>0, <1>4, <1>5 DEF RecType
<1>7. RecType'
  BY <1>0, <1>1, <1>6 DEF RecType
<1>8. ASSUME NEW d \in Child, d # c PROVE RecOK(d)'
  <2>1. d \in Started' <=> d \in Started
    BY <1>1, <1>8 DEF Started
  <2> QED
    BY <1>0, <1>1, <1>6, <1>8, <2>1, RecSame
<1>9. RecOK(c)'
  <2>1. c \notin finished /\ RecOK(c)
    BY <1>0, <1>1 DEF Started
  <2> QED
    BY <1>1, <1>2, <1>4, <1>6, <2>1 DEF RecOK
<1> QED
  BY <1>1, <1>7, <1>8, <1>9 DEF RecInv

\* The files of a job that ends are completed: it was read to the end, and
\* what stdio kept of its streams is flushed.
LEMMA EndRec == ASSUME OutInv, RecInv, ~died, LDoneReturn PROVE RecInv'
<1>0. RecType /\ \A e \in Child : RecOK(e)
  BY DEF RecInv
<1>1. PICK c \in Child : c = job /\ c \in running
  BY DEF LDoneReturn, DoneReturn, OutInv, StageOK
<1>2. /\ held[c] = {} /\ running' = running \ {c} /\ finished' = finished \cup {c}
      /\ UNCHANGED <<wrote, n_read, n_bytes, died>>
      /\ disk' = [disk EXCEPT ![c] = [Flushed(c, stream[c]) EXCEPT !.end = TRUE]]
      /\ stream' = [stream EXCEPT ![c] = {}]
      /\ unflushed' = [unflushed EXCEPT ![c] = [f \in Fd |-> << >>]]
  BY <1>1 DEF LDoneReturn, DoneReturn, Container!Done, RecordEnd, output, program
<1>3. c \notin finished /\ Started' = Started
  BY <1>1, <1>2 DEF OutInv, StageOK, Started
<1>4. PICK F \in SUBSET Fd : F = stream[c]
  BY <1>0 DEF RecType
<1>5. PICK x \in Files : x = Flushed(c, F)
  BY <1>0, FlushedIs
<1>6. /\ x.start = disk[c].start /\ x.created = disk[c].created /\ x.end = disk[c].end
      /\ \A f \in Fd : x.data[f] =
           IF f \in F THEN disk[c].data[f] \o unflushed[c][f] ELSE disk[c].data[f]
  BY <1>0, <1>5, FlushedIs
<1>7. PICK y : y = [x EXCEPT !.end = TRUE]
  OBVIOUS
<1>8. /\ y \in Files /\ y.end /\ y.start = x.start /\ y.created = x.created /\ y.data = x.data
  BY <1>7 DEF Files
<1>9. disk' = [disk EXCEPT ![c] = y]
  BY <1>2, <1>4, <1>5, <1>7
<1>10. /\ disk' \in [Child -> Files] /\ disk'[c] = y
       /\ \A d \in Child : d # c => disk'[d] = disk[d]
  BY <1>0, <1>8, <1>9 DEF RecType
<1>11. /\ stream' \in [Child -> SUBSET Fd] /\ stream'[c] = {}
       /\ unflushed' \in [Child -> [Fd -> Seq(Byte)]] /\ \A f \in Fd : unflushed'[c][f] = << >>
       /\ \A d \in Child : d # c => stream'[d] = stream[d] /\ unflushed'[d] = unflushed[d]
  <2>1. [f \in Fd |-> << >>] \in [Fd -> Seq(Byte)]
    OBVIOUS
  <2> QED
    BY <1>0, <1>2, <2>1 DEF RecType
<1>12. RecType'
  BY <1>0, <1>2, <1>10, <1>11 DEF RecType
<1>13. ASSUME NEW d \in Child, d # c PROVE RecOK(d)'
  <2>1. d \in finished' <=> d \in finished
    BY <1>2, <1>13
  <2> QED
    BY <1>0, <1>2, <1>3, <1>10, <1>11, <1>13, <2>1, RecSame
<1>14. RecOK(c)'
  <2>1. RecOK(c) /\ c \in Started
    BY <1>0, <1>1 DEF Started
  <2>2. ASSUME NEW f \in Fd
        PROVE  /\ y.data[f] = wrote[c][f] /\ n_bytes[c][f] = Len(wrote[c][f])
               /\ f \in F <=> wrote[c][f] # << >>
    <3>1. /\ wrote[c][f] \in Seq(Byte) /\ n_read[c][f] = Len(wrote[c][f])
          /\ SubSeq(wrote[c][f], 1, n_read[c][f]) = wrote[c][f]
      BY <1>2, ReadToTheEnd
    <3>2. /\ n_bytes[c][f] = n_read[c][f] /\ (f \in F <=> n_read[c][f] > 0)
          /\ disk[c].data[f] \o unflushed[c][f] = wrote[c][f]
      BY <1>3, <1>4, <2>1, <3>1 DEF RecOK
    <3>3. PICK w \in Seq(Byte), d \in Seq(Byte), u \in Seq(Byte) :
            w = wrote[c][f] /\ d = disk[c].data[f] /\ u = unflushed[c][f]
      BY <1>0, <3>1 DEF RecType, Files
    <3>4. Len(w) > 0 <=> w # << >>
      OBVIOUS
    <3>5. w = << >> => d = << >>
      <4>1. d \o u = w /\ Len(d \o u) = Len(d) + Len(u)
        BY <3>2, <3>3, ConcatFacts
      <4>2. Len(d) \in Nat /\ Len(u) \in Nat
        OBVIOUS
      <4>3. w = << >> => Len(d) = 0
        BY <4>1, <4>2
      <4>4. Len(d) = 0 => d = << >>
        OBVIOUS
      <4> QED
        BY <4>3, <4>4
    <3>6. f \in F <=> wrote[c][f] # << >>
      BY <3>1, <3>2, <3>3, <3>4
    <3>7. y.data[f] = wrote[c][f]
      BY <1>6, <1>8, <3>2, <3>3, <3>5, <3>6
    <3> QED
      BY <3>1, <3>2, <3>6, <3>7
  <2>3. y.data = wrote[c]
    <3>1. wrote[c] \in [Fd -> Seq(Byte)] /\ y.data \in [Fd -> Seq(Byte)]
      BY <1>8 DEF OutInv, OutType, Files
    <3> QED
      BY <2>2, <3>1
  <2>4. y.created = {f \in Fd : wrote[c][f] # << >>}
    <3>1. y.created = F
      BY <1>3, <1>4, <1>6, <1>8, <2>1 DEF RecOK
    <3> QED
      BY <2>2, <3>1
  <2>5. y.start
    BY <1>6, <1>8, <2>1 DEF RecOK
  <2> QED
    BY <1>1, <1>2, <1>8, <1>10, <1>11, <2>2, <2>3, <2>4, <2>5 DEF RecOK
<1> QED
  BY <1>2, <1>12, <1>13, <1>14 DEF RecInv

\* A step in which the recorder has no part.
LEMMA QuietRec ==
  ASSUME OutInv, RecInv, ~died, UNCHANGED <<recorder, died, n_read, finished>>,
         \A c \in Child : c \in Started' <=> c \in Started,
         \A c \in Child, f \in Fd :
           SubSeq(wrote'[c][f], 1, n_read[c][f]) = SubSeq(wrote[c][f], 1, n_read[c][f]),
         \A c \in finished : wrote'[c] = wrote[c]
  PROVE  RecInv'
<1>1. RecType /\ \A c \in Child : RecOK(c)
  BY DEF RecInv
<1>2. RecType'
  BY <1>1 DEF RecType, recorder
<1>3. ASSUME NEW c \in Child PROVE RecOK(c)'
  BY <1>1, RecSame DEF recorder
<1> QED
  BY <1>2, <1>3 DEF RecInv

\* Nor in one that reads and writes nothing.
LEMMA StillRec ==
  ASSUME OutInv, RecInv, ~died, UNCHANGED <<recorder, died, n_read, finished, wrote, running>>
  PROVE  RecInv'
  BY QuietRec DEF Started

\* What a job writes goes behind what was read of it.
LEMMA WritesRec ==
  ASSUME OutInv, RecInv, ~died, NEW c \in Child, NEW f \in Fd, NEW b \in Byte,
         ChildWrites(c, f, b), UNCHANGED <<recorder, died>>
  PROVE  RecInv'
<1>1. /\ c \in running /\ f \in held[c] /\ wrote' = [wrote EXCEPT ![c][f] = Append(@, b)]
      /\ UNCHANGED <<running, finished, n_read>>
  BY DEF ChildWrites, contract
<1>2. c \notin finished /\ Started' = Started
  BY <1>1 DEF OutInv, StageOK, Started
<1>3. PICK w \in Seq(Byte), n \in Nat : w = wrote[c][f] /\ n = n_read[c][f]
  BY DEF OutInv, OutType
<1>4. n <= Len(w)
  BY <1>3 DEF OutInv, PipeOK
<1>5. SubSeq(Append(w, b), 1, n) = SubSeq(w, 1, n)
  BY <1>4, PrefixAppend
<1>6. /\ wrote'[c][f] = Append(w, b)
      /\ \A d \in Child, g \in Fd : d # c \/ g # f => wrote'[d][g] = wrote[d][g]
      /\ \A d \in Child : d # c => wrote'[d] = wrote[d]
  BY <1>1, <1>3 DEF OutInv, OutType
<1>7. \A d \in Child, g \in Fd :
        SubSeq(wrote'[d][g], 1, n_read[d][g]) = SubSeq(wrote[d][g], 1, n_read[d][g])
  BY <1>3, <1>5, <1>6
<1>8. \A d \in finished : wrote'[d] = wrote[d]
  BY <1>2, <1>6 DEF OutInv, StageOK
<1> QED
  BY <1>1, <1>2, <1>7, <1>8, QuietRec

\* Steps of the layer that call no callback of the recorder keep its invariant.
LEMMA QuietlyRec == ASSUME OutInv, RecInv, ~died, LQuietly PROVE RecInv'
<1>0. UNCHANGED <<recorder, died>>
  BY DEF LQuietly, program
<1>1. CASE \E c \in Child, f \in Fd, b \in Byte : ChildWrites(c, f, b)
  BY <1>0, <1>1, WritesRec
<1>2. CASE FreeReturn
  BY <1>0, <1>2, StillRec DEF FreeReturn, contract, output
<1>3. CASE \E c \in Child : SpawnFails(c)
  BY <1>0, <1>3, StillRec DEF SpawnFails, Container!Refuse, output
<1>4. CASE \E c \in Child, s \in {"ok", "failed"} : Exit(c, s)
  BY <1>0, <1>4, StillRec DEF Exit, Container!Exit, output
<1>5. CASE \E c \in Child, f \in Fd : ReadEnd(c, f)
  BY <1>0, <1>5, StillRec DEF ReadEnd, contract
<1>6. CASE \E c \in Child, f \in Fd : Closed(c, f)
  BY <1>0, <1>6, StillRec DEF Closed, Container!Close, output
<1>7. CASE \E c \in Child, f \in Fd : ChildHangsUp(c, f)
  BY <1>0, <1>7, StillRec DEF ChildHangsUp, contract
<1> QED
  BY <1>1, <1>2, <1>3, <1>4, <1>5, <1>6, <1>7 DEF LQuietly, LWrites

\* The invariant of the recorder is inductive.
LEMMA NextRec == ASSUME OutInv, OutInv', RecInv, [LNext]_lvars PROVE RecInv'
<1>1. CASE UNCHANGED lvars
  <2>1. UNCHANGED <<died, recorder, n_read, finished, wrote, running>>
    BY <1>1 DEF lvars, vars, program
  <2>2. CASE ~died
    BY <2>1, <2>2, StillRec
  <2>3. CASE died
    <3>1. FilesExact /\ died'
      BY <2>1, <2>3 DEF RecInv
    <3>2. FilesExact'
      BY <2>1, <3>1 DEF FilesExact, recorder
    <3> QED
      BY <3>1, <3>2 DEF RecInv
  <2> QED
    BY <2>2, <2>3
<1>2. CASE LStopped
  BY <1>1, <1>2 DEF LStopped
<1> SUFFICES ASSUME ~died, LNext PROVE RecInv'
  BY <1>1, <1>2 DEF LNext
<1>3. CASE AllDone
  BY <1>3, StillRec DEF AllDone, vars
<1>4. CASE LDoneReturn
  BY <1>4, EndRec
<1>5. CASE LEndDies
  <2>1. PICK shown : Dies(shown)
    BY <1>5 DEF LEndDies
  <2>2. UNCHANGED <<wrote, n_read, finished>>
    BY <1>5 DEF LEndDies, vars
  <2> QED
    BY <2>1, <2>2, DiesRec
<1>6. CASE \E c \in Child : LDoneStart(c)
  BY <1>6, StillRec DEF LDoneStart, DoneStart, contract, program
<1>7. ASSUME NEW c \in Child, NEW P \in SUBSET Fd, LSpawn(c, P) PROVE RecInv'
  BY <1>7, SpawnRec
<1>8. ASSUME NEW c \in Child, NEW P \in SUBSET Fd, LSpawnDies(c, P) PROVE RecInv'
  <2>1. PICK shown : Dies(shown)
    BY <1>8 DEF LSpawnDies
  <2>2. UNCHANGED <<wrote, n_read, finished>>
    BY <1>8 DEF LSpawnDies, Spawn, Container!Spawn, output
  <2> QED
    BY <2>1, <2>2, DiesRec
<1>9. ASSUME NEW c \in Child, NEW f \in Fd, LReadDies(c, f) PROVE RecInv'
  <2>1. PICK shown : Dies(shown)
    BY <1>9 DEF LReadDies
  <2>2. UNCHANGED <<wrote, n_read, finished>>
    BY <1>9 DEF LReadDies, vars
  <2> QED
    BY <2>1, <2>2, DiesRec
<1>10. ASSUME NEW c \in Child, NEW f \in Fd, NEW k \in 1 .. MaxOutput, LRead(c, f, k)
       PROVE  RecInv'
  BY <1>10, ReadRec
<1>11. CASE LQuietly
  BY <1>11, QuietlyRec
<1>12. CASE LFree
  BY <1>12, StillRec DEF LFree, Free, contract, output, program
<1> QED
  BY <1>2, <1>3, <1>4, <1>5, <1>6, <1>7, <1>8, <1>9, <1>10, <1>11, <1>12 DEF LNext

\* "What lands on disk is byte-for-byte what the child produced"
\* (jobs_job_output), however the reads cut the streams up, whenever stdio
\* chooses to write, and also when the recorder ends the program half way.
THEOREM FilesAlwaysExact == LSpec => []FilesExact
<1>1. LInit => OutInv /\ RecInv
  BY InitOut, InitRec DEF LInit
<1>2. OutInv /\ RecInv /\ [LNext]_lvars => OutInv' /\ RecInv'
  BY LStep, NextOut, NextRec
<1>3. OutInv /\ RecInv => FilesExact
  BY RecFiles DEF RecInv
<1> QED
  BY <1>1, <1>2, <1>3, PTL DEF LSpec

-----------------------------------------------------------------------------
(* What a sequence of entries says of one stream.                          *)

\* The lines of a job, and all that can be seen.
LinesOf(c) == [kind : {"line"}, job : {c}, fd : Fd, text : Seq(Byte)]

Entry ==
  (UNION {LinesOf(c) : c \in Child}) \cup [kind : {"note"}, job : Child]
    \cup [kind : {"summary"}, failed : Nat, of : Nat] \cup [kind : {"recorded"}]

TextIn(e, c, f) == IF e.kind = "line" /\ e.job = c /\ e.fd = f THEN <<e.text>> ELSE << >>
Texts(q, c, f)  == [i \in DOMAIN q |-> TextIn(q[i], c, f)]
Says(q, c, f)   == FlattenSeq(Texts(q, c, f))

\* An entry of the screen is a line or a note.
LEMMA EntryFacts ==
  ASSUME NEW e \in Entry
  PROVE  /\ e.kind = "line" => \E c \in Child : e \in LinesOf(c) /\ e.job = c
         /\ e.kind = "note" => e.job \in Child
         /\ \A c \in Child : e \in LinesOf(c) => e.kind = "line" /\ e.job = c
  BY DEF Entry, LinesOf

\* Lines are entries.
LEMMA LinesAreEntries ==
  ASSUME NEW c \in Child
  PROVE  /\ LinesOf(c) \subseteq Entry
         /\ \A e \in LinesOf(c) : /\ e.kind = "line" /\ e.job = c /\ e.fd \in Fd
                                  /\ e.text \in Seq(Byte)
  BY DEF Entry, LinesOf

\* The text of an entry is bytes.
LEMMA TextType ==
  ASSUME NEW e \in Entry, NEW c \in Child, NEW f \in Fd
  PROVE  TextIn(e, c, f) \in Seq(Seq(Byte))
<1>1. CASE e.kind = "line"
  <2>1. e.text \in Seq(Byte)
    BY <1>1, EntryFacts, LinesAreEntries
  <2> QED
    BY <2>1 DEF TextIn
<1>2. CASE e.kind # "line"
  BY <1>2 DEF TextIn
<1> QED
  BY <1>1, <1>2

\* So are the texts of a sequence of entries.
LEMMA TextsType ==
  ASSUME NEW q \in Seq(Entry), NEW c \in Child, NEW f \in Fd
  PROVE  /\ Texts(q, c, f) \in Seq(Seq(Seq(Byte))) /\ Len(Texts(q, c, f)) = Len(q)
         /\ \A i \in 1 .. Len(q) : Texts(q, c, f)[i] = TextIn(q[i], c, f)
         /\ Says(q, c, f) \in Seq(Seq(Byte))
<1>1. Len(q) \in Nat /\ DOMAIN q = 1 .. Len(q) /\ \A i \in 1 .. Len(q) : q[i] \in Entry
  OBVIOUS
<1>2. Texts(q, c, f) = [i \in 1 .. Len(q) |-> TextIn(q[i], c, f)]
  BY <1>1 DEF Texts
<1>3. \A i \in 1 .. Len(q) : TextIn(q[i], c, f) \in Seq(Seq(Byte))
  BY <1>1, TextType
<1>4. Texts(q, c, f) \in Seq(Seq(Seq(Byte))) /\ Len(Texts(q, c, f)) = Len(q)
  BY <1>1, <1>2, <1>3
<1>5. Says(q, c, f) \in Seq(Seq(Byte))
  BY <1>4, FlattenType DEF Says
<1> QED
  BY <1>2, <1>4, <1>5

\* What comes later is said later.
LEMMA SaysConcat ==
  ASSUME NEW p \in Seq(Entry), NEW q \in Seq(Entry), NEW c \in Child, NEW f \in Fd
  PROVE  Says(p \o q, c, f) = Says(p, c, f) \o Says(q, c, f)
<1>1. PICK r \in Seq(Entry) : r = p \o q
  BY ConcatFacts
<1>2. /\ Len(r) = Len(p) + Len(q) /\ Len(p) \in Nat /\ Len(q) \in Nat
      /\ \A i \in 1 .. Len(p) + Len(q) : r[i] = IF i <= Len(p) THEN p[i] ELSE q[i - Len(p)]
  BY <1>1, ConcatFacts
<1>3. PICK a \in Seq(Seq(Seq(Byte))), b \in Seq(Seq(Seq(Byte))), d \in Seq(Seq(Seq(Byte))) :
        a = Texts(p, c, f) /\ b = Texts(q, c, f) /\ d = Texts(r, c, f)
  BY TextsType
<1>4. /\ Len(a) = Len(p) /\ \A i \in 1 .. Len(p) : a[i] = TextIn(p[i], c, f)
      /\ Len(b) = Len(q) /\ \A i \in 1 .. Len(q) : b[i] = TextIn(q[i], c, f)
      /\ Len(d) = Len(r) /\ \A i \in 1 .. Len(r) : d[i] = TextIn(r[i], c, f)
  BY <1>3, TextsType
<1>5. PICK e \in Seq(Seq(Seq(Byte))) : e = a \o b
  BY ConcatFacts
<1>6. /\ Len(e) = Len(a) + Len(b)
      /\ \A i \in 1 .. Len(a) + Len(b) : e[i] = IF i <= Len(a) THEN a[i] ELSE b[i - Len(a)]
  BY <1>5, ConcatFacts
<1>7. ASSUME NEW i \in 1 .. Len(d) PROVE d[i] = e[i]
  <2>1. CASE i <= Len(p)
    <3>1. i \in 1 .. Len(p) /\ i \in 1 .. Len(r) /\ i \in 1 .. Len(p) + Len(q)
      BY <1>2, <1>4, <2>1
    <3> QED
      BY <1>2, <1>4, <1>6, <2>1, <3>1
  <2>2. CASE ~ (i <= Len(p))
    <3>1. i - Len(p) \in 1 .. Len(q) /\ i \in 1 .. Len(r) /\ i \in 1 .. Len(p) + Len(q)
      BY <1>2, <1>4, <2>2
    <3> QED
      BY <1>2, <1>4, <1>6, <2>2, <3>1
  <2> QED
    BY <2>1, <2>2
<1>8. d = e
  BY <1>2, <1>4, <1>6, <1>7, SeqEqual
<1>9. FlattenSeq(a \o b) = FlattenSeq(a) \o FlattenSeq(b)
  BY FlattenConcat
<1> QED
  BY <1>1, <1>3, <1>5, <1>8, <1>9 DEF Says

\* What a single entry says of a stream: its text if it is a line of that stream,
\* else nothing.
LEMMA SaysOne ==
  ASSUME NEW e \in Entry, NEW c \in Child, NEW f \in Fd
  PROVE  Says(<<e>>, c, f) = TextIn(e, c, f) /\ Says(<< >>, c, f) = << >>
<1>1. PICK t \in Seq(Seq(Byte)) : t = TextIn(e, c, f)
  BY TextType
<1>2. Texts(<<e>>, c, f) = <<t>>
  BY <1>1 DEF Texts
<1>3. FlattenSeq(<<t>>) = t
  <2>0. << >> \in Seq(Seq(Seq(Byte))) /\ << >> \in Seq(Seq(Byte))
    OBVIOUS
  <2>1. PICK n \in Seq(Seq(Seq(Byte))) : n = << >>
    BY <2>0
  <2>2. FlattenSeq(Append(n, t)) = FlattenSeq(n) \o t
    BY FlattenAppend
  <2>3. Append(n, t) = <<t>>
    BY <2>1
  <2>4. PICK z \in Seq(Seq(Byte)) : z = << >>
    BY <2>0
  <2>5. z \o t = t
    BY <2>4, ConcatEmptySeq
  <2> QED
    BY <2>1, <2>2, <2>3, <2>4, <2>5, FlattenEmpty
<1>4. Texts(<< >>, c, f) = << >>
  BY DEF Texts
<1> QED
  BY <1>1, <1>2, <1>3, <1>4, FlattenEmpty DEF Says

\* What two sequences of entries say, one after the other.
LEMMA SaysAppend ==
  ASSUME NEW q \in Seq(Entry), NEW e \in Entry, NEW c \in Child, NEW f \in Fd
  PROVE  Says(Append(q, e), c, f) = Says(q, c, f) \o TextIn(e, c, f)
<1>0. <<e>> \in Seq(Entry)
  OBVIOUS
<1>1. PICK o \in Seq(Entry) : o = <<e>>
  BY <1>0
<1>2. Append(q, e) = q \o o
  BY <1>1
<1>3. Says(q \o o, c, f) = Says(q, c, f) \o Says(o, c, f)
  BY SaysConcat
<1> QED
  BY <1>1, <1>2, <1>3, SaysOne

\* Entries that are not lines of the stream say nothing of it.
LEMMA SaysNothing ==
  ASSUME NEW c \in Child, NEW f \in Fd, NEW q \in Seq(Entry),
         \A i \in 1 .. Len(q) : TextIn(q[i], c, f) = << >>
  PROVE  Says(q, c, f) = << >>
<1> DEFINE T == {s \in Seq(Entry) :
                   (\A i \in 1 .. Len(s) : TextIn(s[i], c, f) = << >>) => Says(s, c, f) = << >>}
<1>1. << >> \in T
  <2>1. << >> \in Seq(Entry)
    OBVIOUS
  <2>2. [kind |-> "recorded"] \in Entry
    BY DEF Entry
  <2> QED
    BY <2>1, <2>2, SaysOne
<1>2. ASSUME NEW s \in T, NEW e \in Entry PROVE Append(s, e) \in T
  <2>1. s \in Seq(Entry)
    BY <1>2
  <2>2. PICK r \in Seq(Entry) : r = Append(s, e)
    BY <2>1, AppendFacts
  <2>3. /\ Len(r) = Len(s) + 1 /\ Len(s) \in Nat
        /\ \A i \in 1 .. Len(s) : r[i] = s[i]
        /\ r[Len(s) + 1] = e
    BY <2>1, <2>2, AppendFacts
  <2>4. ASSUME \A i \in 1 .. Len(r) : TextIn(r[i], c, f) = << >> PROVE Says(r, c, f) = << >>
    <3>1. \A i \in 1 .. Len(s) : TextIn(s[i], c, f) = << >>
      <4>1. \A i \in 1 .. Len(s) : i \in 1 .. Len(r)
        BY <2>3
      <4> QED
        BY <2>3, <2>4, <4>1
    <3>2. TextIn(e, c, f) = << >>
      <4>1. Len(s) + 1 \in 1 .. Len(r)
        BY <2>3
      <4> QED
        BY <2>3, <2>4, <4>1
    <3>3. Says(s, c, f) = << >>
      BY <1>2, <3>1
    <3>0. << >> \in Seq(Seq(Byte))
      OBVIOUS
    <3>4. PICK z \in Seq(Seq(Byte)) : z = << >>
      BY <3>0
    <3>5. z \o z = z
      BY <3>4, ConcatEmptySeq
    <3> QED
      BY <2>1, <2>2, <3>2, <3>3, <3>4, <3>5, SaysAppend
  <2> QED
    BY <2>2, <2>4
<1>3. T \in SUBSET Seq(Entry)
  OBVIOUS
<1> HIDE DEF T
<1>4. T = Seq(Entry)
  BY <1>1, <1>2, <1>3, SeqInduction
<1> QED
  BY <1>4 DEF T

-----------------------------------------------------------------------------
(* What job_line prints.                                                   *)

\* The lines l of one stream, as they are printed.
Printed(c, f, l) == [i \in DOMAIN l |-> LineOf(c, f, l[i])]

\* The lines of one stream, printed, say exactly these lines of that stream and
\* nothing of another.
LEMMA PrintedIs ==
  ASSUME NEW c \in Child, NEW f \in Fd, NEW l \in Seq(Seq(Byte))
  PROVE  /\ Printed(c, f, l) \in Seq(LinesOf(c)) /\ Printed(c, f, l) \in Seq(Entry)
         /\ Len(Printed(c, f, l)) = Len(l)
         /\ \A i \in 1 .. Len(l) : Printed(c, f, l)[i] = LineOf(c, f, l[i])
<1>1. Len(l) \in Nat /\ DOMAIN l = 1 .. Len(l) /\ \A i \in 1 .. Len(l) : l[i] \in Seq(Byte)
  OBVIOUS
<1>2. \A i \in 1 .. Len(l) : LineOf(c, f, l[i]) \in LinesOf(c)
  BY <1>1 DEF LineOf, LinesOf
<1>3. Printed(c, f, l) = [i \in 1 .. Len(l) |-> LineOf(c, f, l[i])]
  BY <1>1 DEF Printed
<1>4. Printed(c, f, l) \in Seq(LinesOf(c)) /\ Len(Printed(c, f, l)) = Len(l)
  BY <1>1, <1>2, <1>3
<1>5. Printed(c, f, l) \in Seq(Entry)
  BY <1>4, LinesAreEntries
<1> QED
  BY <1>3, <1>4, <1>5

\* They say what they were made from, and nothing of another stream.
LEMMA PrintedSays ==
  ASSUME NEW c \in Child, NEW f \in Fd, NEW g \in Fd, NEW l \in Seq(Seq(Byte))
  PROVE  Says(Printed(c, f, l), c, g) = IF g = f THEN l ELSE << >>
<1> DEFINE T == {s \in Seq(Seq(Byte)) : Says(Printed(c, f, s), c, g) = IF g = f THEN s ELSE << >>}
<1>1. << >> \in T
  <2>1. << >> \in Seq(Seq(Byte)) /\ Printed(c, f, << >>) = << >>
    BY DEF Printed
  <2>2. [kind |-> "recorded"] \in Entry
    BY DEF Entry
  <2> QED
    BY <2>1, <2>2, SaysOne
<1>2. ASSUME NEW s \in T, NEW e \in Seq(Byte) PROVE Append(s, e) \in T
  <2>1. s \in Seq(Seq(Byte))
    BY <1>2
  <2>2. PICK r \in Seq(Seq(Byte)) : r = Append(s, e)
    BY <2>1, AppendFacts
  <2>3. /\ Len(r) = Len(s) + 1 /\ Len(s) \in Nat
        /\ \A i \in 1 .. Len(s) : r[i] = s[i]
        /\ r[Len(s) + 1] = e
    BY <2>1, <2>2, AppendFacts
  <2>4. PICK a \in Seq(Entry), b \in Seq(Entry) :
          a = Printed(c, f, s) /\ b = Printed(c, f, r)
    BY <2>1, PrintedIs
  <2>5. /\ Len(a) = Len(s) /\ \A i \in 1 .. Len(s) : a[i] = LineOf(c, f, s[i])
        /\ Len(b) = Len(r) /\ \A i \in 1 .. Len(r) : b[i] = LineOf(c, f, r[i])
    BY <2>1, <2>4, PrintedIs
  <2>6. b = Append(a, LineOf(c, f, e))
    <3>1. PICK n \in Nat : n = Len(s)
      BY <2>3
    <3>2. \A i \in 1 .. n : i \in 1 .. Len(r)
      BY <2>3, <3>1
    <3>3. \A i \in 1 .. n : a[i] = b[i]
      BY <2>3, <2>5, <3>1, <3>2
    <3>4. b[n + 1] = LineOf(c, f, e)
      <4>1. n + 1 \in 1 .. Len(r)
        BY <2>3, <3>1
      <4> QED
        BY <2>3, <2>5, <3>1, <4>1
    <3>5. Len(b) = n + 1 /\ Len(a) = n
      BY <2>3, <2>5, <3>1
    <3> QED
      BY <3>3, <3>4, <3>5, SplitLast
  <2>7. LineOf(c, f, e) \in Entry /\ TextIn(LineOf(c, f, e), c, g) = IF g = f THEN <<e>> ELSE << >>
    <3>1. LineOf(c, f, e) \in LinesOf(c)
      BY DEF LineOf, LinesOf
    <3> QED
      BY <3>1, LinesAreEntries DEF LineOf, TextIn
  <2>8. Says(b, c, g) = Says(a, c, g) \o (IF g = f THEN <<e>> ELSE << >>)
    <3>1. PICK x \in Entry : x = LineOf(c, f, e)
      BY <2>7
    <3>2. Says(Append(a, x), c, g) = Says(a, c, g) \o TextIn(x, c, g)
      BY SaysAppend
    <3> QED
      BY <2>6, <2>7, <3>1, <3>2
  <2>9. Says(a, c, g) = IF g = f THEN s ELSE << >>
    BY <1>2, <2>4
  <2>10. Says(b, c, g) = IF g = f THEN r ELSE << >>
    <3>1. CASE g = f
      <4>1. s \o <<e>> = r
        BY <2>1, <2>2
      <4> QED
        BY <2>8, <2>9, <3>1, <4>1
    <3>2. CASE g # f
      <4>1. << >> \o << >> = << >>
        OBVIOUS
      <4> QED
        BY <2>8, <2>9, <3>2, <4>1
    <3> QED
      BY <3>1, <3>2
  <2> QED
    BY <2>2, <2>4, <2>10
<1>3. T \in SUBSET Seq(Seq(Byte))
  OBVIOUS
<1> HIDE DEF T
<1>4. T = Seq(Seq(Byte))
  BY <1>1, <1>2, <1>3, SeqInduction
<1> QED
  BY <1>4 DEF T

\* The streams in o, one after the other.
OutOf(c, o, new) == FlattenSeq([k \in DOMAIN o |-> Printed(c, o[k], new[o[k]])])

\* What is printed of some streams, one after the other, are lines of the job.
LEMMA OutIs ==
  ASSUME NEW c \in Child, NEW new \in [Fd -> Seq(Seq(Byte))], NEW o \in Seq(Fd)
  PROVE  OutOf(c, o, new) \in Seq(LinesOf(c)) /\ OutOf(c, o, new) \in Seq(Entry)
<1>1. Len(o) \in Nat /\ DOMAIN o = 1 .. Len(o) /\ \A k \in 1 .. Len(o) : o[k] \in Fd
  OBVIOUS
<1>2. \A k \in 1 .. Len(o) : new[o[k]] \in Seq(Seq(Byte))
  BY <1>1
<1>3. \A k \in 1 .. Len(o) : Printed(c, o[k], new[o[k]]) \in Seq(LinesOf(c))
  BY <1>1, <1>2, PrintedIs
<1>4. [k \in DOMAIN o |-> Printed(c, o[k], new[o[k]])] \in Seq(Seq(LinesOf(c)))
  BY <1>1, <1>3
<1>5. OutOf(c, o, new) \in Seq(LinesOf(c))
  BY <1>4, FlattenType DEF OutOf
<1> QED
  BY <1>5, LinesAreEntries

\* Printing one stream more.
LEMMA OutAppend ==
  ASSUME NEW c \in Child, NEW new \in [Fd -> Seq(Seq(Byte))], NEW o \in Seq(Fd), NEW f \in Fd
  PROVE  OutOf(c, Append(o, f), new) = OutOf(c, o, new) \o Printed(c, f, new[f])
<1>0. PICK r \in Seq(Fd) : r = Append(o, f)
  BY AppendFacts
<1>1. /\ Len(r) = Len(o) + 1 /\ Len(o) \in Nat
      /\ \A i \in 1 .. Len(o) : r[i] = o[i]
      /\ r[Len(o) + 1] = f
  BY <1>0, AppendFacts
<1>2. ASSUME NEW s \in Seq(Fd)
      PROVE  /\ [k \in DOMAIN s |-> Printed(c, s[k], new[s[k]])] \in Seq(Seq(LinesOf(c)))
             /\ Len([k \in DOMAIN s |-> Printed(c, s[k], new[s[k]])]) = Len(s)
             /\ \A k \in 1 .. Len(s) :
                  [j \in DOMAIN s |-> Printed(c, s[j], new[s[j]])][k] = Printed(c, s[k], new[s[k]])
  <2>1. ASSUME NEW k \in 1 .. Len(s)
        PROVE  Printed(c, s[k], new[s[k]]) \in Seq(LinesOf(c))
    <3>1. s[k] \in Fd /\ new[s[k]] \in Seq(Seq(Byte))
      OBVIOUS
    <3> QED
      BY <3>1, PrintedIs
  <2>2. DOMAIN s = 1 .. Len(s) /\ Len(s) \in Nat
    OBVIOUS
  <2> QED
    BY <2>1, <2>2
<1>3. PICK a \in Seq(Seq(LinesOf(c))), b \in Seq(Seq(LinesOf(c))) :
        /\ a = [k \in DOMAIN o |-> Printed(c, o[k], new[o[k]])]
        /\ b = [k \in DOMAIN r |-> Printed(c, r[k], new[r[k]])]
  BY <1>2
<1>4. /\ Len(a) = Len(o) /\ \A k \in 1 .. Len(o) : a[k] = Printed(c, o[k], new[o[k]])
      /\ Len(b) = Len(r) /\ \A k \in 1 .. Len(r) : b[k] = Printed(c, r[k], new[r[k]])
  BY <1>2, <1>3
<1>5. PICK n \in Nat : n = Len(o)
  BY <1>1
<1>6. /\ Len(a) = n /\ Len(b) = n + 1
      /\ \A k \in 1 .. n : a[k] = b[k]
      /\ b[n + 1] = Printed(c, f, new[f])
  <2>1. \A k \in 1 .. n : k \in 1 .. Len(r)
    BY <1>1, <1>5
  <2>2. n + 1 \in 1 .. Len(r)
    BY <1>1, <1>5
  <2> QED
    BY <1>1, <1>4, <1>5, <2>1, <2>2
<1>7. b = Append(a, Printed(c, f, new[f]))
  BY <1>6, SplitLast
<1>8. Printed(c, f, new[f]) \in Seq(LinesOf(c))
  BY PrintedIs
<1>9. FlattenSeq(b) = FlattenSeq(a) \o Printed(c, f, new[f])
  BY <1>7, <1>8, FlattenAppend
<1> QED
  BY <1>0, <1>3, <1>9 DEF OutOf

\* The streams that an order has, each of them once.
Has(o, g) == \E i \in 1 .. Len(o) : o[i] = g
Once(o)   == \A i, j \in 1 .. Len(o) : i # j => o[i] # o[j]

\* Every stream that is in o once says what is new of it, and the others
\* nothing.
LEMMA OutSays ==
  ASSUME NEW c \in Child, NEW new \in [Fd -> Seq(Seq(Byte))], NEW g \in Fd, NEW o \in Seq(Fd),
         Once(o)
  PROVE  Says(OutOf(c, o, new), c, g) = IF Has(o, g) THEN new[g] ELSE << >>
<1> USE DEF Once, Has
<1> DEFINE In(s) == Has(s, g)
           T == {s \in Seq(Fd) :
                   Once(s) => Says(OutOf(c, s, new), c, g) = IF In(s) THEN new[g] ELSE << >>}
<1>1. << >> \in T
  <2>1. << >> \in Seq(Fd) /\ ~ In(<< >>)
    OBVIOUS
  <2>2. OutOf(c, << >>, new) = << >>
    <3>1. [k \in DOMAIN << >> |-> Printed(c, << >>[k], new[<< >>[k]])] = << >>
      OBVIOUS
    <3> QED
      BY <3>1, FlattenEmpty DEF OutOf
  <2>3. [kind |-> "recorded"] \in Entry
    BY DEF Entry
  <2>4. Says(<< >>, c, g) = << >>
    BY <2>3, SaysOne
  <2> QED
    BY <2>1, <2>2, <2>4
<1>2. ASSUME NEW s \in T, NEW f \in Fd PROVE Append(s, f) \in T
  <2>1. s \in Seq(Fd)
    BY <1>2
  <2>2. PICK r \in Seq(Fd) : r = Append(s, f)
    BY <2>1, AppendFacts
  <2>3. PICK n \in Nat : n = Len(s)
    BY <2>1
  <2>4. Len(r) = n + 1 /\ (\A i \in 1 .. n : r[i] = s[i]) /\ r[n + 1] = f
    BY <2>1, <2>2, <2>3, AppendFacts
  <2>5. ASSUME Once(r)
        PROVE  Says(OutOf(c, r, new), c, g) = IF In(r) THEN new[g] ELSE << >>
    <3>1. Once(s)
      <4>1. \A i \in 1 .. n : i \in 1 .. Len(r)
        BY <2>4
      <4> QED
        BY <2>3, <2>4, <2>5, <4>1
    <3>2. Says(OutOf(c, s, new), c, g) = IF In(s) THEN new[g] ELSE << >>
      BY <1>2, <3>1
    <3>3. PICK a \in Seq(Entry), b \in Seq(Entry) :
            a = OutOf(c, s, new) /\ b = Printed(c, f, new[f])
      <4>1. OutOf(c, s, new) \in Seq(Entry)
        BY <2>1, OutIs
      <4>2. new[f] \in Seq(Seq(Byte))
        OBVIOUS
      <4>3. Printed(c, f, new[f]) \in Seq(Entry)
        BY <4>2, PrintedIs
      <4> QED
        BY <4>1, <4>3
    <3>4. Says(OutOf(c, r, new), c, g) = Says(a, c, g) \o Says(b, c, g)
      <4>1. OutOf(c, r, new) = a \o b
        BY <2>1, <2>2, <3>3, OutAppend
      <4>2. Says(a \o b, c, g) = Says(a, c, g) \o Says(b, c, g)
        BY SaysConcat
      <4> QED
        BY <4>1, <4>2
    <3>5. Says(b, c, g) = IF g = f THEN new[f] ELSE << >>
      <4>1. new[f] \in Seq(Seq(Byte))
        OBVIOUS
      <4> QED
        BY <3>3, <4>1, PrintedSays
    <3>6. PICK l \in Seq(Seq(Byte)) : l = new[g]
      OBVIOUS
    <3>7. l \o << >> = l /\ << >> \o l = l
      BY ConcatEmptySeq
    <3>8. CASE g = f
      <4>1. ~ In(s)
        <5>0. \A i \in 1 .. n : i # n + 1 /\ i \in 1 .. n + 1 /\ n + 1 \in 1 .. n + 1
          OBVIOUS
        <5>1. \A i \in 1 .. n : i # n + 1 /\ i \in 1 .. Len(r) /\ n + 1 \in 1 .. Len(r)
          BY <2>4, <5>0
        <5> QED
          BY <2>3, <2>4, <2>5, <3>8, <5>1
      <4>2. In(r)
        <5>1. n + 1 \in 1 .. Len(r)
          BY <2>4
        <5> QED
          BY <2>4, <3>8, <5>1
      <4> QED
        BY <3>2, <3>3, <3>4, <3>5, <3>6, <3>7, <3>8, <4>1, <4>2
    <3>9. CASE g # f
      <4>1. In(r) <=> In(s)
        <5>1. \A i \in 1 .. Len(r) : i \in 1 .. n \/ i = n + 1
          BY <2>4
        <5>2. \A i \in 1 .. n : i \in 1 .. Len(r)
          BY <2>4
        <5> QED
          BY <2>3, <2>4, <3>9, <5>1, <5>2
      <4>2. << >> \o << >> = << >>
        OBVIOUS
      <4>3. CASE In(s)
        BY <3>2, <3>3, <3>4, <3>5, <3>6, <3>7, <3>9, <4>1, <4>3
      <4>4. CASE ~ In(s)
        BY <3>2, <3>3, <3>4, <3>5, <3>9, <4>1, <4>2, <4>4
      <4> QED
        BY <4>3, <4>4
    <3> QED
      BY <3>8, <3>9
  <2> QED
    BY <2>2, <2>5
<1>3. T \in SUBSET Seq(Fd)
  OBVIOUS
<1>5. o \in T => Says(OutOf(c, o, new), c, g) = IF Has(o, g) THEN new[g] ELSE << >>
  OBVIOUS
<1> HIDE DEF T, Once, Has, In
<1>6. T = Seq(Fd)
  BY <1>1, <1>2, <1>3, SeqInduction
<1> QED
  BY <1>5, <1>6

\* What is printed for a job says of each stream what it told, whatever the order of
\* the streams.
LEMMA AllSaid ==
  ASSUME NEW c \in Child, NEW new \in [Fd -> Seq(Seq(Byte))], NEW o \in Seq(Fd), NEW S,
         Once(o), \A f \in Fd : f \in S <=> Has(o, f),
         \A f \in Fd : f \notin S => new[f] = << >>
  PROVE  \A f \in Fd : Says(OutOf(c, o, new), c, f) = new[f]
<1> SUFFICES ASSUME NEW f \in Fd PROVE Says(OutOf(c, o, new), c, f) = new[f]
  OBVIOUS
<1>1. Says(OutOf(c, o, new), c, f) = IF Has(o, f) THEN new[f] ELSE << >>
  BY OutSays
<1> QED
  BY <1>1

\* What is new of a sequence comes after what was there.
LEMMA Continued ==
  ASSUME NEW S, NEW a \in Seq(S), NEW b \in Seq(S), Len(a) <= Len(b),
         \A k \in 1 .. Len(a) : b[k] = a[k]
  PROVE  SubSeq(b, Len(a) + 1, Len(b)) \in Seq(S) /\ b = a \o SubSeq(b, Len(a) + 1, Len(b))
<1>1. PICK n \in Nat, m \in Nat : n = Len(a) /\ n + m = Len(b)
  <2>1. Len(a) \in Nat /\ Len(b) \in Nat /\ Len(b) - Len(a) \in Nat
    OBVIOUS
  <2>2. Len(a) + (Len(b) - Len(a)) = Len(b)
    BY <2>1
  <2> QED
    BY <2>1, <2>2
<1>2. /\ SubSeq(b, n + 1, n + m) \in Seq(S)
      /\ SubSeq(b, 1, n + m) = SubSeq(b, 1, n) \o SubSeq(b, n + 1, n + m)
  <2>1. n + m <= Len(b)
    BY <1>1
  <2> QED
    BY <2>1, PrefixGrows
<1>3. SubSeq(b, 1, n + m) = b
  BY <1>1, PrefixAll
<1>4. SubSeq(b, 1, n) = a
  <2>1. n <= Len(b)
    BY <1>1
  <2>2. /\ SubSeq(b, 1, n) \in Seq(S) /\ Len(SubSeq(b, 1, n)) = n
        /\ \A i \in 1 .. n : SubSeq(b, 1, n)[i] = b[i]
    BY <2>1, PrefixFacts
  <2>3. PICK d \in Seq(S) : d = SubSeq(b, 1, n)
    BY <2>2
  <2>4. d = a
    BY <1>1, <2>2, <2>3, SeqEqual
  <2> QED
    BY <2>3, <2>4
<1> QED
  BY <1>1, <1>2, <1>3, <1>4

-----------------------------------------------------------------------------
(* What the reader sees.                                                   *)

\* All that was shown or will be.
All == seen \o stdout

ScreenType ==
  /\ seen \in Seq(Entry) /\ stdout \in Seq(Entry)
  /\ \A i \in 1 .. Len(stdout) : stdout[i].kind = "line"

\* The lines of each stream are those that were told.
LinesShown == \A c \in Child, f \in Fd : Says(All, c, f) = lines[c][f]

\* A job's note comes after its lines.
NotesLast ==
  \A i, j \in 1 .. Len(All), c \in Child :
    i < j /\ All[i] = NoteOf(c) /\ All[j].kind = "line" => All[j].job # c

Noted(c) == \E i \in 1 .. Len(seen) : seen[i] = NoteOf(c)

\* Until the program is ended, the jobs with a note are those that failed.
NotesRight ==
  ~died => \A c \in Child : Noted(c) <=> c \in finished /\ status[c] # "ok"

\* There is a summary only when all is done.
SummaryRight ==
  /\ all_done => running = {}
  /\ \A i \in 1 .. Len(seen) :
       seen[i].kind = "summary" =>
         /\ all_done /\ i + 1 = Len(seen) /\ stdout = << >>
         /\ seen[i].failed = Cardinality({c \in Started : Noted(c)})

ScreenInv == ScreenType /\ LinesShown /\ NotesLast /\ NotesRight /\ SummaryRight

\* The note about a job is of no other job and tells nothing of any stream.
LEMMA NoteIs ==
  ASSUME NEW c \in Child
  PROVE  /\ NoteOf(c) \in Entry /\ NoteOf(c).kind = "note" /\ NoteOf(c).job = c
         /\ \A d \in Child : NoteOf(d) = NoteOf(c) => d = c
         /\ \A d \in Child, f \in Fd : TextIn(NoteOf(c), d, f) = << >>
  BY DEF NoteOf, Entry, TextIn

\* Of all that can be seen, stdio keeps only lines.
LEMMA AllIs ==
  ASSUME ScreenType
  PROVE  /\ All \in Seq(Entry) /\ Len(All) = Len(seen) + Len(stdout)
         /\ \A i \in 1 .. Len(seen) : i \in 1 .. Len(All) /\ All[i] = seen[i]
         /\ \A i \in 1 .. Len(stdout) :
              Len(seen) + i \in 1 .. Len(All) /\ All[Len(seen) + i] = stdout[i]
         /\ \A i \in 1 .. Len(All) : All[i].kind # "line" => i \in 1 .. Len(seen)
<1>1. PICK p \in Seq(Entry), q \in Seq(Entry) :
        p = seen /\ q = stdout /\ \A i \in 1 .. Len(q) : q[i].kind = "line"
  BY DEF ScreenType
<1>2. PICK a \in Seq(Entry) : a = p \o q
  BY ConcatFacts
<1>3. /\ Len(a) = Len(p) + Len(q) /\ Len(p) \in Nat /\ Len(q) \in Nat
      /\ \A i \in 1 .. Len(p) + Len(q) : a[i] = IF i <= Len(p) THEN p[i] ELSE q[i - Len(p)]
  BY <1>2, ConcatFacts
<1>4. PICK n \in Nat, m \in Nat : n = Len(p) /\ m = Len(q)
  BY <1>3
<1>5. Len(a) = n + m /\ \A i \in 1 .. n + m : a[i] = IF i <= n THEN p[i] ELSE q[i - n]
  BY <1>3, <1>4
<1>6. ASSUME NEW i \in 1 .. n PROVE i \in 1 .. n + m /\ a[i] = p[i]
  <2>1. i \in 1 .. n + m /\ i <= n
    OBVIOUS
  <2> QED
    BY <1>5, <2>1
<1>7. ASSUME NEW i \in 1 .. m PROVE n + i \in 1 .. n + m /\ a[n + i] = q[i]
  <2>1. n + i \in 1 .. n + m /\ ~ (n + i <= n) /\ (n + i) - n = i
    OBVIOUS
  <2> QED
    BY <1>5, <2>1
<1>8. ASSUME NEW i \in 1 .. n + m, a[i].kind # "line" PROVE i \in 1 .. n
  <2>1. CASE i <= n
    BY <2>1
  <2>2. CASE ~ (i <= n)
    <3>1. i - n \in 1 .. m
      BY <2>2
    <3>2. a[i] = q[i - n]
      BY <1>5, <2>2
    <3> QED
      BY <1>1, <1>4, <1>8, <3>1, <3>2
  <2> QED
    BY <2>1, <2>2
<1>9. All = a
  BY <1>1, <1>2 DEF All
<1> QED
  BY <1>1, <1>4, <1>5, <1>6, <1>7, <1>8, <1>9

\* A note that was written is among what has been seen or will be.
LEMMA NotedIs ==
  ASSUME ScreenType, NEW c \in Child
  PROVE  Noted(c) <=> \E i \in 1 .. Len(All) : All[i] = NoteOf(c)
<1>1. ASSUME NEW i \in 1 .. Len(All), All[i] = NoteOf(c) PROVE Noted(c)
  <2>1. All[i].kind # "line"
    BY <1>1, NoteIs
  <2>2. i \in 1 .. Len(seen) /\ All[i] = seen[i]
    BY <2>1, AllIs
  <2> QED
    BY <1>1, <2>2 DEF Noted
<1>2. ASSUME Noted(c) PROVE \E i \in 1 .. Len(All) : All[i] = NoteOf(c)
  <2>1. PICK i \in 1 .. Len(seen) : seen[i] = NoteOf(c)
    BY <1>2 DEF Noted
  <2>2. i \in 1 .. Len(All) /\ All[i] = seen[i]
    BY AllIs
  <2> QED
    BY <2>1, <2>2
<1> QED
  BY <1>1, <1>2

\* The same in the next state.
LEMMA NotedNext ==
  ScreenType' => (\A c \in Child : Noted(c) <=> \E i \in 1 .. Len(All) : All[i] = NoteOf(c))'
<1>1. ScreenType => \A c \in Child : Noted(c) <=> \E i \in 1 .. Len(All) : All[i] = NoteOf(c)
  BY NotedIs
<1> QED
  BY <1>1, PTL

\* What has been seen, in the next state.
LEMMA SeenNext ==
  ScreenType' => (\A i \in 1 .. Len(seen) : i \in 1 .. Len(All) /\ All[i] = seen[i])'
<1>1. ScreenType => \A i \in 1 .. Len(seen) : i \in 1 .. Len(All) /\ All[i] = seen[i]
  BY AllIs
<1> QED
  BY <1>1, PTL

\* A step that shows more, and moves what stdio kept or not.
LEMMA ShowsMore ==
  ASSUME ScreenType, ScreenType', NEW o \in Seq(Entry), All' = All \o o
  PROVE  /\ Len(All') = Len(All) + Len(o)
         /\ \A i \in 1 .. Len(All') : All'[i] = IF i <= Len(All) THEN All[i] ELSE o[i - Len(All)]
         /\ \A c \in Child : Noted(c)' <=> Noted(c) \/ \E i \in 1 .. Len(o) : o[i] = NoteOf(c)
         /\ \A c \in Child, f \in Fd : Says(All', c, f) = Says(All, c, f) \o Says(o, c, f)
<1>0. PICK a \in Seq(Entry) : a = All
  BY AllIs
<1>1. PICK b \in Seq(Entry) : a = All /\ b = All'
  <2>1. a \o o \in Seq(Entry)
    BY ConcatFacts
  <2> QED
    BY <1>0, <2>1
<1>2. b = a \o o
  BY <1>1
<1>3. /\ Len(b) = Len(a) + Len(o) /\ Len(a) \in Nat /\ Len(o) \in Nat
      /\ \A i \in 1 .. Len(a) + Len(o) : b[i] = IF i <= Len(a) THEN a[i] ELSE o[i - Len(a)]
  BY <1>2, ConcatFacts
<1>4. PICK n \in Nat, m \in Nat : n = Len(a) /\ m = Len(o)
  BY <1>3
<1>5. Len(b) = n + m /\ \A i \in 1 .. n + m : b[i] = IF i <= n THEN a[i] ELSE o[i - n]
  BY <1>3, <1>4
<1>6. ASSUME NEW c \in Child
      PROVE  Noted(c)' <=> Noted(c) \/ \E i \in 1 .. Len(o) : o[i] = NoteOf(c)
  <2>1. Noted(c) <=> \E i \in 1 .. n : a[i] = NoteOf(c)
    BY <1>1, <1>4, NotedIs
  <2>2. Noted(c)' <=> \E i \in 1 .. n + m : b[i] = NoteOf(c)
    <3>1. Noted(c)' <=> \E i \in 1 .. Len(All') : All'[i] = NoteOf(c)
      BY NotedNext DEF NoteOf
    <3> QED
      BY <1>1, <1>5, <3>1
  <2>3. ASSUME NEW i \in 1 .. n + m, b[i] = NoteOf(c)
        PROVE  (\E k \in 1 .. n : a[k] = NoteOf(c)) \/ \E k \in 1 .. m : o[k] = NoteOf(c)
    <3>1. CASE i <= n
      <4>1. i \in 1 .. n
        BY <3>1
      <4> QED
        BY <1>5, <2>3, <3>1, <4>1
    <3>2. CASE ~ (i <= n)
      <4>1. i - n \in 1 .. m
        BY <3>2
      <4> QED
        BY <1>5, <2>3, <3>2, <4>1
    <3> QED
      BY <3>1, <3>2
  <2>4. ASSUME NEW k \in 1 .. n, a[k] = NoteOf(c) PROVE \E i \in 1 .. n + m : b[i] = NoteOf(c)
    <3>1. k \in 1 .. n + m /\ k <= n
      OBVIOUS
    <3> QED
      BY <1>5, <2>4, <3>1
  <2>5. ASSUME NEW k \in 1 .. m, o[k] = NoteOf(c) PROVE \E i \in 1 .. n + m : b[i] = NoteOf(c)
    <3>1. n + k \in 1 .. n + m /\ ~ (n + k <= n) /\ (n + k) - n = k
      OBVIOUS
    <3>2. b[n + k] = o[k]
      BY <1>5, <3>1
    <3> QED
      BY <2>5, <3>1, <3>2
  <2> QED
    BY <1>4, <2>1, <2>2, <2>3, <2>4, <2>5
<1>7. ASSUME NEW c \in Child, NEW f \in Fd
      PROVE  Says(All', c, f) = Says(All, c, f) \o Says(o, c, f)
  <2>1. Says(a \o o, c, f) = Says(a, c, f) \o Says(o, c, f)
    BY SaysConcat
  <2> QED
    BY <1>1, <1>2, <2>1
<1>8. Len(All') = Len(All) + Len(o)
  BY <1>1, <1>3
<1>9. \A i \in 1 .. Len(All') : All'[i] = IF i <= Len(All) THEN All[i] ELSE o[i - Len(All)]
  BY <1>1, <1>3
<1> QED
  BY <1>6, <1>7, <1>8, <1>9

\* A step that shows nothing of which the invariant speaks.
LEMMA StillScreen ==
  ASSUME ScreenInv, UNCHANGED <<display, program, lines>>,
         \A c \in Child : (c \in finished' /\ status'[c] # "ok") <=> (c \in finished /\ status[c] # "ok"),
         all_done => running' = running /\ Started' = Started
  PROVE  ScreenInv'
<1>1. UNCHANGED <<seen, stdout, all_done, died>>
  BY DEF display, program
<1>2. All' = All /\ \A c \in Child : Noted(c)' <=> Noted(c)
  BY <1>1 DEF All, Noted, NoteOf
<1>3. ScreenType'
  BY <1>1 DEF ScreenInv, ScreenType
<1>4. LinesShown' /\ NotesLast'
  BY <1>2 DEF ScreenInv, LinesShown, NotesLast, NoteOf
<1>5. NotesRight'
  BY <1>1, <1>2 DEF ScreenInv, NotesRight
<1>6. SummaryRight'
  <2>1. all_done' => running' = {}
    BY <1>1 DEF ScreenInv, SummaryRight
  <2>2. ASSUME NEW i \in 1 .. Len(seen), seen[i].kind = "summary"
        PROVE  /\ all_done' /\ i + 1 = Len(seen') /\ stdout' = << >>
               /\ seen'[i].failed = Cardinality({c \in Started : Noted(c)})'
    <3>1. /\ all_done /\ i + 1 = Len(seen) /\ stdout = << >>
          /\ seen[i].failed = Cardinality({c \in Started : Noted(c)})
      BY <2>2 DEF ScreenInv, SummaryRight
    <3>2. {c \in Started : Noted(c)}' = {c \in Started : Noted(c)}
      BY <1>1, <3>1 DEF Noted, NoteOf
    <3> QED
      BY <1>1, <3>1, <3>2
  <2> QED
    BY <1>1, <2>1, <2>2 DEF SummaryRight
<1> QED
  BY <1>3, <1>4, <1>5, <1>6 DEF ScreenInv

\* What was shown stays, and o comes after it: lines of one job that has no
\* note yet, or no lines.
LEMMA GrowsLines ==
  ASSUME ScreenType, LinesShown, NotesLast, ScreenType', NEW o \in Seq(Entry), All' = All \o o,
         \/ \A i \in 1 .. Len(o) : o[i].kind # "line"
         \/ \E c \in Child : ~Noted(c) /\ o \in Seq(LinesOf(c)),
         \A c \in Child, f \in Fd : lines'[c][f] = lines[c][f] \o Says(o, c, f)
  PROVE  LinesShown' /\ NotesLast'
<1>0. ScreenType /\ LinesShown /\ NotesLast
  OBVIOUS
<1>1. PICK a \in Seq(Entry), b \in Seq(Entry) : a = All /\ b = All'
  <2>1. PICK a \in Seq(Entry) : a = All
    BY <1>0, AllIs
  <2>2. a \o o \in Seq(Entry)
    BY ConcatFacts
  <2> QED
    BY <2>1, <2>2
<1>2. PICK n \in Nat, m \in Nat : n = Len(a) /\ m = Len(o)
  OBVIOUS
<1>3. Len(b) = n + m /\ \A i \in 1 .. n + m : b[i] = IF i <= n THEN a[i] ELSE o[i - n]
  <2>1. /\ Len(b) = Len(a) + Len(o)
        /\ \A i \in 1 .. Len(b) : b[i] = IF i <= Len(a) THEN a[i] ELSE o[i - Len(a)]
    BY <1>0, <1>1, ShowsMore
  <2> QED
    BY <1>2, <2>1
<1>5. LinesShown'
  <2>1. ASSUME NEW c \in Child, NEW f \in Fd PROVE Says(All', c, f) = lines'[c][f]
    <3>1. Says(All', c, f) = Says(All, c, f) \o Says(o, c, f)
      BY <1>0, ShowsMore
    <3>2. Says(All, c, f) = lines[c][f]
      BY <1>0 DEF LinesShown
    <3> QED
      BY <3>1, <3>2
  <2> QED
    BY <2>1 DEF LinesShown, Says, Texts, TextIn
<1>6. NotesLast'
  <2>1. ASSUME NEW i \in 1 .. n + m, NEW j \in 1 .. n + m, NEW c \in Child,
               i < j, b[i] = NoteOf(c), b[j].kind = "line", b[j].job = c
        PROVE  FALSE
    <3>1. b[i].kind = "note"
      BY <2>1, NoteIs
    <3>2. CASE j <= n
      <4>1. i <= n /\ i \in 1 .. n /\ j \in 1 .. n
        BY <2>1, <3>2
      <4>2. a[i] = NoteOf(c) /\ a[j].kind = "line" /\ a[j].job = c
        BY <1>3, <2>1, <3>2, <4>1
      <4> QED
        BY <1>0, <1>1, <1>2, <2>1, <4>1, <4>2 DEF NotesLast
    <3>3. CASE ~ (j <= n)
      <4>1. j - n \in 1 .. m /\ b[j] = o[j - n]
        BY <1>3, <3>3
      <4>2. PICK d \in Child : ~Noted(d) /\ o \in Seq(LinesOf(d))
        BY <1>2, <2>1, <4>1
      <4>3. \A k \in 1 .. m : o[k] \in LinesOf(d)
        BY <1>2, <4>2
      <4>4. d = c
        BY <2>1, <4>1, <4>3, LinesAreEntries
      <4>5. CASE i <= n
        <5>1. i \in 1 .. n /\ a[i] = NoteOf(c)
          BY <1>3, <2>1, <4>5
        <5> QED
          BY <1>0, <1>1, <1>2, <4>2, <4>4, <5>1, NotedIs
      <4>6. CASE ~ (i <= n)
        <5>1. i - n \in 1 .. m /\ b[i] = o[i - n]
          BY <1>3, <4>6
        <5> QED
          BY <3>1, <4>3, <5>1, LinesAreEntries
      <4> QED
        BY <4>5, <4>6
    <3> QED
      BY <3>2, <3>3
  <2> QED
    BY <1>1, <1>3, <2>1 DEF NotesLast, NoteOf
<1> QED
  BY <1>5, <1>6

\* A step of a program that is not all done, in which o is shown.
LEMMA GrowsScreen ==
  ASSUME ScreenInv, ScreenType', ~all_done, ~all_done', NEW o \in Seq(Entry), All' = All \o o,
         \A i \in 1 .. Len(o) : o[i].kind # "summary",
         \/ \A i \in 1 .. Len(o) : o[i].kind # "line"
         \/ \E c \in Child : ~Noted(c) /\ o \in Seq(LinesOf(c)),
         \A c \in Child, f \in Fd : lines'[c][f] = lines[c][f] \o Says(o, c, f),
         ~died' => /\ ~died
                   /\ \A c \in Child : (c \in finished' /\ status'[c] # "ok")
                        <=> \/ c \in finished /\ status[c] # "ok"
                            \/ \E i \in 1 .. Len(o) : o[i] = NoteOf(c)
  PROVE  ScreenInv'
<1>0. ScreenType /\ LinesShown /\ NotesLast /\ NotesRight /\ SummaryRight
  BY DEF ScreenInv
<1>1. PICK a \in Seq(Entry), b \in Seq(Entry) : a = All /\ b = All'
  <2>1. PICK a \in Seq(Entry) : a = All
    BY <1>0, AllIs
  <2>2. a \o o \in Seq(Entry)
    BY ConcatFacts
  <2> QED
    BY <2>1, <2>2
<1>2. PICK n \in Nat, m \in Nat : n = Len(a) /\ m = Len(o)
  OBVIOUS
<1>3. Len(b) = n + m /\ \A i \in 1 .. n + m : b[i] = IF i <= n THEN a[i] ELSE o[i - n]
  <2>1. /\ Len(b) = Len(a) + Len(o)
        /\ \A i \in 1 .. Len(b) : b[i] = IF i <= Len(a) THEN a[i] ELSE o[i - Len(a)]
    BY <1>0, <1>1, ShowsMore
  <2> QED
    BY <1>2, <2>1
<1>4. \A c \in Child : Noted(c)' <=> Noted(c) \/ \E i \in 1 .. m : o[i] = NoteOf(c)
  BY <1>0, <1>2, ShowsMore
<1>5. LinesShown' /\ NotesLast'
  BY <1>0, GrowsLines
<1>7. NotesRight'
  BY <1>0, <1>2, <1>4 DEF NotesRight
<1>8. SummaryRight'
  <2>1. ASSUME NEW i \in 1 .. Len(seen'), seen'[i].kind = "summary" PROVE FALSE
    <3>1. i \in 1 .. n + m /\ b[i].kind = "summary"
      BY <1>1, <1>3, <2>1, SeenNext
    <3>2. CASE i <= n
      <4>1. i \in 1 .. n /\ a[i].kind = "summary"
        BY <1>3, <3>1, <3>2
      <4>2. i \in 1 .. Len(seen) /\ a[i] = seen[i]
        BY <1>0, <1>1, <1>2, <4>1, AllIs
      <4> QED
        BY <1>0, <4>1, <4>2 DEF SummaryRight
    <3>3. CASE ~ (i <= n)
      <4>1. i - n \in 1 .. m /\ b[i] = o[i - n]
        BY <1>3, <3>1, <3>3
      <4> QED
        BY <1>2, <3>1, <4>1
    <3> QED
      BY <3>2, <3>3
  <2> QED
    BY <2>1 DEF SummaryRight
<1> QED
  BY <1>5, <1>7, <1>8 DEF ScreenInv

\* An order of a set of fds names each of them once, and no other.
LEMMA OrderIs ==
  ASSUME NEW S \in SUBSET Fd, NEW o \in SetToSeqs(S)
  PROVE  o \in Seq(Fd) /\ Once(o) /\ \A f \in Fd : f \in S <=> Has(o, f)
<1>1. IsFiniteSet(S)
  BY LineUIAssumption, FS_Subset
<1>2. PICK n \in Nat : n = Cardinality(S)
  BY <1>1, FS_CardinalityType
<1>3. o \in [1 .. n -> S] /\ \A i, j \in 1 .. n : i # j => o[i] # o[j]
  BY <1>2 DEF SetToSeqs
<1>4. o \in Injection(1 .. n, S)
  BY <1>3 DEF Injection, IsInjective
<1>5. Cardinality(1 .. n) = n /\ IsFiniteSet(1 .. n)
  <2>1. Cardinality(1 .. n) = IF 1 > n THEN 0 ELSE n - 1 + 1
    BY FS_Interval
  <2> QED
    BY <2>1, FS_Interval
<1>6. o \in Surjection(1 .. n, S)
  BY <1>1, <1>2, <1>4, <1>5, FS_Injection
<1>7. \A f \in S : \E i \in 1 .. n : o[i] = f
  BY <1>6 DEF Surjection
<1>8. o \in Seq(Fd) /\ Len(o) = n
  BY <1>3
<1> QED
  BY <1>3, <1>7, <1>8 DEF Once, Has

\* job_line shows, in some order of the streams, what is new of them.
LEMMA PrintIs ==
  ASSUME OutInv, lines' \in [Child -> [Fd -> Seq(Seq(Byte))]], NEW c \in Child, PrintNew(c),
         \A f \in Fd : /\ Len(lines[c][f]) <= Len(lines'[c][f])
                       /\ \A k \in 1 .. Len(lines[c][f]) : lines'[c][f][k] = lines[c][f][k]
  PROVE  \E o \in Seq(LinesOf(c)) :
           /\ \A f \in Fd : lines'[c][f] = lines[c][f] \o Says(o, c, f)
           /\ \/ stdout' = stdout \o o /\ seen' = seen
              \/ seen' = seen \o (stdout \o o) /\ stdout' = << >>
<1> DEFINE n(f)     == SubSeq(lines'[c][f], Len(lines[c][f]) + 1, Len(lines'[c][f]))
           print(f) == [i \in DOMAIN n(f) |-> LineOf(c, f, n(f)[i])]
           flat(o)  == FlattenSeq([k \in DOMAIN o |-> print(o[k])])
<1>1. PICK order \in SetToSeqs({f \in Fd : n(f) # << >>}) :
        \/ stdout' = stdout \o flat(order) /\ seen' = seen
        \/ seen' = seen \o (stdout \o flat(order)) /\ stdout' = << >>
  BY DEF PrintNew
<1>2. ASSUME NEW f \in Fd
      PROVE  n(f) \in Seq(Seq(Byte)) /\ lines'[c][f] = lines[c][f] \o n(f)
  <2>1. PICK a \in Seq(Seq(Byte)), b \in Seq(Seq(Byte)) : a = lines[c][f] /\ b = lines'[c][f]
    BY DEF OutInv, OutType
  <2>2. Len(a) <= Len(b) /\ \A k \in 1 .. Len(a) : b[k] = a[k]
    BY <2>1
  <2>3. /\ SubSeq(b, Len(a) + 1, Len(b)) \in Seq(Seq(Byte))
        /\ b = a \o SubSeq(b, Len(a) + 1, Len(b))
    BY <2>2, Continued
  <2> QED
    BY <2>1, <2>3
<1>3. PICK new \in [Fd -> Seq(Seq(Byte))] : \A f \in Fd : new[f] = n(f)
  <2>1. [f \in Fd |-> n(f)] \in [Fd -> Seq(Seq(Byte))]
    BY <1>2
  <2>2. \A f \in Fd : [g \in Fd |-> n(g)][f] = n(f)
    OBVIOUS
  <2> HIDE DEF n
  <2> QED
    BY <2>1, <2>2
<1>4. \A f \in Fd : print(f) = Printed(c, f, new[f])
  BY <1>3 DEF Printed
<1> HIDE DEF n, print
<1>5. PICK S \in SUBSET Fd : S = {f \in Fd : n(f) # << >>}
  OBVIOUS
<1>6. order \in Seq(Fd) /\ Once(order) /\ \A f \in Fd : f \in S <=> Has(order, f)
  BY <1>1, <1>5, OrderIs
<1>7. flat(order) = OutOf(c, order, new)
  <2>1. \A k \in DOMAIN order : order[k] \in Fd
    BY <1>6
  <2>2. [k \in DOMAIN order |-> print(order[k])]
          = [k \in DOMAIN order |-> Printed(c, order[k], new[order[k]])]
    BY <1>4, <2>1
  <2> QED
    BY <2>2 DEF OutOf
<1> HIDE DEF flat
<1>8. PICK o \in Seq(LinesOf(c)) : o = OutOf(c, order, new)
  BY <1>6, OutIs
<1>9. ASSUME NEW f \in Fd PROVE lines'[c][f] = lines[c][f] \o Says(o, c, f)
  <2>1. \A g \in Fd : g \notin S => new[g] = << >>
    BY <1>3, <1>5
  <2>2. Says(OutOf(c, order, new), c, f) = new[f]
    BY <1>6, <2>1, AllSaid
  <2>3. Says(o, c, f) = new[f]
    BY <1>8, <2>2
  <2> QED
    BY <1>2, <1>3, <2>3
<1> QED
  BY <1>1, <1>7, <1>8, <1>9

\* A callback that prints lines keeps the invariant of the screen.
LEMMA PrintsScreen ==
  ASSUME ScreenInv, OutInv, lines' \in [Child -> [Fd -> Seq(Seq(Byte))]],
         NEW c \in Child, PrintNew(c),
         \A f \in Fd : /\ Len(lines[c][f]) <= Len(lines'[c][f])
                       /\ \A k \in 1 .. Len(lines[c][f]) : lines'[c][f][k] = lines[c][f][k],
         \A d \in Child : d # c => lines'[d] = lines[d],
         ~died, c \notin finished, ~all_done,
         UNCHANGED <<program, finished, status>>
  PROVE  ScreenInv'
<1>0. ScreenType /\ NotesRight
  BY DEF ScreenInv
<1>1. PICK o \in Seq(LinesOf(c)) :
        /\ \A f \in Fd : lines'[c][f] = lines[c][f] \o Says(o, c, f)
        /\ \/ stdout' = stdout \o o /\ seen' = seen
           \/ seen' = seen \o (stdout \o o) /\ stdout' = << >>
  BY PrintIs
<1>2. o \in Seq(Entry) /\ \A i \in 1 .. Len(o) : o[i] \in LinesOf(c)
  BY LinesAreEntries
<1>3. PICK p \in Seq(Entry), q \in Seq(Entry) :
        p = seen /\ q = stdout /\ \A i \in 1 .. Len(q) : q[i].kind = "line"
  BY <1>0 DEF ScreenType
<1>4. PICK r \in Seq(Entry) : r = q \o o
  BY <1>2, ConcatFacts
<1>5. \A i \in 1 .. Len(r) : r[i].kind = "line"
  <2>1. \A i \in 1 .. Len(o) : o[i].kind = "line"
    BY <1>2, LinesAreEntries
  <2>2. PICK n \in Nat, m \in Nat : n = Len(q) /\ m = Len(o)
    BY <1>2
  <2>3. Len(r) = n + m /\ \A i \in 1 .. n + m : r[i] = IF i <= n THEN q[i] ELSE o[i - n]
    BY <1>2, <1>4, <2>2, ConcatFacts
  <2>4. \A i \in 1 .. n + m : IF i <= n THEN i \in 1 .. n ELSE i - n \in 1 .. m
    OBVIOUS
  <2> QED
    BY <1>3, <2>1, <2>2, <2>3, <2>4
<1>6. PICK t \in Seq(Entry) : t = p \o r
  BY ConcatFacts
<1>7. All = p \o q /\ (p \o q) \o o = t
  <2>1. (p \o q) \o o = p \o (q \o o)
    BY <1>2, ConcatAssoc
  <2> QED
    BY <1>3, <1>4, <1>6, <2>1 DEF All
<1>8. << >> \in Seq(Entry) /\ t \o << >> = t /\ Len(<< >>) = 0
  BY ConcatEmpty
<1>9. ScreenType' /\ All' = t
  <2>1. CASE stdout' = stdout \o o /\ seen' = seen
    <3>1. stdout' = r /\ seen' = p
      BY <1>3, <1>4, <2>1
    <3> QED
      BY <1>5, <1>6, <3>1 DEF ScreenType, All
  <2>2. CASE seen' = seen \o (stdout \o o) /\ stdout' = << >>
    <3>1. stdout' = << >> /\ seen' = t
      BY <1>3, <1>4, <1>6, <2>2
    <3> QED
      BY <1>8, <3>1 DEF ScreenType, All
  <2> QED
    BY <1>1, <2>1, <2>2
<1>10. All' = All \o o
  BY <1>7, <1>9
<1>11. ~Noted(c)
  BY <1>0 DEF NotesRight
<1>12. \A d \in Child, f \in Fd : lines'[d][f] = lines[d][f] \o Says(o, d, f)
  <2>1. ASSUME NEW d \in Child, NEW f \in Fd, d # c PROVE lines[d][f] = lines[d][f] \o Says(o, d, f)
    <3>1. \A i \in 1 .. Len(o) : TextIn(o[i], d, f) = << >>
      BY <1>2, <2>1, LinesAreEntries DEF TextIn
    <3>2. Says(o, d, f) = << >>
      BY <1>2, <3>1, SaysNothing
    <3>3. PICK l \in Seq(Seq(Byte)) : l = lines[d][f]
      BY DEF OutInv, OutType
    <3>4. l \o << >> = l
      BY ConcatEmpty
    <3> QED
      BY <3>2, <3>3, <3>4
  <2> QED
    BY <1>1, <2>1
<1>13. \A i \in 1 .. Len(o) : o[i].kind = "line"
  BY <1>2, LinesAreEntries
<1>14. \A d \in Child : ~ \E i \in 1 .. Len(o) : o[i] = NoteOf(d)
  BY <1>13, NoteIs
<1>15. ~all_done' /\ ~died' /\ finished' = finished /\ status' = status
  BY DEF program
<1> QED
  BY <1>2, <1>9, <1>10, <1>11, <1>12, <1>13, <1>14, <1>15, GrowsScreen

\* Entries that are no lines are shown at once, with all that stdio kept.
LEMMA Flushes ==
  ASSUME ScreenType, NEW o \in Seq(Entry), seen' = All \o o, stdout' = << >>
  PROVE  ScreenType' /\ All' = All \o o
<1>1. PICK a \in Seq(Entry), t \in Seq(Entry) : a = All /\ t = a \o o
  BY AllIs, ConcatFacts
<1>2. << >> \in Seq(Entry) /\ t \o << >> = t /\ Len(<< >>) = 0
  BY ConcatEmpty
<1>3. seen' = t
  BY <1>1
<1>4. All' = t
  BY <1>2, <1>3 DEF All
<1> QED
  BY <1>1, <1>2, <1>3, <1>4 DEF ScreenType

\* Entries that are no lines say nothing of any stream.
LEMMA NoLines ==
  ASSUME OutInv, NEW o \in Seq(Entry), \A i \in 1 .. Len(o) : o[i].kind # "line"
  PROVE  \A c \in Child, f \in Fd : lines[c][f] = lines[c][f] \o Says(o, c, f)
<1> SUFFICES ASSUME NEW c \in Child, NEW f \in Fd
             PROVE  lines[c][f] = lines[c][f] \o Says(o, c, f)
  OBVIOUS
<1>1. \A i \in 1 .. Len(o) : TextIn(o[i], c, f) = << >>
  BY DEF TextIn
<1>2. Says(o, c, f) = << >>
  BY <1>1, SaysNothing
<1>3. PICK l \in Seq(Seq(Byte)) : l = lines[c][f]
  BY DEF OutInv, OutType
<1>4. l \o << >> = l
  BY ConcatEmpty
<1> QED
  BY <1>2, <1>3, <1>4

\* The program ends, or a job that failed is complained about.
LEMMA FlushesScreen ==
  ASSUME ScreenInv, OutInv, ~all_done, ~all_done', NEW o \in Seq(Entry),
         seen' = All \o o, stdout' = << >>, lines' = lines,
         \A i \in 1 .. Len(o) : o[i].kind = "note",
         ~died' => /\ ~died
                   /\ \A c \in Child : (c \in finished' /\ status'[c] # "ok")
                        <=> \/ c \in finished /\ status[c] # "ok"
                            \/ \E i \in 1 .. Len(o) : o[i] = NoteOf(c)
  PROVE  ScreenInv'
<1>1. ScreenType' /\ All' = All \o o
  BY Flushes DEF ScreenInv
<1>2. \A i \in 1 .. Len(o) : o[i].kind # "line" /\ o[i].kind # "summary"
  OBVIOUS
<1>3. \A c \in Child, f \in Fd : lines'[c][f] = lines[c][f] \o Says(o, c, f)
  BY <1>2, NoLines
<1> QED
  BY <1>1, <1>2, <1>3, GrowsScreen

\* The notes of one job.
LEMMA OneNote ==
  ASSUME NEW c \in Child
  PROVE  /\ <<NoteOf(c)>> \in Seq(Entry) /\ Len(<<NoteOf(c)>>) = 1
         /\ <<NoteOf(c)>>[1] = NoteOf(c)
         /\ \A i \in 1 .. Len(<<NoteOf(c)>>) : <<NoteOf(c)>>[i].kind = "note"
         /\ \A d \in Child : (\E i \in 1 .. Len(<<NoteOf(c)>>) : <<NoteOf(c)>>[i] = NoteOf(d)) <=> d = c
<1>1. PICK e \in Entry : e = NoteOf(c) /\ e.kind = "note"
  BY NoteIs
<1>2. <<e>> \in Seq(Entry) /\ Len(<<e>>) = 1 /\ <<e>>[1] = e
  OBVIOUS
<1>3. \A d \in Child : e = NoteOf(d) <=> d = c
  BY <1>1, NoteIs
<1>4. \A i \in 1 .. 1 : i = 1
  OBVIOUS
<1> QED
  BY <1>1, <1>2, <1>3, <1>4

\* The end of a job: the lines are flushed before the note is written.
LEMMA DoneReturnScreen ==
  ASSUME ScreenInv, OutInv, ~died, ~all_done, LDoneReturn
  PROVE  ScreenInv'
<1>1. PICK c \in Child : c = job /\ c \in running /\ c \notin finished
  BY DEF LDoneReturn, DoneReturn, OutInv, StageOK
<1>2. /\ finished' = finished \cup {c} /\ Complain(c)
      /\ UNCHANGED <<status, lines, program>>
  BY <1>1 DEF LDoneReturn, DoneReturn, Container!Done, output
<1>3. UNCHANGED <<all_done, died>>
  BY <1>2 DEF program
<1>4. CASE status[c] = "ok"
  <2>1. UNCHANGED display
    BY <1>2, <1>4 DEF Complain
  <2>2. \A d \in Child : (d \in finished' /\ status'[d] # "ok") <=> (d \in finished /\ status[d] # "ok")
    BY <1>2, <1>4
  <2> QED
    BY <1>2, <2>1, <2>2, StillScreen
<1>5. CASE status[c] # "ok"
  <2>1. PICK o \in Seq(Entry) : o = <<NoteOf(c)>>
    BY OneNote
  <2>2. seen' = All \o o /\ stdout' = << >>
    <3>1. seen' = Append(All, NoteOf(c)) /\ stdout' = << >>
      BY <1>2, <1>5 DEF Complain, All
    <3>2. PICK a \in Seq(Entry), e \in Entry : a = All /\ e = NoteOf(c)
      BY AllIs, NoteIs DEF ScreenInv
    <3>3. Append(a, e) = a \o <<e>>
      OBVIOUS
    <3> QED
      BY <2>1, <3>1, <3>2, <3>3
  <2>3. \A i \in 1 .. Len(o) : o[i].kind = "note"
    BY <2>1, OneNote
  <2>4. \A d \in Child : (d \in finished' /\ status'[d] # "ok")
          <=> \/ d \in finished /\ status[d] # "ok"
              \/ \E i \in 1 .. Len(o) : o[i] = NoteOf(d)
    <3>1. \A d \in Child : (\E i \in 1 .. Len(o) : o[i] = NoteOf(d)) <=> d = c
      BY <2>1, OneNote
    <3> QED
      BY <1>2, <1>5, <3>1
  <2> QED
    BY <1>2, <1>3, <2>2, <2>3, <2>4, FlushesScreen
<1> QED
  BY <1>4, <1>5

\* The end of the program by a failure flushes stdout after all that was written.'s
\* end flushes stdout, once.
LEMMA DiesScreen ==
  ASSUME ScreenInv, OutInv, ~all_done, NEW o \in Seq(Entry), Dies(All \o o), lines' = lines,
         \A i \in 1 .. Len(o) : o[i].kind = "note"
  PROVE  ScreenInv'
<1>1. died' /\ seen' = All \o o /\ stdout' = << >> /\ ~all_done'
  BY DEF Dies
<1> QED
  BY <1>1, FlushesScreen

\* When all is done, the jobs with a note are those that failed, all of them
\* are counted, and the summary is the last but one that is shown.
LEMMA AllDoneScreen ==
  ASSUME ScreenInv, LifeInv, CountsOK, OutInv, ~died, ~all_done, AllDone
  PROVE  ScreenInv'
<1>0. ScreenType /\ LinesShown /\ NotesLast /\ NotesRight /\ SummaryRight
  BY DEF ScreenInv
<1>1. /\ running = {} /\ all_done' = TRUE /\ stdout' = << >>
      /\ UNCHANGED <<running, finished, status, lines, died>>
  BY DEF AllDone, vars
<1>2. Summary \in Entry /\ Summary.kind = "summary" /\ Summary.failed = n_failed
  BY DEF Summary, Entry, LifeInv, PlaceType
<1>3. [kind |-> "recorded"] \in Entry
  BY DEF Entry
<1>4. PICK e \in Entry, r \in Entry : e = Summary /\ r = [kind |-> "recorded"]
  BY <1>2, <1>3
<1>5. PICK o \in Seq(Entry) : o = IF n_failed > 0 THEN <<e, r>> ELSE << >>
  <2>1. <<e, r>> \in Seq(Entry) /\ << >> \in Seq(Entry)
    OBVIOUS
  <2> QED
    BY <2>1
<1>6. /\ \A i \in 1 .. Len(o) : i \in {1, 2} /\ o[i].kind \in {"summary", "recorded"}
      /\ \A i \in 1 .. Len(o) : o[i].kind = "summary" => i = 1 /\ o[i] = e
      /\ Len(o) \in {0, 2}
  <2>1. CASE n_failed > 0
    <3>1. Len(o) = 2 /\ o[1] = e /\ o[2] = r
      BY <1>5, <2>1
    <3>2. \A i \in 1 .. 2 : i = 1 \/ i = 2
      OBVIOUS
    <3> QED
      BY <1>2, <1>4, <3>1, <3>2
  <2>2. CASE ~ (n_failed > 0)
    <3>1. Len(o) = 0
      BY <1>5, <2>2
    <3> QED
      BY <3>1
  <2> QED
    BY <2>1, <2>2
<1>7. seen' = All \o o
  BY <1>4, <1>5 DEF AllDone, All
<1>8. ScreenType' /\ All' = All \o o
  BY <1>0, <1>1, <1>7, Flushes
<1>9. \A i \in 1 .. Len(o) : o[i].kind # "line" /\ o[i].kind # "note"
  BY <1>6
<1>10. LinesShown' /\ NotesLast'
  <2>1. \A c \in Child, f \in Fd : lines'[c][f] = lines[c][f] \o Says(o, c, f)
    BY <1>1, <1>9, NoLines
  <2> QED
    BY <1>0, <1>8, <1>9, <2>1, GrowsLines
<1>11. \A c \in Child : Noted(c)' <=> Noted(c)
  <2>1. \A c \in Child : Noted(c)' <=> Noted(c) \/ \E i \in 1 .. Len(o) : o[i] = NoteOf(c)
    BY <1>0, <1>8, ShowsMore
  <2>2. \A c \in Child, i \in 1 .. Len(o) : o[i] # NoteOf(c)
    BY <1>9, NoteIs
  <2> QED
    BY <2>1, <2>2
<1>12. NotesRight'
  BY <1>0, <1>1, <1>11 DEF NotesRight
<1>13. n_failed = Cardinality({c \in Started : Noted(c)})'
  <2>1. Started' = finished /\ Over = finished /\ finished \subseteq Child
    BY <1>1 DEF Started, Over, OutInv, StageOK
  <2>2. \A c \in finished : Noted(c)' <=> status[c] # "ok"
    BY <1>0, <1>11, <2>1 DEF NotesRight
  <2>3. {c \in Started : Noted(c)}' = {c \in Over : status[c] # "ok"}
    BY <2>1, <2>2
  <2>4. n_failed = Cardinality({c \in Over : status[c] # "ok"})
    BY DEF CountsOK
  <2> QED
    BY <2>3, <2>4
<1>14. ASSUME NEW i \in 1 .. Len(seen'), seen'[i].kind = "summary"
       PROVE  i + 1 = Len(seen') /\ seen'[i] = e
  <2>1. PICK a \in Seq(Entry) : a = All
    BY <1>0, AllIs
  <2>2. PICK n \in Nat : n = Len(a)
    OBVIOUS
  <2>3. PICK t \in Seq(Entry) : t = a \o o
    BY ConcatFacts
  <2>4. seen' = t
    BY <1>7, <2>1, <2>3
  <2>5. /\ Len(t) = n + Len(o)
        /\ \A k \in 1 .. n + Len(o) : t[k] = IF k <= n THEN a[k] ELSE o[k - n]
    BY <2>2, <2>3, ConcatFacts
  <2>6. i \in 1 .. n + Len(o) /\ t[i].kind = "summary"
    BY <1>14, <2>4, <2>5
  <2>7. CASE i <= n
    <3>1. i \in 1 .. n /\ a[i].kind = "summary"
      BY <2>5, <2>6, <2>7
    <3>2. i \in 1 .. Len(seen) /\ a[i] = seen[i]
      BY <1>0, <2>1, <2>2, <3>1, AllIs
    <3> QED
      BY <1>0, <3>1, <3>2 DEF SummaryRight
  <2>8. CASE ~ (i <= n)
    <3>1. i - n \in 1 .. Len(o) /\ t[i] = o[i - n]
      BY <1>6, <2>5, <2>6, <2>8
    <3>2. i - n = 1 /\ o[i - n] = e /\ Len(o) = 2
      BY <1>6, <2>6, <3>1
    <3>3. i + 1 = n + 2
      BY <2>6, <3>2
    <3> QED
      BY <2>4, <2>5, <3>1, <3>2, <3>3
  <2> QED
    BY <2>7, <2>8
<1>15. SummaryRight'
  BY <1>1, <1>2, <1>4, <1>13, <1>14 DEF SummaryRight
<1> QED
  BY <1>8, <1>10, <1>12, <1>15 DEF ScreenInv

\* ui_child_io prints the lines it tells.
LEMMA ReadScreen ==
  ASSUME ScreenInv, LifeInv, CountsOK, OutInv, OutInv', ~died, ~all_done,
         NEW c \in Child, NEW f \in Fd, NEW k \in 1 .. MaxOutput, LRead(c, f, k)
  PROVE  ScreenInv'
<1>1. /\ Read(c, f, k) /\ PrintNew(c) /\ at = "idle" /\ f \in held[c]
      /\ UNCHANGED <<program, finished, status>>
  BY DEF LRead, Read, contract, records
<1>2. c \notin finished
  BY <1>1, HeldRuns
<1>3. Report!Extends(c) \/ lines' = lines
  BY <1>1, ReadReports DEF ReportInv, Report!Tell, Report!vars
<1>4. /\ \A g \in Fd : /\ Len(lines[c][g]) <= Len(lines'[c][g])
                       /\ \A i \in 1 .. Len(lines[c][g]) : lines'[c][g][i] = lines[c][g][i]
      /\ \A d \in Child : d # c => lines'[d] = lines[d]
  <2>1. CASE Report!Extends(c)
    BY <2>1 DEF Report!Extends
  <2>2. CASE lines' = lines
    <3>1. \A g \in Fd : Len(lines[c][g]) \in Nat
      BY DEF OutInv, OutType
    <3> QED
      BY <2>2, <3>1
  <2> QED
    BY <1>3, <2>1, <2>2
<1>5. lines' \in [Child -> [Fd -> Seq(Seq(Byte))]]
  BY DEF OutInv, OutType
<1> QED
  BY <1>1, <1>2, <1>4, <1>5, PrintsScreen

\* The beginning of ui_child_done prints the last line.
LEMMA DoneStartScreen ==
  ASSUME ScreenInv, LifeInv, CountsOK, OutInv, OutInv', ~died, ~all_done,
         NEW c \in Child, LDoneStart(c)
  PROVE  ScreenInv'
<1>1. /\ DoneStart(c) /\ PrintNew(c) /\ c \in running
      /\ UNCHANGED <<program, finished, status>>
  BY DEF LDoneStart, DoneStart, contract
<1>2. c \notin finished
  BY <1>1 DEF OutInv, StageOK
<1>3. Report!Extends(c)
  BY <1>1, DoneStartReports DEF ReportInv, Report!End
<1>4. /\ \A g \in Fd : /\ Len(lines[c][g]) <= Len(lines'[c][g])
                       /\ \A i \in 1 .. Len(lines[c][g]) : lines'[c][g][i] = lines[c][g][i]
      /\ \A d \in Child : d # c => lines'[d] = lines[d]
  BY <1>3 DEF Report!Extends
<1>5. lines' \in [Child -> [Fd -> Seq(Seq(Byte))]]
  BY DEF OutInv, OutType
<1> QED
  BY <1>1, <1>2, <1>4, <1>5, PrintsScreen

\* Other steps print nothing.
LEMMA QuietlyScreen ==
  ASSUME ScreenInv, OutInv, LQuietly PROVE ScreenInv'
<1>0. UNCHANGED <<display, program>>
  BY DEF LQuietly
<1>1. ASSUME UNCHANGED <<running, finished, lines, status>> PROVE ScreenInv'
  BY <1>0, <1>1, StillScreen DEF Started
<1>2. CASE FreeReturn \/ \E c \in Child : SpawnFails(c)
  BY <1>1, <1>2 DEF FreeReturn, SpawnFails, Container!Refuse, contract, records, output
<1>3. ASSUME NEW c \in Child, NEW x \in {"ok", "failed"}, Exit(c, x) PROVE ScreenInv'
  <2>1. /\ c \in running /\ status' = [status EXCEPT ![c] = x]
        /\ UNCHANGED <<running, finished, lines>>
    BY <1>3 DEF Exit, Container!Exit, output
  <2>2. c \notin finished
    BY <2>1 DEF OutInv, StageOK
  <2>3. \A d \in Child : (d \in finished' /\ status'[d] # "ok") <=> (d \in finished /\ status[d] # "ok")
    BY <2>1, <2>2
  <2> QED
    BY <1>0, <2>1, <2>3, StillScreen DEF Started
<1>4. CASE \E c \in Child, f \in Fd :
             \/ ReadEnd(c, f) \/ Closed(c, f) \/ ChildHangsUp(c, f)
             \/ \E b \in Byte : ChildWrites(c, f, b)
  <2>1. PICK c \in Child, f \in Fd :
          \/ ReadEnd(c, f) \/ Closed(c, f) \/ ChildHangsUp(c, f)
          \/ \E b \in Byte : ChildWrites(c, f, b)
    BY <1>4
  <2>2. UNCHANGED <<running, finished, lines, status>>
    BY <2>1 DEF ReadEnd, Closed, Container!Close, ChildHangsUp, ChildWrites, contract, records,
                output
  <2> QED
    BY <1>1, <2>2
<1> QED
  BY <1>2, <1>3, <1>4 DEF LQuietly, LWrites

\* The invariant of the screen is inductive.
LEMMA NextScreen ==
  ASSUME ScreenInv, LifeInv, CountsOK, OutInv, OutInv', [LNext]_lvars PROVE ScreenInv'
<1>1. CASE UNCHANGED lvars
  BY <1>1, StillScreen DEF lvars, vars, Started
<1>2. CASE LStopped
  BY <1>1, <1>2 DEF LStopped
<1>3. CASE LQuietly
  BY <1>3, QuietlyScreen
<1>4. CASE LFree
  <2>1. UNCHANGED <<display, program, lines, running, finished, status>>
    BY <1>4 DEF LFree, Free, contract, records, output
  <2> QED
    BY <2>1, StillScreen DEF Started
<1> SUFFICES ASSUME ~died, ~all_done, LNext PROVE ScreenInv'
  BY <1>1, <1>2, <1>3, <1>4 DEF LNext
<1>5. CASE AllDone
  BY <1>5, AllDoneScreen
<1>6. CASE LDoneReturn
  BY <1>6, DoneReturnScreen
<1>7. PICK n \in Seq(Entry), a \in Seq(Entry) : n = << >> /\ a = All /\ a \o n = a
  <2>1. << >> \in Seq(Entry)
    OBVIOUS
  <2>2. PICK a \in Seq(Entry) : a = All
    BY AllIs DEF ScreenInv
  <2>3. a \o << >> = a
    BY ConcatEmpty
  <2> QED
    BY <2>1, <2>2, <2>3
<1>8. ASSUME Dies(seen \o stdout), lines' = lines PROVE ScreenInv'
  <2>1. Dies(All \o n)
    BY <1>7, <1>8 DEF All
  <2>2. \A i \in 1 .. Len(n) : n[i].kind = "note"
    BY <1>7
  <2> QED
    BY <1>8, <2>1, <2>2, DiesScreen
<1>9. CASE LEndDies
  <2>1. lines' = lines /\ job \in Child
    BY <1>9 DEF LEndDies, vars, OutInv, StageOK
  <2>2. CASE status[job] = "ok"
    BY <1>8, <1>9, <2>1, <2>2 DEF LEndDies
  <2>3. CASE status[job] # "ok"
    <3>1. PICK c \in Child : c = job
      BY <2>1
    <3>2. PICK o \in Seq(Entry) : o = <<NoteOf(c)>>
      BY OneNote
    <3>3. Append(seen \o stdout, NoteOf(job)) = All \o o
      <4>1. PICK e \in Entry : e = NoteOf(c)
        BY NoteIs
      <4>2. Append(a, e) = a \o <<e>>
        OBVIOUS
      <4> QED
        BY <1>7, <3>1, <3>2, <4>1, <4>2 DEF All
    <3>4. Dies(All \o o)
      BY <1>9, <2>3, <3>3 DEF LEndDies
    <3>5. \A i \in 1 .. Len(o) : o[i].kind = "note"
      BY <3>2, OneNote
    <3> QED
      BY <2>1, <3>4, <3>5, DiesScreen
  <2> QED
    BY <2>2, <2>3
<1>10. CASE \E c \in Child : LDoneStart(c)
  BY <1>10, DoneStartScreen
<1>11. ASSUME NEW c \in Child, NEW P \in SUBSET Fd, LSpawn(c, P) PROVE ScreenInv'
  <2>1. UNCHANGED <<display, program, lines, finished, status>>
    BY <1>11 DEF LSpawn, Spawn, Container!Spawn, output
  <2> QED
    BY <2>1, StillScreen
<1>12. ASSUME NEW c \in Child, NEW P \in SUBSET Fd, LSpawnDies(c, P) PROVE ScreenInv'
  <2>1. lines' = lines /\ Dies(seen \o stdout)
    BY <1>12 DEF LSpawnDies, Spawn, output
  <2> QED
    BY <1>8, <2>1
<1>13. ASSUME NEW c \in Child, NEW f \in Fd, LReadDies(c, f) PROVE ScreenInv'
  <2>1. lines' = lines /\ Dies(seen \o stdout)
    BY <1>13 DEF LReadDies, vars
  <2> QED
    BY <1>8, <2>1
<1>14. ASSUME NEW c \in Child, NEW f \in Fd, NEW k \in 1 .. MaxOutput, LRead(c, f, k)
       PROVE  ScreenInv'
  BY <1>14, ReadScreen
<1> QED
  BY <1>2, <1>3, <1>4, <1>5, <1>6, <1>9, <1>10, <1>11, <1>12, <1>13, <1>14 DEF LNext

\* At first the screen is empty.
LEMMA InitScreen == ASSUME LInit PROVE ScreenInv
<1>1. /\ seen = << >> /\ stdout = << >> /\ ~all_done /\ ~died /\ finished = {}
      /\ \A c \in Child, f \in Fd : lines[c][f] = << >>
  BY DEF LInit, Init, Container!Init
<1>2. PICK e \in Seq(Entry) : e = << >> /\ Len(e) = 0 /\ e \o e = e
  <2>1. << >> \in Seq(Entry) /\ Len(<< >>) = 0 /\ << >> \o << >> = << >>
    OBVIOUS
  <2> QED
    BY <2>1
<1>3. All = e /\ seen = e /\ stdout = e
  BY <1>1, <1>2 DEF All
<1>4. \A i \in 1 .. Len(e) : FALSE
  BY <1>2
<1>5. ScreenType /\ NotesLast /\ \A c \in Child : ~Noted(c)
  BY <1>3, <1>4 DEF ScreenType, NotesLast, Noted
<1>6. LinesShown
  <2>1. ASSUME NEW c \in Child, NEW f \in Fd PROVE Says(e, c, f) = << >>
    BY <1>4, SaysNothing
  <2> QED
    BY <1>1, <1>3, <2>1 DEF LinesShown
<1>7. NotesRight /\ SummaryRight
  BY <1>1, <1>3, <1>4, <1>5 DEF NotesRight, SummaryRight
<1> QED
  BY <1>5, <1>6, <1>7 DEF ScreenInv

\* The invariant says that a note comes after all lines of its job.
LEMMA ScreenIsRight == ASSUME ScreenInv PROVE NotesAfterLines
<1>0. ScreenType /\ LinesShown /\ NotesLast /\ NotesRight /\ SummaryRight
  BY DEF ScreenInv
<1>1. PICK p \in Seq(Entry), q \in Seq(Entry) :
        p = seen /\ q = stdout /\ \A i \in 1 .. Len(q) : q[i].kind = "line"
  BY <1>0 DEF ScreenType
<1>2. DOMAIN p = 1 .. Len(p) /\ Len(p) \in Nat
  OBVIOUS
<1>3. ASSUME NEW c \in Child, NEW f \in Fd PROVE TextOf(c, f) = lines[c][f]
  <2>1. TextOf(c, f) = Says(All, c, f)
    BY DEF TextOf, Says, Texts, TextIn, All
  <2> QED
    BY <1>0, <2>1 DEF LinesShown
<1>4. ASSUME NEW i \in 1 .. Len(p), NEW c \in Child, p[i] = NoteOf(c),
             NEW e \in ToSet(SubSeq(p, i + 1, Len(p)) \o q), e.kind = "line", e.job = c
      PROVE  FALSE
  <2>1. PICK m \in Nat : i \in Nat /\ i + m = Len(p)
    <3>1. i \in Nat /\ Len(p) - i \in Nat /\ i + (Len(p) - i) = Len(p)
      BY <1>2
    <3> QED
      BY <3>1
  <2>2. /\ SubSeq(p, i + 1, i + m) \in Seq(Entry) /\ Len(SubSeq(p, i + 1, i + m)) = m
        /\ \A k \in 1 .. m : SubSeq(p, i + 1, i + m)[k] = p[i + k]
    <3>1. \A k \in i + 1 .. i + m : p[k] \in Entry
      BY <2>1
    <3>2. i + 1 \in Int /\ i + m \in Int
      BY <2>1
    <3>3. SubSeq(p, i + 1, i + m) = [k \in 1 .. (i + m) - (i + 1) + 1 |-> p[k + (i + 1) - 1]]
      BY <3>2
    <3>4. (i + m) - (i + 1) + 1 = m
      BY <2>1
    <3>5. \A k \in 1 .. m : k + (i + 1) - 1 = i + k /\ i + k \in i + 1 .. i + m
      BY <2>1
    <3>6. SubSeq(p, i + 1, i + m) = [k \in 1 .. m |-> p[i + k]]
      BY <3>3, <3>4, <3>5
    <3> QED
      BY <3>1, <3>5, <3>6
  <2>3. PICK t \in Seq(Entry) : t = SubSeq(p, i + 1, i + m)
    BY <2>2
  <2>4. PICK u \in Seq(Entry) : u = t \o q
    BY ConcatFacts
  <2>5. PICK z \in Nat : z = Len(q)
    OBVIOUS
  <2>6. Len(u) = m + z /\ \A k \in 1 .. m + z : u[k] = IF k <= m THEN t[k] ELSE q[k - m]
    <3>1. Len(t) = m
      BY <2>2, <2>3
    <3> QED
      BY <2>4, <2>5, <3>1, ConcatFacts
  <2>7. PICK k \in 1 .. m + z : e = u[k]
    <3>1. e \in ToSet(u)
      BY <1>4, <2>1, <2>3, <2>4
    <3>2. DOMAIN u = 1 .. m + z
      BY <2>6
    <3> QED
      BY <3>1, <3>2 DEF ToSet
  <2>8. \E j \in 1 .. Len(All) : i < j /\ All[j] = e
    <3>1. CASE k <= m
      <4>1. k \in 1 .. m /\ i + k \in 1 .. Len(p) /\ i < i + k
        BY <2>1, <3>1
      <4>2. e = p[i + k]
        BY <2>2, <2>3, <2>6, <2>7, <3>1, <4>1
      <4>3. i + k \in 1 .. Len(All) /\ All[i + k] = e
        BY <1>0, <1>1, <4>1, <4>2, AllIs
      <4> QED
        BY <4>1, <4>3
    <3>2. CASE ~ (k <= m)
      <4>1. k - m \in 1 .. Len(q) /\ i < Len(p) + (k - m)
        BY <2>1, <2>5, <3>2
      <4>2. e = q[k - m]
        BY <2>6, <2>7, <3>2
      <4>3. Len(p) + (k - m) \in 1 .. Len(All) /\ All[Len(p) + (k - m)] = e
        BY <1>0, <1>1, <4>1, <4>2, AllIs
      <4> QED
        BY <4>1, <4>3
    <3> QED
      BY <3>1, <3>2
  <2>9. i \in 1 .. Len(All) /\ All[i] = NoteOf(c)
    BY <1>0, <1>1, <1>4, AllIs
  <2> QED
    BY <1>0, <1>4, <2>8, <2>9 DEF NotesLast
<1>5. ASSUME NEW i \in 1 .. Len(p), p[i].kind = "summary"
      PROVE  /\ i + 1 = Len(p) /\ q = << >>
             /\ p[i].failed = Cardinality({c \in Started : NoteOf(c) \in ToSet(p)})
  <2>1. /\ i + 1 = Len(p) /\ q = << >>
        /\ p[i].failed = Cardinality({c \in Started : Noted(c)})
    BY <1>0, <1>1, <1>5 DEF SummaryRight
  <2>2. \A c \in Started : Noted(c) <=> NoteOf(c) \in ToSet(p)
    BY <1>1, <1>2 DEF Noted, ToSet
  <2>3. {c \in Started : Noted(c)} = {c \in Started : NoteOf(c) \in ToSet(p)}
    BY <2>2
  <2> QED
    BY <2>1, <2>3
<1> QED
  BY <1>1, <1>2, <1>3, <1>4, <1>5 DEF NotesAfterLines

\* A note "must not overtake the output it is about" (plain_job_ended): in
\* what reaches the reader each line told is seen once and in order, the note
\* of a job after all its lines, and the summary, which counts the jobs with a
\* note, after everything, however stdio buffers and wherever the recorder
\* ends the program.
THEOREM NotesAlwaysAfterLines == LSpec => []NotesAfterLines
<1>1. LInit => Init
  BY DEF LInit
<1>2. [LNext]_lvars => [Next]_vars
  BY LStep
<1>3. LSpec => Spec
  BY <1>1, <1>2, PTL DEF LSpec, Spec
<1>4. Spec => [](LifeInv /\ CountsOK /\ OutInv)
  BY LineUIAssumption, LifeAlways, CountsTrue, OutputAlways, PTL
<1>5. LInit => ScreenInv
  BY InitScreen
<1>6. ScreenInv /\ LifeInv /\ CountsOK /\ OutInv /\ OutInv' /\ [LNext]_lvars => ScreenInv'
  BY NextScreen
<1>7. ScreenInv => NotesAfterLines
  BY ScreenIsRight
<1> QED
  BY <1>3, <1>4, <1>5, <1>6, <1>7, PTL DEF LSpec
=============================================================================

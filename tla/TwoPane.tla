------------------------------- MODULE TwoPane -------------------------------
(***************************************************************************)
(* The two-pane UI (yc-ui-two-pane.c) on the UI layer: a list of jobs and  *)
(* the output of the selected one, redrawn by a timer when something has   *)
(* changed since, and moved about by keys.                                 *)
(*                                                                         *)
(* The callbacks of the UI layer are conjoined with the steps of YcUI that *)
(* make them.  The UI layer calls back in the middle of those steps; keys, *)
(* the timer and the window's signal come between them (at = "idle").      *)
(* Which lines a job tells is YcUI's subject: here they are counted.  How  *)
(* high the panes are is left out, and so are the keys [ and ], which do   *)
(* what a resize does.                                                     *)
(***************************************************************************)
EXTENDS YcUI, Integers

CONSTANTS
  MaxJobLines,   \* lines a job's buffer has room for
  Page           \* lines the output pane scrolls by

ASSUME PaneAssumption == MaxJobLines \in Nat /\ Page \in Nat \ {0}

VARIABLES
  selected,        \* a job index, not a row
  output_scroll,   \* lines back from the newest
  dirty, quit,
  rows,            \* the jobs listed when the rows were last rebuilt
  n_lines,         \* the lines in each job's buffer
  term_open,       \* the terminal is being read
  screen           \* what the last redraw showed

pane == <<selected, output_scroll, dirty, quit, rows, n_lines, term_open, screen>>
panevars == <<running, finished, refused, exited, held, at, job, jobs, ended_jobs,
              max_ended_jobs, n_started, n_ended, n_failed, mem, destroyed, index, status,
              ended_micros, recorder_data, pending, wrote, n_read, hungup, eof, lines,
              selected, output_scroll, dirty, quit, rows, n_lines, term_open, screen>>

\* rebuild_rows: running first, then finished newest-first.
Rows == jobs \o Reverse(ended_jobs)

\* selected_row: the row whose job has the selected index, else the first.
SelectedRow(rs) ==
  LET found == {i \in DOMAIN rs : index[rs[i]] = selected}
  IN  IF found = {} THEN 1 ELSE Min(found)

\* selected_job
SelectedJob(rs) == IF rs = <<>> THEN NoJob ELSE rs[SelectedRow(rs)]

\* status_text
StatusText(c) == IF c \in running THEN "running" ELSE status[c]

\* What redraw() draws: the counts, the rows, and the output of one job.
View ==
  [counts |-> <<Len(jobs), n_ended, n_failed>>,
   rows   |-> [i \in DOMAIN Rows |-> <<Rows[i], StatusText(Rows[i])>>],
   shown  |-> SelectedJob(Rows),
   lines  |-> IF Rows = <<>> THEN 0 ELSE n_lines[SelectedJob(Rows)],
   scroll |-> output_scroll]

TInit ==
  /\ Init
  /\ selected = 0 /\ output_scroll = 0
  /\ dirty = TRUE /\ quit = FALSE
  /\ rows = <<>> /\ n_lines = [c \in Child |-> 0]
  /\ term_open = TRUE
  /\ screen = View

-----------------------------------------------------------------------------
(* Callbacks of the UI layer                                               *)

\* Mutant: a job that starts alone is selected, whatever is kept.
JobStarted_Always(c, P) ==
  /\ Spawn(c, P)
  /\ selected' = IF Len(jobs') = 1 THEN index'[c] ELSE selected
  /\ dirty' = TRUE
  /\ UNCHANGED <<output_scroll, quit, rows, n_lines, term_open, screen>>

\* two_pane_job_started
JobStarted(c, P) ==
  /\ Spawn(c, P)
  /\ selected' = IF Len(jobs') = 1 /\ ended_jobs' = <<>> THEN index'[c] ELSE selected
  /\ dirty' = TRUE
  /\ UNCHANGED <<output_scroll, quit, rows, n_lines, term_open, screen>>

\* two_pane_job_line: the line may drive older ones out of the buffer.
Tell(c) ==
  /\ \E n \in 1 .. Min({n_lines[c] + 1, MaxJobLines}) : n_lines' = [n_lines EXCEPT ![c] = n]
  /\ dirty' = (dirty \/ index[c] = selected)
  /\ UNCHANGED <<selected, output_scroll, quit, rows, term_open, screen>>

JobLine(c) ==
  /\ at = "idle" /\ c \in running
  /\ Tell(c)
  /\ UNCHANGED vars

\* A last line without a newline is told when the job is done.
JobDone(c) == DoneStart(c) /\ (Tell(c) \/ UNCHANGED pane)

\* two_pane_job_destroyed, and two_pane_job_ended: something has changed.
JobDestroyed ==
  /\ Trim
  /\ dirty' = TRUE
  /\ UNCHANGED <<selected, output_scroll, quit, rows, n_lines, term_open, screen>>

JobEnded ==
  /\ DoneReturn
  /\ dirty' = TRUE
  /\ UNCHANGED <<selected, output_scroll, quit, rows, n_lines, term_open, screen>>

\* The steps that do not call the UI.
TrimmedStep == TrimReturn /\ UNCHANGED pane

ExitStep(c) == (\E s \in {"ok", "failed"} : Exit(c, s)) /\ UNCHANGED pane

OtherSteps ==
  \/ TrimmedStep
  \/ \E c \in Child : SpawnFails(c) /\ UNCHANGED pane
  \/ \E c \in Child : ExitStep(c)

-----------------------------------------------------------------------------
(* Keys, the window and the timer                                          *)

Reading == at = "idle" /\ term_open

\* Mutant: nothing is redrawn.
MoveSelection_Quiet(d) ==
  LET row == SelectedRow(Rows) + d
  IN  /\ Reading
      /\ rows' = Rows
      /\ IF row \in DOMAIN Rows
         THEN selected' = index[Rows[row]] /\ output_scroll' = 0
         ELSE UNCHANGED <<selected, output_scroll>>
      /\ UNCHANGED <<vars, quit, n_lines, term_open, screen, dirty>>

\* move_selection
MoveSelection(d) ==
  LET row == SelectedRow(Rows) + d
  IN  /\ Reading
      /\ rows' = Rows
      /\ IF row \in DOMAIN Rows
         THEN selected' = index[Rows[row]] /\ output_scroll' = 0 /\ dirty' = TRUE
         ELSE UNCHANGED <<selected, output_scroll, dirty>>
      /\ UNCHANGED <<vars, quit, n_lines, term_open, screen>>

\* The rows that selected_row looks at, and scroll_output then uses.
RowsUsed == {rows[i] : i \in 1 .. SelectedRow(rows)} \cup
            (IF \A i \in DOMAIN rows : index[rows[i]] # selected THEN ToSet(rows) ELSE {})

MaxScroll(c) == IF n_lines[c] > 1 THEN n_lines[c] - 1 ELSE 0

\* Where scroll_output() takes the output of c.
Scrolled(c, d) ==
  IF d < 0 THEN (IF output_scroll > -d THEN output_scroll + d ELSE 0)
  ELSE Min({output_scroll + d, MaxScroll(c)})

\* scroll_output.  It uses the rows of the last rebuild; if one of them was
\* freed since, what it reads there can be anything.
ScrollOutput(d) ==
  /\ Reading /\ rows # <<>>
  /\ IF \E c \in RowsUsed : mem[c] = "freed"
     THEN \/ UNCHANGED <<output_scroll, dirty>>
          \/ output_scroll' \in 0 .. MaxJobLines /\ dirty' = TRUE
     ELSE output_scroll' = Scrolled(SelectedJob(rows), d) /\ dirty' = TRUE
  /\ UNCHANGED <<vars, selected, quit, rows, n_lines, term_open, screen>>

\* on_key: the end key.
ScrollToEnd ==
  /\ Reading
  /\ output_scroll' = 0 /\ dirty' = TRUE
  /\ UNCHANGED <<vars, selected, quit, rows, n_lines, term_open, screen>>

\* on_key: q, or control-c.
Quit ==
  /\ Reading
  /\ quit' = TRUE /\ term_open' = FALSE
  /\ UNCHANGED <<vars, selected, output_scroll, dirty, rows, n_lines, screen>>

\* on_tty_read, at the end of the terminal's input.
TermEnds ==
  /\ Reading
  /\ term_open' = FALSE
  /\ UNCHANGED <<vars, selected, output_scroll, dirty, quit, rows, n_lines, screen>>

\* on_resize
Resize ==
  /\ Reading
  /\ dirty' = TRUE
  /\ UNCHANGED <<vars, selected, output_scroll, quit, rows, n_lines, term_open, screen>>

\* on_redraw_timer
Redraw ==
  /\ at = "idle" /\ dirty /\ ~quit
  /\ rows' = Rows /\ screen' = View /\ dirty' = FALSE
  /\ UNCHANGED <<vars, selected, output_scroll, quit, n_lines, term_open>>

\* on_redraw_timer, when there is nothing to draw.
Ticks == at = "idle" /\ (~dirty \/ quit) /\ UNCHANGED panevars

\* The timer repeats from two_pane_init to two_pane_destroy, which main calls
\* (through yc_ui_free) after the container's run returned.
TimerActive == at \notin {"free", "freed"}

\* What keeps uv_run going.
LoopAlive == TimerActive \/ term_open \/ running # {}

TNext ==
  \/ JobDestroyed \/ JobEnded \/ OtherSteps
  \/ ScrollToEnd \/ Quit \/ TermEnds \/ Resize \/ Redraw \/ Ticks
  \/ \E d \in {1, -1} : MoveSelection(d)
  \/ \E d \in {Page, -Page, MaxJobLines} : ScrollOutput(d)
  \/ \E c \in Child :
       \/ JobLine(c) \/ JobDone(c)
       \/ \E P \in SUBSET Fd : JobStarted(c, P)

TSpec == TInit /\ [][TNext]_panevars

\* uv_run calls back whatever is due; the jobs end.
TFairness ==
  /\ WF_panevars(JobDestroyed \/ JobEnded \/ TrimmedStep) /\ SF_panevars(Redraw)
  /\ \A c \in Child : SF_panevars(JobDone(c)) /\ SF_panevars(ExitStep(c))

TFairSpec == TSpec /\ TFairness

-----------------------------------------------------------------------------
(* Properties                                                              *)

SelectedIsListed == \E c \in ToSet(Rows) : index[c] = selected

\* "Only the pane being looked at needs a repaint" (yc-ui-two-pane.c:483), and
\* the timer draws only what is dirty: whenever it finds nothing to do, the
\* screen shows the jobs as they are and all the output of the selected one,
\* as long as that one is still listed.
ScreenFresh ==
  at = "idle" /\ ~dirty /\ ~quit /\ SelectedIsListed => screen = View

\* "Selection is held as a job index rather than a row so that it stays on the
\* same job as rows come and go underneath it" (yc-ui-two-pane.c:92): until a
\* key moves it, or the job is no longer kept.
SelectionStays ==
  [][SelectedIsListed =>
       \/ \E d \in {1, -1} : MoveSelection(d)
       \/ SelectedJob(Rows)' = SelectedJob(Rows)
       \/ SelectedJob(Rows) \notin ToSet(Rows')]_panevars

\* "The job is about to be freed, so this is where its memory goes" (yc-ui.h:226):
\* when a scroll key comes (scroll_output), the rows it looks at are jobs that
\* were not freed since the rows were rebuilt.
NoFreedJobUsed == Reading /\ rows # <<>> => \A c \in RowsUsed : mem[c] = "live"

\* "The loop only unwinds once the terminal stops reading keys, so by the time
\* this runs the user has already quit" (yc-ui-two-pane.c:507): when the user has
\* quit and the jobs have ended, the loop unwinds.
QuitEnds == quit ~> ~LoopAlive

=============================================================================

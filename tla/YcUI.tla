-------------------------------- MODULE YcUI --------------------------------
(***************************************************************************)
(* The UI layer (yc-ui.c): it spawns jobs as children of a container,      *)
(* reads their output, reassembles lines, reports to one UI and to any     *)
(* number of recorders, and keeps finished jobs until they are destroyed.  *)
(*                                                                         *)
(* The container appears through what it promises: every action that       *)
(* concerns a child is also an action of ChildContract.  A job and its     *)
(* child share a name.  The UI's callbacks that can interfere with the     *)
(* layer's own bookkeeping (job_ended, and job_destroyed while the         *)
(* retained jobs are trimmed) are control points of `at'; what the UI does *)
(* in the others it can as well do when the layer is idle.                 *)
(***************************************************************************)
EXTENDS Naturals, FiniteSets, SequencesExt

CONSTANTS
  Child, Fd,        \* the jobs that may be spawned; the fds captured on pipes
  MaxChildren,      \* the container's limit
  Recorder,         \* the recorders attached before the first spawn
  WantsLines,       \* does the UI, or a recorder, have a job_line()?
  Cap,              \* the values the UI ever gives max_ended_jobs
  CapInCallback,    \* may it also set it in job_ended() and job_destroyed()?
  ReapInCallback,   \* may it reap in job_ended() the job that ended?
  MaxOutput,        \* bound: bytes a child writes to a pipe
  NoJob

ASSUME UIAssumption ==
  /\ IsFiniteSet(Child) /\ NoJob \notin Child /\ MaxChildren \in Nat \ {0}
  /\ Cap \subseteq Nat /\ Cap # {} /\ MaxOutput \in Nat
  /\ {WantsLines, CapInCallback, ReapInCallback} \subseteq BOOLEAN

\* What a child's bytes are to the line reassembly.
Byte == {"x", "\r", "\n"}

VARIABLES
  running, finished, refused, exited, held,  \* the container (ChildContract)
  \* The UI instance.
  at,              \* the step of ui_child_done or yc_ui_free that is next
  job,             \* the job that step is about
  jobs,            \* ui->jobs
  ended_jobs,      \* ui->ended_jobs
  max_ended_jobs,
  n_started, n_ended, n_failed,
  \* The jobs.
  mem,             \* the YcUIJob object: none, live or freed
  destroyed,       \* how often job_destroyed() was called
  index, status, ended_micros,
  recorder_data,
  pending,         \* per captured fd: the partial line
  \* The pipes, and what the UI was told.
  wrote,           \* the bytes the child wrote so far
  n_read,          \* how many of them were read
  hungup,          \* the pipes whose far end is closed
  eof,             \* the pipes we have called yc_child_fd_close for
  lines            \* the lines job_line() was told

contract == <<running, finished, refused, exited, held>>
tables   == <<jobs, ended_jobs, max_ended_jobs>>
counts   == <<n_started, n_ended, n_failed>>
records  == <<index, status, ended_micros, recorder_data>>
output   == <<pending, wrote, n_read, hungup, eof, lines>>
vars == <<running, finished, refused, exited, held, at, job, jobs, ended_jobs,
          max_ended_jobs, n_started, n_ended, n_failed, mem, destroyed, index, status,
          ended_micros, recorder_data, pending, wrote, n_read, hungup, eof, lines>>

Container == INSTANCE ChildContract

Init ==
  /\ Container!Init
  /\ at = "idle" /\ job = NoJob
  /\ jobs = <<>> /\ ended_jobs = <<>> /\ max_ended_jobs \in Cap
  /\ n_started = 0 /\ n_ended = 0 /\ n_failed = 0
  /\ mem = [c \in Child |-> "none"]
  /\ destroyed = [c \in Child |-> 0]
  /\ index = [c \in Child |-> 0]
  /\ status = [c \in Child |-> "ok"]
  /\ ended_micros = [c \in Child |-> 0]
  /\ recorder_data = [c \in Child |-> [r \in Recorder |-> "none"]]
  /\ pending = [c \in Child |-> [f \in Fd |-> <<>>]]
  /\ wrote = [c \in Child |-> [f \in Fd |-> <<>>]]
  /\ n_read = [c \in Child |-> [f \in Fd |-> 0]]
  /\ hungup = [c \in Child |-> {}]
  /\ eof = [c \in Child |-> {}]
  /\ lines = [c \in Child |-> [f \in Fd |-> <<>>]]

-----------------------------------------------------------------------------
(* Spawning                                                                *)

\* yc_ui_spawn, when yc_child_new succeeds: P are the captured fds that the
\* command line did not redirect, and no others are pipes.
Spawn(c, P) ==
  /\ at = "idle"
  /\ Container!Spawn(c, P)
  /\ mem' = [mem EXCEPT ![c] = "live"]
  /\ index' = [index EXCEPT ![c] = n_started]
  /\ n_started' = n_started + 1
  /\ jobs' = Append(jobs, c)
  /\ recorder_data' = [recorder_data EXCEPT ![c] = [r \in Recorder |-> "open"]]
  /\ UNCHANGED <<at, job, ended_jobs, max_ended_jobs, n_ended, n_failed, destroyed,
                 status, ended_micros, output>>

\* yc_ui_spawn, when it fails: the job is freed unseen, its index unused.
SpawnFails(c) ==
  /\ at = "idle"
  /\ Container!Refuse(c)
  /\ mem' = [mem EXCEPT ![c] = "freed"]
  /\ UNCHANGED <<at, job, tables, counts, destroyed, records, output>>

-----------------------------------------------------------------------------
(* Output                                                                  *)

\* emit_line: the CR of a CRLF goes too.
Strip(l) == IF l # <<>> /\ Last(l) = "\r" THEN Front(l) ELSE l

\* One byte of the scan: a newline completes the line.
ScanByte(acc, b) ==
  IF b = "\n" THEN [out |-> Append(acc.out, Strip(acc.left)), left |-> <<>>]
  ELSE [acc EXCEPT !.left = Append(@, b)]

\* Mutant: the partial line is forgotten.
Scan_NoPending(buf) ==
  LET scan[n \in 0 .. Len(buf)] ==
        IF n = 0 THEN [out |-> <<>>, left |-> <<>>] ELSE ScanByte(scan[n - 1], buf[n])
  IN  [scan[Len(buf)] EXCEPT !.left = <<>>]

\* The scan of deliver_lines over the pending buffer: the lines that are
\* complete, and what is left over.
Scan(buf) ==
  LET scan[n \in 0 .. Len(buf)] ==
        IF n = 0 THEN [out |-> <<>>, left |-> <<>>] ELSE ScanByte(scan[n - 1], buf[n])
  IN  scan[Len(buf)]

\* ui_child_io, when read() returns the next k bytes.
Read(c, f, k) ==
  /\ at = "idle" /\ f \in held[c] \ eof[c]
  /\ k \in 1 .. Len(wrote[c][f]) - n_read[c][f]
  /\ n_read' = [n_read EXCEPT ![c][f] = @ + k]
  /\ IF WantsLines
     THEN LET data == SubSeq(wrote[c][f], n_read[c][f] + 1, n_read[c][f] + k)
              scan == Scan(pending[c][f] \o data)
          IN  /\ lines' = [lines EXCEPT ![c][f] = @ \o scan.out]
              /\ pending' = [pending EXCEPT ![c][f] = scan.left]
     ELSE UNCHANGED <<lines, pending>>
  /\ UNCHANGED <<contract, at, job, tables, counts, mem, destroyed, records,
                 wrote, hungup, eof>>

\* ui_child_io, when read() returns 0: yc_child_fd_close.
ReadEnd(c, f) ==
  /\ at = "idle" /\ f \in held[c] \ eof[c]
  /\ f \in hungup[c] /\ n_read[c][f] = Len(wrote[c][f])
  /\ eof' = [eof EXCEPT ![c] = @ \cup {f}]
  /\ UNCHANGED <<contract, at, job, tables, counts, mem, destroyed, records,
                 pending, wrote, n_read, hungup, lines>>

\* The container closes the pipes it was told to close.
Closed(c, f) ==
  /\ at = "idle" /\ f \in eof[c]
  /\ Container!Close(c, f)
  /\ UNCHANGED <<at, job, tables, counts, mem, destroyed, records, output>>

-----------------------------------------------------------------------------
(* The end of a job                                                        *)

\* child_exit_cb; s is the status it records.
Exit(c, s) ==
  /\ at = "idle"
  /\ Container!Exit(c)
  /\ status' = [status EXCEPT ![c] = s]
  /\ UNCHANGED <<at, job, tables, counts, mem, destroyed, index, ended_micros,
                 recorder_data, output>>

\* Mutant: the last line replaces the others.
Flush_Replaces(c) ==
  /\ lines' = [lines EXCEPT ![c] = [f \in Fd |-> <<Strip(pending[c][f])>>]]
  /\ pending' = [pending EXCEPT ![c] = [f \in Fd |-> <<>>]]

\* flush_pending_lines
Flush(c) ==
  IF WantsLines
  THEN /\ lines' = [lines EXCEPT ![c] =
                      [f \in Fd |-> IF pending[c][f] = <<>> THEN @[f]
                                    ELSE Append(@[f], Strip(pending[c][f]))]]
       /\ pending' = [pending EXCEPT ![c] = [f \in Fd |-> <<>>]]
  ELSE UNCHANGED <<lines, pending>>

\* job_destroy
JobDestroy(c) ==
  /\ mem' = [mem EXCEPT ![c] = "freed"]
  /\ destroyed' = [destroyed EXCEPT ![c] = @ + 1]

\* Mutant: the last job leaves the table.
JobsRemove_Last(c) == Front(jobs)

\* jobs_remove: ordered removal.
JobsRemove(c) == RemoveFirst(jobs, c)

\* ui_child_done, called when the container is about to give up the slot of
\* c: the job moves across before the UI is told.
DoneStart(c) ==
  /\ at = "idle" /\ c \in running \cap exited /\ held[c] = {}
  /\ Flush(c)
  /\ ended_micros' = [ended_micros EXCEPT ![c] = n_ended]
  /\ n_ended' = n_ended + 1
  /\ n_failed' = IF status[c] = "ok" THEN n_failed ELSE n_failed + 1
  /\ jobs' = JobsRemove(c)
  /\ job' = c
  /\ IF max_ended_jobs > 0
     THEN ended_jobs' = Append(ended_jobs, c) /\ at' = "trim"
     ELSE at' = "job_ended" /\ UNCHANGED ended_jobs
  /\ UNCHANGED <<contract, max_ended_jobs, n_started, mem, destroyed, index, status,
                 recorder_data, wrote, n_read, hungup, eof>>

\* What job_destroyed() or job_ended() may leave in max_ended_jobs.
CapAfterCallback == IF CapInCallback THEN Cap ELSE {max_ended_jobs}

\* The loop condition of ended_jobs_trim.
TooMany == Len(ended_jobs) > max_ended_jobs

\* Mutant: the youngest job is evicted.
Trim_Youngest ==
  /\ at \in {"trim", "free"} /\ TooMany
  /\ JobDestroy(Last(ended_jobs))
  /\ ended_jobs' = Front(ended_jobs)
  /\ max_ended_jobs' \in CapAfterCallback
  /\ UNCHANGED <<contract, at, job, jobs, counts, records, output>>

\* One round of ended_jobs_trim.
Trim ==
  /\ at \in {"trim", "free"} /\ TooMany
  /\ JobDestroy(Head(ended_jobs))
  /\ ended_jobs' = Tail(ended_jobs)
  /\ max_ended_jobs' \in CapAfterCallback
  /\ UNCHANGED <<contract, at, job, jobs, counts, records, output>>

\* ended_jobs_trim returns to ui_child_done, which calls job_ended().
TrimReturn ==
  /\ at = "trim" /\ ~TooMany
  /\ at' = "job_ended"
  /\ UNCHANGED <<contract, job, tables, counts, mem, destroyed, records, output>>

\* ui_child_done from the return of job_ended(): the recorders let go of the
\* job, it is destroyed if it is not retained, and the slot becomes free.
DoneReturn ==
  /\ at = "job_ended" /\ Container!Done(job)
  /\ recorder_data' = [recorder_data EXCEPT ![job] = [r \in Recorder |-> "released"]]
  /\ max_ended_jobs' \in CapAfterCallback
  /\ IF max_ended_jobs' = 0 THEN JobDestroy(job) ELSE UNCHANGED <<mem, destroyed>>
  /\ at' = "idle" /\ job' = NoJob
  /\ UNCHANGED <<jobs, ended_jobs, counts, index, status, ended_micros, output>>

-----------------------------------------------------------------------------
(* What the UI does                                                        *)

\* yc_ui_reap_job, of a job in ui->ended_jobs.
Reap(c) ==
  /\ \/ at = "idle"
     \/ at = "job_ended" /\ (c # job \/ ReapInCallback)
  /\ \E i \in 1 .. Len(ended_jobs) : ended_jobs[i] = c
  /\ ended_jobs' = RemoveFirst(ended_jobs, c)
  /\ JobDestroy(c)
  /\ UNCHANGED <<contract, at, job, jobs, max_ended_jobs, counts, records, output>>

\* The UI changes its mind about how many finished jobs to keep.
SetCap(m) ==
  /\ at = "idle" /\ m \in Cap
  /\ max_ended_jobs' = m
  /\ UNCHANGED <<contract, at, job, jobs, ended_jobs, counts, mem, destroyed, records,
                 output>>

\* Mutant: the retained jobs are kept.
Free_KeepsCap ==
  /\ at = "idle" /\ running = {}
  /\ at' = "free"
  /\ UNCHANGED <<contract, job, tables, counts, mem, destroyed, records, output>>

\* yc_ui_free, up to ended_jobs_trim; the container's run has returned, so
\* no child is left.
Free ==
  /\ at = "idle" /\ running = {}
  /\ at' = "free"
  /\ max_ended_jobs' = 0
  /\ UNCHANGED <<contract, job, jobs, ended_jobs, counts, mem, destroyed, records, output>>

\* The rest of yc_ui_free.
FreeReturn ==
  /\ at = "free" /\ ~TooMany
  /\ at' = "freed"
  /\ UNCHANGED <<contract, job, tables, counts, mem, destroyed, records, output>>

-----------------------------------------------------------------------------
(* The children                                                            *)

ChildWrites(c, f, b) ==
  /\ c \in running /\ f \in held[c] \ hungup[c]
  /\ Len(wrote[c][f]) < MaxOutput
  /\ wrote' = [wrote EXCEPT ![c][f] = Append(@, b)]
  /\ UNCHANGED <<contract, at, job, tables, counts, mem, destroyed, records,
                 pending, n_read, hungup, eof, lines>>

ChildHangsUp(c, f) ==
  /\ c \in running /\ f \in held[c] \ hungup[c]
  /\ hungup' = [hungup EXCEPT ![c] = @ \cup {f}]
  /\ UNCHANGED <<contract, at, job, tables, counts, mem, destroyed, records,
                 pending, wrote, n_read, eof, lines>>

\* The program goes on without the UI.
Terminated == at = "freed" /\ UNCHANGED vars

\* What happens while jobs run, besides spawning them.
Work ==
  \/ Trim \/ TrimReturn \/ DoneReturn
  \/ \E m \in Cap : SetCap(m)
  \/ \E c \in Child :
       \/ DoneStart(c) \/ Reap(c)
       \/ \E s \in {"ok", "failed"} : Exit(c, s)
       \/ \E f \in Fd :
            \/ ReadEnd(c, f) \/ Closed(c, f) \/ ChildHangsUp(c, f)
            \/ \E k \in 1 .. MaxOutput : Read(c, f, k)
            \/ \E b \in Byte : ChildWrites(c, f, b)

Next ==
  \/ Work \/ Free \/ FreeReturn \/ Terminated
  \/ \E c \in Child :
       \/ SpawnFails(c)
       \/ \E P \in SUBSET Fd : Spawn(c, P)

Spec == Init /\ [][Next]_vars

(* Properties                                                              *)

Started == running \cup finished

\* The jobs whose end has begun to be reported: gone from ui->jobs.
Over == finished \cup ({job} \cap running)

TypeOK ==
  /\ at \in {"idle", "trim", "job_ended", "free", "freed"} /\ job \in Child \cup {NoJob}
  /\ jobs \in Seq(Child) /\ Len(jobs) <= MaxChildren
  /\ ended_jobs \in Seq(Child) /\ max_ended_jobs \in Cap \cup {0}
  /\ n_started \in Nat /\ n_ended \in 0 .. n_started /\ n_failed \in 0 .. n_ended
  /\ mem \in [Child -> {"none", "live", "freed"}]
  /\ destroyed \in [Child -> Nat]
  /\ index \in [Child -> Nat] /\ ended_micros \in [Child -> Nat]
  /\ status \in [Child -> {"ok", "failed"}]
  /\ recorder_data \in [Child -> [Recorder -> {"none", "open", "released"}]]
  /\ pending \in [Child -> [Fd -> Seq(Byte)]] /\ wrote \in [Child -> [Fd -> Seq(Byte)]]
  /\ n_read \in [Child -> [Fd -> 0 .. MaxOutput]]
  /\ hungup \in [Child -> SUBSET Fd] /\ eof \in [Child -> SUBSET Fd]
  /\ lines \in [Child -> [Fd -> Seq(Seq(Byte))]]

\* When a UI that keeps finished jobs is told that a job ended, that job is
\* the youngest of those that are kept, and they are no more than it asked for.
RetainedByCap ==
  at = "job_ended" /\ max_ended_jobs > 0 =>
    /\ Len(ended_jobs) <= max_ended_jobs
    /\ mem[job] = "live" => Last(ended_jobs) = job

\* The numbers main reports and exits with: jobs that failed to spawn leave no
\* gap in the indices, and exactly the jobs that failed are counted.
CountsOK ==
  /\ n_started = Cardinality(Started) /\ {index[c] : c \in Started} = 0 .. n_started - 1
  /\ n_ended = Cardinality(Over)
  /\ n_failed = Cardinality({c \in Over : status[c] # "ok"})

\* "One consistent world" (yc-ui.c:916): ui->jobs holds the jobs that run, in
\* the order they started, and ui->ended_jobs valid finished jobs, in the
\* order they ended; a job that is reported as ended is not in the former, and the
\* counts agree with both.
JobTables ==
  /\ TypeOK /\ RetainedByCap /\ CountsOK
  /\ ToSet(jobs) = running \ {job}
  /\ \A i, j \in DOMAIN jobs : i < j => index[jobs[i]] < index[jobs[j]]
  /\ \A i \in DOMAIN ended_jobs : ended_jobs[i] \in Over /\ mem[ended_jobs[i]] = "live"
  /\ \A i, j \in DOMAIN ended_jobs :
       i < j => ended_micros[ended_jobs[i]] < ended_micros[ended_jobs[j]]

\* job_destroyed() "fires exactly once per job, on every path" (yc-ui.h:228):
\* never twice, and not before the job is over, and when the UI is gone it
\* has fired for every job that was started and no recorder still holds one.
DestroyedOnce ==
  \A c \in Child :
    /\ destroyed[c] <= 1
    /\ c \notin Over => destroyed[c] = 0
    /\ at = "freed" /\ c \in Started =>
         destroyed[c] = 1 /\ \A r \in Recorder : recorder_data[c][r] = "released"

\* While the end of a job is being reported, first to the UI and then to the
\* recorders, "the job is still entirely valid" (yc-ui.h:224): ui_child_done
\* uses no job that was freed.
ValidWhenReported ==
  [][TrimReturn \/ (DoneReturn /\ (Recorder # {} \/ max_ended_jobs' = 0))
       => mem[job] = "live"]_vars

\* A stream as lines are meant to show it: every CR before a newline is gone.
Normal(s) ==
  FlattenSeq([i \in DOMAIN s |->
    IF s[i] = "\r" /\ i < Len(s) /\ s[i + 1] = "\n" THEN <<>> ELSE <<s[i]>>])

\* "A final line with no newline is still delivered."
Completed(s) == IF s = <<>> \/ Last(s) = "\n" THEN s ELSE Append(s, "\n")

Joined(ls) == FlattenSeq([i \in DOMAIN ls |-> Append(ls[i], "\n")])

\* However the reads cut the stream up, the lines told are the lines that were
\* read, and when the job is over those are all the child has written
\* (deliver_lines, flush_pending_lines, ui_child_io).
LinesExact ==
  WantsLines =>
    \A c \in Child, f \in Fd :
      /\ \A i \in DOMAIN lines[c][f] : "\n" \notin ToSet(lines[c][f][i])
      /\ IF c \in Over
         THEN Joined(lines[c][f]) = Normal(Completed(wrote[c][f]))
         ELSE Joined(lines[c][f]) \o pending[c][f]
                = Normal(SubSeq(wrote[c][f], 1, n_read[c][f]))

\* What the UI is promised about its jobs (JobReport).
Report == INSTANCE JobReport WITH
  Job   <- Child,
  stage <- [c \in Child |-> IF destroyed[c] > 0 THEN "destroyed"
                            ELSE IF c \in Over THEN "ended"
                            ELSE IF c \in running THEN "running" ELSE "none"],
  told  <- lines,
  number <- index

ReportSpec == Report!Spec

=============================================================================

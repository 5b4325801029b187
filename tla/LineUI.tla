-------------------------------- MODULE LineUI --------------------------------
(***************************************************************************)
(* The UIs `plain' and `prefix' (yc-ui-plain.c, yc-ui-prefix.c) with the   *)
(* recorder `jobs' beside them, on top of the UI layer.  Lines go to       *)
(* stdout, which stdio buffers; notes go to stderr, which it does not; the *)
(* reader sees both in one place.  The two UIs differ in how they tell     *)
(* lines and notes of different jobs apart, which is left out: an entry of *)
(* what is seen names its job and its fd.                                  *)
(*                                                                         *)
(* Neither UI keeps finished jobs.  The recorder ends the program when it  *)
(* cannot open, write or close a file.                                     *)
(***************************************************************************)
EXTENDS JobsRecorder

CONSTANTS
  MaxTotal,   \* bound: bytes that all jobs together write
  MaxPipes    \* bound: pipes that all jobs together have

ASSUME LineUIAssumption ==
  /\ WantsLines /\ Cap = {0} /\ ~CapInCallback
  /\ IsFiniteSet(Fd) /\ {MaxTotal, MaxPipes} \subseteq Nat

VARIABLES
  stdout,     \* what stdio still buffers of stdout
  seen,       \* what has reached the reader
  all_done,   \* all_done() was called
  died        \* yc_die() was called

display == <<stdout, seen>>
program == <<all_done, died>>
lvars   == <<vars, recorder, display, program>>

LineOf(c, f, l) == [kind |-> "line", job |-> c, fd |-> f, text |-> l]
NoteOf(c)       == [kind |-> "note", job |-> c]
Summary         == [kind |-> "summary", failed |-> n_failed, of |-> n_started]

LInit ==
  /\ Init /\ RecorderInit
  /\ stdout = <<>> /\ seen = <<>>
  /\ all_done = FALSE /\ died = FALSE

\* job_line, for the lines that the step tells of job c, a fd at a time.  stdio
\* keeps them until its buffer is full; on a terminal it keeps none.
PrintNew(c) ==
  LET new(f) == SubSeq(lines'[c][f], Len(lines[c][f]) + 1, Len(lines'[c][f]))
  IN  \E order \in SetToSeqs({f \in Fd : new(f) # <<>>}) :
        LET print(f) == [i \in DOMAIN new(f) |-> LineOf(c, f, new(f)[i])]
            out      == stdout \o FlattenSeq([k \in DOMAIN order |-> print(order[k])])
        IN  \/ stdout' = out /\ UNCHANGED seen
            \/ order # <<>> /\ seen' = seen \o out /\ stdout' = <<>>

\* Mutant: the note does not wait for the lines.
Complain_Overtakes(c) ==
  IF status[c] = "ok" THEN UNCHANGED display
  ELSE /\ seen' = Append(seen, NoteOf(c))
       /\ UNCHANGED stdout

\* job_ended: a note about a job that failed, after the lines it is about.
Complain(c) ==
  IF status[c] = "ok" THEN UNCHANGED display
  ELSE /\ seen' = Append(seen \o stdout, NoteOf(c))
       /\ stdout' = <<>>

-----------------------------------------------------------------------------
(* The steps of the UI layer, with the callbacks they make                 *)

TotalPipes == MapThenSumSet(LAMBDA c : Cardinality(held[c] \cup eof[c]), Child)

LSpawn(c, P) ==
  /\ TotalPipes + Cardinality(P) <= MaxPipes
  /\ Spawn(c, P) /\ RecordStart(c)
  /\ UNCHANGED <<display, program>>

\* ui_child_io: the recorder is given the bytes, then the UI its lines.
LRead(c, f, k) ==
  /\ Read(c, f, k)
  /\ RecordOutput(c, f, SubSeq(wrote[c][f], n_read[c][f] + 1, n_read[c][f] + k))
  /\ PrintNew(c)
  /\ UNCHANGED program

LDoneStart(c) ==
  /\ DoneStart(c) /\ PrintNew(c)
  /\ UNCHANGED <<recorder, program>>

LDoneReturn ==
  /\ DoneReturn /\ Complain(job) /\ RecordEnd(job)
  /\ UNCHANGED program

TotalWritten == MapThenSumSet(LAMBDA p : Len(wrote[p[1]][p[2]]), Child \X Fd)

LWrites(c, f, b) == TotalWritten < MaxTotal /\ ChildWrites(c, f, b)

\* The steps in which neither has a part.
LQuietly ==
  /\ \/ FreeReturn
     \/ \E c \in Child :
          \/ SpawnFails(c) \/ \E s \in {"ok", "failed"} : Exit(c, s)
          \/ \E f \in Fd : \/ ReadEnd(c, f) \/ Closed(c, f) \/ ChildHangsUp(c, f)
                           \/ \E b \in Byte : LWrites(c, f, b)
  /\ UNCHANGED <<recorder, display, program>>

\* yc_ui_all_done, when run returns: the summary if jobs failed, then where to
\* look for the recorded output.
AllDone ==
  /\ at = "idle" /\ running = {}
  /\ all_done' = TRUE /\ stdout' = <<>>
  /\ seen' = seen \o stdout \o (IF n_failed > 0 THEN <<Summary, [kind |-> "recorded"]>> ELSE <<>>)
  /\ UNCHANGED <<vars, recorder, died>>

LFree == Free /\ UNCHANGED <<recorder, display, program>>

\* The recorder calls yc_die; exit() flushes stdout too.
Dies(shown) ==
  /\ died' = TRUE /\ seen' = shown /\ stdout' = <<>>
  /\ RecorderDies
  /\ UNCHANGED all_done

\* It cannot open the first file of c.
LSpawnDies(c, P) ==
  /\ TotalPipes + Cardinality(P) <= MaxPipes
  /\ Spawn(c, P) /\ Dies(seen \o stdout)

\* It cannot open or write the file of a stream, some of whose bytes were just read
\* and are lost.
LReadDies(c, f) ==
  /\ at = "idle" /\ f \in held[c] \ eof[c] /\ n_read[c][f] < Len(wrote[c][f])
  /\ Dies(seen \o stdout)
  /\ UNCHANGED vars

\* It cannot close the files of a job, or write the last one: the UI was told first.
LEndDies ==
  /\ at = "job_ended"
  /\ Dies(IF status[job] = "ok" THEN seen \o stdout ELSE Append(seen \o stdout, NoteOf(job)))
  /\ UNCHANGED vars

LStopped == (died \/ at = "freed") /\ UNCHANGED lvars

LNext ==
  \/ LStopped
  \/ /\ ~died /\ ~all_done
     /\ \/ AllDone \/ LDoneReturn \/ LEndDies
        \/ \E c \in Child :
             \/ LDoneStart(c)
             \/ \E P \in SUBSET Fd : LSpawn(c, P) \/ LSpawnDies(c, P)
             \/ \E f \in Fd : LReadDies(c, f) \/ \E k \in 1 .. MaxOutput : LRead(c, f, k)
  \/ ~died /\ (all_done => running = {}) /\ LQuietly
  \/ ~died /\ all_done /\ LFree

LSpec == LInit /\ [][LNext]_lvars

(* Properties                                                              *)

\* What the lines of one stream say, in the order they are or will be seen.
TextOf(c, f) ==
  LET text(e) == IF e.kind = "line" /\ e.job = c /\ e.fd = f THEN <<e.text>> ELSE <<>>
      all     == seen \o stdout
  IN  FlattenSeq([i \in DOMAIN all |-> text(all[i])])

\* A note must not overtake "the output it is about" (plain_job_ended): each
\* line told is seen once and in order, a job's note comes after all its
\* lines, and the summary, with the right count, after everything.
NotesAfterLines ==
  /\ \A c \in Child, f \in Fd : TextOf(c, f) = lines[c][f]
  /\ \A i \in DOMAIN seen, c \in Child :
       seen[i] = NoteOf(c) =>
         \A e \in ToSet(SubSeq(seen, i + 1, Len(seen)) \o stdout) : e.kind = "line" => e.job # c
  /\ \A i \in DOMAIN seen :
       seen[i].kind = "summary" =>
         /\ i + 1 = Len(seen) /\ stdout = <<>>
         /\ seen[i].failed = Cardinality({c \in Started : NoteOf(c) \in ToSet(seen)})
===============================================================================

----------------------------- MODULE JobsRecorder -----------------------------
(***************************************************************************)
(* The recorder `jobs' (yc-recorder-jobs.c): per job, a file that says how *)
(* it began, one for each stream it wrote to, and one that says how it     *)
(* ended.  These are its callbacks, as operators on its own state; LineUI  *)
(* takes them together with the steps of the UI layer that call them.      *)
(*                                                                         *)
(* Files are written through stdio, so that bytes which were written are   *)
(* on the disk now or later, or never if that fails.                       *)
(***************************************************************************)
EXTENDS YcUI

VARIABLES
  stream,     \* record->stream: the fds whose file is open
  n_bytes,    \* record->n_bytes, per fd
  unflushed,  \* per fd, the bytes that stdio still buffers
  disk        \* per job, its files

recorder == <<stream, n_bytes, unflushed, disk>>

\* No file yet.
NoFiles ==
  [start |-> FALSE, created |-> {}, data |-> [f \in Fd |-> <<>>], end |-> FALSE]

RecorderInit ==
  /\ stream = [c \in Child |-> {}]
  /\ n_bytes = [c \in Child |-> [f \in Fd |-> 0]]
  /\ unflushed = [c \in Child |-> [f \in Fd |-> <<>>]]
  /\ disk = [c \in Child |-> NoFiles]

\* jobs_job_started, when its file can be opened.
RecordStart(c) ==
  /\ disk' = [disk EXCEPT ![c].start = TRUE]
  /\ UNCHANGED <<stream, n_bytes, unflushed>>

\* Mutant: the file is opened for every chunk, and so truncated.
Opened_EveryTime(c, f) == [disk[c] EXCEPT !.created = @ \cup {f}, !.data[f] = <<>>]

\* open_job_file, if the stream is not open yet.
Opened(c, f) ==
  IF f \in stream[c] THEN disk[c]
  ELSE [disk[c] EXCEPT !.created = @ \cup {f}, !.data[f] = <<>>]

\* jobs_job_output, when fwrite() takes all of data; stdio may keep it for later.
RecordOutput(c, f, data) ==
  /\ stream' = [stream EXCEPT ![c] = @ \cup {f}]
  /\ n_bytes' = [n_bytes EXCEPT ![c][f] = @ + Len(data)]
  /\ \/ /\ unflushed' = [unflushed EXCEPT ![c][f] = @ \o data]
        /\ disk' = [disk EXCEPT ![c] = Opened(c, f)]
     \/ /\ unflushed' = [unflushed EXCEPT ![c][f] = <<>>]
        /\ disk' = [disk EXCEPT ![c] =
                      [Opened(c, f) EXCEPT !.data[f] = @ \o unflushed[c][f] \o data]]

\* The files of c, with the bytes of the fds F on the disk.
Flushed(c, F) ==
  [disk[c] EXCEPT !.data = [f \in Fd |-> IF f \in F THEN @[f] \o unflushed[c][f] ELSE @[f]]]

\* jobs_job_ended, when its files can be closed and opened.
RecordEnd(c) ==
  /\ disk' = [disk EXCEPT ![c] = [Flushed(c, stream[c]) EXCEPT !.end = TRUE]]
  /\ stream' = [stream EXCEPT ![c] = {}]
  /\ unflushed' = [unflushed EXCEPT ![c] = [f \in Fd |-> <<>>]]
  /\ UNCHANGED n_bytes

\* yc_die, called because a file cannot be opened, written or closed: exit() flushes
\* the files that are open, as far as the disk allows.
RecorderDies ==
  /\ \E F \in [Child -> SUBSET Fd] : disk' = [c \in Child |-> Flushed(c, F[c])]
  /\ UNCHANGED <<stream, n_bytes, unflushed>>

\* "What lands on disk is byte-for-byte what the child produced" (jobs_job_output):
\* at any time each file holds the beginning of what was read, and when the
\* record of a job's end is there the files hold all the job wrote, the counts
\* say so, and a stream that was never written to has no file.
FilesExact ==
  \A c \in Child :
    /\ \A f \in Fd : IsPrefix(disk[c].data[f], SubSeq(wrote[c][f], 1, n_read[c][f]))
    /\ disk[c].end =>
         /\ disk[c].start /\ stream[c] = {}
         /\ disk[c].data = wrote[c]
         /\ n_bytes[c] = [f \in Fd |-> Len(wrote[c][f])]
         /\ disk[c].created = {f \in Fd : wrote[c][f] # <<>>}
===============================================================================

# A formal model of yapara

yapara reads command lines, one per line, runs them concurrently as child
processes on one libuv loop, and presents and records their output. This
directory models it in TLA+: modules that follow the C code function by
function, TLC configurations that check them on small instances, and TLAPS
proofs for every instance about the container of child processes, the UI layer,
the program, the UIs, the recorder and the line buffer.

Source paths below are relative to `src/`; all the code is in `src/src/`.

## 1. The system

| component | state it keeps | operations | talks to |
|---|---|---|---|
| child container (`yc-child.c`) | array of running children, retained finished children, one-shot idle handle; per child: libuv handles and their count, pipes, watched events, exit and done flags | `yc_child_container_new/run/destroy`, `yc_child_new`, `yc_child_fd_watch/close`, `yc_child_kill`; callbacks of libuv: idle, poll, process exit, handle closed | libuv below; its application above, through `ready_to_spawn`, `io`, `closed`, `done`, `all_done`, `destroy` |
| UI layer (`yc-ui.c`) | table of running jobs, table of retained finished jobs and its cap, counters; per job: index, status, partial line of each stream, one slot per recorder | `yc_ui_spawn`, `yc_ui_reap_job`, `yc_ui_free`, and the `io`/`done` callbacks it gives the container | one UI and any number of recorders, through `job_started/output/line/ended/destroyed` |
| program (`yapara-main.c`) | the input file, `done`, the settings | `create_child` at every offer of a slot; `main` | command line, shell parser, UI layer, container |
| plain, prefix and passthrough UIs | none of their own; stdout's buffer | the UI's callbacks | stdout, stderr |
| jobs recorder (`yc-recorder-jobs.c`) | two streams and two byte counts per job | `job_started/output/ended` | files under `--out-dir` |
| two-pane UI (`yc-ui-two-pane.c`) | selection, scroll, split, row list, redraw timer | key, resize and timer callbacks, the UI callbacks | terminal, UI layer's tables |
| circular line buffer (`yc-circular-buffer.c`) | ring of bytes, ring of line records | `add`, `get_line`, `get_stats` | the two-pane UI keeps one per job |
| terminal (`yc-term.c`) | two frames of rows, key decoder, raw mode and alternate screen | frame drawing, input, resize, stop, free | tty |
| shell parser (`yc-shell.c`) | none between calls; fields, assignments, redirections of the line | `yc_shell_parse` | environment; its result goes to `yc_child_new` |
| command line (`yc-cmdline.c`) | table of options, which of them were used | `yc_cmdline_try_process_args` | argv, the handlers of `main` |
| byte buffer (`yc-buffer.c`) | chains of fragments, a stack of recycled ones | append, read, discard, transfer, copy, search, reserve, write out | owners of foreign memory |
| red-black tree (`yc-rbtree-macros.h`) | a tree, with counts or without | insert, replace, remove, and the queries | its users' structs |
| `yc-alloc.c`, `yc-common.c` | none | wrappers | |

Everything runs on one thread. What makes the program hard is that three
parties move between any two callbacks: libuv dispatches ready events in any
order, the processes write, exit and let go of their pipes whenever they like
(and their descendants may hold the pipes longer), and each application
callback may call back into the container or the UI layer. The other half of
the difficulty is in sequential code with many cases: the parser, the tree, the
buffer, the terminal. `PROJECT.json` lists the hazards, each at its line.

What makes the components correct:

* container: a child is done exactly when its last handle is gone; nothing is
  freed twice, early, or never; a free slot is always offered; `run` returns
  when, and only when, all is done; `destroy` returns;
* UI layer: the two job tables agree with the life of each job; each job is
  destroyed once; the lines told are the bytes written, however `read()` cut
  them; a job ends after its output;
* program: exit status, indices, nothing left behind;
* UIs that print lines: no line is lost or overtaken by a note about its job;
  recorder: the files of a job are a prefix of its output, whole when it ends;
* two-pane: the selection stays on its job, the screen is not stale, quitting
  ends the run; line buffer: it shows the youngest lines, whole, and knows how
  many bytes they take;
* terminal: the screen shows the frame, keys are whole however they arrive, and
  the terminal is given back;
* parser: a line is run without a shell only if a shell would do the same;
  command line: what was written is what is set;
* byte buffer: a queue of bytes, whatever its fragments; tree: a set, balanced.

## 2. Modules

| module | models | abstract specification |
|---|---|---|
| `YcChild` | `yc-child.c`, with libuv and the processes as its environment | `ChildContract` |
| `YcUI` | the jobs and lines of `yc-ui.c`, on top of `ChildContract` | `JobReport` |
| `Yapara` | the job loop of `yapara-main.c`; EXTENDS `YcUI` | the README's promises, as properties |
| `JobsRecorder` | `yc-recorder-jobs.c`, as operators; EXTENDS `YcUI` | |
| `LineUI` | `yc-ui-plain.c` and `yc-ui-prefix.c` with the recorder beside them; EXTENDS `JobsRecorder` | `JobReport` |
| `TwoPane` | `yc-ui-two-pane.c`; EXTENDS `YcUI` | the properties |
| `CircularBuffer` | `yc-circular-buffer.c` | `LineQueue` |
| `TermText`, `TermKeys`, `Term` | `yc-term.c`: columns of text, keys, and the rest | `Shown`, `KeysOf` |
| `Shell` | `yc-shell.c`, and what becomes of its result in `yc_ui_spawn` and `yc_child_new` | `ShellReference` |
| `YcCmdline` | `yc-cmdline.c` and the handlers of `main` | what the words were meant to say (`Meant`) |
| `YcBuffer` | `yc-buffer.c` | `ByteQueue` |
| `RBNodes`, `RBTree` | `yc-rbtree-macros.h`: rotations and repairs; operations | a set of keys |
| `YcChildProofs` | theorems about `YcChild` | |
| `YcUIProofs` | theorems about `YcUI`: its tables and counts; its output and its report | |
| `YaparaProofs`, `UIProofs` | theorems about the program, and about `JobsRecorder`, `LineUI` and `TwoPane` | |
| `CircularBufferProofs`, `TermProofs`, `YcCmdlineProofs` | theorems about `CircularBuffer`, `Term` and `YcCmdline` | |
| `SequenceFacts` | induction over sets of numbers and sequences, and what `FlattenSeq` yields | |
| `MC_...` | constants, symmetry and views for TLC | |

The chain of abstraction is: `YcChild` implements `ChildContract` (checked and
proved); `YcUI` takes every step that concerns a child as a step of
`ChildContract`, so it does not depend on the container's bookkeeping;
`Yapara`, `LineUI` and `TwoPane` put the program and the UIs on top of `YcUI` by
conjoining its actions with what the callbacks do. `Yapara` relies on two more
facts about `YcChild`: free slots are offered (`NoLostSlot`) and `run` returns
only when all is done (`RunUntilEveryChildDone`). The other modules stand alone.

### YcChild

One action per callback or public function. A function that calls the
application is split at the call: `ctl` holds which callback is running, and
the `...Return` action is the rest of the function. So `child_check_done` is
`CloseCb` (count down, test, call `done()`) and `DoneReturn` (swap-remove,
retain, signal); in between, while `ctl.at = "done"`, the application may spawn,
close, watch or kill. `container_ready_idle_cb` is `OfferStart`/`OfferReturn`,
`child_fd_poll_cb` is `PollEvent`/`IoReturn`, `run` is `Run`/`RunReturn`, and
`destroy` is `Destroy`/`DestroyReturn` with the loop's events in between.

* `mem` is the C object: `none` before `yc_child_new`, then `live`, then
  `retained` or `freed`. A child that is freed keeps no handle, which is what
  `NoHandleOutlivesChild` says.
* `LiveHandles(c)` is libuv's side: open poll handles, closing handles, and the
  process handle until its exit callback. `n_uv_handles` is the code's own
  count of them; that the two agree (`HandleCount`) is part of the invariant.
* `closing` is the set of handles passed to `uv_close` whose callback is due.
* `far` and `unread` are the other end of each pipe and the data in it.
* `PollEvents` and `LoopAlive` are libuv's: a disconnect may be reported with
  or without readable data, and a poll handle that watches nothing does not
  keep the loop alive. `PollError` is an error instead of events: a pipe we write
  reports one when nobody reads it, and a socketpair may when its far end was closed
  with input unread.

The application is as free as `yc-child.h` allows, with two switches.
`Pauses = FALSE`: it never stops watching an open pipe, goes on reading the
readable ones, and its `io()` makes the read it was called for. `Greedy`:
`ready_to_spawn()` spawns as long as there is work, which is what
`create_child` does.

How a pipe or file is opened before the spawn (`child_fd_init`) is abstracted to
the set of fds that become pipes; `resolve_dup_fds` is in `Shell`. Each member of
`Child` is one call of `yc_child_new`. A container whose `ready_to_spawn` is NULL
is not modelled, except in `destroy`.

### YcUI

`ui_child_done` is `DoneStart`, `Trim`, `TrimReturn`, `DoneReturn`: the rounds of
`ended_jobs_trim` and the call of `job_ended()` are points where the UI can
change `max_ended_jobs` (`CapInCallback`) or reap (`Reap`, and with
`ReapInCallback` the very job that ended). `ui_child_io` is `Read` and
`ReadEnd`. A byte is a newline, a CR or another byte. `wrote` is what the child
wrote, `n_read` how much of it was read, and `lines` what `job_line()` was told;
`ended_micros` counts ends instead of microseconds. A `read()` that fails for
another reason than EAGAIN or EINTR, which also closes the pipe, is left out:
nothing about the output could then be promised.

`Spawn` covers `yc_ui_spawn`'s choice of fds: any subset of the captured fds is
on a pipe, the others were redirected by the command line.

`JobReport` is what a UI is promised: a job starts, under a number of its own;
its lines are told while it runs and not after its end; it ends; it is destroyed,
once. `JobTables` puts together what must hold of the layer's own state: types,
the two arrays (who is in them, in which order), the cap (`RetainedByCap`) and the
numbers (`CountsOK`).

### Yapara

`input` is any sequence of lines, each blank, a command or an error. An offer
reads up to the next line that is not blank. `Die` is `yc_die` while jobs may be
running. `offer` is the container's idle handle as far as the program can see it:
pending, being made (`OfferStart`), or neither; a slot that becomes free signals it
(`UIWorks`), and an offer that is not taken ends the offers. `RunReturn` is `uv_run`
returning because nothing in the loop is active: no offer is pending, no job is left
and the UI has no handle of its own (`UIKeepsLoop`, which is true of the two-pane UI
only). It takes the exit status and enters `yc_ui_free`; `Exits` is the container's
destroy, with no child left, and the return of `main`.

### JobsRecorder and LineUI

The recorder's callbacks are operators that `LineUI` conjoins with the step of
`YcUI` that makes them: `LSpawn`, `LRead`, `LDoneStart`, `LDoneReturn`. In
`ui_child_io` the recorder gets the bytes before the UI gets its lines; in
`ui_child_done` the UI is told of the end before the recorder. `unflushed` is
what stdio holds of a file, and may reach `disk` at any write. If a file cannot be opened,
written or closed the recorder ends the program (`died`), and `exit()` flushes
what it can.

`stdout` is what stdio buffers of the lines, `seen` what has reached the reader,
where lines and notes (on stderr, unbuffered) meet. The plain and prefix UIs
differ in the text around a line, which is left out, and so are colours.

### TwoPane

The callbacks of the UI are conjoined with the steps of `YcUI` that make them:
`JobStarted` is `Spawn`, `JobDone` is `DoneStart` (which tells the last line),
`JobDestroyed` is `Trim`, `JobEnded` is `DoneReturn`. Keys, the window's signal
and the redraw timer come between two of them. The actions of `YcUI` that belong
to another UI (`Reap`, `SetCap`) and `Free` are no steps here.

`rows` are the jobs that were listed when `rebuild_rows` last ran, and may name
freed ones; `screen` is what the last redraw showed, `View` what a redraw would
show now. A line is counted and may drive others out of the job's buffer; the
text of the lines is the subject of `YcUI` and `CircularBuffer`. When
`scroll_output` looks at a freed job the scroll may become anything, or the
key may be ignored. The heights of the two panes are left out (`[` and `]` do
what `Resize` does), and so are keys that arrive in the same read as a `q`.

### CircularBuffer

`yc_circular_buffer_add` is `AddStart` (truncation), `Evict` (one round of its
loop) and `AddFinish`. Bytes are `initial` or `continuation`, as
`is_utf8_initial_char` tells them apart. The refinement shows `get_line` of
every age and the occupancy of `get_stats` as the queue of `LineQueue`, so that a
record, a length or a wrap that goes wrong shows as a line that was not added, or
was dropped too early. A line may be as long as the ring, which the code permits:
`start = end` is then empty or full. `MinLength` says whether lines without a byte are
added; the run has two clients instead (`MC_CircularBuffer`), of which one adds no line
that fills the ring and the other no empty one, since the two together go wrong
(section 3). `LineToDrop` is the assertion of the loop, which keeps it from spinning.

### TermText, TermKeys, Term

`TermText` has `utf8_decode` and the column tables of `codepoint_width`, whole and
with numbers for bytes. `TermKeys` is `decode_one` and `yc_term_feed_input`.
`Term` is the object: `BeginFrame`, `RowBegin`, `RowPuts`, `RowAttr`, `RowPad`,
`RowEnd` draw into `back`; `EndFrame` sends the rows that differ from `front`, and
its parameter is where a failing write stops. `tty`, `screen`, `raw` and `alt` are
the terminal's own: a resize (`SizeChanges`) may leave anything on its screen, and
is noticed later (`OnWinch`), when its size may have changed again or be
unknown. `New` fails at each of its steps in turn (`NewFails`). A row is the
sequence of items sent for it; a terminal shows them as they are.

### ShellReference and Shell

`Shell` is `yc_shell_parse` character by character: one step is a round of
`parse_line` (a word, an assignment or a redirection), and the last ones are what
is made of the result: `check_dup_order`, the fallback to `sh -c`, the fds
`yc_ui_spawn` captures, and `resolve_dup_fds`. `ShellReference` says in phases what
POSIX says of a simple command: tokens, expansions, redirections one after the
other. The two were written apart, from the code and from the shell's grammar, and
share only classes of characters. There is one variable, `V`, whose value may hold
blanks or characters of patterns; letters stand for themselves by class, and `" "` is any
blank. A shell expands a word to fields and then looks for files that match those with
an unquoted `*`, `?` or `[`. Which files there are is not modelled: `Globbed` are the lines with such a field in an
argument. `DirectIsShells` excepts them, and `PatternsLeftToShell` says that none of
them is run without a shell, which fails (section 3). What a shell would refuse to parse is
`Broken`; what it would run as more than a simple command is `Complex`; `Agreed`
leaves out the lines on which the two are known to differ (section 3).

### YcCmdline

A word is not spelled out but classed: an option with two dashes and maybe `=value`,
letters behind one dash, a lone dash, a text. A step is a round of the loop of
`yc_cmdline_try_process_args`; the handlers (`uint`, `string`, callbacks of `main`)
act on `settings`; then come the checks for required and exclusive options.
Values are converted by constants (`NumberOf`, `ColorOf`, `PairOf`). `Lines` are what
a user means, as sequences of items, and `Meant` folds the items into settings, from
which the code's outcome is told right or wrong. `CmdlineAssumption` says that the items
of a line are told apart as its words are: an item is an option in one of its forms
(`IsOption`), a word that is part of none (`IsWord`) or, at the end, an option that
lacks its value (`IsCutShort`). The letter alone of an option whose value is optional is
an item too (`LoneLetter`), as the README has it, although the code refuses it; and a
number is right only if the option can be set to it (`Fits`), although the code cuts it.
`Regular` are the lines that have neither. `Meant` folds the items with the handlers of
the code, so that what a handler makes of a single value is tested by `Fits` alone. The modes of the parser (unknown
options permitted, extra words permitted, words swallowed) are those it can be
initialised with; an `argument_handler`, which yapara never sets, is left out.

### YcBuffer and ByteQueue

`m` is the memory: the fragments (`heap`), each buffer's chain, the recycling stack and
what was lent by and given back to owners of foreign memory. Each operation is an
operator from memory to memory and an action that calls it; nothing runs between its
steps. `ByteQueue` is a sequence of bytes per buffer, a `hole` that was reserved, and
what each call returned, so that the refinement also checks the answers.

### RBNodes and RBTree

A node is its key. An operation is its first step and then one step per round of
its repair loop, so that what must hold in the middle of a repair is stated too.
`RBNodes` holds the rotations, with `side` for the macros that are written twice with
left and right exchanged, and the rounds; `RBTree` the operations of the plain and the
counted tree. The queries are functions of the tree and checked in every state.

## 3. Runs

| run | expects | checks | what it shows |
|---|---|---|---|
| `slots` | pass | `IInv`, `NoHandleOutlivesChild`, `DoneWithLastHandle`, `NoLostSlot`, `LoopAliveWhileChildren`, `RunUntilEveryChildDone`, `ContractSpec` | 3 children, 2 slots, 1 retained: slots are reused, a child is moved by the swap-remove, a retained child is evicted, the container is full |
| `life` | pass | `HangupLosesNothing`, `RunTerminates`, `DestroyTerminates` | a write pipe and a socketpair on each of 2 children, 1 slot (`max_children` 0), nothing retained: hangups, and liveness of `run` and of `destroy` |
| `program` | pass | `ExitStatusTrue`, `JobTables`, `DestroyedOnce`, `ValidWhenReported`, `Ends` | every input of up to 3 lines, 2 jobs at a time, caps 0 to 2 that change while jobs run, reaping, a recorder |
| `shown` | pass | `LinesExact`, `NotesAfterLines`, `FilesExact`, `ReportSpec` | 2 jobs one after the other, up to 3 bytes on 2 pipes, cut in every way, stdio flushing when it likes, files that fail |
| `queue` | pass | `QueueSpec`, `LineToDrop` | a ring of 3 bytes and 3 records, texts of up to 4 bytes, cut to 3; a client that adds no line as long as the ring, or no empty one |
| `panes` | pass | `ScreenFresh`, `SelectionStays` | 2 jobs at once, none, one or two kept; every key, resize and redraw between the callbacks |
| `quit` | violation | `QuitEnds` | the finding |
| `term` | pass | `ScreenShowsFrame`, `Clipped`, `KeysWhole`, `Restored` | texts of up to 3 bytes and longer ones, in rows of 1 and 3 columns; two frames with resizes and failing writes; 4 to 6 bytes of keys, cut in every way |
| `shell` | pass | `DirectIsShells`, `DescriptorsAreShells` | every line of 3 characters, of 5 that are about quoting or redirections, of up to 3 redirections, of 3 words that are assignments, vanish, split or are quoted; 5 values of `V`, with blanks, empty, unset and a pattern |
| `tree` | pass | `RedBlack`, `QueriesRight`, `ActsAsSet`, `RepairsClimb` | every tree that calls lead to, of up to 5 nodes at a time from a set of 9, plain and counted |
| `bytes` | pass | `FragmentsOK`, `OwnersToldOnce`, `LooksRight`, `ByteQueueSpec` | 2 buffers, fragments of 2 bytes, up to 3 bytes before an append of up to 4, one place in the recycling bin, one foreign owner |
| `options` | pass | `Understood`, `Remains`, `AcceptedIfRight` | command lines of up to 3 items, in every form an option has, in 3 modes of the parser |

Some properties have parts that a reader should know of: `IInv` contains the types
and the consistency of both arrays (`TypeOK`, `IndexOK`, `RetainedOK`);
`JobTables` contains `TypeOK`, `RetainedByCap` and `CountsOK`; `DestroyedOnce` also
says that no recorder is left with a job's data; `ExitStatusTrue` also that the
index of a job is its rank among the commands; `RedBlack` contains `SearchTree`
and `QueriesRight` contains `CountsRight`, both also in the middle of a repair;
`KeysWhole` also bounds what the decoder holds back; `DirectIsShells` contains
`NothingDropped`.

### Bounds

All of them are constants, set in the `.cfg` files: `PipeSize` (units a pipe
buffers), `MaxOutput` (bytes a child writes), `MaxTotal` and `MaxPipes` (bytes and
pipes of all jobs together, in `LineUI`), `MaxLines` of `Yapara` (lines of the
input), `MaxText` (bytes of a text added to a ring), `MaxJobLines` (lines a job's
buffer holds), `MaxHeight` and `Sessions` of `Term` (rows; what a client, a user and
the terminal may do), `Lines` and `Values` of `Shell` and `Lines` and `Modes` of
`YcCmdline`, `Keys` of `RBTree`, `MaxSize` and `Texts` of `YcBuffer`; the sets
`Child`, `Fd` and `Fragment` bound the rest. `MaxFd`, `MaxName`, `MaxPending`,
`MAX_RECYCLED`, `BUF_CHUNK_SIZE`, `MAX_FRAGMENTS_TO_WRITE` and `MAX_RECORDERS` are
constants of the code; `BUF_CHUNK_SIZE` stands for the bytes of a native fragment as
well as for the size from which memory is not taken from the recycled ones, and
`MaxPending` is `MAX_PENDING`, the bytes of a key that are held back. All but `MaxFd`
and `MaxName` are smaller here than in the code, so that they are reached.

They are enough for each mechanism to act. Three children over two slots make
the swap-remove move a child and the retained array overflow; one unit is what
tells a pipe with data from one without; three bytes hold a CR, its LF and one
byte before, between or after them, and every position of a cut. A ring of
three bytes with lines of up to three wraps at each position, a line fills it from each,
and three records make both limits bite and leave room for empty lines beside others. Two jobs are enough for a row to move from the running
to the finished ones, past another, and for a listed job to be evicted. Three
columns hold a wide character next to a narrow one, and cut one. Five nodes
are enough for every case of the repairs after an insertion and after a removal,
with a sibling that is red, with either nephew, and with a loop that goes up. Fragments
of two bytes under texts of up to four make every operation cross a border.
Three redirections are enough for a copy of a copy. Three items hold an option, a
value in the next word, and what is to be read after it.

Symmetry of `Child` is used in `slots`, `panes` and `shown` (there of `Fd` too), whose
properties have no liveness (`ContractSpec` and `ReportSpec` are safety
specifications) and name no child. `bytes` uses a VIEW (`Seen` in `MC_YcBuffer`): two
states with the same chains of the same contents, under other names of fragments or
with the buffers exchanged, go on alike. The action property `ByteQueueSpec` is
still checked on every step that is taken.

Deadlock is checked wherever the program goes on or stutters when it has
terminated; in particular `destroy` never waits for something that cannot come. It
is not checked in `term`, `shell` and `options`: there a behaviour ends when the
session is over, the line is parsed or the words are read.

### Fairness

`FairSpec` of `YcChild`: `uv_run` dispatches every ready event in each
iteration, hence a callback that is due again and again runs (strong fairness:
another callback, or the application between two events, may come first and
disable it for a while); callbacks return. `epoll` is level-triggered, so a pipe
with data or a closed far end is reported as long as it is watched. The world is
fair only while the container runs: every process exits and every far end is let
go of. After `destroy` was called only processes that were killed exit, and
nobody has to let go of a pipe, which is why `DestroyTerminates` says something.
`run` terminating needs the world's fairness: a job that never ends keeps yapara
running, as it should.

`Yapara`: a pending offer is made (the idle handle), the loop is fair as above, jobs
end, and `uv_run` returns when no handle is active, which `RunReturn` asks for in its guard.
Whether that comes about is what `Ends` says: the offers must stop at the end of the
input and not before. The plain, prefix and passthrough UIs have no handle of their own and
keep no finished job, and `Ends` is about behaviours of such (`max_ended_jobs` is 0). The
two-pane UI keeps jobs and has handles (`UIKeepsLoop`): `run` does not return for it, which
is the finding. `TwoPane`, in `quit`: the loop is
fair and the jobs end; the user need not do anything.
For the tree `RepairsClimb` is a measure in place of fairness: a repair is a loop in a
single call, and each round brings it nearer to the top.

### Finding

`quit`: the redraw timer is active until `two_pane_destroy`, which is called
when `run` has returned, which waits for the timer (`yc-ui-two-pane.c:450`):
after the user has quit the program goes on for ever.

### Other disagreements

Seen while modelling, and without a run. Those of the first list are counterexamples
that TLC gives when a constant of a configuration, or the property, is changed.

* `DestroyedOnce` in `program` with `CapInCallback = TRUE`: `max_ended_jobs` is read on
  both sides of `job_ended()` (`yc-ui.c:923` and `949`). A UI that sets it to 0 there
  has the job destroyed twice, one that raises it from 0 never.
* `ValidWhenReported` in `program` with `ReapInCallback = TRUE`: `yc_ui_reap_job` is
  documented as valid for a job in `ended_jobs`, and a job is there in its own
  `job_ended()`; the loop over the recorders that follows uses it.
* `NoFreedJobUsed` of `TwoPane` in `panes`: a scroll key that comes after a listed job
  was evicted and before the next redraw makes `scroll_output` look at freed memory
  (`yc-ui-two-pane.c:327`); `move_selection` rebuilds the rows first.
* `RunUntilEveryChildDone` with `Pauses = TRUE`: `yc-child.h:216` says `run` goes
  on until every child is done; it goes on while a libuv handle is active. An
  application that stops watching a pipe (as the header advises once there is
  nothing to write) and waits for the child to exit gets `run` back with the
  child neither done nor freed. yapara itself never stops watching (theorem
  `RunDoesNotReturnEarly`).
* `HangupLosesNothing` with `Pauses = TRUE`: the comment at `yc-child.c:223`
  reasons about an fd that is write-only; the test is whether it is watched for
  reading at the moment. A socketpair watched only for writing loses what the
  child wrote.
* `OnlyLoneFillsRing` of `CircularBuffer` in `queue`, with `SPECIFICATION MixedSpec`: the comment at
  `yc-circular-buffer.c:182` says that only a lone line can start where it ends without
  being empty. An empty line that follows one which fills the ring evicts nothing, and
  the full one, no longer alone, is shown as empty (line 184, and 102 when it is
  dropped). The ring is as small as a line with `--ui-option=buffer-size=1024`.
* `PatternsLeftToShell` of `Shell`, with `Lines <- Patterns` and `Values <- Globs`:
  `yc-shell.h:15` says that glob characters are not guessed at, and `README.md:103` that an
  unquoted `$VAR` is what `sh` makes of it. The characters of a value are not looked at
  (`yc-shell.c:475`): with `V='V *'` the line `V $V` is run with a `*` for an argument,
  where a shell gives files.
* `AcceptedIfRight` in `options` with `Lines <- LoneLines`: `-c` without a value
  (`README.md:71`, `yapara-main.c:145`) is refused, or takes the next word: letters ignore
  that a value is optional (`yc-cmdline.c:806`).
* `AcceptedIfRight` in `options` with `Lines <- RangeLines`: `--max=N` runs N jobs at once
  (`README.md:67`), but N is cut modulo 2^32 (`yc-cmdline.c:246`), so that 4294967297 runs
  one.
* `SyntaxIsBroken` of `Shell`, with `Lines <- Few` and `Values <- NoValues`:
  `yc-shell.h:41` says that SYNTAX is a line that is broken for any shell, but
  `cmd 2>&1|tee` is given SYNTAX (`yc-shell.c:617`), and `yapara-main.c` dies of it
  instead of handing the line to `sh -c`.
* `ScreenShowsFrame` with `Bounce = TRUE`: a terminal that returned to its old size
  before the resize is noticed may show anything, and `set_size` returns early
  (`yc-term.c:137`), although its comment (line 142) promises a full repaint.
* `ScreenShowsFrame` with `EveryRow = FALSE`: a resize forgets what is on the screen
  by emptying `front` (`yc-term.c:128`), and a row that is left empty in the next frame
  is taken for drawn.
* `ByteQueueSpec` with `ExactFit = TRUE`: a text that fills the rest of a fragment
  exactly loses its last byte to the NUL of `vsnprintf` (`yc-buffer.c:1228`). The branch that formats a text into
  memory of its own and then copies it (1251-1255) is not reached by the texts of `bytes`.

The others follow from the code alone.

Container and UI layer:

* A negative status closes a pipe at once (`yc-child.c:201`): what the child wrote to a
  socketpair and we have not read is dropped, which the comment on hangups (line 223)
  wants to avoid. `HangupLosesNothing` is about hangups only.
* `max_ended_jobs` lowered to 0 in the middle of a run does not drop the jobs
  that are already kept, since `ui_child_done` trims only if it is positive
  (`yc-ui.c:923`, against `yc-ui.c:713` and `yc-ui.h:259`).
* The comment at `yc-ui.h:25` wants what a job points at released in
  `job_ended()`, the one at `yc-ui.h:221` in `job_destroyed()`; the code and the
  UIs follow the latter.

UIs and recorder:

* `ScreenFresh` says nothing once the selected job was evicted: the first row is
  then shown, but its lines do not mark the screen dirty
  (`yc-ui-two-pane.c:484`), and the scroll is still the other job's.
* A `buffer-size` below 1024 with the default line length fails an assertion
  (`yc-ui-two-pane.c:424`), and a line's start has 31 bits where the size has 32
  (`yc-circular-buffer.c:9`); positions are unbounded in the model.
* The writes and the close of the `.json` files of the recorder are not looked at,
  against the comment at `yc-recorder-jobs.c:95`; neither are writes to stdout. A path
  longer than 1024 bytes is cut. File names sort like the indices only up to
  `index-width` digits. Elapsed times wrap when the clock steps back
  (`yc-recorder-jobs.c:205`). Output that only a recorder wants is not shown by
  `--ui=passthrough`.

Terminal:

* `utf8_decode` takes `F4 90 80 80`, beyond the last codepoint, and the C1 controls pass.
* A combining mark after a row that is exactly full is dropped.
* `ESC [ 1 ; 5 C` is not taken for a key: `5` and `C` come out of it. Characters of
  several bytes come out byte by byte.
* After a failed write `front` claims rows that were not drawn; `ScreenShowsFrame`
  promises nothing until the next resize.
* `yc_die` does not give the terminal back, and the handles of a terminal are freed
  before the loop has closed them.

Shell parser:

* The lines that `Broken` and `LateAssignment` set aside: `>#x`, `>>&1` and `<1<V` are
  run here and refused by a shell; `$EMPTY V=V cmd` has its assignment after a word that expands to nothing, where a shell
  takes `V=V` for the command. Lines with words that vanish otherwise are compared.
* Of `>a >b` only `b` is created, where a shell creates both.

Command line:

* `--max` accepts negative numbers, which `yc_ui_options_get_uint` refuses.
  `handle_double` stores into an int.
* A lone `--` is a bad option. Where unknown options are permitted `--help` is one.

Byte buffer:

* A placeholder's fragment may be recycled once the bytes before it are read
  (`yc-buffer.c:1671`): the clients of the model fill it in before.
* `yc_buffer_clear` leaves `first_frag` and `size` as they were, though the comment at
  line 714 allows reuse. `maybe_remove_empty_fragment` clears `last_frag` while the
  first one is still there.
* `fragment_n_str` does not reset its index between fragments (1093),
  `init_char_map` and `str_index_of` go wrong for bytes of 128 and above, and the
  polystr search may look past the end. `fragment_read` is declared and never defined, as is
  `yc_cmdline_begin_mode`.

Red-black tree: `YC_RBTREE_INSERT_AT` (line 117) passes on an undeclared `is_right`,
and `YC_RBCTREE_LOOKUP_COMPARATOR_` (950) has wrong arguments; nobody uses them.

## 4. Proofs

`tlapm` checks these theorems for every value of the constants.

About `YcChild`, for every set of children and fds (`NameAssumption`: the fds are
finitely many, and the names are distinct), all limits (`LimitAssumption`) and every
application (`ApplicationAssumption`):

* `InductiveInvariant` and its consequences `TypeCorrect`, `ArrayConsistent`,
  `RetainedConsistent`, `HandlesAreGoneFirst`, `DoneOnTime`, `LoopIsAlive`. The runs
  check the second to the fourth as parts of `IInv`;
* `SlotsAreOffered`; for an application that does not pause, `RunDoesNotReturnEarly`
  and `HangupIsSafe`;
* `ContainerImplementsContract`, the refinement of `ChildContract`.

About the UI layer and what is on top of it (`UIAssumption`, and `LineAssumption` of
`Yapara`, `LineUIAssumption` of `LineUI`), for every number of jobs, pipes and recorders,
every limit and cap, every input, every byte written and every cut of `read()`. Those
marked * are for a UI that does not set `max_ended_jobs` in the callbacks of
`ui_child_done` (`~CapInCallback`; section 3 says what happens otherwise, and no UI of
the repository does):

* `YcUIProofs`: `LifeAlways`*, the inductive invariant, and from it
  `JobsDestroyedOnce`* (`DestroyedOnce`), `JobsRetainedByCap`*, `CountsTrue` and, if
  moreover the UI does not reap the job whose end it is told (`~ReapInCallback`),
  `JobsValidWhenReported`*; `OutputAlways`, the inductive invariant of the output;
  `LinesAlwaysExact`; `TablesAlwaysRight`* (`JobTables`); `ReportsAsPromised`*, the
  refinement of `JobReport`;
* `YaparaProofs`: `ExitStatusAlwaysTrue`*;
* `UIProofs`: `FilesAlwaysExact`, whatever the failures of the recorder;
  `NotesAlwaysAfterLines`, with `LineUIAssumption` (the plain and prefix UIs take the
  lines, keep no job and, which is `~CapInCallback`, leave the cap alone);
  `PaneAlways`*, `ScreenAlwaysFresh`* and `SelectionAlwaysStays`* about the two panes.

About `CircularBuffer` (`SizeAssumption`, which is the check of
`yc-circular-buffer.c:31`), for every ring, also one that is as large as the longest line,
every limit on lines and every text: `RingCorrect`, the inductive invariant, and
`AlwaysLineToDrop` (`LineToDrop`); and `RingShowsQueue`, the refinement of `LineQueue`, unless
lines that fill the ring meet lines without a byte (`Unambiguous`: the ring is larger, or
no line is empty; `OnlyLoneFillsRing` fails otherwise, section 3).

About `Term` (`KeysAssumption`, `TermAssumption`), for every size, every program that
draws, every write that fails and every stream of bytes:

* `KeysAlwaysWhole` (an ESC and the byte after it have to fit in `MAX_PENDING`; it is 32)
  and `AlwaysRestored`;
* `AlwaysClipped`, for every text of bytes, ill-formed or not, that has no codepoint beyond
  the last one encoded in it (`UnicodeTexts`: section 3 has what `utf8_decode` does with
  such);
* `AlwaysShown` (`ScreenShowsFrame`), for the same texts, a client that ends every row of
  a frame (`EveryRow`) and a terminal that does not return to its old size before
  that is noticed (`~Bounce`); section 3 says what happens otherwise.

About `YcCmdline` (`CmdlineAssumption`), for every table of options with the functions
that are modelled, every set of exclusions, lines of any length and every mode of the
parser: `CmdlineAlways`, the inductive invariant, and from it `AlwaysUnderstood`
(`Understood`), `AlwaysRemains` (`Remains`) and `AcceptedAlwaysIfRight` (`AcceptedIfRight`).
They are about the lines that are `Regular`; on the others `AcceptedIfRight` fails
(section 3, `LoneLines` and `RangeLines`).

Why `IInv`: "done with the last handle" is not inductive, since the code does
not look at the handles but at `n_uv_handles`. `HandleCount` ties the two
together, and needs that no handle is counted twice (`HandleStates`: a pipe is
open or closing, not both; a closing process handle means that the process
exited). The swap-remove reads `container_index` after `done()` returned, so
that `IndexOK` must survive whatever the application did during it; `CtlOK` says
that the child on the stack is still live then. `RetainedOK` needs
`container_retain_done_child` to keep exactly the youngest (`KeptFacts`).
`WatchOK` is what keeps the loop alive: if the application does not pause, every
open pipe is watched, and during destroy no pipe is open.

The step lemmas follow the code: one per action, one part per conjunct of
`IInv` that the action can disturb. Actions that leave the children's
bookkeeping alone share `QuietStep`, and everything that closes pipes goes
through `FdCloseStep`. `NoLostSlot` needs no further strengthening:
`OfferStart` clears the flag only to make an offer, and whatever frees a slot
sets it. `HangupIsSafe` needs one more invariant, `NothingToRead`: a pipe that
is not readable for us holds no data. The contract is proved action by action:
most steps leave its variables unchanged.

Why `LifeInv`: that a job is destroyed once rests on every job that is over being in
exactly one of three places: freed, in `ended_jobs`, or the one whose end is being
reported under a cap of 0 (`EndedOK`). Which of the last two is decided before
`job_ended()` and acted upon after it, so `ReportOK` says at each step in between
where the job is; that `ended_jobs` is in the order of the ends (`ended_micros`
increases along it) is what makes its entries distinct, and the job that
`ended_jobs_trim` evicts another than the one being reported. `JobsOK` does the
same for `jobs`, by index. `RemoveFirstKeeps` says what `jobs_remove` and
`yc_ui_reap_job` do to an array in order; `DestroyLife` is shared by evicting and
reaping. The counts are proved beside it (`CountInv`), with the cardinality of finite
sets. The program adds that the jobs started are the commands among the lines read
(`JobsRead`), that nothing runs once the exit status was taken, and that an offer or a job
keeps `uv_run` going until the end of the input was seen (`LoopKept`), without which it
would return with commands unread.

Why `OutInv`: that the lines told are those written is not inductive as `LinesExact`
states it, since a read goes on where the last one was cut. `OutInv` says of each stream
that what was told and what is held back are what one scan of all that was read yields
(`ToldOK`), so that a step needs only that a scan of a stream and one byte more is
a scan of the stream and then of the byte (`ScanAppend`, and by induction over the
bytes of a read `ScanConcat`); what a scan of any bytes yields is a second induction
(`ScanTellsAll`). The
refinement takes `LifeInv`, `CountsOK` and `OutInv` together (`ReportInv`): a job's stage
in `JobReport` follows from where the tables have it (`StageIs`), and its lines only
grow.

Why `RecInv` and `ScreenInv`: bytes of a file are on the disk or in a buffer that is
flushed at any time, so the invariant is about both together (`OnFile`), and the
same holds of what has been seen and what is in stdout's buffer (`All`). `ScreenInv`
says that a note in `seen` is about a finished job, whose lines can therefore not come
any more, and that its lines are not in `stdout`: this is where the flush before
the note is needed. What is printed for a job in one callback, stream after
stream, is `AllSaid`.

Why `RingInv`: the records are positions modulo the size of the ring, and say nothing
by themselves about how far apart they are. `RingInv` asks for offsets counted
backwards from `write_pos` (`Offsets`) that increase with the age of the lines up to
`buf_occupancy`, of which the positions are the remainders; then every operation is
an addition, and `Advance` and `BackIs` are the only places where `%` is reasoned about. A full
line and an empty one have the same positions. If the full one is alone, the occupancy
tells them apart; beside others, which are then empty (`AmbiguousIs`), it does not, and
what is dropped or shown as empty is the full one. The offsets are therefore not fixed
but exist (`Layout`): an eviction that guesses wrong hands the bytes of the oldest line to the
next (`EvictAmbiguous`), which keeps `RingInv`, and with it `LineToDrop`, but not the
queue. `TruncateShows` is about
`is_utf8_initial_char`: the cut is before a character.

Why `PaneInv`: that a screen is fresh needs that whatever changes what a redraw would
show (`View`) sets `dirty` or redraws (`FreshStep`), for which the selected row must
be determined by the selected index (`IndexInj`); that indices do not change is
`IndexStep`.

Why `KeysInv`: that the keys are those of what was read says nothing about the bytes
that are held, and `KeysOf` looks ahead: a byte more may turn an ESC into a sequence. So
the invariant is about every stream that may still come (`Continues`): of each, the
keys so far are those before the bytes held (`At`). `DecodePieces` ties `decode_one`,
which looks at what is held, to the pieces of the stream; the rest is induction, from
the end of the stream backwards (`KeysFromIs`) and along the bytes of a read. That what
is held has begun a sequence (`Begun`) is what makes dropping it harmless: a stream
whose sequences fit never fills the buffer.

Why `RowsInv`: a row that is too long for its own count of columns would be wrapped by
the terminal and spoil the screen. So whatever was asked for, the text of a row has to be
of whole characters with as many columns as the row counts, no more than the width
(`BackDrawn`). `FrontText` says it of the rows that were sent, since rows are compared
by their bytes alone (`rows_differ`). `AskedDrawn` says of a row for which one text was asked that it
is what that text fills (`Fills`). What a text fills is most of the work: `DecodeRight`
shows `utf8_decode`, which looks at the codepoint that comes out, to accept exactly the
well-formed sequences, which `InUnicode` texts have by the table of their bytes;
`InRangesIs` shows the binary search to find what is in an ordered table; `ShownFromIs` and
`PutsFills` show the loop of `yc_term_row_puts` to end with as many of the characters as
fit, and `FillsClipped` that this is what `Clipped` asks for.

Why `ShowsInv`: the screen is told what differs from `front`, so `front` has to be what is on
the screen; but after a resize it is not, and after a failing write it claims rows that
were not sent. `Sent` therefore says it of the rows that `front` has something for, where the
size is the one that is known and no write was lost; `Due` says that a size that
is not known has been signalled, which `Bounce` breaks; `Whole` and `Kept` say that after a
frame `front` has every row of it, which needs `EveryRow`.

Why `CmdInv`: the loop knows words, and the promise is about items. `CmdInv` says that the
loop is always between two items (`Between`): `argv` is what was kept of the items passed
and all words of the others, `i` is at the first of these, and `used` and `settings` are
what the items passed mean. That a step consumes exactly one item, and takes it
for what it is, is `WordOfItem` with `LongTells`, `LettersTell` and `OtherTells`: a word that
is the value of the option before it is never looked at by itself. `Middle` is the removal of
words from `argv`, after which the loop is at the next item without moving. That what
failed once is not mended by later options (`ResultStuck`) makes a refusal right although
the rest of the line was not looked at; `ApartOrTogether` turns the two checks at the
end into the requirement that the options go together. What `FoldLeft` computes is shown
from the sets of positions it is defined by (`HandleAllIs`).

Induction. The induction theorems of the library take an operator, which the provers
cannot instantiate; they do instantiate a set. `SequenceFacts` therefore derives
from the well-foundedness of the naturals that a set of numbers which contains 0 and
is closed under successor contains all (`SetInduction`), the same for sequences
(`SeqInduction`), and that functions defined by recursion and folds exist. A proof by
induction names the set of those for which the lemma holds. What is declared RECURSIVE
stays out of reach, with every module that uses it.

Only model-checked: liveness (`RunTerminates`, `DestroyTerminates`, `Ends`), since TLAPS proves nothing from fairness and ENABLED here; the tree
(`RedBlack`, `QueriesRight`, `ActsAsSet`, `RepairsClimb`) and the byte buffer
(`FragmentsOK`, `OwnersToldOnce`, `LooksRight`, `ByteQueueSpec`), whose modules declare
RECURSIVE operators; the shell parser (`DirectIsShells`, `DescriptorsAreShells`), which is
compared with a reference definition that is written another way, line by line, on
bounded lines.

## 5. Not modelled

* Setting up files, pipes and inherited fds of a child, and its strings: no
  state that changes later.
* Registries and options of UIs, index formats, colours, help texts, the text of the
  recorder's `.json` files, messages of errors and their columns: formatting.
* The passthrough UI: it takes no output, and its notes on stderr are those of the plain
  UI.
* Times: `YcUI` numbers the ends of jobs instead.
* The height of the two panes and the keys that change it; a terminal's own wrapping
  of lines; bytes of `row_printf`.
* In `yc-shell.c` the escape of a newline, which a line cannot contain.
* Of `yc-buffer.c` the parts that are compiled out (iterators), `fragment_peek` and
  `fragment_advance`, the polystr searches, `append_empty_fragment` and `readv`; of
  `yc-cmdline.c` modes, which are declared and not defined; of `yc-rbtree-macros.h` the
  recursive checks of validity.
* Allocation, which ends the program when it fails.
* What libuv leaves of a process handle when `uv_spawn` fails: its code is not
  part of the repository.
* The programs `test-*.c`.

## 6. Plan

Done, in this order: the container with its runs and proofs; the UI layer on its
contract; the program; the line buffer; the two-pane UI; the recorder and the UIs
that print lines; the terminal; the shell parser; the tree; the buffer; the command
line; the proofs about the UI layer and the program; those about the output, the line
buffer, the recorder and the UIs; those about the terminal: its keys, its modes and what
it shows; those about the command line.

Next, most important first:

1. Folds in place of the RECURSIVE operators of `RBTree` and `YcBuffer`, so that `RedBlack`
   and `FragmentsOK` can be proved.
2. The heights of the panes in `TwoPane`, and the composition of `TwoPane` with `Term`:
   a redraw that is cut by a resize.
3. Changes of `max_done_children` while the container runs.

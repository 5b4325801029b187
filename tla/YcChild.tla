------------------------------ MODULE YcChild ------------------------------
(***************************************************************************)
(* A YcChildContainer and its children (yc-child.c), on one libuv loop.    *)
(*                                                                         *)
(* Three parties move.  The LOOP (libuv, inside uv_run) dispatches one     *)
(* ready callback at a time, in any order.  The APPLICATION moves while a  *)
(* callback of its own is running (`ctl' says which: ready_to_spawn, io or *)
(* done) and outside uv_run.  The WORLD is the child processes: they write *)
(* to and close the far ends of the pipes, and exit, at any moment.  A far *)
(* end may outlive the process that was spawned (a descendant holds it).   *)
(*                                                                         *)
(* A callback into the application splits the C function that makes it in  *)
(* two actions: the part before the call, which enters `ctl', and the part *)
(* after it, the ...Return action.  Each YcChild object is used once: a    *)
(* member of Child is one successful or failed call of yc_child_new.       *)
(***************************************************************************)
EXTENDS Naturals, Sequences, FiniteSets

CONSTANTS
  Child,             \* the calls of yc_child_new that may ever be made
  OutFd, InFd,       \* fds a child may have as pipes; `out' and `in' are the
                     \*   child's view: we read an OutFd and write an InFd.
                     \*   An fd in both is a socketpair.
  Process,           \* names the uv_process_t among a child's handles
  InfoMaxChildren,   \* YcChildContainerCreationInfo.max_children
  MaxDone,           \* container->max_done_children
  PipeSize,          \* bound: units a pipe buffers before its writer blocks
  Pauses,            \* may the application stop watching an open pipe?
  Greedy,            \* does ready_to_spawn() spawn whenever work is left?
  NoChild, NoFd      \* no callback, or none about a child or an fd

Fd == OutFd \cup InFd
Handle == Fd \cup {Process}

ASSUME NameAssumption ==
  IsFiniteSet(Fd) /\ Process \notin Fd /\ NoFd \notin Handle /\ NoChild \notin Child
ASSUME LimitAssumption ==
  InfoMaxChildren \in Nat /\ MaxDone \in Nat /\ PipeSize \in Nat
ASSUME ApplicationAssumption == Pauses \in BOOLEAN /\ Greedy \in BOOLEAN

\* yc_child_container_new: 0 is treated as 1.
MaxChildren == IF InfoMaxChildren = 0 THEN 1 ELSE InfoMaxChildren

\* The events a pipe starts out watched for: its natural direction.
Natural(f) == (IF f \in InFd THEN {"W"} ELSE {}) \cup
              (IF f \in OutFd THEN {"R"} ELSE {})

VARIABLES
  \* The container.
  phase,              \* where the program is in the container's life
  ctl,                \* the application callback that is running, if any
  children,           \* container->children[0 .. n_children-1]
  done_children,      \* retained finished children, oldest first
  ready_idle_started,
  \* The children.
  mem,                \* the YcChild object: none, live, retained or freed
  container_index,
  n_uv_handles,
  process_exited,
  done_emitted,
  pipe_open,          \* the fds with pipe_fd >= 0 (and a poll handle)
  watch,
  \* libuv and the world.
  closing,            \* <<child, handle>>: uv_close() called, callback pending
  killed,             \* children that were sent SIGKILL
  far,                \* the pipes whose far end somebody still holds open
  unread              \* units buffered in each pipe towards us

container == <<children, done_children, ready_idle_started>>
objects   == <<mem, container_index, n_uv_handles, process_exited, done_emitted>>
pipes     == <<pipe_open, watch, far, unread>>
vars == <<phase, ctl, children, done_children, ready_idle_started,
          mem, container_index, n_uv_handles, process_exited, done_emitted,
          pipe_open, watch, closing, killed, far, unread>>

InLoop      == [at |-> "loop", child |-> NoChild, fd |-> NoFd, rev |-> {},
                before |-> 0]
InOffer(n)  == [InLoop EXCEPT !.at = "offer", !.before = n]
InDone(c)   == [InLoop EXCEPT !.at = "done", !.child = c]
InIo(c, f, ev) ==
  [InLoop EXCEPT !.at = "io", !.child = c, !.fd = f, !.rev = ev]

Live == {c \in Child : mem[c] = "live"}

\* The handles of c that libuv knows: what n_uv_handles counts.
LiveHandles(c) ==
  pipe_open[c] \cup {h \in Handle : <<c, h>> \in closing} \cup
  (IF mem[c] = "live" /\ ~process_exited[c] THEN {Process} ELSE {})

Init ==
  /\ phase = "setup" /\ ctl = InLoop
  /\ children = <<>> /\ done_children = <<>> /\ ready_idle_started = FALSE
  /\ mem = [c \in Child |-> "none"]
  /\ container_index = [c \in Child |-> 0]
  /\ n_uv_handles = [c \in Child |-> 0]
  /\ process_exited = [c \in Child |-> FALSE]
  /\ done_emitted = [c \in Child |-> FALSE]
  /\ pipe_open = [c \in Child |-> {}]
  /\ watch = [c \in Child |-> [f \in Fd |-> {}]]
  /\ closing = {} /\ killed = {}
  /\ far = [c \in Child |-> {}]
  /\ unread = [c \in Child |-> [f \in Fd |-> 0]]

\* uv_run is dispatching, and no application callback is on the stack.
Dispatching == phase \in {"running", "destroying"} /\ ctl = InLoop

\* The application is running: in one of its callbacks, or outside uv_run.
\* During destroy the callbacks are zeroed, so it never runs.
AppRuns == \/ phase = "running" /\ ctl # InLoop
           \/ phase \in {"setup", "returned"}

-----------------------------------------------------------------------------
(* Ready to spawn                                                          *)

WorkLeft == \E c \in Child : mem[c] = "none"

\* Mutants: the last free slot is not signalled; no signal before `running' is set.
SignalReady_OffByOne(n) ==
  ready_idle_started' = (ready_idle_started \/
                         (phase # "destroying" /\ n + 1 < MaxChildren))
SignalReady_WhileRunning(n) ==
  ready_idle_started' = (ready_idle_started \/ (phase = "running" /\ n < MaxChildren))

\* container_signal_ready, when n children remain.
SignalReady(n) ==
  ready_idle_started' = (ready_idle_started \/
                         (phase # "destroying" /\ n < MaxChildren))

\* Mutant: the idle handle is not stopped.
OfferStart_NotStopped ==
  /\ Dispatching /\ ready_idle_started
  /\ ctl' = IF Len(children) < MaxChildren THEN InOffer(Len(children)) ELSE InLoop
  /\ UNCHANGED <<phase, container, objects, pipes, closing, killed>>

\* container_ready_idle_cb, up to its first offer.
OfferStart ==
  /\ Dispatching /\ ready_idle_started
  /\ ready_idle_started' = FALSE
  /\ ctl' = IF Len(children) < MaxChildren THEN InOffer(Len(children)) ELSE InLoop
  /\ UNCHANGED <<phase, children, done_children, objects, pipes, closing, killed>>

\* container_ready_idle_cb, when ready_to_spawn() returns: stop once it
\* declined, else offer again while there is room.  A greedy application
\* declines only when it has no work left.
OfferReturn ==
  /\ ctl.at = "offer"
  /\ Greedy => Len(children) # ctl.before \/ ~WorkLeft
  /\ ctl' = IF Len(children) # ctl.before /\ Len(children) < MaxChildren
            THEN InOffer(Len(children)) ELSE InLoop
  /\ UNCHANGED <<phase, container, objects, pipes, closing, killed>>

-----------------------------------------------------------------------------
(* What the application may do                                             *)

\* yc_child_new refuses to start a child when the container is full.
HasRoom == Len(children) < MaxChildren

\* yc_child_new, succeeding with pipes P; uv_poll_init fails for the pipes in
\* B, which are given up on at once.
Spawn(c, P, B) ==
  /\ AppRuns /\ mem[c] = "none" /\ HasRoom
  /\ mem' = [mem EXCEPT ![c] = "live"]
  /\ pipe_open' = [pipe_open EXCEPT ![c] = P \ B]
  /\ watch' = [watch EXCEPT ![c] =
                 [f \in Fd |-> IF f \in P \ B THEN Natural(f) ELSE {}]]
  /\ far' = [far EXCEPT ![c] = P \ B]
  /\ n_uv_handles' = [n_uv_handles EXCEPT ![c] = 1 + Cardinality(P \ B)]
  /\ children' = Append(children, c)
  /\ container_index' = [container_index EXCEPT ![c] = Len(children) + 1]
  /\ UNCHANGED <<phase, ctl, done_children, ready_idle_started, process_exited,
                 done_emitted, closing, killed, unread>>

\* yc_child_new, failing after it allocated the child: everything it opened
\* is closed again with the callbacks zeroed, and the child is freed.
SpawnFails(c) ==
  /\ AppRuns /\ mem[c] = "none" /\ HasRoom
  /\ mem' = [mem EXCEPT ![c] = "freed"]
  /\ UNCHANGED <<phase, ctl, container, container_index, n_uv_handles,
                 process_exited, done_emitted, pipes, closing, killed>>

SpawnSomething ==
  \E c \in Child : \E P \in SUBSET Fd : \E B \in SUBSET P : Spawn(c, P, B)

\* yc_child_fd_close for every pipe of `S' (a function from children to fds):
\* stop polling, and leave close(pipe_fd) to child_fd_poll_closed_cb.
FdClose(S) ==
  /\ pipe_open' = [c \in Child |-> pipe_open[c] \ S[c]]
  /\ watch' = [c \in Child |->
                [f \in Fd |-> IF f \in S[c] THEN {} ELSE watch[c][f]]]
  /\ unread' = [c \in Child |->
                 [f \in Fd |-> IF f \in S[c] THEN 0 ELSE unread[c][f]]]
  /\ closing' = closing \cup {ch \in Child \X Fd : ch[2] \in S[ch[1]]}
  /\ UNCHANGED far

Just(c, f) == [d \in Child |-> IF d = c THEN {f} ELSE {}]

AppFdClose(c, f) ==
  /\ AppRuns /\ mem[c] = "live" /\ f \in pipe_open[c]
  /\ FdClose(Just(c, f))
  /\ UNCHANGED <<phase, ctl, container, objects, killed>>

\* yc_child_fd_watch.  An application that does not pause keeps watching
\* every open pipe, and keeps reading the readable ones.
AppFdWatch(c, f, w) ==
  /\ AppRuns /\ mem[c] = "live" /\ f \in pipe_open[c]
  /\ w \subseteq Natural(f)
  /\ ~Pauses => w # {} /\ (f \in OutFd => "R" \in w)
  /\ watch' = [watch EXCEPT ![c][f] = w]
  /\ UNCHANGED <<phase, ctl, container, objects, pipe_open, closing, killed, far, unread>>

\* yc_child_kill (SIGKILL: other signals promise nothing).
AppKill(c) ==
  /\ AppRuns /\ mem[c] = "live" /\ ~process_exited[c]
  /\ killed' = killed \cup {c}
  /\ UNCHANGED <<phase, ctl, container, objects, pipes, closing>>

\* The single read() an io() callback makes when told the pipe is readable:
\* some of the data; or the end of the stream, which closes the pipe; or
\* EAGAIN.
AppRead(c, f) ==
  /\ ctl.at = "io" /\ ctl.child = c /\ ctl.fd = f
  /\ "R" \in ctl.rev /\ f \in pipe_open[c]
  /\ ctl' = [ctl EXCEPT !.rev = @ \ {"R"}]
  /\ IF unread[c][f] = 0 /\ f \notin far[c]
     THEN FdClose(Just(c, f))
     ELSE /\ \E k \in 0 .. unread[c][f] :
               /\ k = 0 => unread[c][f] = 0
               /\ unread' = [unread EXCEPT ![c][f] = @ - k]
          /\ UNCHANGED <<pipe_open, watch, closing, far>>
  /\ UNCHANGED <<phase, container, objects, killed>>

-----------------------------------------------------------------------------
(* Events of one pipe                                                      *)

\* Mutant: every hangup is final.
AfterIo_Always(c, f, ev) ==
  /\ ctl' = InLoop
  /\ IF f \in pipe_open[c] /\ "H" \in ev
     THEN FdClose(Just(c, f))
     ELSE UNCHANGED <<pipe_open, watch, closing, far, unread>>
  /\ UNCHANGED <<phase, container, objects, killed>>

\* What child_fd_poll_cb does after io(): a hangup is final unless the pipe
\* is being read, and then the end of the stream is for read() to report.
AfterIo(c, f, ev) ==
  /\ ctl' = InLoop
  /\ IF f \in pipe_open[c] /\ "H" \in ev /\ "R" \notin watch[c][f]
     THEN FdClose(Just(c, f))
     ELSE UNCHANGED <<pipe_open, watch, closing, far, unread>>
  /\ UNCHANGED <<phase, container, objects, killed>>

\* What epoll may report of a watched pipe: it is readable while data or
\* the end of the stream is there to read, and a disconnect (H) is reported
\* once the far end is gone.
PollEvents(c, f) ==
  {ev \in SUBSET {"R", "W", "H"} :
     /\ ev # {} /\ ev \cap {"R", "W"} \subseteq watch[c][f]
     /\ "R" \in ev => unread[c][f] > 0 \/ f \notin far[c]
     /\ "H" \in ev => f \notin far[c]}

\* child_fd_poll_cb, status >= 0.
PollEvent(c, f, ev) ==
  /\ Dispatching /\ mem[c] = "live" /\ f \in pipe_open[c]
  /\ watch[c][f] # {} /\ ev \in PollEvents(c, f)
  /\ IF ev \cap {"R", "W"} # {}
     THEN /\ ctl' = InIo(c, f, ev)
          /\ UNCHANGED <<phase, container, objects, pipes, closing, killed>>
     ELSE AfterIo(c, f, ev)

\* child_fd_poll_cb, status < 0.  It is so for a pipe we write that nobody reads any
\* more, and it may be so for a socketpair, if its far end was closed with input of
\* ours in it; what we have not read of it yet is dropped then.
PollError(c, f) ==
  /\ Dispatching /\ mem[c] = "live" /\ f \in pipe_open[c]
  /\ watch[c][f] # {} /\ f \in InFd \ far[c]
  /\ FdClose(Just(c, f))
  /\ UNCHANGED <<phase, ctl, container, objects, killed>>

\* io() returns.  It has read if it was told to, and it has not closed the
\* pipe; only a pausing application may decline to.
IoReturn ==
  /\ ctl.at = "io"
  /\ Pauses \/ "R" \notin ctl.rev \/ ctl.fd \notin pipe_open[ctl.child]
  /\ AfterIo(ctl.child, ctl.fd, ctl.rev)

-----------------------------------------------------------------------------
(* The end of a child                                                      *)

\* Mutant: uv_close of the process handle is forgotten.
ExitCb_NoClose(c) ==
  /\ Dispatching /\ mem[c] = "live" /\ ~process_exited[c]
  /\ process_exited' = [process_exited EXCEPT ![c] = TRUE]
  /\ UNCHANGED <<phase, ctl, container, mem, container_index, n_uv_handles,
                 done_emitted, pipes, closing, killed>>

\* child_exit_cb: the process is gone; its handle starts closing.
ExitCb(c) ==
  /\ Dispatching /\ mem[c] = "live" /\ ~process_exited[c]
  /\ process_exited' = [process_exited EXCEPT ![c] = TRUE]
  /\ closing' = closing \cup {<<c, Process>>}
  /\ UNCHANGED <<phase, ctl, container, mem, container_index, n_uv_handles,
                 done_emitted, pipes, killed>>

\* Mutants: done with a handle left; done as soon as the process exited.
LastHandle_OffByOne(c) ==
  ~done_emitted[c] /\ process_exited[c] /\ n_uv_handles[c] - 1 <= 1
LastHandle_Exited(c) == ~done_emitted[c] /\ process_exited[c]

\* What child_check_done tests, one handle of c having been closed.
LastHandle(c) ==
  ~done_emitted[c] /\ process_exited[c] /\ n_uv_handles[c] - 1 = 0

\* child_process_closed_cb or child_fd_poll_closed_cb, and child_check_done
\* up to its call of done().
CloseCb(c, h) ==
  /\ Dispatching /\ <<c, h>> \in closing
  /\ closing' = closing \ {<<c, h>>}
  /\ n_uv_handles' = [n_uv_handles EXCEPT ![c] = @ - 1]
  /\ IF LastHandle(c)
     THEN /\ done_emitted' = [done_emitted EXCEPT ![c] = TRUE]
          /\ ctl' = InDone(c)
     ELSE UNCHANGED <<done_emitted, ctl>>
  /\ UNCHANGED <<phase, container, mem, container_index, process_exited,
                 pipes, killed>>

\* container_retain_done_child: c joins the retained children, the oldest
\* making room for it; with MaxDone = 0 it is freed at once.
Retain(c) ==
  LET kept  == IF Len(done_children) < MaxDone THEN done_children
               ELSE SubSeq(done_children, Len(done_children) + 2 - MaxDone,
                           Len(done_children))
  IN  IF MaxDone = 0
      THEN /\ mem' = [mem EXCEPT ![c] = "freed"]
           /\ UNCHANGED done_children
      ELSE /\ done_children' = Append(kept, c)
           /\ mem' = [d \in Child |->
                        IF d = c THEN "retained"
                        ELSE IF \E k \in 1 .. Len(done_children) - Len(kept) :
                                  done_children[k] = d
                        THEN "freed" ELSE mem[d]]

\* Mutant: the child that moves keeps its old index.
SwapRemove_StaleIndex(c) ==
  /\ children' = [k \in 1 .. Len(children) - 1 |->
                    IF k = container_index[c] THEN children[Len(children)]
                    ELSE children[k]]
  /\ UNCHANGED container_index

\* The last child of the array takes the place of c.
SwapRemove(c) ==
  LET i     == container_index[c]
      n     == Len(children)
      moved == children[n]
  IN  /\ children' = [k \in 1 .. n - 1 |-> IF k = i THEN moved ELSE children[k]]
      /\ container_index' = [container_index EXCEPT ![moved] = i]

\* child_check_done, after done() returned: the child leaves the array, and
\* the free slot is signalled.
DoneReturn ==
  /\ ctl.at = "done"
  /\ SwapRemove(ctl.child)
  /\ Retain(ctl.child)
  /\ SignalReady(Len(children) - 1)
  /\ ctl' = InLoop
  /\ UNCHANGED <<phase, n_uv_handles, process_exited, done_emitted, pipes,
                 closing, killed>>

-----------------------------------------------------------------------------
(* Running and destroying the container                                    *)

\* yc_child_container_run, up to uv_run.
Run ==
  /\ phase \in {"setup", "returned"}
  /\ phase' = "running"
  /\ SignalReady(Len(children))
  /\ UNCHANGED <<ctl, children, done_children, objects, pipes, closing, killed>>

\* uv_loop_alive: an active or closing handle remains.  A poll handle is
\* active only while something is watched.
LoopAlive ==
  \/ ready_idle_started
  \/ closing # {}
  \/ \E c \in Live : ~process_exited[c]
  \/ \E c \in Live : \E f \in pipe_open[c] : watch[c][f] # {}

\* uv_run(UV_RUN_DEFAULT) returns, and with it yc_child_container_run.
RunReturn ==
  /\ phase = "running" /\ ctl = InLoop /\ ~LoopAlive
  /\ phase' = "returned"
  /\ UNCHANGED <<ctl, container, objects, pipes, closing, killed>>

\* Mutant: the processes are left alone.
Destroy_NoKill ==
  /\ phase \in {"setup", "returned"}
  /\ phase' = "destroying"
  /\ ready_idle_started' = FALSE
  /\ FdClose(pipe_open)
  /\ UNCHANGED <<ctl, children, done_children, objects, killed>>

\* yc_child_container_destroy, up to its uv_run loop: no more offers, every
\* remaining child is killed and all its pipes are dropped.
Destroy ==
  /\ phase \in {"setup", "returned"}
  /\ phase' = "destroying"
  /\ ready_idle_started' = FALSE
  /\ killed' = killed \cup {c \in Live : ~process_exited[c]}
  /\ FdClose(pipe_open)
  /\ UNCHANGED <<ctl, children, done_children, objects>>

\* The rest of yc_child_container_destroy, once the last child is reaped.
DestroyReturn ==
  /\ phase = "destroying" /\ ctl = InLoop /\ children = <<>>
  /\ phase' = "destroyed"
  /\ done_children' = <<>>
  /\ mem' = [c \in Child |-> IF mem[c] = "retained" THEN "freed" ELSE mem[c]]
  /\ UNCHANGED <<ctl, children, ready_idle_started, container_index, n_uv_handles,
                 process_exited, done_emitted, pipes, closing, killed>>

-----------------------------------------------------------------------------
(* The world: whoever holds the far end of a pipe                          *)

FarWrite(c, f) ==
  /\ f \in far[c] \cap OutFd \cap pipe_open[c] /\ unread[c][f] < PipeSize
  /\ unread' = [unread EXCEPT ![c][f] = @ + 1]
  /\ UNCHANGED <<phase, ctl, container, objects, pipe_open, watch, closing, killed, far>>

FarClose(c, f) ==
  /\ f \in far[c] \cap pipe_open[c]
  /\ far' = [far EXCEPT ![c] = @ \ {f}]
  /\ UNCHANGED <<phase, ctl, container, objects, pipe_open, watch, closing, killed, unread>>

-----------------------------------------------------------------------------
\* The program ends; nothing more happens.
Terminated == phase = "destroyed" /\ UNCHANGED vars

Next ==
  \/ OfferStart \/ OfferReturn \/ IoReturn \/ DoneReturn
  \/ Run \/ RunReturn \/ Destroy \/ DestroyReturn \/ Terminated
  \/ SpawnSomething
  \/ \E c \in Child :
       \/ SpawnFails(c) \/ AppKill(c) \/ ExitCb(c)
       \/ \E h \in Handle : CloseCb(c, h)
       \/ \E f \in Fd :
            \/ AppFdClose(c, f) \/ AppRead(c, f) \/ PollError(c, f)
            \/ FarWrite(c, f) \/ FarClose(c, f)
            \/ \E w \in SUBSET {"R", "W"} : AppFdWatch(c, f, w)
            \/ \E ev \in SUBSET {"R", "W", "H"} : PollEvent(c, f, ev)

Spec == Init /\ [][Next]_vars

(* Properties                                                              *)

Events == {"R", "W", "H"}

TypeOK ==
  /\ phase \in {"setup", "running", "returned", "destroying", "destroyed"}
  /\ ctl \in [at : {"loop", "offer", "io", "done"}, child : Child \cup {NoChild},
              fd : Fd \cup {NoFd}, rev : SUBSET Events, before : Nat]
  /\ children \in Seq(Child) /\ Len(children) <= MaxChildren
  /\ done_children \in Seq(Child) /\ Len(done_children) <= MaxDone
  /\ ready_idle_started \in BOOLEAN
  /\ mem \in [Child -> {"none", "live", "retained", "freed"}]
  /\ container_index \in [Child -> Nat]
  /\ n_uv_handles \in [Child -> Nat]
  /\ process_exited \in [Child -> BOOLEAN]
  /\ done_emitted \in [Child -> BOOLEAN]
  /\ pipe_open \in [Child -> SUBSET Fd]
  /\ watch \in [Child -> [Fd -> SUBSET {"R", "W"}]]
  /\ closing \subseteq Child \X Handle
  /\ killed \subseteq Child
  /\ far \in [Child -> SUBSET Fd]
  /\ unread \in [Child -> [Fd -> 0 .. PipeSize]]

\* The array and the indices kept in the children agree (child_check_done
\* moves the last child into the freed slot): every slot holds a live child
\* that knows its slot, and every live child is in the slot it knows.
IndexOK ==
  /\ \A k \in 1 .. Len(children) :
       mem[children[k]] = "live" /\ container_index[children[k]] = k
  /\ \A c \in Live :
       /\ container_index[c] \in 1 .. Len(children)
       /\ children[container_index[c]] = c

\* The retained array holds exactly the children that are retained, none
\* twice: what destroy frees was not freed before (container_retain_done_child).
RetainedOK ==
  /\ \A i, j \in 1 .. Len(done_children) :
       done_children[i] = done_children[j] => i = j
  /\ \A c \in Child :
       mem[c] = "retained" <=> \E k \in 1 .. Len(done_children) : done_children[k] = c

\* No callback can reach a child that is retained or freed: libuv knows no
\* handle that is embedded in it (child_check_done, n_uv_handles).
NoHandleOutlivesChild ==
  \A c \in Child : mem[c] # "live" => LiveHandles(c) = {}

\* done() comes with the last of the handles, neither before nor never: a
\* live child has been done exactly when libuv knows no handle of it, and
\* then its done() is still on the stack (yc-child.c:459, child_check_done).
DoneWithLastHandle ==
  \A c \in Live :
    /\ done_emitted[c] <=> LiveHandles(c) = {}
    /\ done_emitted[c] <=> ctl.at = "done" /\ ctl.child = c

(***************************************************************************)
(* The inductive invariant behind these: n_uv_handles is the number of     *)
(* handles libuv knows, a pipe is open or closing but not both, and the    *)
(* callback on the stack is about a child that is still there.             *)
(***************************************************************************)
HandleCount == \A c \in Child : n_uv_handles[c] = Cardinality(LiveHandles(c))

HandleStates ==
  \A c \in Child :
    /\ \A f \in pipe_open[c] : <<c, f>> \notin closing
    /\ <<c, Process>> \in closing => process_exited[c]
    /\ mem[c] = "none" => ~process_exited[c] /\ ~done_emitted[c]
    /\ mem[c] = "retained" => done_emitted[c]
    /\ done_emitted[c] => process_exited[c]

CtlOK ==
  /\ ctl.at = "loop" => ctl = InLoop
  /\ ctl.at \in {"io", "done"} => ctl.child \in Live
  /\ ctl.at = "io" => ctl.fd \in Fd
  /\ ctl.at \in {"offer", "io"} => phase = "running"
  /\ ctl.at = "done" => phase \in {"running", "destroying"}
  /\ ready_idle_started => phase = "running"

\* Whatever can still end a child is being watched.
WatchOK ==
  /\ ~Pauses => \A c \in Child : \A f \in pipe_open[c] :
       watch[c][f] # {} /\ (f \in OutFd => "R" \in watch[c][f])
  /\ phase \in {"destroying", "destroyed"} => \A c \in Child : pipe_open[c] = {}

IInv ==
  /\ TypeOK /\ IndexOK /\ RetainedOK /\ NoHandleOutlivesChild /\ DoneWithLastHandle
  /\ HandleCount /\ HandleStates /\ CtlOK /\ WatchOK

\* A slot is never lost: while work is left and a slot is free, an offer is
\* pending or being made (container_signal_ready, container_ready_idle_cb).
NoLostSlot ==
  Greedy /\ phase = "running" /\ ctl.at # "offer"
         /\ Len(children) < MaxChildren /\ WorkLeft => ready_idle_started

\* uv_run has something to wait for while a child is left: it neither
\* returns early from run nor spins in destroy.
LoopAliveWhileChildren ==
  (phase = "destroying" \/ ~Pauses) /\ ctl = InLoop /\ children # <<>> => LoopAlive

\* run returns when every child is done, and a greedy application has no
\* work left (yc-child.h:215 "Runs the loop until every child is done and
\* ready_to_spawn() declines to start another").
RunUntilEveryChildDone ==
  [][phase = "running" /\ phase' = "returned" =>
       children = <<>> /\ (Greedy => ~WorkLeft)]_vars

\* A hangup closes no pipe with unread data in it (child_fd_poll_cb, where io() is
\* called or would have been; an error is told before).
HangupLosesNothing ==
  [][\A c \in Child, f \in Fd :
       /\ f \in pipe_open[c] /\ f \notin pipe_open'[c]
       /\ IoReturn \/ \E ev \in SUBSET Events : PollEvent(c, f, ev)
       => unread[c][f] = 0]_vars

\* What the container promises (ChildContract): a pipe is held until its
\* close callback has run.
Contract == INSTANCE ChildContract WITH
  running  <- Live,
  finished <- {c \in Child : done_emitted[c] /\ mem[c] # "live"},
  refused  <- {c \in Child : mem[c] = "freed" /\ ~done_emitted[c]},
  exited   <- {c \in Child : process_exited[c]},
  held     <- [c \in Child |-> LiveHandles(c) \ {Process}]

ContractSpec == Contract!Spec

(***************************************************************************)
(* Fairness.  uv_run dispatches every ready event in each iteration and    *)
(* callbacks return (a greedy ready_to_spawn after it spawned).  While the *)
(* container runs, the world is fair: a pipe's far end is eventually let   *)
(* go of by everybody, and every process eventually exits.  Once destroy   *)
(* was called nobody cooperates any more: processes exit only if killed,   *)
(* and the far ends of their pipes may stay open for ever.  One conjunct   *)
(* per kind of event is enough: most happen once per handle, and a pipe is *)
(* readable only finitely often once its far end is closed.                *)
(***************************************************************************)
LoopFairness ==
  /\ SF_vars(\E c \in Child, h \in Handle : CloseCb(c, h)) /\ WF_vars(DoneReturn)
  /\ SF_vars(OfferStart) /\ WF_vars(OfferReturn)
  /\ WF_vars(ctl.at = "offer" /\ Greedy /\ SpawnSomething)
  /\ SF_vars(\E c \in Child, f \in InFd \ OutFd : PollError(c, f))
  /\ SF_vars(\E c \in Child, f \in Fd, ev \in SUBSET Events :
               "R" \in ev /\ PollEvent(c, f, ev))
  /\ WF_vars(\E c \in Child, f \in Fd : AppRead(c, f)) /\ WF_vars(IoReturn)
  /\ WF_vars(RunReturn) /\ WF_vars(DestroyReturn)

WorldFairness ==
  /\ SF_vars(phase = "running" /\ \E c \in Child : ExitCb(c))
  /\ SF_vars(phase = "destroying" /\ \E c \in killed : ExitCb(c))
  /\ WF_vars(phase = "running" /\ \E c \in Child, f \in Fd : FarClose(c, f))

FairSpec == Spec /\ LoopFairness /\ WorldFairness

\* run returns - and by RunUntilEveryChildDone every child is done by then.
RunTerminates == phase = "running" ~> phase = "returned"

\* destroy returns, with every child reaped, whatever the processes do.
DestroyTerminates == phase = "destroying" ~> phase = "destroyed"

=============================================================================

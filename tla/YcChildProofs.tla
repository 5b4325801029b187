--------------------------- MODULE YcChildProofs ---------------------------
(***************************************************************************)
(* Proofs about YcChild, for every number of children, every set of pipes  *)
(* and every limit: the inductive invariant and what follows from it, that *)
(* no slot is lost, that - for an application that keeps watching its      *)
(* pipes - run does not return early and a hangup discards nothing, and    *)
(* that the container implements ChildContract.                            *)
(***************************************************************************)
EXTENDS YcChild, FiniteSetTheorems, SequenceTheorems, TLAPS

-----------------------------------------------------------------------------
(* Facts about the constants and about sets of handles.                    *)

LEMMA MaxChildrenType == MaxChildren \in Nat \ {0}
BY LimitAssumption DEF MaxChildren

\* A child has finitely many handles.
LEMMA HandleFinite == IsFiniteSet(Handle) /\ IsFiniteSet(Fd)
BY NameAssumption, FS_Singleton, FS_Union DEF Handle

\* The handles of a child are finitely many, so they can be counted.
LEMMA LiveHandlesFinite ==
  ASSUME TypeOK, NEW c \in Child
  PROVE  /\ LiveHandles(c) \subseteq Handle
         /\ IsFiniteSet(LiveHandles(c))
         /\ Cardinality(LiveHandles(c)) \in Nat
<1>1. LiveHandles(c) \subseteq Handle
  BY DEF TypeOK, LiveHandles, Handle
<1>2. QED
  BY <1>1, HandleFinite, FS_Subset, FS_CardinalityType

\* Closing a pipe moves its handle from the open ones to the closing ones:
\* libuv still knows it.
LEMMA FdCloseHandles ==
  ASSUME TypeOK,
         NEW S \in [Child -> SUBSET Fd], \A c \in Child : S[c] \subseteq pipe_open[c],
         FdClose(S), UNCHANGED <<mem, process_exited>>
  PROVE  \A c \in Child : LiveHandles(c)' = LiveHandles(c)
<1> SUFFICES ASSUME NEW c \in Child PROVE LiveHandles(c)' = LiveHandles(c)
  OBVIOUS
<1>1. pipe_open'[c] = pipe_open[c] \ S[c]
  BY DEF FdClose
<1>2. \A h \in Handle : <<c, h>> \in closing' <=> <<c, h>> \in closing \/ h \in S[c]
  BY DEF FdClose, Handle
<1>3. S[c] \subseteq Handle
  BY DEF Handle
<1>4. {h \in Handle : <<c, h>> \in closing'} = {h \in Handle : <<c, h>> \in closing} \cup S[c]
  BY <1>2, <1>3
<1> QED
  BY <1>1, <1>4 DEF LiveHandles, TypeOK

-----------------------------------------------------------------------------
(* The inductive invariant.                                                *)

LEMMA InitIInv == Init => IInv
<1> SUFFICES ASSUME Init PROVE IInv
  OBVIOUS
<1> USE NameAssumption, LimitAssumption, MaxChildrenType DEF Init, InLoop, Live, LiveHandles
<1>1. TypeOK
  <2>1. <<>> \in Seq(Child) /\ Len(<<>>) = 0
    OBVIOUS
  <2>2. ctl \in [at : {"loop", "offer", "io", "done"}, child : Child \cup {NoChild},
                fd : Fd \cup {NoFd}, rev : SUBSET Events, before : Nat]
    OBVIOUS
  <2>3. /\ mem \in [Child -> {"none", "live", "retained", "freed"}]
        /\ pipe_open \in [Child -> SUBSET Fd]
        /\ watch \in [Child -> [Fd -> SUBSET {"R", "W"}]]
        /\ unread \in [Child -> [Fd -> 0 .. PipeSize]]
    OBVIOUS
  <2>4. /\ children \in Seq(Child) /\ Len(children) <= MaxChildren
        /\ done_children \in Seq(Child) /\ Len(done_children) <= MaxDone
    BY <2>1
  <2>5. /\ container_index \in [Child -> Nat]
        /\ n_uv_handles \in [Child -> Nat]
        /\ process_exited \in [Child -> BOOLEAN]
        /\ done_emitted \in [Child -> BOOLEAN]
    OBVIOUS
  <2>6. far \in [Child -> SUBSET Fd] /\ closing \subseteq Child \X Handle
    OBVIOUS
  <2> QED
    BY <2>2, <2>3, <2>4, <2>5, <2>6 DEF TypeOK
<1>2. \A c \in Child : LiveHandles(c) = {}
  OBVIOUS
<1>3. HandleCount
  BY <1>2, FS_EmptySet DEF HandleCount
<1>4. IndexOK /\ RetainedOK /\ NoHandleOutlivesChild /\ DoneWithLastHandle
  BY <1>2 DEF IndexOK, RetainedOK, NoHandleOutlivesChild, DoneWithLastHandle
<1>5. HandleStates /\ CtlOK /\ WatchOK
  BY DEF HandleStates, CtlOK, WatchOK
<1> QED
  BY <1>1, <1>3, <1>4, <1>5 DEF IInv

\* Steps that touch no handle, no object and no array keep the invariant when
\* they keep the control state sensible.
LEMMA QuietStep ==
  ASSUME IInv, TypeOK', CtlOK',
         UNCHANGED <<children, done_children, objects, pipe_open, closing>>,
         UNCHANGED watch, phase' = phase \/ phase' \notin {"destroying", "destroyed"},
         ctl.at = "done" <=> ctl'.at = "done",
         ctl.at = "done" => ctl'.child = ctl.child
  PROVE  IInv'
<1> USE DEF IInv
<1>1. \A c \in Child : LiveHandles(c)' = LiveHandles(c)
  BY DEF LiveHandles, objects
<1>2. Live' = Live
  BY DEF Live, objects
<1>3. IndexOK'
  BY <1>2 DEF IndexOK, objects, Live
<1>4. NoHandleOutlivesChild'
  BY <1>1 DEF NoHandleOutlivesChild, objects
<1>5. DoneWithLastHandle'
  BY <1>1, <1>2 DEF DoneWithLastHandle, objects, Live
<1>6. HandleCount'
  BY <1>1 DEF HandleCount, objects
<1>7. HandleStates'
  BY DEF HandleStates, objects
<1>8. WatchOK' /\ RetainedOK'
  BY DEF WatchOK, RetainedOK, objects
<1> QED
  BY <1>3, <1>4, <1>5, <1>6, <1>7, <1>8

CtlType == [at : {"loop", "offer", "io", "done"}, child : Child \cup {NoChild},
            fd : Fd \cup {NoFd}, rev : SUBSET Events, before : Nat]

\* Closing pipes keeps the types.
LEMMA FdCloseType ==
  ASSUME TypeOK, NEW S \in [Child -> SUBSET Fd], FdClose(S)
  PROVE  /\ pipe_open' \in [Child -> SUBSET Fd]
         /\ watch' \in [Child -> [Fd -> SUBSET {"R", "W"}]]
         /\ unread' \in [Child -> [Fd -> 0 .. PipeSize]]
         /\ closing' \subseteq Child \X Handle
         /\ far' \in [Child -> SUBSET Fd]
<1> USE LimitAssumption DEF FdClose, TypeOK
<1>1. pipe_open' \in [Child -> SUBSET Fd] /\ far' \in [Child -> SUBSET Fd]
  OBVIOUS
<1>2. watch' \in [Child -> [Fd -> SUBSET {"R", "W"}]]
  OBVIOUS
<1>3. unread' \in [Child -> [Fd -> 0 .. PipeSize]]
  OBVIOUS
<1>4. closing' \subseteq Child \X Handle
  BY DEF Handle
<1> QED
  BY <1>1, <1>2, <1>3, <1>4

\* Closing pipes keeps the invariant, in a step that does nothing else to a
\* child; destroy closes them all.
LEMMA FdCloseStep ==
  ASSUME IInv,
         NEW S \in [Child -> SUBSET Fd], \A c \in Child : S[c] \subseteq pipe_open[c],
         FdClose(S), UNCHANGED <<children, done_children, objects>>,
         phase' = phase \/ (phase' = "destroying" /\ S = pipe_open),
         ctl' \in CtlType, CtlOK',
         ctl.at = "done" <=> ctl'.at = "done", ctl.at = "done" => ctl'.child = ctl.child,
         killed' \subseteq Child, ready_idle_started' \in BOOLEAN
  PROVE  IInv'
<1> USE DEF IInv
<1>1. \A c \in Child : LiveHandles(c)' = LiveHandles(c)
  BY FdCloseHandles DEF objects
<1>2. Live' = Live
  BY DEF Live, objects
<1>3. TypeOK'
  BY FdCloseType DEF TypeOK, objects, CtlType
<1>4. IndexOK'
  BY <1>2 DEF IndexOK, objects, Live
<1>5. NoHandleOutlivesChild'
  BY <1>1 DEF NoHandleOutlivesChild, objects
<1>6. DoneWithLastHandle'
  BY <1>1, <1>2 DEF DoneWithLastHandle, objects, Live
<1>7. HandleCount'
  BY <1>1 DEF HandleCount, objects
<1>8. HandleStates'
  <2> SUFFICES ASSUME NEW c \in Child
               PROVE  /\ \A f \in pipe_open'[c] : <<c, f>> \notin closing'
                      /\ <<c, Process>> \in closing' => process_exited'[c]
                      /\ mem'[c] = "none" => ~process_exited'[c] /\ ~done_emitted'[c]
                      /\ mem'[c] = "retained" => done_emitted'[c]
                      /\ done_emitted'[c] => process_exited'[c]
    BY DEF HandleStates
  <2>1. \A f \in pipe_open'[c] : <<c, f>> \notin closing'
    BY DEF FdClose, HandleStates, TypeOK
  <2>2. <<c, Process>> \in closing' => process_exited'[c]
    BY NameAssumption DEF FdClose, HandleStates, objects
  <2> QED
    BY <2>1, <2>2 DEF HandleStates, objects
<1>9. WatchOK'
  <2>1. \A c \in Child : \A f \in pipe_open'[c] :
          f \in pipe_open[c] /\ watch'[c][f] = watch[c][f]
    BY DEF FdClose, TypeOK
  <2>2. ASSUME phase' \in {"destroying", "destroyed"}, NEW c \in Child
        PROVE  pipe_open'[c] = {}
    <3>1. CASE phase' = phase
      BY <2>1, <2>2, <3>1 DEF WatchOK
    <3>2. CASE S = pipe_open
      BY <3>2 DEF FdClose
    <3> QED
      BY <3>1, <3>2
  <2>3. ASSUME ~Pauses, NEW c \in Child, NEW f \in pipe_open'[c]
        PROVE  watch'[c][f] # {} /\ (f \in OutFd => "R" \in watch'[c][f])
    BY <2>1, <2>3 DEF WatchOK
  <2> QED
    BY <2>2, <2>3 DEF WatchOK
<1>10. RetainedOK'
  BY DEF RetainedOK, objects
<1> QED
  BY <1>3, <1>4, <1>5, <1>6, <1>7, <1>8, <1>9, <1>10

\* One pipe of one child, as a set of pipes to be closed.
LEMMA JustType ==
  ASSUME TypeOK, NEW c \in Child, NEW f \in Fd, f \in pipe_open[c]
  PROVE  /\ Just(c, f) \in [Child -> SUBSET Fd]
         /\ \A d \in Child : Just(c, f)[d] \subseteq pipe_open[d]
BY DEF Just

-----------------------------------------------------------------------------
(* One lemma per action that does more than move the control state.        *)

LEMMA AppFdCloseStep ==
  ASSUME IInv, NEW c \in Child, NEW f \in Fd, AppFdClose(c, f) PROVE IInv'
<1> USE DEF IInv
<1>1. CtlOK' /\ ctl' \in CtlType
  BY DEF AppFdClose, CtlOK, TypeOK, CtlType, objects, container, Live
<1> QED
  BY <1>1, JustType, FdCloseStep DEF AppFdClose, container, TypeOK

\* An error of a pipe that we write keeps the invariant.
LEMMA PollErrorStep ==
  ASSUME IInv, NEW c \in Child, NEW f \in Fd, PollError(c, f) PROVE IInv'
<1> USE DEF IInv
<1>1. CtlOK' /\ ctl' \in CtlType
  BY DEF PollError, CtlOK, TypeOK, CtlType, objects, container, Live
<1> QED
  BY <1>1, JustType, FdCloseStep DEF PollError, container, TypeOK

\* The loop between two callbacks is a value of ctl.
LEMMA InLoopType == InLoop \in CtlType /\ InLoop.at = "loop"
BY DEF InLoop, CtlType

\* The end of child_fd_poll_cb keeps the invariant.
LEMMA AfterIoStep ==
  ASSUME IInv, NEW c \in Child, NEW f \in Fd, NEW ev, AfterIo(c, f, ev),
         ctl.at # "done"
  PROVE  IInv'
<1> USE DEF IInv
<1>1. CtlOK' /\ ctl' \in CtlType /\ ctl'.at = "loop"
  BY InLoopType DEF AfterIo, CtlOK, container
<1>2. CASE f \in pipe_open[c] /\ "H" \in ev /\ "R" \notin watch[c][f]
  BY <1>1, <1>2, JustType, FdCloseStep DEF AfterIo, container, TypeOK
<1>3. CASE ~(f \in pipe_open[c] /\ "H" \in ev /\ "R" \notin watch[c][f])
  <2>1. TypeOK'
    BY <1>1, <1>3 DEF AfterIo, TypeOK, container, objects, CtlType
  <2> QED
    BY <1>1, <1>3, <2>1, QuietStep DEF AfterIo, container
<1> QED
  BY <1>2, <1>3

\* A read in io() keeps the invariant.
LEMMA AppReadStep ==
  ASSUME IInv, NEW c \in Child, NEW f \in Fd, AppRead(c, f) PROVE IInv'
<1> USE DEF IInv
<1>1. /\ ctl' \in CtlType /\ ctl'.at = "io" /\ ctl.at = "io"
      /\ ctl'.child = ctl.child /\ ctl'.fd = ctl.fd
  BY DEF AppRead, TypeOK, CtlType
<1>2. CtlOK'
  BY <1>1 DEF AppRead, CtlOK, objects, container, Live
<1>3. CASE unread[c][f] = 0 /\ f \notin far[c]
  BY <1>1, <1>2, <1>3, JustType, FdCloseStep DEF AppRead, container, TypeOK
<1>4. CASE ~(unread[c][f] = 0 /\ f \notin far[c])
  <2>1. PICK k \in 0 .. unread[c][f] :
          /\ unread' = [unread EXCEPT ![c][f] = @ - k]
          /\ UNCHANGED <<pipe_open, watch, closing, far>>
    BY <1>4 DEF AppRead
  <2>2. unread[c][f] - k \in 0 .. PipeSize
    <3>1. unread[c][f] \in 0 .. PipeSize
      BY DEF TypeOK
    <3> HIDE DEF IInv
    <3> QED
      BY <3>1, LimitAssumption
  <2>3. unread' \in [Child -> [Fd -> 0 .. PipeSize]]
    BY <2>1, <2>2 DEF TypeOK
  <2>4. TypeOK'
    BY <1>1, <2>1, <2>3 DEF AppRead, TypeOK, container, objects, CtlType
  <2> QED
    BY <1>1, <1>2, <2>1, <2>4, QuietStep DEF AppRead, container
<1> QED
  BY <1>3, <1>4

\* yc_child_fd_watch keeps the invariant.
LEMMA AppFdWatchStep ==
  ASSUME IInv, NEW c \in Child, NEW f \in Fd, NEW w \in SUBSET {"R", "W"},
         AppFdWatch(c, f, w)
  PROVE  IInv'
<1> USE DEF IInv, AppFdWatch, container
<1>1. \A d \in Child : LiveHandles(d)' = LiveHandles(d)
  BY DEF LiveHandles, objects
<1>2. TypeOK'
  <2>1. watch' \in [Child -> [Fd -> SUBSET {"R", "W"}]]
    BY DEF TypeOK
  <2> QED
    BY <2>1 DEF TypeOK, objects
<1>3. IndexOK' /\ RetainedOK' /\ NoHandleOutlivesChild' /\ DoneWithLastHandle'
  BY <1>1 DEF IndexOK, RetainedOK, NoHandleOutlivesChild, DoneWithLastHandle, objects, Live
<1>4. HandleCount' /\ HandleStates' /\ CtlOK'
  BY <1>1 DEF HandleCount, HandleStates, CtlOK, objects, Live
<1>5. WatchOK'
  <2>1. ASSUME ~Pauses, NEW d \in Child, NEW g \in pipe_open'[d]
        PROVE  watch'[d][g] # {} /\ (g \in OutFd => "R" \in watch'[d][g])
    <3>1. g \in pipe_open[d] /\ g \in Fd
      BY <2>1 DEF TypeOK
    <3>2. watch'[d][g] = IF d = c /\ g = f THEN w ELSE watch[d][g]
      BY <3>1 DEF TypeOK
    <3> QED
      BY <2>1, <3>1, <3>2 DEF WatchOK
  <2> QED
    BY <2>1 DEF WatchOK
<1> QED
  BY <1>2, <1>3, <1>4, <1>5

\* yc_child_new keeps the invariant.
LEMMA SpawnStep ==
  ASSUME IInv, NEW c \in Child, NEW P \in SUBSET Fd, NEW B \in SUBSET P, Spawn(c, P, B)
  PROVE  IInv'
<1> DEFINE N == P \ B
<1> USE DEF IInv, Spawn
<1>1. LiveHandles(c) = {} /\ ~process_exited[c] /\ ~done_emitted[c]
  BY DEF NoHandleOutlivesChild, HandleStates
<1>2. /\ mem'[c] = "live" /\ pipe_open'[c] = N /\ container_index'[c] = Len(children) + 1
      /\ n_uv_handles'[c] = 1 + Cardinality(N)
      /\ \A d \in Child \ {c} :
           /\ mem'[d] = mem[d] /\ pipe_open'[d] = pipe_open[d]
           /\ container_index'[d] = container_index[d]
           /\ n_uv_handles'[d] = n_uv_handles[d] /\ watch'[d] = watch[d]
  BY DEF TypeOK
<1>3. N \subseteq Fd /\ IsFiniteSet(N) /\ Cardinality(N) \in Nat /\ Process \notin N
  BY HandleFinite, FS_Subset, FS_CardinalityType, NameAssumption
<1>4. LiveHandles(c)' = N \cup {Process}
  <2>1. {h \in Handle : <<c, h>> \in closing} = {}
    BY <1>1 DEF LiveHandles
  <2> QED
    BY <1>1, <1>2, <2>1 DEF LiveHandles
<1>5. \A d \in Child \ {c} : LiveHandles(d)' = LiveHandles(d)
  BY <1>2 DEF LiveHandles
<1>6. TypeOK'
  <2>1. children' \in Seq(Child) /\ Len(children') = Len(children) + 1
    BY DEF TypeOK
  <2>3. watch' \in [Child -> [Fd -> SUBSET {"R", "W"}]]
    <3>1. [f \in Fd |-> IF f \in P \ B THEN Natural(f) ELSE {}] \in [Fd -> SUBSET {"R", "W"}]
      BY DEF Natural
    <3> QED
      BY <3>1 DEF TypeOK
  <2>4. /\ pipe_open' \in [Child -> SUBSET Fd] /\ far' \in [Child -> SUBSET Fd]
    BY <1>3 DEF TypeOK
  <2>5. n_uv_handles' \in [Child -> Nat] /\ container_index' \in [Child -> Nat]
    BY <1>3 DEF TypeOK
  <2>6. Len(children) < MaxChildren /\ Len(children) \in Nat
    BY DEF HasRoom, TypeOK
  <2>7. Len(children') <= MaxChildren
    BY ONLY <2>1, <2>6, MaxChildrenType
  <2>8. mem' \in [Child -> {"none", "live", "retained", "freed"}]
    BY DEF TypeOK
  <2>9. UNCHANGED MaxChildren
    BY DEF MaxChildren
  <2> QED
    BY <2>1, <2>3, <2>4, <2>5, <2>7, <2>8, <2>9 DEF TypeOK
<1>7. IndexOK'
  <2>1. /\ Len(children') = Len(children) + 1 /\ children'[Len(children) + 1] = c
        /\ \A k \in 1 .. Len(children) : children'[k] = children[k] /\ children[k] \in Child
        /\ Len(children) \in Nat
    BY DEF TypeOK
  <2>2. \A k \in 1 .. Len(children) : children[k] # c
    BY DEF IndexOK
  <2>3. \A k \in 1 .. Len(children') :
          mem'[children'[k]] = "live" /\ container_index'[children'[k]] = k
    BY <1>2, <2>1, <2>2 DEF IndexOK
  <2>4. ASSUME NEW d \in Child, mem'[d] = "live"
        PROVE  /\ container_index'[d] \in 1 .. Len(children')
               /\ children'[container_index'[d]] = d
    BY <1>2, <2>1, <2>4 DEF IndexOK, Live
  <2> QED
    BY <2>3, <2>4 DEF IndexOK, Live
<1>8. NoHandleOutlivesChild'
  BY <1>2, <1>5 DEF NoHandleOutlivesChild
<1>9. DoneWithLastHandle'
  <2>1. ctl.at = "done" => ctl.child # c
    BY DEF CtlOK, Live
  <2>2. LiveHandles(c)' # {} /\ ~done_emitted'[c] /\ ~(ctl'.at = "done" /\ ctl'.child = c)
    BY <1>1, <1>4, <2>1
  <2>3. ASSUME NEW d \in Child \ {c}, mem'[d] = "live"
        PROVE  /\ done_emitted'[d] <=> LiveHandles(d)' = {}
               /\ done_emitted'[d] <=> ctl'.at = "done" /\ ctl'.child = d
    BY <1>2, <1>5, <2>3 DEF DoneWithLastHandle, Live
  <2> QED
    BY <2>2, <2>3 DEF DoneWithLastHandle, Live
<1>10. HandleCount'
  <2>1. Cardinality(N \cup {Process}) = Cardinality(N) + 1
    BY <1>3, FS_AddElement
  <2>2. n_uv_handles'[c] = Cardinality(LiveHandles(c)')
    BY <1>2, <1>3, <1>4, <2>1
  <2>3. ASSUME NEW d \in Child \ {c} PROVE n_uv_handles'[d] = Cardinality(LiveHandles(d)')
    BY <1>2, <1>5 DEF HandleCount
  <2> QED
    BY <2>2, <2>3 DEF HandleCount
<1>11. HandleStates'
  <2>1. \A f \in N : <<c, f>> \notin closing
    BY <1>1, <1>3 DEF LiveHandles, Handle
  <2>2. <<c, Process>> \notin closing
    BY <1>1 DEF LiveHandles, Handle
  <2> QED
    BY <1>1, <1>2, <2>1, <2>2 DEF HandleStates
<1>12. CtlOK'
  BY <1>2 DEF CtlOK, Live
<1>13. WatchOK'
  <2>1. phase' \notin {"destroying", "destroyed"}
    BY DEF AppRuns
  <2>2. \A f \in N : watch'[c][f] = Natural(f)
    BY <1>3 DEF TypeOK
  <2>3. \A f \in Fd : Natural(f) # {} /\ (f \in OutFd => "R" \in Natural(f))
    BY DEF Natural, Fd
  <2>4. ASSUME ~Pauses, NEW d \in Child, NEW f \in pipe_open'[d]
        PROVE  watch'[d][f] # {} /\ (f \in OutFd => "R" \in watch'[d][f])
    <3>1. CASE d = c
      <4>1. f \in N /\ f \in Fd
        BY <1>2, <1>3, <3>1
      <4>2. watch'[d][f] = Natural(f)
        BY <2>2, <3>1, <4>1
      <4> QED
        BY <2>3, <4>1, <4>2
    <3>2. CASE d # c
      BY <1>2, <2>4, <3>2 DEF WatchOK
    <3> QED
      BY <3>1, <3>2
  <2> QED
    BY <2>1, <2>4 DEF WatchOK
<1>14. RetainedOK'
  BY <1>2 DEF RetainedOK, TypeOK
<1> QED
  BY <1>6, <1>7, <1>8, <1>9, <1>10, <1>11, <1>12, <1>13, <1>14

\* A failing yc_child_new keeps the invariant.
LEMMA SpawnFailsStep ==
  ASSUME IInv, NEW c \in Child, SpawnFails(c) PROVE IInv'
<1> USE DEF IInv, SpawnFails, container, pipes
<1>1. mem'[c] = "freed" /\ mem[c] = "none" /\ \A d \in Child \ {c} : mem'[d] = mem[d]
  BY DEF TypeOK
<1>2. Live' = Live
  BY <1>1 DEF Live
<1>3. \A d \in Child : LiveHandles(d)' = LiveHandles(d)
  BY <1>1 DEF LiveHandles
<1>4. TypeOK'
  BY DEF TypeOK
<1>5. IndexOK'
  <2>1. ASSUME NEW k \in 1 .. Len(children) PROVE children[k] \in Child \ {c}
    <3>1. children[k] \in Child
      BY DEF TypeOK
    <3>2. mem[children[k]] = "live"
      BY DEF IndexOK
    <3> QED
      BY <1>1, <3>1, <3>2
  <2> QED
    BY <1>1, <1>2, <2>1 DEF IndexOK
<1>6. NoHandleOutlivesChild'
  <2>1. ASSUME NEW d \in Child, mem'[d] # "live" PROVE LiveHandles(d)' = {}
    BY <1>1, <1>3, <2>1 DEF NoHandleOutlivesChild
  <2> QED
    BY <2>1 DEF NoHandleOutlivesChild
<1>9. DoneWithLastHandle'
  BY <1>2, <1>3 DEF DoneWithLastHandle, Live
<1>7. HandleCount'
  BY <1>3 DEF HandleCount
<1>8. HandleStates' /\ CtlOK' /\ WatchOK'
  BY <1>1, <1>2 DEF HandleStates, CtlOK, WatchOK
<1>10. RetainedOK'
  BY <1>1 DEF RetainedOK, TypeOK
<1> QED
  BY <1>4, <1>5, <1>6, <1>7, <1>8, <1>9, <1>10

\* The exit of a process keeps the invariant.
LEMMA ExitCbStep ==
  ASSUME IInv, NEW c \in Child, ExitCb(c) PROVE IInv'
<1> USE DEF IInv, ExitCb, container, pipes
<1>1. process_exited'[c] /\ \A d \in Child \ {c} : process_exited'[d] = process_exited[d]
  BY DEF TypeOK
<1>2. <<c, Process>> \notin closing
  BY DEF HandleStates
<1>3. \A d \in Child : LiveHandles(d)' = LiveHandles(d)
  <2>1. LiveHandles(c)' = LiveHandles(c)
    <3>1. {h \in Handle : <<c, h>> \in closing'} = {h \in Handle : <<c, h>> \in closing} \cup {Process}
      BY DEF Handle
    <3> QED
      BY <1>1, <3>1 DEF LiveHandles
  <2>2. ASSUME NEW d \in Child \ {c} PROVE LiveHandles(d)' = LiveHandles(d)
    <3>1. \A h : <<d, h>> \in closing' <=> <<d, h>> \in closing
      OBVIOUS
    <3> QED
      BY <1>1, <3>1 DEF LiveHandles
  <2> QED
    BY <2>1, <2>2
<1>4. TypeOK'
  BY DEF TypeOK, Handle
<1>5. IndexOK' /\ RetainedOK' /\ CtlOK' /\ WatchOK'
  BY DEF IndexOK, RetainedOK, CtlOK, WatchOK, Live
<1>6. NoHandleOutlivesChild'
  BY <1>3 DEF NoHandleOutlivesChild
<1>7. DoneWithLastHandle'
  BY <1>3 DEF DoneWithLastHandle, Live
<1>8. HandleCount'
  BY <1>3 DEF HandleCount
<1>9. HandleStates'
  <2>1. ASSUME NEW d \in Child
        PROVE  /\ \A f \in pipe_open[d] : <<d, f>> \notin closing'
               /\ <<d, Process>> \in closing' => process_exited'[d]
    BY <1>1, NameAssumption DEF HandleStates, TypeOK
  <2>2. ASSUME NEW d \in Child
        PROVE  /\ mem[d] = "none" => ~process_exited'[d] /\ ~done_emitted[d]
               /\ mem[d] = "retained" => done_emitted[d]
               /\ done_emitted[d] => process_exited'[d]
    BY <1>1 DEF HandleStates
  <2> QED
    BY <2>1, <2>2 DEF HandleStates
<1> QED
  BY <1>4, <1>5, <1>6, <1>7, <1>8, <1>9

\* The close callback takes its handle away; the count, and with it
\* child_check_done, notices when it was the last.
LEMMA CloseCbStep ==
  ASSUME IInv, NEW c \in Child, NEW h \in Handle, CloseCb(c, h) PROVE IInv'
<1> USE DEF IInv, CloseCb, container, pipes
<1>1. h \in LiveHandles(c) /\ mem[c] = "live"
  BY DEF LiveHandles, NoHandleOutlivesChild
<1>2. h \notin pipe_open[c] /\ (h = Process => process_exited[c])
  BY DEF HandleStates
<1>3. LiveHandles(c)' = LiveHandles(c) \ {h}
  <2>1. {g \in Handle : <<c, g>> \in closing'} = {g \in Handle : <<c, g>> \in closing} \ {h}
    OBVIOUS
  <2> QED
    BY <1>2, <2>1 DEF LiveHandles
<1>4. ASSUME NEW d \in Child \ {c} PROVE LiveHandles(d)' = LiveHandles(d)
  <2>1. \A g : <<d, g>> \in closing' <=> <<d, g>> \in closing
    OBVIOUS
  <2> QED
    BY <2>1 DEF LiveHandles
<1>5. /\ n_uv_handles[c] = Cardinality(LiveHandles(c)) /\ n_uv_handles[c] \in Nat
      /\ Cardinality(LiveHandles(c) \ {h}) = n_uv_handles[c] - 1
      /\ n_uv_handles[c] - 1 \in Nat
      /\ n_uv_handles[c] - 1 = 0 <=> LiveHandles(c) \ {h} = {}
  <2>1. IsFiniteSet(LiveHandles(c)) /\ IsFiniteSet(LiveHandles(c) \ {h})
    BY LiveHandlesFinite, FS_Subset
  <2>2. Cardinality(LiveHandles(c) \ {h}) = Cardinality(LiveHandles(c)) - 1
    BY <1>1, <2>1, FS_RemoveElement
  <2>3. Cardinality(LiveHandles(c) \ {h}) \in Nat
    BY <2>1, FS_CardinalityType
  <2>4. Cardinality(LiveHandles(c) \ {h}) = 0 <=> LiveHandles(c) \ {h} = {}
    BY <2>1, FS_EmptySet
  <2> QED
    BY <2>2, <2>3, <2>4 DEF HandleCount, TypeOK
<1>6. /\ n_uv_handles'[c] = n_uv_handles[c] - 1
      /\ \A d \in Child \ {c} : n_uv_handles'[d] = n_uv_handles[d]
  BY DEF TypeOK
<1>7. ~done_emitted[c]
  BY <1>1 DEF DoneWithLastHandle, Live
<1>8. LiveHandles(c)' = {} => process_exited[c]
  BY <1>1 DEF LiveHandles
<1>9. ctl = InLoop /\ ctl.at = "loop" /\ phase \in {"running", "destroying"}
  BY InLoopType DEF Dispatching
<1>10. \A d \in Live : ~done_emitted[d]
  BY <1>9 DEF DoneWithLastHandle
<1>11. HandleCount'
  <2>1. n_uv_handles'[c] = Cardinality(LiveHandles(c)')
    BY <1>3, <1>5, <1>6
  <2>2. ASSUME NEW d \in Child \ {c} PROVE n_uv_handles'[d] = Cardinality(LiveHandles(d)')
    BY <1>4, <1>6 DEF HandleCount
  <2> QED
    BY <2>1, <2>2 DEF HandleCount
<1>12. NoHandleOutlivesChild'
  <2>1. ASSUME NEW d \in Child, mem'[d] # "live" PROVE LiveHandles(d)' = {}
    BY <1>1, <1>4, <2>1 DEF NoHandleOutlivesChild
  <2> QED
    BY <2>1 DEF NoHandleOutlivesChild
<1>13. IndexOK' /\ RetainedOK' /\ WatchOK'
  BY DEF IndexOK, RetainedOK, WatchOK, Live
<1>14. CASE process_exited[c] /\ n_uv_handles[c] - 1 = 0
  <2>1. /\ done_emitted' = [done_emitted EXCEPT ![c] = TRUE]
        /\ ctl' = InDone(c)
    BY <1>7, <1>14 DEF LastHandle
  <2>2. /\ ctl' \in CtlType /\ ctl'.at = "done" /\ ctl'.child = c
    BY <2>1 DEF InDone, InLoop, CtlType
  <2>3. done_emitted'[c] /\ \A d \in Child \ {c} : done_emitted'[d] = done_emitted[d]
    BY <2>1 DEF TypeOK
  <2>4. TypeOK'
    <3>1. n_uv_handles' \in [Child -> Nat] /\ done_emitted' \in [Child -> BOOLEAN]
      BY <1>5, <2>1 DEF TypeOK
    <3> QED
      BY <2>2, <3>1 DEF TypeOK, CtlType
  <2>5. CtlOK'
    BY <1>1, <1>9, <2>2 DEF CtlOK, Live
  <2>6. DoneWithLastHandle'
    <3>1. LiveHandles(c)' = {}
      BY <1>3, <1>5, <1>14
    <3>2. ASSUME NEW d \in Child \ {c}, mem'[d] = "live"
          PROVE  ~done_emitted'[d] /\ LiveHandles(d)' # {}
      BY <1>4, <1>10, <2>3, <3>2 DEF DoneWithLastHandle, Live
    <3> QED
      BY <2>2, <2>3, <3>1, <3>2 DEF DoneWithLastHandle, Live
  <2>7. HandleStates'
    BY <1>1, <1>14, <2>3 DEF HandleStates
  <2> QED
    BY <1>11, <1>12, <1>13, <2>4, <2>5, <2>6, <2>7
<1>15. CASE ~(process_exited[c] /\ n_uv_handles[c] - 1 = 0)
  <2>1. UNCHANGED <<done_emitted, ctl>>
    BY <1>15 DEF LastHandle
  <2>2. TypeOK'
    <3>1. n_uv_handles' \in [Child -> Nat]
      BY <1>5 DEF TypeOK
    <3> QED
      BY <2>1, <3>1 DEF TypeOK
  <2>3. CtlOK' /\ HandleStates'
    BY <2>1 DEF CtlOK, HandleStates, Live
  <2>4. DoneWithLastHandle'
    <3>1. LiveHandles(c)' # {}
      BY <1>3, <1>5, <1>8, <1>15
    <3>2. ASSUME NEW d \in Child, mem'[d] = "live"
          PROVE  ~done_emitted'[d] /\ LiveHandles(d)' # {}
      BY <1>4, <1>10, <2>1, <3>1, <3>2 DEF DoneWithLastHandle, Live
    <3> QED
      BY <1>9, <2>1, <3>2 DEF DoneWithLastHandle, Live
  <2> QED
    BY <1>11, <1>12, <1>13, <2>2, <2>3, <2>4
<1> QED
  BY <1>14, <1>15

\* What container_retain_done_child keeps: the youngest, one fewer than the
\* limit when it is reached.
Kept(s, m) == IF Len(s) < m THEN s ELSE SubSeq(s, Len(s) + 2 - m, Len(s))

\* What container_retain_done_child keeps before it adds a child: the youngest ones,
\* so many that there is room for one.
LEMMA KeptFacts ==
  ASSUME NEW s \in Seq(Child), NEW m \in Nat \ {0}, Len(s) <= m
  PROVE  \E e \in Nat :
           /\ Kept(s, m) \in Seq(Child) /\ Len(Kept(s, m)) < m
           /\ e <= Len(s) /\ Len(Kept(s, m)) = Len(s) - e
           /\ \A j \in 1 .. Len(s) - e : Kept(s, m)[j] = s[j + e]
<1>1. CASE Len(s) < m
  <2>1. Kept(s, m) = s
    BY <1>1 DEF Kept
  <2> QED
    BY <1>1, <2>1, 0 \in Nat
<1>2. CASE Len(s) = m
  <2>1. Len(s) \in Nat /\ Len(s) + 2 - m = 2 /\ \A i \in 2 .. Len(s) : s[i] \in Child
    BY <1>2
  <2>2. Kept(s, m) = SubSeq(s, 2, Len(s))
    BY <1>2, <2>1 DEF Kept
  <2>3. /\ SubSeq(s, 2, Len(s)) \in Seq(Child)
        /\ Len(SubSeq(s, 2, Len(s))) = Len(s) - 1
        /\ \A j \in 1 .. Len(s) - 1 : SubSeq(s, 2, Len(s))[j] = s[2 + j - 1]
    BY <1>2, <2>1, SubSeqProperties
  <2>4. \A j \in 1 .. Len(s) - 1 : s[2 + j - 1] = s[j + 1]
    BY <2>1
  <2> QED
    BY <1>2, <2>1, <2>2, <2>3, <2>4, 1 \in Nat
<1>3. Len(s) < m \/ Len(s) = m
  <2>1. Len(s) \in Nat
    BY LenProperties
  <2> QED
    BY <2>1
<1> QED
  BY <1>1, <1>2, <1>3, Zenon

\* Retaining or freeing a done child keeps the invariant.
LEMMA RetainStep ==
  ASSUME TypeOK, RetainedOK, NEW c \in Live, Retain(c)
  PROVE  /\ RetainedOK'
         /\ done_children' \in Seq(Child) /\ Len(done_children') <= MaxDone
         /\ mem' \in [Child -> {"none", "live", "retained", "freed"}]
         /\ mem'[c] \in {"retained", "freed"}
         /\ \A d \in Child \ {c} :
              \/ mem'[d] = mem[d]
              \/ mem[d] = "retained" /\ mem'[d] = "freed"
<1> USE DEF Live
<1>1. CASE MaxDone = 0
  <2>1. /\ mem' = [mem EXCEPT ![c] = "freed"] /\ done_children' = done_children
    BY <1>1 DEF Retain
  <2>2. /\ mem \in [Child -> {"none", "live", "retained", "freed"}]
        /\ done_children \in Seq(Child) /\ Len(done_children) <= MaxDone
    BY DEF TypeOK
  <2>3. /\ mem' \in [Child -> {"none", "live", "retained", "freed"}]
        /\ mem'[c] = "freed" /\ mem[c] = "live"
        /\ \A d \in Child \ {c} : mem'[d] = mem[d]
    BY <2>1, <2>2
  <2>4. RetainedOK'
    BY <2>1, <2>3 DEF RetainedOK
  <2> QED
    BY <2>1, <2>2, <2>3, <2>4
<1>2. CASE MaxDone # 0
  <2> DEFINE s    == done_children
             kept == Kept(s, MaxDone)
  <2>0. s \in Seq(Child) /\ Len(s) \in Nat /\ MaxDone \in Nat \ {0} /\ Len(s) <= MaxDone
    BY <1>2, LimitAssumption DEF TypeOK
  <2>2. PICK e \in Nat :
          /\ kept \in Seq(Child) /\ Len(kept) < MaxDone
          /\ e <= Len(s) /\ Len(kept) = Len(s) - e
          /\ \A j \in 1 .. Len(s) - e : kept[j] = s[j + e]
    BY <2>0, KeptFacts
  <2> DEFINE Gone(d) == \E k \in 1 .. e : s[k] = d
  <2>1. /\ done_children' = Append(kept, c)
        /\ mem' = [d \in Child |-> IF d = c THEN "retained"
                                  ELSE IF Gone(d) THEN "freed" ELSE mem[d]]
    <3>1. Len(s) - Len(kept) = e
      BY <2>0, <2>2
    <3> QED
      BY <1>2, <3>1 DEF Retain, Kept
  <2>3. \A d \in Child : mem[d] = "retained" <=> \E k \in 1 .. Len(s) : s[k] = d
    BY DEF RetainedOK
  <2>4. \A i, j \in 1 .. Len(s) : s[i] = s[j] => i = j
    BY DEF RetainedOK
  <2> DEFINE n == Len(s) - e
  <2> HIDE DEF kept, s
  <2>5. /\ n \in Nat /\ n < MaxDone /\ n = Len(s) - e
        /\ done_children' \in Seq(Child) /\ Len(done_children') = n + 1
        /\ \A j \in 1 .. n : done_children'[j] = s[j + e]
        /\ done_children'[n + 1] = c
    BY <2>0, <2>1, <2>2
  <2>5a. 1 .. Len(done_children') = 1 .. n + 1
    BY <2>5
  <2> HIDE DEF n
  <2>5b. n \in Nat
    BY <2>5
  <2>5c. \A k \in 1 .. n + 1 : k \in 1 .. n \/ k = n + 1
    BY <2>5b
  <2>6. \A k \in 1 .. Len(s) : s[k] # c
    BY <2>3
  <2>7. mem' \in [Child -> {"none", "live", "retained", "freed"}] /\ mem'[c] = "retained"
    BY <2>1 DEF TypeOK
  <2>8. ASSUME NEW d \in Child \ {c}, Gone(d)
        PROVE  mem[d] = "retained" /\ mem'[d] = "freed"
    <3>1. PICK k \in 1 .. e : s[k] = d
      BY <2>8
    <3>2. k \in 1 .. Len(s)
      BY <2>0, <2>2
    <3> QED
      BY <2>1, <2>3, <2>8, <3>1, <3>2
  <2>9. ASSUME NEW d \in Child \ {c}, ~Gone(d)
        PROVE  mem'[d] = mem[d]
    BY <2>1, <2>9
  <2>10. ASSUME NEW i \in 1 .. Len(done_children'), NEW j \in 1 .. Len(done_children'),
                done_children'[i] = done_children'[j]
         PROVE  i = j
    <3>1. \A k \in 1 .. n : k + e \in 1 .. Len(s)
      BY <2>0, <2>2, <2>5
    <3>2. \A k \in 1 .. n : done_children'[k] # c
      BY <2>5, <2>6, <3>1
    <3>3. CASE i \in 1 .. n /\ j \in 1 .. n
      <4>1. i + e = j + e
        BY <2>4, <2>5, <2>10, <3>1, <3>3
      <4> QED
        BY <2>2, <3>3, <4>1
    <3>4. CASE i = n + 1 /\ j = n + 1
      BY <3>4
    <3> QED
      BY <2>5, <2>5a, <2>5c, <2>10, <3>2, <3>3, <3>4
  <2>11. ASSUME NEW d \in Child
         PROVE  mem'[d] = "retained" <=> \E k \in 1 .. Len(done_children') : done_children'[k] = d
    <3>1. CASE d = c
      <4>1. n + 1 \in 1 .. Len(done_children')
        BY <2>5
      <4> QED
        BY <2>5, <2>7, <3>1, <4>1
    <3>2. ASSUME d # c
          PROVE  (\E k \in 1 .. Len(done_children') : done_children'[k] = d)
                   <=> \E j \in 1 .. n : s[j + e] = d
      <4>1. \A k \in 1 .. Len(done_children') : k \in 1 .. n \/ k = n + 1
        BY <2>5a, <2>5c
      <4>2. 1 .. n \subseteq 1 .. Len(done_children')
        BY <2>5, <2>5a
      <4> QED
        BY <2>5, <3>2, <4>1, <4>2
    <3>3. CASE d # c /\ Gone(d)
      <4>1. PICK k \in 1 .. e : s[k] = d
        BY <3>3
      <4>2. ASSUME NEW j \in 1 .. n PROVE s[j + e] # d
        <5>1. k \in 1 .. Len(s) /\ j + e \in 1 .. Len(s) /\ k # j + e
          BY <2>0, <2>2, <2>5
        <5> QED
          BY <2>4, <4>1, <5>1
      <4> QED
        BY <2>8, <3>2, <3>3, <4>2
    <3>4. CASE d # c /\ ~Gone(d)
      <4>1. ASSUME NEW k \in 1 .. Len(s), s[k] = d
            PROVE  \E j \in 1 .. n : s[j + e] = d
        <5>1. k \notin 1 .. e
          BY <3>4, <4>1
        <5>2. k - e \in 1 .. n /\ (k - e) + e = k
          BY <2>0, <2>2, <2>5, <5>1
        <5> QED
          BY <4>1, <5>2
      <4>2. ASSUME NEW j \in 1 .. n, s[j + e] = d
            PROVE  \E k \in 1 .. Len(s) : s[k] = d
        <5>1. j + e \in 1 .. Len(s)
          BY <2>0, <2>2, <2>5
        <5> QED
          BY <4>2, <5>1
      <4> QED
        BY <2>3, <2>9, <3>2, <3>4, <4>1, <4>2
    <3> QED
      BY <3>1, <3>3, <3>4
  <2>12. RetainedOK'
    BY <2>10, <2>11 DEF RetainedOK
  <2>13. done_children' \in Seq(Child) /\ Len(done_children') <= MaxDone
    BY <2>0, <2>5
  <2> QED
    BY <2>7, <2>8, <2>9, <2>12, <2>13
<1> QED
  BY <1>1, <1>2

\* child_check_done closes the gap in the array: the other children keep
\* their slots, except the last one, which moves to the finished child's.
LEMMA DoneReturnStep ==
  ASSUME IInv, DoneReturn PROVE IInv'
<1> USE DEF IInv
<1>0. ctl.at = "done" /\ ctl.child \in Live /\ ctl.child \in Child
  BY DEF DoneReturn, SwapRemove, CtlOK, Live
<1> PICK c \in Child : c = ctl.child
  BY <1>0
<1> DEFINE i     == container_index[c]
           n     == Len(children)
           moved == children[n]
<1>1. /\ c \in Live /\ c \in Child /\ LiveHandles(c) = {} /\ done_emitted[c]
      /\ i \in 1 .. n /\ n \in Nat /\ n >= 1 /\ children[i] = c /\ moved \in Live
      /\ phase \in {"running", "destroying"} /\ ctl.at = "done"
  <2>1. ctl.at = "done" /\ c \in Live /\ c \in Child /\ phase \in {"running", "destroying"}
    BY <1>0 DEF CtlOK
  <2>2. i \in 1 .. n /\ children[i] = c
    BY <2>1 DEF IndexOK
  <2>3. n \in Nat /\ n \in 1 .. n /\ n >= 1
    BY <2>2 DEF TypeOK
  <2>4. moved \in Child /\ mem[moved] = "live"
    <3>1. children \in Seq(Child)
      BY DEF TypeOK
    <3>2. moved \in Child
      BY <2>3, <3>1
    <3>3. \A k \in 1 .. n : mem[children[k]] = "live"
      BY DEF IndexOK
    <3> QED
      BY <2>3, <3>2, <3>3
  <2> QED
    BY <2>1, <2>2, <2>3, <2>4 DEF DoneWithLastHandle, Live
<1>2. /\ children' = [k \in 1 .. n - 1 |-> IF k = i THEN moved ELSE children[k]]
      /\ container_index' = [container_index EXCEPT ![moved] = i]
      /\ Retain(c) /\ SignalReady(n - 1) /\ ctl' = InLoop
      /\ UNCHANGED <<phase, n_uv_handles, process_exited, done_emitted, pipes, closing, killed>>
  BY DEF DoneReturn, SwapRemove
<1>3. /\ RetainedOK'
      /\ done_children' \in Seq(Child) /\ Len(done_children') <= MaxDone
      /\ mem' \in [Child -> {"none", "live", "retained", "freed"}]
      /\ mem'[c] \in {"retained", "freed"}
      /\ \A d \in Child \ {c} :
           mem'[d] = mem[d] \/ (mem[d] = "retained" /\ mem'[d] = "freed")
  BY <1>1, <1>2, RetainStep
<1>4. Live' = Live \ {c}
  BY <1>3 DEF Live
<1> HIDE DEF i, n, moved
<1>5. /\ children' \in Seq(Child) /\ Len(children') = n - 1
      /\ \A k \in 1 .. n - 1 : children'[k] = IF k = i THEN moved ELSE children[k]
  <2>1. \A k \in 1 .. n : children[k] \in Child
    BY DEF TypeOK, n
  <2>2. n - 1 \in Nat /\ \A k \in 1 .. n - 1 : k \in 1 .. n
    BY <1>1
  <2>3. \A k \in 1 .. n - 1 : (IF k = i THEN moved ELSE children[k]) \in Child
    BY <1>1, <2>1, <2>2 DEF Live
  <2> QED
    BY <1>2, <2>2, <2>3
<1>6. /\ \A k \in 1 .. n : children[k] \in Live /\ container_index[children[k]] = k
      /\ \A d \in Live : container_index[d] \in 1 .. n /\ children[container_index[d]] = d
  <2>1. \A k \in 1 .. n : children[k] \in Child
    BY DEF TypeOK, n
  <2>2. IndexOK
    OBVIOUS
  <2> HIDE DEF IInv
  <2> QED
    BY <2>1, <2>2 DEF IndexOK, n, Live
<1>7. /\ container_index' \in [Child -> Nat] /\ container_index'[moved] = i
      /\ \A d \in Child \ {moved} : container_index'[d] = container_index[d]
  <2>1. container_index \in [Child -> Nat]
    BY DEF TypeOK
  <2> HIDE DEF IInv
  <2>2. i \in Nat /\ moved \in Child
    BY <1>1 DEF Live
  <2> QED
    BY <1>2, <2>1, <2>2
<1>8. IndexOK'
  <2>1. ASSUME NEW k \in 1 .. Len(children')
        PROVE  children'[k] \in Live \ {c} /\ container_index'[children'[k]] = k
    <3>1. k \in 1 .. n - 1 /\ k \in 1 .. n /\ k # n
      BY <1>1, <1>5
    <3>2. CASE k = i
      <4>1. children'[k] = moved /\ moved # c
        BY <1>1, <1>5, <1>6, <3>1, <3>2 DEF moved
      <4> QED
        BY <1>1, <1>7, <3>2, <4>1
    <3>3. CASE k # i
      <4>1. children'[k] = children[k] /\ children[k] \in Live
            /\ container_index[children[k]] = k
        BY <1>5, <1>6, <3>1, <3>3
      <4>2. children[k] # c /\ children[k] # moved
        BY <1>1, <1>6, <3>1, <3>3, <4>1 DEF moved, i
      <4> QED
        BY <1>7, <4>1, <4>2 DEF Live
    <3> QED
      BY <3>2, <3>3
  <2>2. ASSUME NEW d \in Live \ {c}
        PROVE  /\ container_index'[d] \in 1 .. Len(children')
               /\ children'[container_index'[d]] = d
    <3>1. CASE d = moved
      <4>1. container_index[moved] = n /\ i # n
        BY <1>1, <1>6, <2>2, <3>1 DEF moved
      <4>2. i \in 1 .. n - 1
        BY <1>1, <4>1
      <4> QED
        BY <1>5, <1>7, <3>1, <4>2
    <3>2. CASE d # moved
      <4>1. /\ container_index[d] \in 1 .. n /\ children[container_index[d]] = d
            /\ container_index'[d] = container_index[d]
        BY <1>6, <1>7, <3>2 DEF Live
      <4>2. container_index[d] # n /\ container_index[d] # i
        BY <1>1, <2>2, <3>2, <4>1 DEF moved
      <4>3. container_index[d] \in 1 .. n - 1
        BY <1>1, <4>1, <4>2
      <4> QED
        BY <1>5, <4>1, <4>2, <4>3
    <3> QED
      BY <3>1, <3>2
  <2>3. \A d \in Child : d \in Live \ {c} <=> mem'[d] = "live"
    BY <1>4 DEF Live
  <2>4. \A k \in 1 .. Len(children') :
          mem'[children'[k]] = "live" /\ container_index'[children'[k]] = k
    BY <2>1, <2>3 DEF Live
  <2> QED
    BY <1>4, <2>2, <2>4 DEF IndexOK
<1>9. \A d \in Child : LiveHandles(d)' = LiveHandles(d)
  <2>1. ASSUME NEW d \in Child \ {c} PROVE LiveHandles(d)' = LiveHandles(d)
    BY <1>2, <1>3 DEF LiveHandles, pipes
  <2>2. LiveHandles(c)' = LiveHandles(c)
    <3>1. pipe_open[c] = {} /\ {h \in Handle : <<c, h>> \in closing} = {}
      BY <1>1 DEF LiveHandles
    <3> QED
      BY <1>1, <1>2, <1>3, <3>1 DEF LiveHandles, pipes
  <2> QED
    BY <2>1, <2>2
<1>10. TypeOK'
  <2>1. ready_idle_started' \in BOOLEAN
    BY <1>2 DEF SignalReady, TypeOK
  <2>2. Len(children') <= MaxChildren
    BY <1>1, <1>5, MaxChildrenType DEF TypeOK, n
  <2> QED
    BY <1>2, <1>3, <1>5, <1>7, <2>1, <2>2, InLoopType DEF TypeOK, CtlType, pipes
<1>11. NoHandleOutlivesChild'
  <2>1. ASSUME NEW d \in Child, mem'[d] # "live" PROVE LiveHandles(d)' = {}
    BY <1>1, <1>3, <1>9, <2>1 DEF NoHandleOutlivesChild
  <2> QED
    BY <2>1 DEF NoHandleOutlivesChild
<1>12. DoneWithLastHandle'
  <2>1. ASSUME NEW d \in Live \ {c}
        PROVE  ~done_emitted[d] /\ LiveHandles(d) # {}
    BY <1>1, <2>1 DEF DoneWithLastHandle
  <2>2. ctl'.at = "loop"
    BY <1>2, InLoopType
  <2> QED
    BY <1>2, <1>4, <1>9, <2>1, <2>2 DEF DoneWithLastHandle, Live
<1>13. HandleCount'
  BY <1>2, <1>9 DEF HandleCount
<1>14. HandleStates'
  <2>1. ASSUME NEW d \in Child
        PROVE  /\ mem'[d] = "none" => mem[d] = "none"
               /\ mem'[d] = "retained" => done_emitted[d]
    BY <1>1, <1>3 DEF HandleStates
  <2> QED
    BY <1>2, <2>1 DEF HandleStates, pipes
<1>15. CtlOK' /\ WatchOK'
  BY <1>1, <1>2, InLoopType DEF CtlOK, WatchOK, pipes, SignalReady
<1> QED
  BY <1>3, <1>8, <1>10, <1>11, <1>12, <1>13, <1>14, <1>15

\* The beginning of destroy keeps the invariant.
LEMMA DestroyStep ==
  ASSUME IInv, Destroy PROVE IInv'
<1> USE DEF IInv
<1>1. pipe_open \in [Child -> SUBSET Fd] /\ \A c \in Child : pipe_open[c] \subseteq pipe_open[c]
  BY DEF TypeOK
<1>2. ctl \in CtlType /\ killed' \subseteq Child /\ ready_idle_started' \in BOOLEAN
  BY DEF TypeOK, CtlType, Destroy, Live
<1>3. CtlOK'
  BY DEF Destroy, CtlOK, Live, objects
<1> QED
  BY <1>1, <1>2, <1>3, FdCloseStep DEF Destroy

\* The end of destroy keeps the invariant.
LEMMA DestroyReturnStep ==
  ASSUME IInv, DestroyReturn PROVE IInv'
<1> USE DEF IInv, DestroyReturn, pipes
<1>1. \A c \in Child : mem[c] # "live"
  BY DEF IndexOK, Live
<1>2. \A c \in Child :
        /\ mem'[c] # "live" /\ mem'[c] # "retained"
        /\ mem'[c] = "none" => mem[c] = "none"
  BY <1>1 DEF TypeOK
<1>3. mem' \in [Child -> {"none", "live", "retained", "freed"}]
  BY DEF TypeOK
<1>4. \A c \in Child : LiveHandles(c)' = LiveHandles(c)
  BY <1>1, <1>2 DEF LiveHandles
<1>5. TypeOK'
  <2>1. <<>> \in Seq(Child) /\ Len(<<>>) = 0
    OBVIOUS
  <2> QED
    BY <1>3, <2>1, LimitAssumption DEF TypeOK
<1>6. IndexOK' /\ RetainedOK'
  BY <1>2 DEF IndexOK, RetainedOK, Live
<1>7. NoHandleOutlivesChild'
  BY <1>1, <1>4 DEF NoHandleOutlivesChild
<1>8. DoneWithLastHandle'
  BY <1>2 DEF DoneWithLastHandle, Live
<1>9. HandleCount'
  BY <1>4 DEF HandleCount
<1>10. HandleStates' /\ WatchOK'
  BY <1>2 DEF HandleStates, WatchOK
<1>11. CtlOK'
  BY InLoopType DEF CtlOK
<1> QED
  BY <1>5, <1>6, <1>7, <1>8, <1>9, <1>10, <1>11

\* The beginning of child_fd_poll_cb keeps the invariant.
LEMMA PollEventStep ==
  ASSUME IInv, NEW c \in Child, NEW f \in Fd, NEW ev \in SUBSET Events, PollEvent(c, f, ev)
  PROVE  IInv'
<1> USE DEF IInv
<1>1. ctl = InLoop /\ ctl.at = "loop" /\ mem[c] = "live" /\ phase \in {"running", "destroying"}
      /\ f \in pipe_open[c]
  BY InLoopType DEF PollEvent, Dispatching
<1>2. CASE ev \cap {"R", "W"} # {}
  <2>1. /\ ctl' = InIo(c, f, ev)
        /\ UNCHANGED <<phase, container, objects, pipes, closing, killed>>
    BY <1>2 DEF PollEvent
  <2>2. ctl' \in CtlType /\ ctl'.at = "io" /\ ctl'.child = c /\ ctl'.fd = f
    BY <2>1 DEF InIo, InLoop, CtlType
  <2>3. phase = "running"
    BY <1>1 DEF WatchOK
  <2>4. TypeOK'
    BY <2>1, <2>2 DEF TypeOK, CtlType, container, objects, pipes
  <2>5. CtlOK'
    BY <1>1, <2>1, <2>2, <2>3 DEF CtlOK, Live, objects, container
  <2> QED
    BY <1>1, <2>1, <2>2, <2>4, <2>5, QuietStep DEF container, pipes
<1>3. CASE ~(ev \cap {"R", "W"} # {})
  BY <1>1, <1>3, AfterIoStep DEF PollEvent
<1> QED
  BY <1>2, <1>3

\* The return of io() keeps the invariant.
LEMMA IoReturnStep ==
  ASSUME IInv, IoReturn PROVE IInv'
<1>1. ctl.child \in Child /\ ctl.fd \in Fd /\ ctl.at # "done"
  BY DEF IInv, IoReturn, CtlOK, Live
<1> QED
  BY <1>1, AfterIoStep DEF IoReturn

\* The actions that only move the control state, the phase or the world.
LEMMA OtherSteps ==
  ASSUME IInv,
         \/ OfferStart \/ OfferReturn \/ Run \/ RunReturn \/ Terminated
         \/ \E c \in Child : AppKill(c)
         \/ \E c \in Child, f \in Fd : FarWrite(c, f) \/ FarClose(c, f)
  PROVE  IInv'
<1> USE DEF IInv
<1>1. \A m \in Nat : InOffer(m) \in CtlType /\ InOffer(m).at = "offer"
  BY DEF InOffer, InLoop, CtlType
<1>2. Len(children) \in Nat /\ ctl \in CtlType
  BY DEF TypeOK, CtlType
<1>3. CASE OfferStart
  <2>1. /\ ctl' \in CtlType /\ ctl'.at \in {"offer", "loop"} /\ ctl.at = "loop"
        /\ ctl'.at = "loop" => ctl' = InLoop
    BY <1>1, <1>2, <1>3, InLoopType DEF OfferStart, Dispatching
  <2>2. phase = "running" /\ ~ready_idle_started'
    BY <1>3 DEF OfferStart, CtlOK
  <2>3. TypeOK'
    BY <1>3, <2>1, <2>2 DEF OfferStart, TypeOK, CtlType, objects, pipes
  <2>4. CtlOK'
    BY <1>3, <2>1, <2>2 DEF OfferStart, CtlOK
  <2> QED
    BY <1>3, <2>1, <2>3, <2>4, QuietStep DEF OfferStart, pipes
<1>4. CASE OfferReturn
  <2>1. /\ ctl' \in CtlType /\ ctl'.at \in {"offer", "loop"} /\ ctl.at = "offer"
        /\ ctl'.at = "loop" => ctl' = InLoop
    BY <1>1, <1>2, <1>4, InLoopType DEF OfferReturn
  <2>2. TypeOK'
    BY <1>4, <2>1 DEF OfferReturn, TypeOK, CtlType, container, objects, pipes
  <2>3. CtlOK'
    BY <1>4, <2>1 DEF OfferReturn, CtlOK, container
  <2> QED
    BY <1>4, <2>1, <2>2, <2>3, QuietStep DEF OfferReturn, container, pipes
<1>5. CASE Run
  <2>1. TypeOK'
    BY <1>5 DEF Run, SignalReady, TypeOK, objects, pipes
  <2>2. CtlOK'
    BY <1>5 DEF Run, CtlOK, Live, objects
  <2> QED
    BY <1>5, <2>1, <2>2, QuietStep DEF Run, pipes
<1>6. CASE RunReturn
  <2>1. TypeOK'
    BY <1>6 DEF RunReturn, TypeOK, container, objects, pipes
  <2>2. CtlOK'
    BY <1>6, InLoopType DEF RunReturn, CtlOK, LoopAlive, container
  <2> QED
    BY <1>6, <2>1, <2>2, QuietStep DEF RunReturn, container, pipes
<1>7. CASE Terminated
  <2>1. TypeOK' /\ CtlOK'
    BY <1>7 DEF Terminated, vars, TypeOK, CtlOK, Live
  <2> QED
    BY <1>7, <2>1, QuietStep DEF Terminated, vars, objects
<1>8. CASE \E c \in Child : AppKill(c)
  <2>1. PICK c \in Child : AppKill(c)
    BY <1>8
  <2>2. TypeOK' /\ CtlOK'
    BY <2>1 DEF AppKill, TypeOK, CtlOK, Live, container, objects, pipes
  <2> QED
    BY <2>1, <2>2, QuietStep DEF AppKill, container, pipes
<1>9. CASE \E c \in Child, f \in Fd : FarWrite(c, f) \/ FarClose(c, f)
  <2>1. PICK c \in Child, f \in Fd : FarWrite(c, f) \/ FarClose(c, f)
    BY <1>9
  <2>2. CtlOK'
    BY <2>1 DEF FarWrite, FarClose, CtlOK, Live, container, objects
  <2>3. CASE FarWrite(c, f)
    <3>1. unread' \in [Child -> [Fd -> 0 .. PipeSize]]
      <4>1. unread[c][f] \in 0 .. PipeSize
        BY DEF TypeOK
      <4>2. unread[c][f] < PipeSize
        BY <2>3 DEF FarWrite
      <4>3. unread[c][f] + 1 \in 0 .. PipeSize
        BY <4>1, <4>2, LimitAssumption
      <4> QED
        BY <2>3, <4>3 DEF FarWrite, TypeOK
    <3>2. TypeOK'
      BY <2>3, <3>1 DEF FarWrite, TypeOK, container, objects
    <3> QED
      BY <2>2, <2>3, <3>2, QuietStep DEF FarWrite, container
  <2>4. CASE FarClose(c, f)
    <3>1. TypeOK'
      BY <2>4 DEF FarClose, TypeOK, container, objects
    <3> QED
      BY <2>2, <2>4, <3>1, QuietStep DEF FarClose, container
  <2> QED
    BY <2>1, <2>3, <2>4
<1> QED
  BY <1>3, <1>4, <1>5, <1>6, <1>7, <1>8, <1>9

\* The invariant is inductive.
LEMMA NextIInv == IInv /\ [Next]_vars => IInv'
<1> SUFFICES ASSUME IInv, [Next]_vars PROVE IInv'
  OBVIOUS
<1>1. CASE Next
  <2>1. CASE DoneReturn \/ Destroy \/ DestroyReturn \/ IoReturn
    BY <2>1, DoneReturnStep, DestroyStep, DestroyReturnStep, IoReturnStep
  <2>2. CASE SpawnSomething
    BY <2>2, SpawnStep DEF SpawnSomething
  <2>3. ASSUME NEW c \in Child, SpawnFails(c) \/ ExitCb(c) PROVE IInv'
    BY <2>3, SpawnFailsStep, ExitCbStep
  <2>4. ASSUME NEW c \in Child, NEW h \in Handle, CloseCb(c, h) PROVE IInv'
    BY <2>4, CloseCbStep
  <2>5. ASSUME NEW c \in Child, NEW f \in Fd, AppFdClose(c, f) \/ AppRead(c, f) \/ PollError(c, f)
        PROVE  IInv'
    BY <2>5, AppFdCloseStep, AppReadStep, PollErrorStep
  <2>6. ASSUME NEW c \in Child, NEW f \in Fd, NEW w \in SUBSET {"R", "W"}, AppFdWatch(c, f, w)
        PROVE  IInv'
    BY <2>6, AppFdWatchStep
  <2>7. ASSUME NEW c \in Child, NEW f \in Fd, NEW ev \in SUBSET Events, PollEvent(c, f, ev)
        PROVE  IInv'
    BY <2>7, PollEventStep
  <2>8. CASE OfferStart \/ OfferReturn \/ Run \/ RunReturn \/ Terminated
    BY <2>8, OtherSteps
  <2>9. CASE \/ \E c \in Child : AppKill(c)
             \/ \E c \in Child, f \in Fd : FarWrite(c, f) \/ FarClose(c, f)
    BY <2>9, OtherSteps
  <2> QED
    BY <1>1, <2>1, <2>2, <2>3, <2>4, <2>5, <2>6, <2>7, <2>8, <2>9 DEF Next, Events
<1>2. CASE UNCHANGED vars
  BY <1>2, OtherSteps, QuietStep DEF vars, objects, IInv, TypeOK, CtlOK, Live
<1> QED
  BY <1>1, <1>2

-----------------------------------------------------------------------------
(* The theorems.                                                           *)

\* The strengthened invariant holds in every reachable state.
THEOREM InductiveInvariant == Spec => []IInv
BY InitIInv, NextIInv, PTL DEF Spec

\* Type correctness.
THEOREM TypeCorrect == Spec => []TypeOK
<1>1. IInv => TypeOK
  BY DEF IInv
<1> QED
  BY <1>1, InductiveInvariant, PTL

\* Array and indices agree after every swap-remove.
THEOREM ArrayConsistent == Spec => []IndexOK
<1>1. IInv => IndexOK
  BY DEF IInv
<1> QED
  BY <1>1, InductiveInvariant, PTL

\* No finished child is freed twice.
THEOREM RetainedConsistent == Spec => []RetainedOK
<1>1. IInv => RetainedOK
  BY DEF IInv
<1> QED
  BY <1>1, InductiveInvariant, PTL

\* No libuv callback reaches a child that was freed.
THEOREM HandlesAreGoneFirst == Spec => []NoHandleOutlivesChild
<1>1. IInv => NoHandleOutlivesChild
  BY DEF IInv
<1> QED
  BY <1>1, InductiveInvariant, PTL

\* done() comes exactly with the last handle.
THEOREM DoneOnTime == Spec => []DoneWithLastHandle
<1>1. IInv => DoneWithLastHandle
  BY DEF IInv
<1> QED
  BY <1>1, InductiveInvariant, PTL

\* The loop has something to wait for while a child is left.
THEOREM LoopIsAlive == Spec => []LoopAliveWhileChildren
<1>1. IInv => LoopAliveWhileChildren
  <2> SUFFICES ASSUME IInv, phase = "destroying" \/ ~Pauses, ctl = InLoop, children # <<>>
               PROVE  LoopAlive
    BY DEF LoopAliveWhileChildren
  <2> USE DEF IInv
  <2>1. PICK c \in Child : mem[c] = "live"
    <3>1. 1 \in 1 .. Len(children) /\ children[1] \in Child
      BY DEF TypeOK
    <3> QED
      BY <3>1 DEF IndexOK
  <2>2. LiveHandles(c) # {}
    BY <2>1, InLoopType DEF DoneWithLastHandle, Live
  <2>3. PICK h : h \in LiveHandles(c)
    BY <2>2
  <2>4. CASE ~process_exited[c] \/ <<c, h>> \in closing
    BY <2>1, <2>4 DEF LoopAlive, Live
  <2>5. CASE h \in pipe_open[c]
    BY <2>1, <2>5 DEF LoopAlive, Live, WatchOK
  <2> QED
    BY <2>3, <2>4, <2>5 DEF LiveHandles
<1> QED
  BY <1>1, InductiveInvariant, PTL


-----------------------------------------------------------------------------
(* No slot is lost.                                                        *)

\* A step that takes nothing from the offer and gives no slot back.
LEMMA SameSlotsStep ==
  ASSUME NoLostSlot, ctl.at # "offer" \/ ctl'.at = "offer",
         phase' = phase \/ phase' # "running",
         UNCHANGED <<children, mem, ready_idle_started>>
  PROVE  NoLostSlot'
BY DEF NoLostSlot, WorkLeft, MaxChildren

\* yc_child_new loses no slot: it takes one.
LEMMA NoLostSlotSpawn ==
  ASSUME IInv, NoLostSlot,
         NEW c \in Child, NEW P \in SUBSET Fd, NEW B \in SUBSET P, Spawn(c, P, B)
  PROVE  NoLostSlot'
<1>1. children \in Seq(Child) /\ mem \in [Child -> {"none", "live", "retained", "freed"}]
  BY DEF IInv, TypeOK
<1>2. Len(children') = Len(children) + 1 /\ Len(children) \in Nat
  BY <1>1 DEF Spawn, HasRoom
<1>3. WorkLeft' => WorkLeft
  BY <1>1 DEF Spawn, HasRoom, WorkLeft
<1>4. ctl' = ctl /\ phase' = phase /\ ready_idle_started' = ready_idle_started
  BY DEF Spawn, HasRoom
<1>5. Len(children') < MaxChildren => Len(children) < MaxChildren
  BY <1>2, MaxChildrenType
<1> QED
  BY <1>3, <1>4, <1>5 DEF NoLostSlot, MaxChildren

\* yc_child_new fails: less work is left, and no slot was taken.
LEMMA NoLostSlotSpawnFails ==
  ASSUME IInv, NoLostSlot, NEW c \in Child, SpawnFails(c) PROVE NoLostSlot'
<1>1. WorkLeft' => WorkLeft
  BY DEF SpawnFails, HasRoom, WorkLeft, IInv, TypeOK
<1> QED
  BY <1>1 DEF SpawnFails, HasRoom, container, NoLostSlot, MaxChildren

\* child_check_done signals the slot it frees.
LEMMA NoLostSlotDone ==
  ASSUME IInv, NoLostSlot, DoneReturn PROVE NoLostSlot'
<1>1. Len(children) \in Nat /\ Len(children) >= 1
  <2>1. PICK c \in Live : c = ctl.child
    BY DEF DoneReturn, SwapRemove, IInv, CtlOK
  <2> QED
    BY <2>1 DEF IInv, IndexOK, TypeOK
<1>2. Len(children') = Len(children) - 1
  BY <1>1 DEF DoneReturn, SwapRemove
<1>3. phase' = phase
  BY DEF DoneReturn, SwapRemove
<1>4. SignalReady(Len(children) - 1)
  BY DEF DoneReturn, SwapRemove
<1>5. phase # "destroying" /\ Len(children') < MaxChildren => ready_idle_started'
  BY <1>2, <1>4 DEF SignalReady
<1> QED
  BY <1>3, <1>5 DEF NoLostSlot, MaxChildren

\* The idle callback gives up only when the application declined, which a
\* greedy one does when no work is left, or when no slot is free.
LEMMA NoLostSlotOffer ==
  ASSUME IInv, NoLostSlot, OfferStart \/ OfferReturn \/ Run PROVE NoLostSlot'
<1> USE MaxChildrenType DEF IInv
<1>0. Len(children) \in Nat
  BY DEF TypeOK
<1>1. CASE OfferStart
  BY <1>0, <1>1 DEF OfferStart, NoLostSlot, InOffer, InLoop, objects, MaxChildren
<1>2. CASE OfferReturn
  <2>1. UNCHANGED <<children, mem, phase>>
    BY <1>2 DEF OfferReturn, container, objects
  <2>2. WorkLeft' = WorkLeft
    BY <2>1 DEF WorkLeft
  <2>3. Greedy /\ WorkLeft => Len(children) # ctl.before
    BY <1>2 DEF OfferReturn
  <2>4. Greedy /\ WorkLeft /\ Len(children) < MaxChildren => ctl' = InOffer(Len(children))
    BY <1>2, <2>3 DEF OfferReturn
  <2>5. InOffer(Len(children)).at = "offer"
    BY DEF InOffer, InLoop
  <2> QED
    BY <2>1, <2>2, <2>4, <2>5 DEF NoLostSlot, MaxChildren
<1>3. CASE Run
  BY <1>0, <1>3 DEF Run, SignalReady, NoLostSlot, MaxChildren
<1> QED
  BY <1>1, <1>2, <1>3

\* While something has the application's ear, or libuv dispatches, the slots
\* stay as they are.
LEMMA NoLostSlotPipes ==
  ASSUME IInv, NoLostSlot, NEW c \in Child, NEW f \in Fd,
         \/ AppFdClose(c, f) \/ AppRead(c, f) \/ PollError(c, f)
         \/ FarWrite(c, f) \/ FarClose(c, f)
         \/ \E w \in SUBSET {"R", "W"} : AppFdWatch(c, f, w)
         \/ \E ev \in SUBSET Events : PollEvent(c, f, ev)
  PROVE  NoLostSlot'
<1>1. CASE AppFdClose(c, f)
  BY <1>1, SameSlotsStep DEF AppFdClose, container, objects
<1>2. CASE AppRead(c, f)
  BY <1>2, SameSlotsStep DEF AppRead, container, objects
<1>3. CASE PollError(c, f)
  BY <1>3, SameSlotsStep DEF PollError, container, objects
<1>4. CASE FarWrite(c, f) \/ FarClose(c, f)
  BY <1>4, SameSlotsStep DEF FarWrite, FarClose, container, objects
<1>5. CASE \E w \in SUBSET {"R", "W"} : AppFdWatch(c, f, w)
  BY <1>5, SameSlotsStep DEF AppFdWatch, container, objects
<1>6. CASE \E ev \in SUBSET Events : PollEvent(c, f, ev)
  BY <1>6, SameSlotsStep, InLoopType DEF PollEvent, Dispatching, AfterIo, container, objects
<1> QED
  BY <1>1, <1>2, <1>3, <1>4, <1>5, <1>6

\* No step loses a free slot.
LEMMA NoLostSlotStep == IInv /\ NoLostSlot /\ [Next]_vars => NoLostSlot'
<1> SUFFICES ASSUME IInv, NoLostSlot, [Next]_vars PROVE NoLostSlot'
  OBVIOUS
<1>1. CASE OfferStart \/ OfferReturn \/ Run
  BY <1>1, NoLostSlotOffer
<1>2. CASE DoneReturn
  BY <1>2, NoLostSlotDone
<1>3. CASE SpawnSomething
  BY <1>3, NoLostSlotSpawn DEF SpawnSomething
<1>4. CASE IoReturn
  BY <1>4, SameSlotsStep DEF IoReturn, AfterIo, container, objects
<1>5. CASE RunReturn
  BY <1>5, SameSlotsStep, InLoopType DEF RunReturn, container, objects
<1>6. CASE Destroy \/ DestroyReturn
  BY <1>6 DEF Destroy, DestroyReturn, NoLostSlot
<1>7. CASE Terminated \/ UNCHANGED vars
  BY <1>7, SameSlotsStep DEF Terminated, vars
<1>8. ASSUME NEW c \in Child, SpawnFails(c) PROVE NoLostSlot'
  BY <1>8, NoLostSlotSpawnFails
<1>9. ASSUME NEW c \in Child, AppKill(c) \/ ExitCb(c) PROVE NoLostSlot'
  BY <1>9, SameSlotsStep, InLoopType DEF AppKill, ExitCb, container, objects
<1>10. ASSUME NEW c \in Child, NEW h \in Handle, CloseCb(c, h) PROVE NoLostSlot'
  BY <1>10, SameSlotsStep, InLoopType DEF CloseCb, LastHandle, Dispatching, container, objects
<1>11. ASSUME NEW c \in Child, NEW f \in Fd,
              \/ AppFdClose(c, f) \/ AppRead(c, f) \/ PollError(c, f)
              \/ FarWrite(c, f) \/ FarClose(c, f)
              \/ \E w \in SUBSET {"R", "W"} : AppFdWatch(c, f, w)
              \/ \E ev \in SUBSET Events : PollEvent(c, f, ev)
       PROVE  NoLostSlot'
  BY <1>11, NoLostSlotPipes
<1> QED
  BY <1>1, <1>2, <1>3, <1>4, <1>5, <1>6, <1>7, <1>8, <1>9, <1>10, <1>11 DEF Next, Events

\* While work is left and a slot is free, an offer is pending or being made.
THEOREM SlotsAreOffered == Spec => []NoLostSlot
<1>1. Init => NoLostSlot
  BY DEF Init, NoLostSlot
<1> QED
  BY <1>1, NoLostSlotStep, InductiveInvariant, PTL DEF Spec

-----------------------------------------------------------------------------
(* run does not return early.                                              *)

LEMMA RunReturnStep ==
  ASSUME ~Pauses, IInv, NoLostSlot, LoopAliveWhileChildren, [Next]_vars,
         phase = "running", phase' = "returned"
  PROVE  children = <<>> /\ (Greedy => ~WorkLeft)
<1>1. RunReturn
  <2>1. phase' # phase
    OBVIOUS
  <2>2. ASSUME NEW c \in Child, NEW f \in Fd, NEW ev, AfterIo(c, f, ev) PROVE phase' = phase
    BY <2>2 DEF AfterIo
  <2>3. ~ OfferStart /\ ~ OfferReturn /\ ~ DoneReturn /\ ~ Run /\ ~ Destroy
        /\ ~ DestroyReturn /\ ~ Terminated /\ ~ UNCHANGED vars
    BY <2>1 DEF OfferStart, OfferReturn, DoneReturn, Run, Destroy, DestroyReturn,
       Terminated, vars
  <2>4. ~ IoReturn /\ ~ SpawnSomething
    BY <2>1 DEF IoReturn, AfterIo, SpawnSomething, Spawn
  <2>5. \A c \in Child : ~ SpawnFails(c) /\ ~ AppKill(c) /\ ~ ExitCb(c)
                         /\ \A h \in Handle : ~ CloseCb(c, h)
    BY <2>1 DEF SpawnFails, HasRoom, AppKill, ExitCb, CloseCb
  <2>6. \A c \in Child, f \in Fd :
          /\ ~ AppFdClose(c, f) /\ ~ AppRead(c, f) /\ ~ PollError(c, f)
          /\ ~ FarWrite(c, f) /\ ~ FarClose(c, f)
          /\ \A w \in SUBSET {"R", "W"} : ~ AppFdWatch(c, f, w)
    BY <2>1 DEF AppFdClose, AppRead, PollError, FarWrite, FarClose, AppFdWatch
  <2>7. \A c \in Child, f \in Fd : \A ev \in SUBSET {"R", "W", "H"} : ~ PollEvent(c, f, ev)
    BY <2>1, <2>2 DEF PollEvent
  <2> QED
    BY <2>3, <2>4, <2>5, <2>6, <2>7 DEF Next
<1>2. ctl = InLoop /\ ~LoopAlive
  BY <1>1 DEF RunReturn
<1>3. children = <<>>
  BY <1>2 DEF LoopAliveWhileChildren
<1>4. Len(children) < MaxChildren
  BY <1>3, MaxChildrenType
<1>5. ~ready_idle_started /\ ctl.at # "offer"
  BY <1>2, InLoopType DEF LoopAlive
<1> QED
  BY <1>3, <1>4, <1>5 DEF NoLostSlot

\* yc_child_container_run returns only when every child is done, and then a
\* greedy application has nothing left to spawn.
THEOREM RunDoesNotReturnEarly ==
  ASSUME ~Pauses PROVE Spec => RunUntilEveryChildDone
<1>1. IInv /\ NoLostSlot /\ LoopAliveWhileChildren /\ [Next]_vars
      => [phase = "running" /\ phase' = "returned" =>
            children = <<>> /\ (Greedy => ~WorkLeft)]_vars
  BY RunReturnStep
<1> QED
  BY <1>1, InductiveInvariant, SlotsAreOffered, LoopIsAlive, PTL
     DEF Spec, RunUntilEveryChildDone

-----------------------------------------------------------------------------
(* A hangup discards nothing.                                              *)

\* Nothing is ever buffered towards us in a pipe that we only write.
NothingToRead == \A c \in Child, f \in Fd \ OutFd : unread[c][f] = 0

\* Closing pipes puts no data in those that we write.
LEMMA NothingToReadClose ==
  ASSUME NothingToRead, NEW S, FdClose(S) PROVE NothingToRead'
BY DEF NothingToRead, FdClose

\* Pipes that are not readable for us stay empty.
LEMMA NothingToReadStep == IInv /\ NothingToRead /\ [Next]_vars => NothingToRead'
<1> SUFFICES ASSUME IInv, NothingToRead, [Next]_vars PROVE NothingToRead'
  OBVIOUS
<1>0. UNCHANGED unread => NothingToRead'
  BY DEF NothingToRead
<1>1. CASE \/ OfferStart \/ OfferReturn \/ DoneReturn \/ Run \/ RunReturn
           \/ DestroyReturn \/ Terminated \/ UNCHANGED vars
  BY <1>0, <1>1 DEF OfferStart, OfferReturn, DoneReturn, Run, RunReturn, DestroyReturn,
     Terminated, vars, pipes
<1>2. CASE Destroy
  BY <1>2, NothingToReadClose DEF Destroy
<1>3. ASSUME NEW c \in Child, NEW f \in Fd, NEW ev, AfterIo(c, f, ev) PROVE NothingToRead'
  BY <1>0, <1>3, NothingToReadClose DEF AfterIo
<1>4. CASE IoReturn
  <2>1. ctl.child \in Child /\ ctl.fd \in Fd
    BY <1>4 DEF IoReturn, IInv, CtlOK, Live
  <2> QED
    BY <1>3, <1>4, <2>1 DEF IoReturn
<1>5. CASE SpawnSomething
  BY <1>0, <1>5 DEF SpawnSomething, Spawn
<1>6. ASSUME NEW c \in Child,
             SpawnFails(c) \/ AppKill(c) \/ ExitCb(c) \/ \E h \in Handle : CloseCb(c, h)
      PROVE  NothingToRead'
  BY <1>0, <1>6 DEF SpawnFails, HasRoom, AppKill, ExitCb, CloseCb, pipes
<1>7. ASSUME NEW c \in Child, NEW f \in Fd, AppFdClose(c, f) \/ PollError(c, f)
      PROVE  NothingToRead'
  BY <1>7, NothingToReadClose DEF AppFdClose, PollError
<1>8. ASSUME NEW c \in Child, NEW f \in Fd, AppRead(c, f) PROVE NothingToRead'
  <2>1. CASE unread[c][f] = 0 /\ f \notin far[c]
    BY <1>8, <2>1, NothingToReadClose DEF AppRead
  <2>2. CASE ~(unread[c][f] = 0 /\ f \notin far[c])
    <3>1. PICK k \in 0 .. unread[c][f] : unread' = [unread EXCEPT ![c][f] = @ - k]
      BY <1>8, <2>2 DEF AppRead
    <3>2. f \notin OutFd => unread[c][f] = 0
      BY DEF NothingToRead
    <3>3. f \notin OutFd => k = 0 /\ unread[c][f] - k = 0
      BY <3>1, <3>2
    <3> QED
      BY <3>1, <3>3 DEF NothingToRead, IInv, TypeOK
  <2> QED
    BY <2>1, <2>2
<1>9. ASSUME NEW c \in Child, NEW f \in Fd, FarWrite(c, f) PROVE NothingToRead'
  BY <1>9 DEF FarWrite, NothingToRead, IInv, TypeOK
<1>10. ASSUME NEW c \in Child, NEW f \in Fd,
              FarClose(c, f) \/ \E w \in SUBSET {"R", "W"} : AppFdWatch(c, f, w)
       PROVE  NothingToRead'
  BY <1>0, <1>10 DEF FarClose, AppFdWatch
<1>11. ASSUME NEW c \in Child, NEW f \in Fd, NEW ev, PollEvent(c, f, ev)
       PROVE  NothingToRead'
  BY <1>0, <1>3, <1>11 DEF PollEvent, pipes
<1> QED
  BY <1>1, <1>2, <1>4, <1>5, <1>6, <1>7, <1>8, <1>9, <1>10, <1>11 DEF Next

\* A hangup closes a pipe only when there is nothing in it.
LEMMA AfterIoClosesEmptyPipes ==
  ASSUME ~Pauses, IInv, NothingToRead,
         NEW d \in Child, NEW g \in Fd, NEW ev, AfterIo(d, g, ev),
         NEW c \in Child, NEW f \in Fd, f \in pipe_open[c], f \notin pipe_open'[c]
  PROVE  unread[c][f] = 0
<1>1. c = d /\ f = g /\ g \in pipe_open[d] /\ "R" \notin watch[d][g]
  BY DEF AfterIo, FdClose, Just
<1>2. g \notin OutFd
  BY <1>1 DEF IInv, WatchOK
<1> QED
  BY <1>1, <1>2 DEF NothingToRead

\* While the readable pipes are watched, child_fd_poll_cb closes a pipe on a
\* hangup only when nothing is left to read in it.
THEOREM HangupIsSafe ==
  ASSUME ~Pauses PROVE Spec => HangupLosesNothing
<1>1. ASSUME IInv, NothingToRead, [Next]_vars
      PROVE  [\A c \in Child, f \in Fd :
                /\ f \in pipe_open[c] /\ f \notin pipe_open'[c]
                /\ IoReturn \/ \E ev \in SUBSET Events : PollEvent(c, f, ev)
                => unread[c][f] = 0]_vars
  <2> SUFFICES ASSUME NEW c \in Child, NEW f \in Fd,
                      f \in pipe_open[c], f \notin pipe_open'[c],
                      IoReturn \/ \E ev \in SUBSET Events : PollEvent(c, f, ev)
               PROVE  unread[c][f] = 0
    OBVIOUS
  <2>1. CASE IoReturn
    <3>1. ctl.child \in Child /\ ctl.fd \in Fd
      BY <1>1, <2>1 DEF IoReturn, IInv, CtlOK, Live
    <3> QED
      BY <1>1, <2>1, <3>1, AfterIoClosesEmptyPipes DEF IoReturn
  <2>2. ASSUME NEW ev \in SUBSET Events, PollEvent(c, f, ev) PROVE unread[c][f] = 0
    <3>1. AfterIo(c, f, ev)
      BY <2>2 DEF PollEvent, pipes
    <3> QED
      BY <1>1, <3>1, AfterIoClosesEmptyPipes
  <2> QED
    BY <2>1, <2>2
<1>2. Init => NothingToRead
  BY DEF Init, NothingToRead
<1> QED
  BY <1>1, <1>2, NothingToReadStep, InductiveInvariant, PTL DEF Spec, HangupLosesNothing

-----------------------------------------------------------------------------
(* YcChild implements ChildContract: every step of the container is a step *)
(* of the contract, or is invisible to it.                                 *)

Finished == {c \in Child : done_emitted[c] /\ mem[c] # "live"}
Refused  == {c \in Child : mem[c] = "freed" /\ ~done_emitted[c]}
Exited   == {c \in Child : process_exited[c]}
Held     == [c \in Child |-> LiveHandles(c) \ {Process}]

\* What the contract sees.
Seen == <<Live, Finished, Refused, Exited, Held>>

\* The array has one slot for each live child.
LEMMA LiveCount ==
  ASSUME IInv PROVE IsFiniteSet(Live) /\ Cardinality(Live) = Len(children)
<1> DEFINE n == Len(children)
<1>1. children \in [1 .. n -> Child] /\ n \in Nat
  BY DEF IInv, TypeOK
<1>2. children \in Bijection(1 .. n, Live)
  <2>1. \A k \in 1 .. n : children[k] \in Live
    BY <1>1 DEF IInv, IndexOK, Live
  <2>2. \A j, k \in 1 .. n : children[j] = children[k] => j = k
    BY DEF IInv, IndexOK
  <2>3. \A c \in Live : \E k \in 1 .. n : children[k] = c
    BY DEF IInv, IndexOK
  <2> QED
    BY <1>1, <2>1, <2>2, <2>3 DEF Bijection, Injection, Surjection, IsInjective
<1>3. IsFiniteSet(1 .. n) /\ Cardinality(1 .. n) = n
  <2>1. 1 \in Int /\ n \in Int /\ n >= 0
    BY <1>1
  <2>2. /\ IsFiniteSet(1 .. n)
        /\ Cardinality(1 .. n) = IF 1 > n THEN 0 ELSE n - 1 + 1
    BY <2>1, FS_Interval
  <2> QED
    BY <2>1, <2>2
<1>4. ExistsBijection(1 .. n, Live)
  BY <1>2 DEF ExistsBijection
<1> QED
  BY <1>3, <1>4, FS_Bijection

\* A step that changes no child's life and no handle is invisible.
LEMMA UnseenStep ==
  ASSUME UNCHANGED <<mem, done_emitted, process_exited>>,
         \A c \in Child : LiveHandles(c)' \ {Process} = LiveHandles(c) \ {Process}
  PROVE  UNCHANGED Seen
BY DEF Seen, Live, Finished, Refused, Exited, Held

\* The contract sees nothing of a step that leaves the children's lives alone.
LEMMA SameHandles ==
  ASSUME UNCHANGED <<mem, process_exited, pipe_open, closing>>
  PROVE  \A c \in Child : LiveHandles(c)' = LiveHandles(c)
BY DEF LiveHandles

\* The contract sees nothing of the closing of pipes.
LEMMA FdCloseUnseen ==
  ASSUME IInv, NEW S \in [Child -> SUBSET Fd], \A c \in Child : S[c] \subseteq pipe_open[c],
         FdClose(S), UNCHANGED objects
  PROVE  UNCHANGED Seen
BY FdCloseHandles, UnseenStep DEF IInv, objects

\* Nor of what follows io().
LEMMA AfterIoUnseen ==
  ASSUME IInv, NEW c \in Child, NEW f \in Fd, NEW ev, AfterIo(c, f, ev)
  PROVE  UNCHANGED Seen
<1>1. CASE f \in pipe_open[c] /\ "H" \in ev /\ "R" \notin watch[c][f]
  <2>1. Just(c, f) \in [Child -> SUBSET Fd]
        /\ \A d \in Child : Just(c, f)[d] \subseteq pipe_open[d]
    BY <1>1, JustType DEF IInv
  <2> QED
    BY <1>1, <2>1, FdCloseUnseen DEF AfterIo
<1>2. CASE ~(f \in pipe_open[c] /\ "H" \in ev /\ "R" \notin watch[c][f])
  BY <1>2, SameHandles, UnseenStep DEF AfterIo, objects
<1> QED
  BY <1>1, <1>2

-----------------------------------------------------------------------------
(* The steps the contract sees.                                            *)

\* yc_child_new succeeds: a slot is taken, and one was free.
LEMMA SpawnIsSpawn ==
  ASSUME IInv, NEW c \in Child, NEW P \in SUBSET Fd, NEW B \in SUBSET P, Spawn(c, P, B)
  PROVE  Contract!Spawn(c, P \ B)
<1> USE DEF IInv, TypeOK, HandleStates
<1>1. Live' = Live \cup {c} /\ c \notin Live
  BY DEF Spawn, HasRoom, Live
<1>2. c \notin Finished /\ c \notin Refused /\ Finished' = Finished /\ Refused' = Refused
  BY DEF Spawn, HasRoom, Finished, Refused
<1>3. Cardinality(Live) < MaxChildren
  BY LiveCount DEF Spawn, HasRoom
<1>4. Exited' = Exited
  BY DEF Spawn, HasRoom, Exited
<1>5. LiveHandles(c) = {} /\ ~process_exited[c]
  BY DEF Spawn, HasRoom, NoHandleOutlivesChild
<1>6. \A d \in Child : LiveHandles(d)' \ {Process} =
        IF d = c THEN P \ B ELSE LiveHandles(d) \ {Process}
  <2>1. \A h \in Handle : <<c, h>> \notin closing'
    BY <1>5 DEF LiveHandles, Spawn
  <2>2. P \ B \subseteq Fd /\ Process \notin Fd
    BY NameAssumption
  <2>3. LiveHandles(c)' = (P \ B) \cup {Process}
    BY <1>5, <2>1 DEF LiveHandles, Spawn
  <2>4. \A d \in Child \ {c} : LiveHandles(d)' = LiveHandles(d)
    BY DEF LiveHandles, Spawn
  <2> QED
    BY <2>2, <2>3, <2>4
<1>7. Held' = [Held EXCEPT ![c] = P \ B]
  BY <1>6 DEF Held
<1>8. Contract!Cardinality(Live) = Cardinality(Live)
  BY DEF Contract!Cardinality, Cardinality
<1>9. c \notin Contract!Used
  BY <1>1, <1>2 DEF Contract!Used, Finished, Refused
<1> QED
  BY ONLY <1>1, <1>2, <1>3, <1>4, <1>7, <1>8, <1>9
     DEF Contract!Spawn, Finished, Refused, Exited, Held

\* yc_child_new fails: the child is never heard of again.
LEMMA SpawnFailsIsRefuse ==
  ASSUME IInv, NEW c \in Child, SpawnFails(c) PROVE Contract!Refuse(c)
<1>0. /\ mem \in [Child -> {"none", "live", "retained", "freed"}]
      /\ mem[c] = "none" /\ mem' = [mem EXCEPT ![c] = "freed"]
      /\ ~done_emitted[c] /\ done_emitted' = done_emitted
  BY DEF SpawnFails, HasRoom, IInv, TypeOK, HandleStates
<1>1. Live' = Live /\ c \notin Live
  BY <1>0 DEF Live
<1>2. /\ c \notin Finished /\ c \notin Refused
      /\ Finished' = Finished /\ Refused' = Refused \cup {c}
  BY <1>0 DEF Finished, Refused
<1> USE DEF IInv, TypeOK, HandleStates
<1>3. Exited' = Exited
  BY DEF SpawnFails, HasRoom, Exited
<1>4. \A d \in Child : LiveHandles(d)' \ {Process} = LiveHandles(d) \ {Process}
  <2>1. \A d \in Child \ {c} : LiveHandles(d)' = LiveHandles(d)
    BY DEF LiveHandles, SpawnFails, pipes
  <2>2. LiveHandles(c)' = LiveHandles(c)
    BY DEF LiveHandles, SpawnFails, pipes
  <2> QED
    BY <2>1, <2>2
<1>5. Held' = Held
  BY <1>4 DEF Held
<1> QED
  BY <1>1, <1>2, <1>3, <1>5
     DEF Contract!Refuse, Contract!Used, Finished, Refused, Exited, Held

\* child_exit_cb.
LEMMA ExitCbIsExit ==
  ASSUME IInv, NEW c \in Child, ExitCb(c) PROVE Contract!Exit(c)
<1> USE DEF IInv, TypeOK
<1>1. c \in Live /\ c \notin Exited /\ Exited' = Exited \cup {c}
  BY DEF ExitCb, Live, Exited
<1>2. Live' = Live /\ Finished' = Finished /\ Refused' = Refused
  BY DEF ExitCb, container, Live, Finished, Refused
<1>3. \A d \in Child : LiveHandles(d)' \ {Process} = LiveHandles(d) \ {Process}
  <2>1. \A d \in Child : \A h \in Fd : <<d, h>> \in closing' <=> <<d, h>> \in closing
    BY NameAssumption DEF ExitCb
  <2>2. pipe_open' = pipe_open
    BY DEF ExitCb, pipes
  <2> QED
    BY <2>1, <2>2 DEF LiveHandles, Handle
<1>4. Held' = Held
  BY <1>3 DEF Held
<1> QED
  BY <1>1, <1>2, <1>4 DEF Contract!Exit, Finished, Refused, Exited, Held

\* A close callback gives up the pipe; that of the process is invisible.
LEMMA CloseCbIsClose ==
  ASSUME IInv, NEW c \in Child, NEW h \in Handle, CloseCb(c, h)
  PROVE  (\E f \in Fd : Contract!Close(c, f)) \/ UNCHANGED Seen
<1> USE DEF IInv, TypeOK
<1>1. h \in LiveHandles(c) /\ c \in Live
  BY DEF CloseCb, LastHandle, LiveHandles, NoHandleOutlivesChild, Live
<1>2. Live' = Live /\ Refused' = Refused /\ Exited' = Exited
  BY <1>1 DEF CloseCb, LastHandle, container, Live, Refused, Exited
<1>3. Finished' = Finished
  BY <1>1 DEF CloseCb, LastHandle, container, Finished, Live
<1>4. \A d \in Child : LiveHandles(d)' \ {Process} =
        IF d = c THEN (LiveHandles(d) \ {Process}) \ {h} ELSE LiveHandles(d) \ {Process}
  <2>1. pipe_open' = pipe_open /\ mem' = mem /\ process_exited' = process_exited
    BY DEF CloseCb, LastHandle, container, pipes
  <2>2. \A d \in Child \ {c} : LiveHandles(d)' = LiveHandles(d)
    BY <2>1 DEF LiveHandles, CloseCb
  <2>3. \A g \in Handle : <<c, g>> \in closing' <=> <<c, g>> \in closing /\ g # h
    BY DEF CloseCb, LastHandle
  <2>4. h \notin pipe_open[c]
    BY DEF CloseCb, LastHandle, HandleStates
  <2>5. LiveHandles(c)' \ {Process} = (LiveHandles(c) \ {Process}) \ {h}
    BY <2>1, <2>3, <2>4 DEF LiveHandles
  <2> QED
    BY <2>2, <2>5
<1>5. CASE h = Process
  <2>1. Held' = Held
    BY <1>4, <1>5 DEF Held
  <2> QED
    BY <1>2, <1>3, <2>1 DEF Seen
<1>6. CASE h \in Fd
  <2>1. h \in Held[c] /\ Held' = [Held EXCEPT ![c] = @ \ {h}]
    BY <1>1, <1>4, <1>6, NameAssumption DEF Held
  <2> QED
    BY <1>1, <1>2, <1>3, <1>6, <2>1
       DEF Contract!Close, Finished, Refused, Exited, Held
<1> QED
  BY <1>5, <1>6 DEF Handle

\* child_check_done, after done(): the slot is free again.
LEMMA DoneReturnIsDone ==
  ASSUME IInv, DoneReturn PROVE \E c \in Child : Contract!Done(c)
<1> USE DEF IInv
<1> PICK c \in Live : c = ctl.child
  BY DEF DoneReturn, SwapRemove, CtlOK
<1>1. /\ c \in Child /\ done_emitted[c] /\ process_exited[c] /\ LiveHandles(c) = {}
  BY DEF DoneReturn, SwapRemove, DoneWithLastHandle, HandleStates, Live
<1>2. /\ RetainedOK' /\ mem'[c] \in {"retained", "freed"}
      /\ mem' \in [Child -> {"none", "live", "retained", "freed"}]
      /\ \A d \in Child \ {c} :
           mem'[d] = mem[d] \/ (mem[d] = "retained" /\ mem'[d] = "freed")
  <2>1. Retain(c)
    BY DEF DoneReturn, SwapRemove
  <2> QED
    BY <2>1, RetainStep
<1>3. UNCHANGED <<done_emitted, process_exited, pipe_open, closing>>
  BY DEF DoneReturn, SwapRemove, pipes
<1>4. Live' = Live \ {c}
  BY <1>1, <1>2 DEF Live
<1>5. Finished' = Finished \cup {c}
  BY <1>1, <1>2, <1>3 DEF Finished, HandleStates
<1>6. Refused' = Refused
  BY <1>1, <1>2, <1>3 DEF Refused, HandleStates
<1>7. Exited' = Exited
  BY <1>3 DEF Exited
<1>8. \A d \in Child : LiveHandles(d)' \ {Process} = LiveHandles(d) \ {Process}
  BY <1>2, <1>3 DEF LiveHandles
<1>9. Held' = Held /\ Held[c] = {}
  BY <1>1, <1>8 DEF Held
<1> QED
  BY <1>1, <1>4, <1>5, <1>6, <1>7, <1>9
     DEF Contract!Done, Finished, Refused, Exited, Held

-----------------------------------------------------------------------------
(* The steps it does not see.                                              *)

LEMMA DestroyReturnUnseen ==
  ASSUME IInv, DestroyReturn PROVE UNCHANGED Seen
<1> USE DEF IInv, HandleStates
<1>1. UNCHANGED <<done_emitted, process_exited, pipe_open, closing>>
  BY DEF DestroyReturn, pipes
<1>2. \A c \in Child : mem'[c] = mem[c] \/ (mem[c] = "retained" /\ mem'[c] = "freed")
  BY DEF DestroyReturn
<1>3. \A c \in Child : mem[c] = "retained" => done_emitted[c]
  OBVIOUS
<1>4. Live' = Live /\ Finished' = Finished /\ Refused' = Refused /\ Exited' = Exited
  BY <1>1, <1>2, <1>3 DEF Live, Finished, Refused, Exited
<1>5. \A c \in Child : LiveHandles(c)' = LiveHandles(c)
  BY <1>1, <1>2 DEF LiveHandles
<1> QED
  BY <1>4, <1>5 DEF Seen, Held

\* Every step of the container is a step of the contract, or none.
LEMMA ContractStep == IInv /\ [Next]_vars => [Contract!Next]_Seen
<1> SUFFICES ASSUME IInv, [Next]_vars PROVE Contract!Next \/ UNCHANGED Seen
  OBVIOUS
<1>1. ASSUME UNCHANGED <<objects, pipe_open, closing>> PROVE UNCHANGED Seen
  BY <1>1, SameHandles, UnseenStep DEF objects
<1>2. CASE OfferStart \/ OfferReturn \/ Run \/ RunReturn \/ Terminated \/ UNCHANGED vars
  BY <1>1, <1>2 DEF OfferStart, OfferReturn, Run, RunReturn, Terminated, vars, objects, pipes
<1>3. CASE IoReturn
  <2>1. ctl.child \in Child /\ ctl.fd \in Fd
    BY <1>3 DEF IoReturn, IInv, CtlOK, Live
  <2> QED
    BY <1>3, <2>1, AfterIoUnseen DEF IoReturn
<1>4. CASE DoneReturn
  BY <1>4, DoneReturnIsDone DEF Contract!Next
<1>5. CASE Destroy
  BY <1>5, FdCloseUnseen DEF Destroy, IInv, TypeOK
<1>6. CASE DestroyReturn
  BY <1>6, DestroyReturnUnseen
<1>7. CASE SpawnSomething
  <2>1. PICK c \in Child, P \in SUBSET Fd : \E B \in SUBSET P : Spawn(c, P, B)
    BY <1>7 DEF SpawnSomething
  <2>2. PICK B \in SUBSET P : Spawn(c, P, B)
    BY <2>1
  <2>3. Contract!Spawn(c, P \ B) /\ P \ B \in SUBSET Fd
    BY <2>2, SpawnIsSpawn
  <2> QED
    BY <2>3 DEF Contract!Next
<1>8. ASSUME NEW c \in Child, SpawnFails(c) \/ AppKill(c) \/ ExitCb(c)
      PROVE  Contract!Next \/ UNCHANGED Seen
  <2>1. CASE AppKill(c)
    BY <1>1, <2>1 DEF AppKill, pipes
  <2> QED
    BY <1>8, <2>1, SpawnFailsIsRefuse, ExitCbIsExit DEF Contract!Next
<1>9. ASSUME NEW c \in Child, NEW h \in Handle, CloseCb(c, h)
      PROVE  Contract!Next \/ UNCHANGED Seen
  BY <1>9, CloseCbIsClose DEF Contract!Next
<1>10. ASSUME NEW c \in Child, NEW f \in Fd,
              \/ AppFdClose(c, f) \/ AppRead(c, f) \/ PollError(c, f)
              \/ FarWrite(c, f) \/ FarClose(c, f)
              \/ \E w \in SUBSET {"R", "W"} : AppFdWatch(c, f, w)
              \/ \E ev \in SUBSET {"R", "W", "H"} : PollEvent(c, f, ev)
       PROVE  UNCHANGED Seen
  <2>1. f \in pipe_open[c] => /\ Just(c, f) \in [Child -> SUBSET Fd]
                              /\ \A d \in Child : Just(c, f)[d] \subseteq pipe_open[d]
    BY JustType DEF IInv
  <2>2. CASE AppFdClose(c, f) \/ PollError(c, f)
    BY <2>1, <2>2, FdCloseUnseen DEF AppFdClose, PollError
  <2>3. CASE AppRead(c, f)
    BY <1>1, <2>1, <2>3, FdCloseUnseen DEF AppRead
  <2>4. CASE FarWrite(c, f) \/ FarClose(c, f) \/ \E w \in SUBSET {"R", "W"} : AppFdWatch(c, f, w)
    BY <1>1, <2>4 DEF FarWrite, FarClose, AppFdWatch
  <2>5. ASSUME NEW ev \in SUBSET {"R", "W", "H"}, PollEvent(c, f, ev) PROVE UNCHANGED Seen
    BY <1>1, <2>5, AfterIoUnseen DEF PollEvent, pipes
  <2> QED
    BY <1>10, <2>2, <2>3, <2>4, <2>5
<1> QED
  BY <1>2, <1>3, <1>4, <1>5, <1>6, <1>7, <1>8, <1>9, <1>10 DEF Next

\* The container keeps its contract: at most MaxChildren children at a time,
\* each done once, after its process has exited and its pipes are closed.
THEOREM ContainerImplementsContract == Spec => ContractSpec
<1>1. Init => Contract!Init
  BY NameAssumption DEF Init, Contract!Init, Live, LiveHandles
<1>2. [Contract!Next]_Seen => [Contract!Next]_(Contract!vars)
  BY DEF Seen, Contract!vars, Finished, Refused, Exited, Held
<1> QED
  BY <1>1, <1>2, ContractStep, InductiveInvariant, PTL DEF Spec, ContractSpec, Contract!Spec

=============================================================================

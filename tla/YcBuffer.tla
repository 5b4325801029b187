----------------------------- MODULE YcBuffer -----------------------------
(***************************************************************************)
(* YcBuffer (yc-buffer.c): bytes in chains of fragments.  A native         *)
(* fragment holds up to BUF_CHUNK_SIZE bytes, and a few that are no longer *)
(* needed are kept on a stack for the next one; a foreign one is memory of *)
(* the caller, who is told when it is no longer used.  An operation is     *)
(* atomic: nothing else runs during it, and it calls nothing but the       *)
(* destroy function of foreign memory.                                     *)
(*                                                                         *)
(* The memory m is a record, and an operation on it an operator that       *)
(* returns the memory afterwards.  heap[f] is NIL when f is not allocated. *)
(* What a fragment holds is given by the valid bytes alone.                *)
(***************************************************************************)
EXTENDS Integers, Sequences, FiniteSets, FiniteSetsExt, SequencesExt

CONSTANTS
  Buffer, Fragment,       \* the buffers, and the blocks that malloc returns
  Byte, NUL, NewLine,     \* bytes, and the two that are looked for
  Unset,                  \* a reserved byte that was not filled in yet
  Foreign, ForeignData,   \* memory of the caller, and the bytes in it
  Texts,                  \* what is appended at a time
  BUF_CHUNK_SIZE, MAX_RECYCLED, MAX_FRAGMENTS_TO_WRITE,
  ExactFit,               \* whether printf may fill a fragment to its end
  MaxSize,                \* the bytes that are held at a time, at most
  NIL

ASSUME BufferAssumption ==
  /\ BUF_CHUNK_SIZE \in Nat \ {0} /\ MAX_RECYCLED \in Nat
  /\ MAX_FRAGMENTS_TO_WRITE \in Nat \ {0}
  /\ ForeignData \in [Foreign -> Seq(Byte)]
  /\ {NUL, NewLine} \subseteq Byte /\ Unset \notin Byte

VARIABLES
  m,             \* fragments, buffers and the stack of recycled fragments
  placeholder,   \* what is reserved: [buffer, fragment, offset, length], or NIL
  call           \* the last call: what was asked, and what it returned

vars == <<m, placeholder, call>>

Lesser(i, j) == IF i <= j THEN i ELSE j

-----------------------------------------------------------------------------
\* Fragments.

Avail_IgnoresStart(h, f) == h[f].buf_max_size - Len(h[f].data)

Avail(h, f) == h[f].buf_max_size - h[f].buf_start - Len(h[f].data)

Malloc(h) == Min({f \in Fragment : h[f] = NIL})

\* The fragment that new_native_fragment returns, and the memory then.
Fresh(n) == IF n.recycling_stack # NIL THEN n.recycling_stack ELSE Malloc(n.heap)

NewNative(n) ==
  LET recycled == n.recycling_stack # NIL
  IN [n EXCEPT
        !.heap[Fresh(n)] = [next |-> NIL, data |-> <<>>, buf_start |-> 0,
                            buf_max_size |-> BUF_CHUNK_SIZE, is_foreign |-> FALSE,
                            destroy |-> NIL],
        !.recycling_stack = IF recycled THEN n.heap[@].next ELSE @,
        !.num_recycled = IF recycled THEN @ - 1 ELSE @]

\* A foreign fragment whose owner is told, or (NIL) is not.
NewForeign(n, data, owner) ==
  [n EXCEPT !.heap[Malloc(n.heap)] =
     [next |-> NIL, data |-> data, buf_start |-> 0, buf_max_size |-> Len(data),
      is_foreign |-> TRUE, destroy |-> owner]]

Destroyed(n, owner) == IF owner = NIL THEN n ELSE [n EXCEPT !.destroyed[owner] = @ + 1]

\* Without the return after a foreign fragment.
Recycle_FallsThrough(n, f) ==
  LET told == IF n.heap[f].is_foreign THEN Destroyed(n, n.heap[f].destroy) ELSE n
  IN IF told.num_recycled >= MAX_RECYCLED
       THEN [told EXCEPT !.heap[f] = NIL]
     ELSE [told EXCEPT !.heap[f].next = n.recycling_stack, !.recycling_stack = f,
                       !.num_recycled = @ + 1]

Recycle(n, f) ==
  IF n.heap[f].is_foreign
    THEN [Destroyed(n, n.heap[f].destroy) EXCEPT !.heap[f] = NIL]
  ELSE IF n.num_recycled >= MAX_RECYCLED
    THEN [n EXCEPT !.heap[f] = NIL]
  ELSE [n EXCEPT !.heap[f].next = n.recycling_stack, !.recycling_stack = f,
                 !.num_recycled = @ + 1]

\* Chains.  The fuel ends a walk in a chain that is not one.
RECURSIVE Walk(_, _, _)
Walk(h, f, fuel) ==
  IF f = NIL \/ fuel = 0 \/ h[f] = NIL THEN <<>> ELSE <<f>> \o Walk(h, h[f].next, fuel - 1)

Chain(n, f) == Walk(n.heap, f, Cardinality(Fragment) + 1)
Chained(n, b) == Chain(n, n.first_frag[b])
RECURSIVE Joined(_, _, _)
Joined(h, f, fuel) ==
  IF f = NIL \/ fuel = 0 \/ h[f] = NIL THEN <<>> ELSE h[f].data \o Joined(h, h[f].next, fuel - 1)
Bytes(n, b) == Joined(n.heap, n.first_frag[b], Cardinality(Fragment) + 1)
BytesOf(n, fs) == FlattenSeq([i \in DOMAIN fs |-> n.heap[fs[i]].data])

\* f becomes the last fragment of b.
Link(n, b, f) ==
  IF n.last_frag[b] = NIL
    THEN [n EXCEPT !.first_frag[b] = f, !.last_frag[b] = f]
    ELSE [n EXCEPT !.heap[n.last_frag[b]].next = f, !.last_frag[b] = f]

\* The first fragment of b leaves it.
Unlink(n, b) ==
  LET next == n.heap[n.first_frag[b]].next
  IN [n EXCEPT !.first_frag[b] = next, !.last_frag[b] = IF next = NIL THEN NIL ELSE @]

-----------------------------------------------------------------------------
\* Adding at the end.

WithRoom(n, b) ==
  IF n.last_frag[b] = NIL \/ Avail(n.heap, n.last_frag[b]) <= 0
    THEN Link(NewNative(n), b, Fresh(n)) ELSE n

RECURSIVE Pour(_, _, _)
Pour(n, b, bytes) ==
  IF bytes = <<>> THEN n
  ELSE LET r == WithRoom(n, b)
           f == r.last_frag[b]
           k == Lesser(Avail(r.heap, f), Len(bytes))
       IN Pour([r EXCEPT !.heap[f].data = @ \o SubSeq(bytes, 1, k)], b,
               SubSeq(bytes, k + 1, Len(bytes)))

AppendTo(n, b, bytes) == Pour([n EXCEPT !.size[b] = @ + Len(bytes)], b, bytes)

AppendForeignTo(n, b, data, owner) ==
  IF data = <<>> THEN Destroyed(n, owner)
  ELSE [Link(NewForeign(n, data, owner), b, Malloc(n.heap))
          EXCEPT !.size[b] = @ + Len(data)]

\* vsnprintf keeps the last place for its NUL: a text that fits exactly loses
\* its last byte to it.
Printed(text, rem) ==
  IF Len(text) = rem THEN [text EXCEPT ![rem] = NUL] ELSE text

PrintfTo(n, b, text) ==
  LET last == n.last_frag[b]
      fresh == last = NIL \/ Avail(n.heap, last) = 0
      tried == IF fresh THEN NewNative(n) ELSE n
      frag == IF fresh THEN Fresh(n) ELSE last
      rem == Avail(tried.heap, frag)
      given_up == IF fresh THEN Recycle(tried, frag) ELSE tried
  IN IF text = <<>> THEN given_up
     ELSE IF Len(text) <= rem
       THEN LET put == [tried EXCEPT !.heap[frag].data = @ \o Printed(text, rem),
                                     !.size[b] = @ + Len(text)]
            IN IF fresh THEN Link(put, b, frag) ELSE put
     ELSE IF Len(text) - rem < BUF_CHUNK_SIZE
       THEN AppendTo(given_up, b, text)
     ELSE AppendForeignTo(given_up, b, text, NIL)

-----------------------------------------------------------------------------
\* Looking, from a fragment on.

RECURSIVE PeekFrom(_, _, _)
PeekFrom(n, f, max_length) ==
  IF max_length = 0 \/ f = NIL THEN <<>>
  ELSE LET data == n.heap[f].data
       IN IF Len(data) <= max_length
            THEN data \o PeekFrom(n, n.heap[f].next, max_length - Len(data))
            ELSE SubSeq(data, 1, max_length)

Peek(n, b, max_length) == PeekFrom(n, n.first_frag[b], max_length)

RECURSIVE IndexFrom(_, _, _, _)
IndexFrom(n, f, c, rv) ==
  IF f = NIL THEN -1
  ELSE LET found == {i \in DOMAIN n.heap[f].data : n.heap[f].data[i] = c}
       IN IF found # {} THEN Min(found) - 1 + rv
          ELSE IndexFrom(n, n.heap[f].next, c, rv + Len(n.heap[f].data))

IndexOf(n, b, c) == IndexFrom(n, n.first_frag[b], c, 0)

StartsAt_OneFragment(n, f, i, str) ==
  f # NIL /\ IsPrefix(str, SubSeq(n.heap[f].data, i, Len(n.heap[f].data)))

\* Whether the bytes from place i of f on begin with str.
RECURSIVE StartsAt(_, _, _, _)
StartsAt(n, f, i, str) ==
  \/ str = <<>>
  \/ /\ f # NIL
     /\ IF i > Len(n.heap[f].data) THEN StartsAt(n, n.heap[f].next, 1, str)
        ELSE n.heap[f].data[i] = Head(str) /\ StartsAt(n, f, i + 1, Tail(str))

RECURSIVE StrIndexFrom(_, _, _, _)
StrIndexFrom(n, f, str, rv) ==
  IF f = NIL THEN -1
  ELSE LET found == {i \in DOMAIN n.heap[f].data : StartsAt(n, f, i, str)}
       IN IF found # {} THEN rv + Min(found) - 1
          ELSE StrIndexFrom(n, n.heap[f].next, str, rv + Len(n.heap[f].data))

StrIndexOf(n, b, str) == StrIndexFrom(n, n.first_frag[b], str, 0)

\* The fragment that holds the byte at offset, and how many are before it.
RECURSIVE FindFrom(_, _, _, _)
FindFrom(n, f, frag_offset, offset) ==
  IF frag_offset < offset /\ offset >= frag_offset + Len(n.heap[f].data)
    THEN FindFrom(n, n.heap[f].next, frag_offset + Len(n.heap[f].data), offset)
    ELSE [fragment |-> f, offset |-> frag_offset]

FindFragment(n, b, offset) == FindFrom(n, n.first_frag[b], 0, offset)

GetByteAt(n, b, idx) ==
  LET at == FindFragment(n, b, idx) IN n.heap[at.fragment].data[1 + idx - at.offset]

GetLastByte(n, b) == Last(n.heap[n.last_frag[b]].data)

-----------------------------------------------------------------------------
\* Taking from the front.

RECURSIVE Shed(_, _, _)
Shed(n, b, count) ==
  IF count = 0 \/ n.first_frag[b] = NIL THEN n
  ELSE LET f == n.first_frag[b]
           length == Len(n.heap[f].data)
       IN IF length <= count THEN Shed(Recycle(Unlink(n, b), f), b, count - length)
          ELSE [n EXCEPT !.heap[f].data = SubSeq(@, count + 1, length),
                         !.heap[f].buf_start = @ + count]

Discard(n, b, count) ==
  [Shed(n, b, count) EXCEPT !.size[b] = @ - Len(Peek(n, b, count))]

RECURSIVE RecycleAll(_, _)
RecycleAll(n, f) == IF f = NIL THEN n ELSE RecycleAll(Recycle(n, f), n.heap[f].next)

\* What writev is offered.
Offered(n, b) ==
  LET fs == Chained(n, b)
  IN Len(BytesOf(n, SubSeq(fs, 1, Lesser(Len(fs), MAX_FRAGMENTS_TO_WRITE))))

-----------------------------------------------------------------------------
\* From one buffer to another.

TransferAll_KeepsLast(n, d, s) ==
  IF n.first_frag[s] = NIL THEN n
  ELSE LET joined == IF n.last_frag[d] # NIL
                       THEN [n EXCEPT !.heap[n.last_frag[d]].next = n.first_frag[s]]
                       ELSE [n EXCEPT !.first_frag[d] = n.first_frag[s],
                                      !.last_frag[d] = n.last_frag[s]]
       IN [joined EXCEPT !.first_frag[s] = NIL, !.last_frag[s] = NIL,
                         !.size[d] = @ + n.size[s], !.size[s] = 0]

TransferAll(n, d, s) ==
  IF n.first_frag[s] = NIL THEN n
  ELSE LET joined == IF n.last_frag[d] # NIL
                       THEN [n EXCEPT !.heap[n.last_frag[d]].next = n.first_frag[s]]
                       ELSE [n EXCEPT !.first_frag[d] = n.first_frag[s]]
       IN [joined EXCEPT !.last_frag[d] = n.last_frag[s], !.first_frag[s] = NIL,
                         !.last_frag[s] = NIL, !.size[d] = @ + n.size[s], !.size[s] = 0]

RECURSIVE TransferUpTo(_, _, _, _)
TransferUpTo(n, d, s, max) ==
  LET f == n.first_frag[s]
      length == Len(n.heap[f].data)
  IN IF f = NIL \/ max = 0 THEN n
     ELSE IF length <= max
       THEN LET moved == Link([Unlink(n, s) EXCEPT !.heap[f].next = NIL], d, f)
            IN TransferUpTo([moved EXCEPT !.size[d] = @ + length, !.size[s] = @ - length],
                            d, s, max - length)
     ELSE [AppendTo(n, d, SubSeq(n.heap[f].data, 1, max))
             EXCEPT !.heap[f].data = SubSeq(@, max + 1, length),
                    !.heap[f].buf_start = @ + max, !.size[s] = @ - max]

\* The fragments of s are copied one by one, the last of them in part.
RECURSIVE AppendFragments(_, _, _, _)
AppendFragments(n, d, f, max) ==
  IF f = NIL \/ max = 0 THEN n
  ELSE LET data == n.heap[f].data
       IN IF Len(data) <= max
            THEN AppendFragments(AppendTo(n, d, data), d, n.heap[f].next, max - Len(data))
            ELSE AppendTo(n, d, SubSeq(data, 1, max))

-----------------------------------------------------------------------------
\* Placeholders.

\* Where the reserved bytes begin: at the end of the last fragment, even if it
\* has no room for any of them.
PlaceholderAt(n, grown, b, length) ==
  LET last == n.last_frag[b]
  IN [buffer |-> b, length |-> length,
      fragment |-> IF last = NIL THEN grown.first_frag[b] ELSE last,
      offset |-> IF last = NIL THEN 0 ELSE n.heap[last].buf_start + Len(n.heap[last].data)]

RECURSIVE Overwrite(_, _, _, _)
Overwrite(n, f, offset, bytes) ==
  IF bytes = <<>> THEN n
  ELSE LET first == offset - n.heap[f].buf_start
           k == Lesser(Len(n.heap[f].data) - first, Len(bytes))
           put == [n EXCEPT !.heap[f].data =
                     [i \in DOMAIN @ |-> IF i \in first + 1 .. first + k
                                           THEN bytes[i - first] ELSE @[i]]]
       IN Overwrite(put, n.heap[f].next, 0, SubSeq(bytes, k + 1, Len(bytes)))

-----------------------------------------------------------------------------
\* The calls.

Called(op, b, from, count, bytes) ==
  call' = [op |-> op, buffer |-> b, from |-> from, count |-> count, bytes |-> bytes]

\* The client fills in what it reserved before it takes from that buffer.
PlaceholderWithout(b) ==
  IF placeholder # NIL /\ placeholder.buffer = b THEN NIL ELSE placeholder

\* The bound on what is held, which only a text that is added to nothing passes.
Held == MapThenSumSet(LAMBDA b : m.size[b], Buffer)
RoomFor(count) == Held + count <= MaxSize \/ Held = 0

Init ==
  /\ m = [heap |-> [f \in Fragment |-> NIL],
          first_frag |-> [b \in Buffer |-> NIL], last_frag |-> [b \in Buffer |-> NIL],
          size |-> [b \in Buffer |-> 0], recycling_stack |-> NIL, num_recycled |-> 0,
          destroyed |-> [o \in Foreign |-> 0], lent |-> {}]
  /\ placeholder = NIL /\ call = NIL

AppendBytes(b) ==
  \E text \in Texts :
    /\ RoomFor(Len(text))
    /\ m' = AppendTo(m, b, text)
    /\ Called("append", b, b, Len(text), text)
    /\ UNCHANGED placeholder

AppendRepeatedByte(b) ==
  \E byte \in Byte, count \in {0, 2} :
    LET bytes == [i \in 1 .. count |-> byte] IN
    /\ RoomFor(count)
    /\ m' = AppendTo(m, b, bytes)
    /\ Called("append", b, b, count, bytes)
    /\ UNCHANGED placeholder

AppendForeign(b) ==
  \E owner \in Foreign \ m.lent :
    LET data == ForeignData[owner] IN
    /\ RoomFor(Len(data))
    /\ m' = AppendForeignTo([m EXCEPT !.lent = @ \cup {owner}], b, data, owner)
    /\ Called("append", b, b, Len(data), data)
    /\ UNCHANGED placeholder

Printf(b) ==
  \E text \in Texts :
    LET last == m.last_frag[b]
        avail == IF last = NIL THEN 0 ELSE Avail(m.heap, last)
    IN
    /\ RoomFor(Len(text)) /\ NUL \notin ToSet(text)
    /\ ExactFit \/ Len(text) # IF avail = 0 THEN BUF_CHUNK_SIZE ELSE avail
    /\ m' = PrintfTo(m, b, text)
    /\ Called("append", b, b, Len(text), text)
    /\ UNCHANGED placeholder

\* count bytes are asked for, and these are what the caller gets.
Taken(b, count, bytes) ==
  /\ Called("take", b, b, count, bytes)
  /\ placeholder' = PlaceholderWithout(b)

Read(b) ==
  \E max_length \in 0 .. MaxSize :
    /\ m' = Discard(m, b, max_length)
    /\ Taken(b, max_length, Peek(m, b, max_length))

\* A line, or a string that ends with a NUL; nothing if there is no end.
ReadUntil(b, c) ==
  LET length == IndexOf(m, b, c) IN
  /\ length >= 0
  /\ m' = Discard(m, b, length + 1)
  /\ Taken(b, length + 1, Peek(m, b, length) \o <<c>>)

ReadLine(b) == ReadUntil(b, NewLine)
ParseString0(b) == ReadUntil(b, NUL)

\* The kernel takes some of what it is offered, or fails; writev_len offers at
\* most so many bytes, which is another way for it to take fewer.
Writev(b) ==
  \E rv \in 1 .. Offered(m, b) :
    /\ m' = Discard(m, b, rv)
    /\ Taken(b, rv, Peek(m, b, rv))

EmptyToString(b) ==
  /\ m' = Discard(m, b, m.size[b])
  /\ Taken(b, m.size[b], Peek(m, b, m.size[b]))

Reset(b) ==
  /\ m' = [RecycleAll(m, m.first_frag[b]) EXCEPT
             !.first_frag[b] = NIL, !.last_frag[b] = NIL, !.size[b] = 0]
  /\ Taken(b, m.size[b], Bytes(m, b))

Transfer(d, s) ==
  /\ m' = TransferAll(m, d, s)
  /\ Called("move", d, s, m.size[s], <<>>)
  /\ placeholder' = PlaceholderWithout(s)

TransferMax(d, s) ==
  \E max_transfer \in 0 .. MaxSize :
    /\ m' = TransferUpTo(m, d, s, max_transfer)
    /\ Called("move", d, s, max_transfer, <<>>)
    /\ placeholder' = PlaceholderWithout(s)

AppendBuffer(d, s) ==
  /\ RoomFor(m.size[s])
  /\ m' = AppendFragments(m, d, m.first_frag[s], m.size[s])
  /\ Called("copy", d, s, m.size[s], <<>>)
  /\ UNCHANGED placeholder

AppendBufferMax(d, s) ==
  \E max_transfer \in 0 .. MaxSize :
    /\ RoomFor(Lesser(max_transfer, m.size[s]))
    /\ m' = AppendFragments(m, d, m.first_frag[s], max_transfer)
    /\ Called("copy", d, s, max_transfer, <<>>)
    /\ UNCHANGED placeholder

AppendPlaceholder(b) ==
  \E length \in 0 .. 2 :
    LET grown == AppendTo(m, b, [i \in 1 .. length |-> Unset]) IN
    /\ RoomFor(length) /\ placeholder = NIL
    /\ m' = grown
    /\ placeholder' = PlaceholderAt(m, grown, b, length)
    /\ Called("reserve", b, b, length, <<>>)

PlaceholderSet ==
  \E bytes \in Texts :
    /\ placeholder # NIL /\ Len(bytes) = placeholder.length
    /\ m' = Overwrite(m, placeholder.fragment, placeholder.offset, bytes)
    /\ Called("fill", placeholder.buffer, placeholder.buffer, Len(bytes), bytes)
    /\ placeholder' = NIL

\* _yc_buffer_cleanup_recycling_bin
Cleanup ==
  LET bin == ToSet(Chain(m, m.recycling_stack)) IN
  /\ bin # {}
  /\ m' = [m EXCEPT !.heap = [f \in Fragment |-> IF f \in bin THEN NIL ELSE @[f]],
                    !.recycling_stack = NIL, !.num_recycled = 0]
  /\ UNCHANGED <<placeholder, call>>

Next ==
  \/ \E b \in Buffer :
       \/ AppendBytes(b) \/ AppendRepeatedByte(b) \/ AppendForeign(b) \/ Printf(b)
       \/ Read(b) \/ ReadLine(b) \/ ParseString0(b) \/ Writev(b)
       \/ EmptyToString(b) \/ Reset(b) \/ AppendPlaceholder(b)
  \/ \E d, s \in Buffer :
       d # s /\ (Transfer(d, s) \/ TransferMax(d, s)
                   \/ AppendBuffer(d, s) \/ AppendBufferMax(d, s))
  \/ PlaceholderSet \/ Cleanup

Spec == Init /\ [][Next]_vars

-----------------------------------------------------------------------------
\* Properties.

\* The invariant of yc-buffer.h, and that every fragment is in one place: what
\* is allocated is in one buffer or on the stack, each buffer's counts and its
\* last fragment agree with its chain, no fragment is empty or over-full.
FragmentsOK ==
  LET stack == Chain(m, m.recycling_stack)
      buffers == SetToSeq(Buffer)
      chains == FlattenSeq([i \in DOMAIN buffers |-> Chained(m, buffers[i])]) \o stack
  IN /\ IsInjective(chains)
     /\ ToSet(chains) = {f \in Fragment : m.heap[f] # NIL}
     /\ m.num_recycled = Len(stack) /\ m.num_recycled <= MAX_RECYCLED
     /\ \A b \in Buffer :
          LET chain == Chained(m, b) IN
          /\ m.size[b] = Len(Bytes(m, b))
          /\ m.last_frag[b] = IF chain = <<>> THEN NIL ELSE Last(chain)
          /\ \A f \in ToSet(chain) :
               /\ m.heap[f].data # <<>>
               /\ m.heap[f].buf_start + Len(m.heap[f].data) <= m.heap[f].buf_max_size

\* The owner of foreign memory is told once, and only when no buffer uses it.
OwnersToldOnce ==
  \A owner \in Foreign :
    LET using == {f \in Fragment : m.heap[f] # NIL /\ m.heap[f].destroy = owner} IN
    m.destroyed[owner] + Cardinality(using) = IF owner \in m.lent THEN 1 ELSE 0

\* However the bytes are cut into fragments, the questions that only look are
\* answered as they would be of the bytes in a row.
LooksRight ==
  \A b \in Buffer :
    LET bytes == Bytes(m, b)
        Places(text) == {i \in 0 .. Len(bytes) - Len(text) :
                           SubSeq(bytes, i + 1, i + Len(text)) = text}
    IN /\ \A c \in Byte : IndexOf(m, b, c) = IF Places(<<c>>) = {} THEN -1 ELSE Min(Places(<<c>>))
       /\ \A text \in Texts \ {<<>>} :
            StrIndexOf(m, b, text) = IF Places(text) = {} THEN -1 ELSE Min(Places(text))
       /\ \A i \in 1 .. Len(bytes) : GetByteAt(m, b, i - 1) = bytes[i]
       /\ bytes # <<>> => GetLastByte(m, b) = Last(bytes)

\* Where the placeholder's bytes are among the bytes of its buffer.
Hole ==
  IF placeholder = NIL THEN NIL
  ELSE LET chain == Chained(m, placeholder.buffer)
           before == SelectInSeq(chain, LAMBDA f : f = placeholder.fragment)
       IN [buffer |-> placeholder.buffer, length |-> placeholder.length,
           at |-> IF placeholder.fragment = NIL THEN 1
                  ELSE Len(BytesOf(m, SubSeq(chain, 1, before - 1))) + 1
                         + placeholder.offset - m.heap[placeholder.fragment].buf_start]

\* What the calls return and leave is what a queue of bytes returns and leaves.
Queue == INSTANCE ByteQueue WITH
  queue <- [b \in Buffer |-> Bytes(m, b)], hole <- Hole, None <- NIL

ByteQueueSpec == Queue!QueueSpec
=============================================================================

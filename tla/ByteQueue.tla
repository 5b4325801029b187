----------------------------- MODULE ByteQueue -----------------------------
(***************************************************************************)
(* What a YcBuffer promises (yc-buffer.h): a queue of bytes, to which they *)
(* are added at the end and from which they are taken at the front, as     *)
(* many as were asked for or all there are; a prefix of one queue can be   *)
(* moved or copied to another.  Bytes can be reserved at the end and be    *)
(* filled in later, as long as nothing was taken in between.               *)
(***************************************************************************)
EXTENDS Integers, Sequences

CONSTANTS Buffer, Unset, None

VARIABLES
  queue,    \* the bytes of each buffer
  hole,     \* what is reserved: [buffer, at, length], or None
  call      \* the last call and what it returned

vars == <<queue, hole, call>>

Lesser(m, n) == IF m <= n THEN m ELSE n
Prefix(q, n) == SubSeq(q, 1, n)
Rest(q, n) == SubSeq(q, n + 1, Len(q))

\* Whatever is taken from a buffer, the bytes reserved in it are given up.
HoleWithout(b) == IF hole # None /\ hole.buffer = b THEN None ELSE hole

Init == queue = [b \in Buffer |-> <<>>] /\ hole = None /\ call = None

Add ==
  /\ call'.op = "append"
  /\ queue' = [queue EXCEPT ![call'.buffer] = @ \o call'.bytes]
  /\ UNCHANGED hole

Take ==
  /\ call'.op = "take"
  /\ LET b == call'.buffer IN
     \E q \in {queue[b]} :
       LET n == Lesser(call'.count, Len(q)) IN
       /\ call'.bytes = Prefix(q, n)
       /\ queue' = [queue EXCEPT ![b] = Rest(q, n)]
       /\ hole' = HoleWithout(b)

Move ==
  /\ call'.op = "move"
  /\ LET s == call'.from IN
     \E q \in {queue} :
       LET n == Lesser(call'.count, Len(q[s])) IN
       /\ queue' = [q EXCEPT ![call'.buffer] = @ \o Prefix(q[s], n), ![s] = Rest(q[s], n)]
       /\ hole' = HoleWithout(s)

Copy ==
  /\ call'.op = "copy"
  /\ \E q \in {queue} :
       LET source == q[call'.from]
           n == Lesser(call'.count, Len(source))
       IN queue' = [q EXCEPT ![call'.buffer] = @ \o Prefix(source, n)]
  /\ UNCHANGED hole

Reserve ==
  /\ call'.op = "reserve"
  /\ LET b == call'.buffer
         n == call'.count
     IN /\ queue' = [queue EXCEPT ![b] = @ \o [i \in 1 .. n |-> Unset]]
        /\ hole' = [buffer |-> b, at |-> Len(queue[b]) + 1, length |-> n]

Fill ==
  /\ call'.op = "fill" /\ hole # None
  /\ LET reserved == hole.at .. hole.at + hole.length - 1
     IN queue' = [queue EXCEPT ![hole.buffer] =
          [i \in 1 .. Len(@) |->
             IF i \in reserved THEN call'.bytes[i - hole.at + 1] ELSE @[i]]]
  /\ hole' = None

Next == Add \/ Take \/ Move \/ Copy \/ Reserve \/ Fill

QueueSpec == Init /\ [][Next]_vars
=============================================================================

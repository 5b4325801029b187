------------------------------ MODULE LineQueue ------------------------------
(***************************************************************************)
(* What a buffer of lines promises (yc-circular-buffer.h): it shows the    *)
(* youngest lines, whole, and drops the oldest one only when the next line *)
(* has no room.  A line that is too long is cut as late as possible, and   *)
(* between two characters.  The bytes it says it holds are those of its    *)
(* lines.                                                                  *)
(***************************************************************************)
EXTENDS Naturals, SequencesExt

CONSTANTS
  BufferSize, MaxLineLength, MaxLines,
  Utf8,      \* is a character of several bytes kept whole?
  Incoming, Nothing

VARIABLES
  queue,     \* the lines that are shown, oldest first
  incoming,  \* the line that is being added: what was given, and what is shown of it
  occupancy  \* the bytes of the lines

vars == <<queue, incoming, occupancy>>

Size(q) == Len(FlattenSeq([i \in DOMAIN q |-> q[i].text]))

Fits ==
  Len(queue) < MaxLines /\ Size(queue) + Len(incoming.text) <= BufferSize

\* A prefix of a text that does not end inside a character, if that matters.
Whole(t, text) ==
  /\ IsPrefix(t, text)
  /\ Utf8 /\ Len(t) \in 1 .. Len(text) - 1 => text[Len(t) + 1] # "continuation"

\* t shows as much of a text as is allowed.
Shows(t, text) ==
  /\ Whole(t, text) /\ Len(t) <= MaxLineLength
  /\ \A n \in Len(t) + 1 .. Len(text) :
       n > MaxLineLength \/ ~Whole(SubSeq(text, 1, n), text)

Init == queue = <<>> /\ incoming = Nothing /\ occupancy = 0

Offer ==
  /\ incoming = Nothing
  /\ incoming' \in Incoming
  /\ Shows(incoming'.text, incoming'.given)
  /\ incoming'.truncated = (incoming'.text # incoming'.given)
  /\ UNCHANGED queue

Evict ==
  /\ incoming # Nothing /\ ~Fits
  /\ queue' = Tail(queue)
  /\ UNCHANGED incoming

Store ==
  /\ incoming # Nothing /\ Fits
  /\ queue' = Append(queue, [text |-> incoming.text, truncated |-> incoming.truncated,
                              data |-> incoming.data])
  /\ incoming' = Nothing

Next == (Offer \/ Evict \/ Store) /\ occupancy' = Size(queue')

Spec == Init /\ [][Next]_vars
=============================================================================

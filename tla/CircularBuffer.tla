--------------------------- MODULE CircularBuffer ---------------------------
(***************************************************************************)
(* The buffer of lines behind the two-pane UI (yc-circular-buffer.c): a    *)
(* ring of bytes, and a ring of records that say where each line starts.   *)
(* The end of a line is not stored: it is the start of the next one, or    *)
(* write_pos.                                                              *)
(*                                                                         *)
(* yc_circular_buffer_add is three actions: up to its loop, one round of   *)
(* the loop, and the rest.  Positions count from 0, as in the code.        *)
(***************************************************************************)
EXTENDS Naturals, SequencesExt

CONSTANTS
  BufferSize, MaxLineLength, MaxLines,  \* buffer_size, max_line_length, max_lines
  Utf8,        \* utf8_sensitive_truncation
  LineData,    \* what the caller attaches to a line
  MinLength,   \* what the caller adds has so many bytes at least: 0 or 1
  MaxText,     \* bound: bytes of a text that is added
  Nothing      \* no line is being added; memory nobody has written

ASSUME SizeAssumption ==
  /\ BufferSize \in Nat \ {0} /\ MaxLines \in Nat \ {0} /\ MaxText \in Nat
  /\ MaxLineLength \in Nat /\ MaxLineLength <= BufferSize
  /\ MinLength \in {0, 1}
  /\ Utf8 \in BOOLEAN

\* is_utf8_initial_char tells two kinds of bytes apart.
Byte == {"initial", "continuation"}
Texts(n) == UNION {[1 .. k -> Byte] : k \in 0 .. n}

Slot == 0 .. MaxLines - 1
Pos  == 0 .. BufferSize - 1

VARIABLES
  buf, write_pos, buf_occupancy,
  lines,              \* the records: is_truncated, line_start and line_data
  write_line_index, num_lines,
  adding              \* the line that is being added, if any: what the caller
                      \*   gave, and what is left of it

ring == <<buf, write_pos, buf_occupancy>>
vars == <<buf, write_pos, buf_occupancy, lines, write_line_index, num_lines, adding>>

Init ==
  /\ buf = [p \in Pos |-> Nothing]
  /\ write_pos = 0 /\ buf_occupancy = 0
  /\ lines = [s \in Slot |-> Nothing]
  /\ write_line_index = 0 /\ num_lines = 0
  /\ adding = Nothing

\* Mutant: a text may be cut inside a character.
Truncate_Anywhere(text) ==
  IF Len(text) <= MaxLineLength THEN text ELSE SubSeq(text, 1, MaxLineLength)

\* Where a text that is too long is cut.
Truncate(text) ==
  LET ends == IF Utf8
              THEN {0} \cup {n \in 1 .. MaxLineLength : text[n + 1] = "initial"}
              ELSE {MaxLineLength}
  IN  IF Len(text) <= MaxLineLength THEN text ELSE SubSeq(text, 1, Max(ends))

\* yc_circular_buffer_add, up to its loop.
AddStart(text, data) ==
  /\ adding = Nothing /\ Len(Truncate(text)) >= MinLength
  /\ adding' = [given |-> text, text |-> Truncate(text),
                truncated |-> Len(text) > MaxLineLength, data |-> data]
  /\ UNCHANGED <<ring, lines, write_line_index, num_lines>>

\* The slot of the line of a given age; the newest has age 0.
SlotOf(age) == (write_line_index + MaxLines - age - 1) % MaxLines

Start(age) == lines[SlotOf(age)].line_start
End(age)   == IF age = 0 THEN write_pos ELSE lines[(SlotOf(age) + 1) % MaxLines].line_start

\* The loop condition of yc_circular_buffer_add.
NoRoom ==
  Len(adding.text) + buf_occupancy > BufferSize \/ num_lines = MaxLines

\* Mutant: start = end means empty, also for a lone line.
OldestLength_NeverFull ==
  LET start == Start(num_lines - 1)
      end   == End(num_lines - 1)
  IN  IF start <= end THEN end - start ELSE end + BufferSize - start

\* The length of the oldest line: start = end is ambiguous.
OldestLength ==
  LET start == Start(num_lines - 1)
      end   == End(num_lines - 1)
  IN  IF start = end THEN (IF num_lines = 1 THEN buf_occupancy ELSE 0)
      ELSE IF start < end THEN end - start
      ELSE end + BufferSize - start

\* One round of the loop: the oldest line is dropped, if there is one (the assert).
Evict ==
  /\ adding # Nothing /\ NoRoom
  /\ num_lines > 0
  /\ buf_occupancy' = buf_occupancy - OldestLength
  /\ num_lines' = num_lines - 1
  /\ UNCHANGED <<buf, write_pos, lines, write_line_index, adding>>

\* The rest of yc_circular_buffer_add.
AddFinish ==
  /\ adding # Nothing /\ ~NoRoom
  /\ lines' = [lines EXCEPT ![write_line_index] =
                 [is_truncated |-> adding.truncated, line_start |-> write_pos,
                  line_data |-> adding.data]]
  /\ write_line_index' = (write_line_index + 1) % MaxLines
  /\ num_lines' = num_lines + 1
  /\ LET len == Len(adding.text)
     IN  /\ buf' = [p \in Pos |->
                      LET k == (p + BufferSize - write_pos) % BufferSize
                      IN  IF k < len THEN adding.text[k + 1] ELSE buf[p]]
         /\ write_pos' = (write_pos + len) % BufferSize
         /\ buf_occupancy' = buf_occupancy + len
  /\ adding' = Nothing

Next ==
  \/ \E text \in Texts(MaxText), data \in LineData : AddStart(text, data)
  \/ Evict \/ AddFinish

Spec == Init /\ [][Next]_vars

\* Bytes first .. last - 1 of the ring.
Part(first, last) == [k \in 1 .. last - first |-> buf[first + k - 1]]

\* Mutant: start = end means empty, also for a lone line.
GetText_NeverFull(age) ==
  IF Start(age) <= End(age) THEN Part(Start(age), End(age))
  ELSE Part(Start(age), BufferSize) \o Part(0, End(age))

\* yc_circular_buffer_get_line: the bytes of the first part and the second.
GetText(age) ==
  LET start == Start(age)
      end   == End(age)
      rest  == buf_occupancy - (BufferSize - start)
  IN  IF start = end /\ num_lines = 1 /\ buf_occupancy > 0
      THEN IF start + buf_occupancy <= BufferSize
           THEN Part(start, start + buf_occupancy)
           ELSE Part(start, BufferSize) \o Part(0, rest)
      ELSE IF start <= end THEN Part(start, end)
      ELSE Part(start, BufferSize) \o Part(0, end)

GetLine(age) ==
  [text |-> GetText(age), truncated |-> lines[SlotOf(age)].is_truncated,
   data |-> lines[SlotOf(age)].line_data]

(* Properties                                                              *)

Adding == [given : Texts(MaxText), text : Texts(MaxLineLength), truncated : BOOLEAN,
           data : LineData]

\* The lines that are shown, oldest first.
Shown == [k \in 1 .. num_lines |-> GetLine(num_lines - k)]

\* The buffer shows what was added, as LineQueue says, and get_stats agrees with
\* get_line: of lines that start where they end, the empty ones and the one that fills
\* the ring are told apart (yc_circular_buffer_get_line, yc_circular_buffer_add).
Queue == INSTANCE LineQueue WITH
  Incoming <- Adding,
  queue    <- Shown,
  incoming <- adding,
  occupancy <- buf_occupancy

QueueSpec == Queue!Spec

\* The assertion of the eviction loop: while the new line has no room there is a line to
\* drop, so that the loop ends, although the length that is taken off the occupancy is a
\* guess where start = end (yc_circular_buffer_add).
LineToDrop == adding # Nothing /\ NoRoom => num_lines > 0

\* "start==end means empty, or exactly the whole ring.  Only a lone line can be the
\* latter" (yc_circular_buffer_get_line): so the lines that are shown have the bytes
\* which get_stats counts.
OnlyLoneFillsRing == Queue!Size(Shown) = buf_occupancy

=============================================================================

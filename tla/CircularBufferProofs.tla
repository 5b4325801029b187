------------------------ MODULE CircularBufferProofs ------------------------
(***************************************************************************)
(* CircularBuffer, for every size of the buffer, every number of lines and *)
(* every limit on their length.  It implements LineQueue unless lines that *)
(* fill the ring meet lines without a byte.                                *)
(***************************************************************************)
EXTENDS CircularBuffer, SequenceFacts

-----------------------------------------------------------------------------
(* The inductive invariant.                                                *)

Record == [is_truncated : BOOLEAN, line_start : Pos, line_data : LineData]

RingType ==
  /\ buf \in [Pos -> Byte \cup {Nothing}]
  /\ write_pos \in Pos /\ buf_occupancy \in 0 .. BufferSize
  /\ lines \in [Slot -> Record \cup {Nothing}]
  /\ write_line_index \in Slot /\ num_lines \in 0 .. MaxLines

\* The place d bytes before the one that is written next.
Back(d) == (write_pos + BufferSize - d) % BufferSize

\* off[a] is how many bytes the a youngest lines have together.
Offsets(off) ==
  /\ off \in [0 .. num_lines -> 0 .. buf_occupancy]
  /\ off[0] = 0 /\ off[num_lines] = buf_occupancy
  /\ \A a, b \in 0 .. num_lines : a <= b => off[a] <= off[b]
  /\ \A a \in 0 .. num_lines - 1 :
       /\ lines[SlotOf(a)] \in Record
       /\ off[a + 1] - off[a] \in MinLength .. MaxLineLength
       /\ Start(a) = Back(off[a + 1])

Layout == \E off \in [0 .. num_lines -> 0 .. buf_occupancy] : Offsets(off)

AddingType ==
  \/ adding = Nothing
  \/ /\ adding \in Adding
     /\ Len(adding.text) \in MinLength .. MaxLineLength

RingInv == RingType /\ Layout /\ AddingType

\* No line that fills the ring meets one without a byte.
Unambiguous == MaxLineLength < BufferSize \/ MinLength > 0

\* The bytes that are shown are those that are counted.
Counted == Queue!Size(Shown) = buf_occupancy

-----------------------------------------------------------------------------
(* Places in the two rings.                                                *)

LEMMA Modulo ==
  ASSUME NEW n \in Nat \ {0}, NEW a \in Nat
  PROVE  /\ a < n => a % n = a
         /\ n <= a /\ a < 2 * n => a % n = a - n
<1>1. a < n => a % n = a
  OBVIOUS
<1>2. ASSUME n <= a, a < 2 * n PROVE a % n = a - n
  <2>1. a - n \in 0 .. n - 1 /\ a = (a - n) + n
    BY <1>2
  <2>2. \A b \in 0 .. n - 1 : (b + n) % n = b
    OBVIOUS
  <2> QED
    BY <2>1, <2>2
<1> QED
  BY <1>1, <1>2

\* d places back from place w in a ring of n.
LEMMA Rotate ==
  ASSUME NEW n \in Nat \ {0}, NEW w \in 0 .. n - 1, NEW d \in 0 .. n
  PROVE  (w + n - d) % n = IF d <= w THEN w - d ELSE w + n - d
<1> DEFINE x == w + n - d
<1>1. /\ x \in Nat /\ x < 2 * n /\ x - n = w - d
      /\ d <= w => n <= x
      /\ ~ (d <= w) => x < n
  OBVIOUS
<1> HIDE DEF x
<1>2. x % n = IF d <= w THEN x - n ELSE x
  BY <1>1, Modulo
<1> QED
  BY <1>1, <1>2 DEF x

\* v is len places after w: where the old places, and the len new ones, are.
Advanced(n, w, len, v) ==
  /\ v \in 0 .. n - 1
  /\ \A d \in 0 .. n - len : (v + n - (d + len)) % n = (w + n - d) % n
  /\ \A e \in 1 .. n :
       /\ (w + n - e) % n \in 0 .. n - 1
       /\ (((w + n - e) % n) + n - w) % n = n - e
  /\ \A k \in 1 .. len :
       /\ (v + n - (len - k + 1)) % n \in 0 .. n - 1
       /\ (((v + n - (len - k + 1)) % n) + n - w) % n = k - 1

\* After writing len bytes from w, what is k bytes behind is where the k-th last of
\* them went.
LEMMA Advance ==
  ASSUME NEW n \in Nat \ {0}, NEW w \in 0 .. n - 1, NEW len \in 0 .. n,
         NEW v, v = (w + len) % n
  PROVE  Advanced(n, w, len, v)
<1>1. v = (IF w + len < n THEN w + len ELSE w + len - n) /\ v \in 0 .. n - 1
  <2> DEFINE x == w + len
  <2>1. x \in Nat /\ x < 2 * n
    OBVIOUS
  <2>2. v = x % n
    OBVIOUS
  <2> HIDE DEF x
  <2>3. x % n = IF x < n THEN x ELSE x - n
    <3>1. (x < n => x % n = x) /\ (n <= x /\ x < 2 * n => x % n = x - n)
      BY <2>1, Modulo
    <3> QED
      BY <2>1, <3>1
  <2>4. v = IF x < n THEN x ELSE x - n
    BY <2>2, <2>3
  <2> QED
    BY <2>1, <2>4 DEF x
<1>2. ASSUME NEW d \in 0 .. n - len PROVE (v + n - (d + len)) % n = (w + n - d) % n
  <2>1. d + len \in 0 .. n /\ d \in 0 .. n
    OBVIOUS
  <2>2. (v + n - (d + len)) % n = IF d + len <= v THEN v - (d + len) ELSE v + n - (d + len)
    BY <1>1, <2>1, Rotate
  <2>3. (w + n - d) % n = IF d <= w THEN w - d ELSE w + n - d
    BY <2>1, Rotate
  <2>4. CASE w + len < n
    <3>1. v = w + len /\ (d + len <= v <=> d <= w)
      BY <1>1, <2>4
    <3> QED
      BY <2>2, <2>3, <3>1
  <2>5. CASE ~ (w + len < n)
    <3>1. v = w + len - n /\ d <= w
      BY <1>1, <2>5
    <3>2. CASE d + len <= v
      <4>1. d = 0 /\ len = v
        BY <3>1, <3>2
      <4> QED
        BY <4>1, <3>1
    <3>3. CASE ~ (d + len <= v)
      BY <2>2, <2>3, <3>1, <3>3
    <3> QED
      BY <3>2, <3>3
  <2> QED
    BY <2>4, <2>5
<1>3. ASSUME NEW e \in 1 .. n
      PROVE  /\ (w + n - e) % n \in 0 .. n - 1
             /\ (((w + n - e) % n) + n - w) % n = n - e
  <2> DEFINE u == (w + n - e) % n
  <2>1. u = (IF e <= w THEN w - e ELSE w + n - e)
    BY Rotate
  <2> HIDE DEF u
  <2>2. u \in 0 .. n - 1
    BY <2>1
  <2>3. (u + n - w) % n = IF w <= u THEN u - w ELSE u + n - w
    BY <2>2, Rotate
  <2>4. (u + n - w) % n = n - e
    BY <2>1, <2>3
  <2> QED
    BY <2>2, <2>4 DEF u
<1>4. ASSUME NEW k \in 1 .. len
      PROVE  /\ (v + n - (len - k + 1)) % n \in 0 .. n - 1
             /\ (((v + n - (len - k + 1)) % n) + n - w) % n = k - 1
  <2> DEFINE u == (v + n - (len - k + 1)) % n
  <2>1. u = (IF len - k + 1 <= v THEN v - (len - k + 1) ELSE v + n - (len - k + 1))
    BY <1>1, Rotate
  <2> HIDE DEF u
  <2>2. u = (IF w + k - 1 < n THEN w + k - 1 ELSE w + k - 1 - n)
    BY <1>1, <2>1
  <2>3. u \in 0 .. n - 1
    BY <2>2
  <2>4. (u + n - w) % n = IF w <= u THEN u - w ELSE u + n - w
    BY <2>3, Rotate
  <2>5. (u + n - w) % n = k - 1
    BY <2>2, <2>4
  <2> QED
    BY <2>3, <2>5 DEF u
<1> QED
  BY <1>1, <1>2, <1>3, <1>4 DEF Advanced

\* The position that is d bytes behind write_pos.
LEMMA BackIs ==
  ASSUME RingType, NEW d \in 0 .. BufferSize
  PROVE  /\ Back(d) \in Pos
         /\ Back(d) = IF d <= write_pos THEN write_pos - d ELSE write_pos + BufferSize - d
<1> USE SizeAssumption DEF RingType, Pos
<1>1. write_pos + BufferSize - d \in Nat
  OBVIOUS
<1>2. CASE d <= write_pos
  <2>1. BufferSize <= write_pos + BufferSize - d /\ write_pos + BufferSize - d < 2 * BufferSize
    BY <1>2
  <2>2. Back(d) = (write_pos + BufferSize - d) - BufferSize
    BY <1>1, <2>1, Modulo DEF Back
  <2> QED
    BY <1>2, <2>2
<1>3. CASE ~ (d <= write_pos)
  <2>1. write_pos + BufferSize - d < BufferSize
    BY <1>3
  <2>2. Back(d) = write_pos + BufferSize - d
    BY <1>1, <2>1, Modulo DEF Back
  <2> QED
    BY <1>3, <2>1, <2>2
<1> QED
  BY <1>2, <1>3

\* Ages of lines and slots of the ring of records determine each other.
LEMMA SlotIs ==
  ASSUME RingType, NEW a \in 0 .. MaxLines - 1
  PROVE  /\ SlotOf(a) \in Slot
         /\ SlotOf(a) = IF a + 1 <= write_line_index THEN write_line_index - a - 1
                        ELSE write_line_index + MaxLines - a - 1
         /\ a > 0 => (SlotOf(a) + 1) % MaxLines = SlotOf(a - 1)
<1> USE SizeAssumption DEF RingType, Slot
<1>1. ASSUME NEW b \in 0 .. MaxLines - 1
      PROVE  /\ SlotOf(b) \in Slot
             /\ SlotOf(b) = IF b + 1 <= write_line_index THEN write_line_index - b - 1
                            ELSE write_line_index + MaxLines - b - 1
  <2>1. write_line_index + MaxLines - b - 1 \in Nat
    OBVIOUS
  <2>2. CASE b + 1 <= write_line_index
    <3>1. /\ MaxLines <= write_line_index + MaxLines - b - 1
          /\ write_line_index + MaxLines - b - 1 < 2 * MaxLines
      BY <2>2
    <3>2. SlotOf(b) = (write_line_index + MaxLines - b - 1) - MaxLines
      BY <2>1, <3>1, Modulo DEF SlotOf
    <3> QED
      BY <2>2, <3>2
  <2>3. CASE ~ (b + 1 <= write_line_index)
    <3>1. write_line_index + MaxLines - b - 1 < MaxLines
      BY <2>3
    <3>2. SlotOf(b) = write_line_index + MaxLines - b - 1
      BY <2>1, <3>1, Modulo DEF SlotOf
    <3> QED
      BY <2>3, <3>1, <3>2
  <2> QED
    BY <2>2, <2>3
<1>2. ASSUME a > 0 PROVE (SlotOf(a) + 1) % MaxLines = SlotOf(a - 1)
  <2>1. a - 1 \in 0 .. MaxLines - 1
    BY <1>2
  <2>2. /\ SlotOf(a) \in 0 .. MaxLines - 1
        /\ SlotOf(a) = IF a + 1 <= write_line_index THEN write_line_index - a - 1
                       ELSE write_line_index + MaxLines - a - 1
        /\ SlotOf(a - 1) = IF a <= write_line_index THEN write_line_index - a
                           ELSE write_line_index + MaxLines - a
    <3>1. /\ SlotOf(a) \in Slot
          /\ SlotOf(a) = IF a + 1 <= write_line_index THEN write_line_index - a - 1
                         ELSE write_line_index + MaxLines - a - 1
      BY <1>1
    <3>2. SlotOf(a - 1) = IF (a - 1) + 1 <= write_line_index THEN write_line_index - (a - 1) - 1
                          ELSE write_line_index + MaxLines - (a - 1) - 1
      BY <1>1, <2>1
    <3> QED
      BY <3>1, <3>2
  <2>3. CASE SlotOf(a) = MaxLines - 1
    <3>1. MaxLines % MaxLines = 0
      BY Modulo
    <3>2. SlotOf(a - 1) = 0
      BY <2>2, <2>3
    <3> QED
      BY <2>3, <3>1, <3>2
  <2>4. CASE SlotOf(a) # MaxLines - 1
    <3>1. SlotOf(a) + 1 \in Nat /\ SlotOf(a) + 1 < MaxLines
      BY <2>2, <2>4
    <3>2. (SlotOf(a) + 1) % MaxLines = SlotOf(a) + 1
      BY <3>1, Modulo
    <3>3. SlotOf(a - 1) = SlotOf(a) + 1
      BY <2>2, <2>4
    <3> QED
      BY <3>2, <3>3
  <2> QED
    BY <2>3, <2>4
<1> QED
  BY <1>1, <1>2

\* What lies between two places.
LEMMA Distance ==
  ASSUME RingType, NEW d \in 0 .. BufferSize, NEW D \in 0 .. BufferSize,
         d <= D
  PROVE  /\ Back(D) = Back(d) <=> D = d \/ D - d = BufferSize
         /\ Back(D) < Back(d) => Back(d) - Back(D) = D - d
         /\ Back(D) > Back(d) => Back(d) + BufferSize - Back(D) = D - d
         /\ \A k \in 1 .. D - d :
              Back(D - k + 1) = IF Back(D) + k - 1 < BufferSize THEN Back(D) + k - 1
                                ELSE Back(D) + k - 1 - BufferSize
<1> USE SizeAssumption DEF RingType, Pos
<1>1. \A e \in 0 .. BufferSize :
        Back(e) = IF e <= write_pos THEN write_pos - e ELSE write_pos + BufferSize - e
  BY BackIs
<1>2. /\ Back(D) = Back(d) <=> D = d \/ D - d = BufferSize
      /\ Back(D) < Back(d) => Back(d) - Back(D) = D - d
      /\ Back(D) > Back(d) => Back(d) + BufferSize - Back(D) = D - d
  <2>1. /\ Back(d) = IF d <= write_pos THEN write_pos - d ELSE write_pos + BufferSize - d
        /\ Back(D) = IF D <= write_pos THEN write_pos - D ELSE write_pos + BufferSize - D
    BY <1>1
  <2> QED
    BY <2>1
<1>3. ASSUME NEW k \in 1 .. D - d
      PROVE  Back(D - k + 1) = IF Back(D) + k - 1 < BufferSize THEN Back(D) + k - 1
                               ELSE Back(D) + k - 1 - BufferSize
  <2>1. D - k + 1 \in 0 .. BufferSize
    OBVIOUS
  <2>2. Back(D - k + 1) = IF D - k + 1 <= write_pos THEN write_pos - (D - k + 1)
                          ELSE write_pos + BufferSize - (D - k + 1)
    BY <1>1, <2>1
  <2>3. Back(D) = IF D <= write_pos THEN write_pos - D ELSE write_pos + BufferSize - D
    BY <1>1
  <2> QED
    BY <2>1, <2>2, <2>3
<1> QED
  BY <1>2, <1>3

-----------------------------------------------------------------------------
(* What get_line reads, and what the loop of add takes for the length of   *)
(* the oldest line.                                                        *)

\* The bytes of the line of age a.
LineText(off, a) == [k \in 1 .. off[a + 1] - off[a] |-> buf[Back(off[a + 1] - k + 1)]]

TextsAre == \A off : Offsets(off) => \A a \in 0 .. num_lines - 1 : GetText(a) = LineText(off, a)

\* Line a fills the ring although it is not alone.
Ambiguous(off, a) == num_lines > 1 /\ off[a + 1] - off[a] = BufferSize

\* A line lies between two offsets: it starts where the next older one ends, and its
\* length is within the limits.
LEMMA OffsetFacts ==
  ASSUME RingType, NEW off, Offsets(off), NEW a \in 0 .. num_lines - 1
  PROVE  /\ off[a] \in 0 .. BufferSize /\ off[a + 1] \in 0 .. BufferSize
         /\ off[a] <= off[a + 1] /\ off[a + 1] - off[a] \in MinLength .. MaxLineLength
         /\ Start(a) = Back(off[a + 1]) /\ End(a) = Back(off[a])
<1> USE SizeAssumption
<1>1. /\ a \in 0 .. num_lines /\ a + 1 \in 0 .. num_lines /\ a <= a + 1
      /\ num_lines \in Nat /\ num_lines <= MaxLines
  BY DEF RingType
<1>2. off[a] \in 0 .. BufferSize /\ off[a + 1] \in 0 .. BufferSize /\ off[a] <= off[a + 1]
  BY <1>1 DEF Offsets, RingType
<1>3. off[a + 1] - off[a] \in MinLength .. MaxLineLength /\ Start(a) = Back(off[a + 1])
  BY DEF Offsets
<1>4. End(a) = Back(off[a])
  <2>1. CASE a = 0
    <3>1. Back(0) = write_pos
      BY BackIs DEF RingType, Pos
    <3> QED
      BY <2>1, <3>1 DEF End, Offsets
  <2>2. CASE a # 0
    <3>1. a \in 0 .. MaxLines - 1 /\ a > 0 /\ a - 1 \in 0 .. num_lines - 1 /\ (a - 1) + 1 = a
      BY <1>1, <2>2
    <3>2. (SlotOf(a) + 1) % MaxLines = SlotOf(a - 1)
      BY <3>1, SlotIs
    <3>3. Start(a - 1) = Back(off[a])
      BY <3>1 DEF Offsets
    <3> QED
      BY <2>2, <3>2, <3>3 DEF End, Start
  <2> QED
    BY <2>1, <2>2
<1> QED
  BY <1>2, <1>3, <1>4

\* A line that fills the ring beside others: they are empty.
LEMMA AmbiguousIs ==
  ASSUME RingType, NEW off, Offsets(off), NEW a \in 0 .. num_lines - 1, Ambiguous(off, a)
  PROVE  /\ off[a] = 0 /\ off[a + 1] = BufferSize /\ buf_occupancy = BufferSize
         /\ MinLength = 0 /\ MaxLineLength = BufferSize
<1> USE SizeAssumption
<1>1. /\ num_lines \in Nat /\ num_lines > 1 /\ buf_occupancy \in 0 .. BufferSize
      /\ off[a + 1] - off[a] = BufferSize
  BY DEF Ambiguous, RingType
<1>2. /\ off[0] = 0 /\ off[num_lines] = buf_occupancy
      /\ \A b \in 0 .. num_lines : off[b] \in 0 .. buf_occupancy
      /\ \A b, c \in 0 .. num_lines : b <= c => off[b] <= off[c]
      /\ \A b \in 0 .. num_lines - 1 : off[b + 1] - off[b] \in MinLength .. MaxLineLength
  BY DEF Offsets
<1>3. off[a] \in 0 .. buf_occupancy /\ off[a + 1] \in 0 .. buf_occupancy
  BY <1>1, <1>2
<1>4. off[a] = 0 /\ off[a + 1] = BufferSize /\ buf_occupancy = BufferSize
  BY <1>1, <1>3
<1>5. MaxLineLength = BufferSize
  BY <1>1, <1>2
<1>6. PICK b \in 0 .. num_lines - 1 : b # a
  <2>1. 0 \in 0 .. num_lines - 1 /\ 1 \in 0 .. num_lines - 1
    BY <1>1
  <2> QED
    BY <2>1
<1>7. off[b + 1] - off[b] = 0
  <2>1. off[b] \in 0 .. buf_occupancy /\ off[b + 1] \in 0 .. buf_occupancy
    BY <1>1, <1>2
  <2>2. CASE b < a
    <3>1. /\ b + 1 \in 0 .. num_lines /\ b \in 0 .. num_lines /\ a \in 0 .. num_lines
          /\ b + 1 <= a /\ b <= a
      BY <1>1, <2>2
    <3>2. off[b + 1] <= off[a] /\ off[b] <= off[a]
      BY <3>1, <1>2, <2>2
    <3> QED
      BY <2>1, <3>2, <1>4
  <2>3. CASE b > a
    <3>1. b \in 0 .. num_lines /\ a + 1 \in 0 .. num_lines /\ a + 1 <= b /\ b + 1 \in 0 .. num_lines
      BY <1>1, <2>3
    <3>2. off[a + 1] <= off[b] /\ off[a + 1] <= off[b + 1]
      BY <3>1, <1>2
    <3> QED
      BY <2>1, <3>2, <1>4
  <2> QED
    BY <1>1, <1>6, <2>2, <2>3
<1>8. MinLength = 0
  BY <1>2, <1>7
<1> QED
  BY <1>4, <1>5, <1>8

\* The bytes between two places, in one part or in two.
LEMMA PartsAre ==
  ASSUME RingType, NEW d \in 0 .. BufferSize, NEW D \in 0 .. BufferSize, d <= D,
         NEW start, start = Back(D), NEW len, len = D - d,
         NEW txt, txt = [k \in 1 .. len |-> buf[Back(D - k + 1)]]
  PROVE  /\ start + len <= BufferSize => txt = Part(start, start + len)
         /\ start + len >= BufferSize =>
              txt = Part(start, BufferSize) \o Part(0, len - (BufferSize - start))
<1> USE SizeAssumption
<1>1. start \in Pos /\ len \in 0 .. BufferSize
  BY BackIs
<1>2. \A k \in 1 .. len :
        Back(D - k + 1) = IF start + k - 1 < BufferSize THEN start + k - 1
                          ELSE start + k - 1 - BufferSize
  <2>1. \A k \in 1 .. D - d :
          Back(D - k + 1) = IF Back(D) + k - 1 < BufferSize THEN Back(D) + k - 1
                            ELSE Back(D) + k - 1 - BufferSize
    BY Distance
  <2>2. start = Back(D) /\ len = D - d
    OBVIOUS
  <2> QED
    BY <2>1, <2>2
<1>3. ASSUME start + len <= BufferSize PROVE txt = Part(start, start + len)
  <2>1. ASSUME NEW k \in 1 .. len PROVE Back(D - k + 1) = start + k - 1
    BY <1>1, <1>2, <1>3 DEF Pos
  <2>2. (start + len) - start = len
    BY <1>1 DEF Pos
  <2>3. Part(start, start + len) = [k \in 1 .. len |-> buf[start + k - 1]]
    BY <2>2 DEF Part
  <2> QED
    BY <2>1, <2>3
<1>4. ASSUME start + len >= BufferSize
      PROVE  txt = Part(start, BufferSize) \o Part(0, len - (BufferSize - start))
  <2>0. PICK n, end : n = BufferSize - start /\ end = len - n
    OBVIOUS
  <2> DEFINE p == Part(start, BufferSize)
             q == Part(0, end)
  <2>1. /\ n \in Nat /\ end \in Nat /\ n + end = len /\ end < BufferSize
        /\ start \in Nat /\ start + n = BufferSize
    <3>1. start \in 0 .. BufferSize - 1 /\ len \in 0 .. BufferSize /\ BufferSize \in Nat
      BY <1>1 DEF Pos
    <3>2. start + len >= BufferSize
      BY <1>4
    <3>3. PICK u \in Nat : u = BufferSize - start
      BY <3>1
    <3>4. start \in Nat /\ start + u = BufferSize /\ u > 0
      BY <3>1, <3>3
    <3>5. PICK v \in Nat : v = len - u
      BY <3>1, <3>2, <3>4
    <3>6. u + v = len /\ v < BufferSize
      BY <3>1, <3>4, <3>5
    <3>7. n = u /\ end = v
      BY <2>0, <3>3, <3>5
    <3> QED
      BY <3>4, <3>6, <3>7
  <2>2. p = [k \in 1 .. n |-> buf[start + k - 1]] /\ q = [k \in 1 .. end |-> buf[k - 1]]
    <3>1. end - 0 = end /\ \A k \in 1 .. end : 0 + k - 1 = k - 1
      BY <2>1
    <3> QED
      BY <3>1, <2>0 DEF Part
  <2>3. \A j \in 0 .. BufferSize - 1 : buf[j] \in Byte \cup {Nothing}
    BY DEF RingType, Pos
  <2>4. p \in Seq(Byte \cup {Nothing}) /\ Len(p) = n
    <3>1. \A k \in 1 .. n : buf[start + k - 1] \in Byte \cup {Nothing}
      BY <2>1, <2>3
    <3>2. p \in [1 .. n -> Byte \cup {Nothing}]
      BY <2>2, <3>1
    <3> HIDE DEF p
    <3> QED
      BY <2>1, <3>2
  <2>5. q \in Seq(Byte \cup {Nothing}) /\ Len(q) = end
    <3>1. \A k \in 1 .. end : buf[k - 1] \in Byte \cup {Nothing}
      BY <2>1, <2>3
    <3>2. q \in [1 .. end -> Byte \cup {Nothing}]
      BY <2>2, <3>1
    <3> HIDE DEF q
    <3> QED
      BY <2>1, <3>2
  <2>6. p \o q = [k \in 1 .. n + end |-> IF k <= n THEN p[k] ELSE q[k - n]]
    <3> HIDE DEF p, q
    <3>1. Len(p \o q) = n + end /\ DOMAIN (p \o q) = 1 .. n + end
      BY <2>4, <2>5, <2>1
    <3>2. \A k \in 1 .. n + end : (p \o q)[k] = IF k <= n THEN p[k] ELSE q[k - n]
      <4> SUFFICES ASSUME NEW k \in 1 .. n + end
                   PROVE  (p \o q)[k] = IF k <= n THEN p[k] ELSE q[k - n]
        OBVIOUS
      <4>1. k \in 1 .. Len(p) + Len(q)
        BY <2>4, <2>5
      <4>2. (p \o q)[k] = IF k <= Len(p) THEN p[k] ELSE q[k - Len(p)]
        BY <4>1, <2>4, <2>5, ConcatProperties
      <4> QED
        BY <4>2, <2>4
    <3>3. \A r \in Seq(Byte \cup {Nothing}) : r = [k \in 1 .. Len(r) |-> r[k]]
      OBVIOUS
    <3>4. p \o q \in Seq(Byte \cup {Nothing})
      BY <2>4, <2>5
    <3>5. p \o q = [k \in 1 .. n + end |-> (p \o q)[k]]
      BY <3>1, <3>3, <3>4
    <3> QED
      BY <3>2, <3>5
  <2>7. ASSUME NEW k \in 1 .. len
        PROVE  buf[Back(D - k + 1)] = IF k <= n THEN p[k] ELSE q[k - n]
    <3>1. CASE k <= n
      <4>1. p[k] = buf[start + k - 1] /\ start + k - 1 < BufferSize
        BY <1>1, <2>1, <2>2, <3>1 DEF Pos
      <4> QED
        BY <1>2, <3>1, <4>1
    <3>2. CASE ~ (k <= n)
      <4>1. k - n \in 1 .. end
        BY <1>1, <2>1, <3>2
      <4>2. q[k - n] = buf[(k - n) - 1]
        BY <2>2, <4>1
      <4>3. ~ (start + k - 1 < BufferSize) /\ start + k - 1 - BufferSize = (k - n) - 1
        BY <1>1, <2>1, <3>2
      <4> QED
        BY <1>2, <3>2, <4>2, <4>3
    <3> QED
      BY <3>1, <3>2
  <2> HIDE DEF p, q
  <2>8. txt = [k \in 1 .. n + end |-> IF k <= n THEN p[k] ELSE q[k - n]]
    BY <2>1, <2>7
  <2>9. txt = p \o q
    BY <2>6, <2>8
  <2> QED
    BY <2>0, <2>9 DEF p, q
<1> QED
  BY <1>3, <1>4

\* The length that add takes off the occupancy is that of the oldest line, unless it
\* fills the ring beside others.
LEMMA OldestLengthIs ==
  ASSUME RingType, NEW off, Offsets(off), num_lines > 0
  PROVE  IF Ambiguous(off, num_lines - 1) THEN OldestLength = 0
         ELSE OldestLength = off[num_lines] - off[num_lines - 1]
<1> USE SizeAssumption
<1> DEFINE a == num_lines - 1
           d == off[a]
           D == off[a + 1]
<1>1. a \in 0 .. num_lines - 1 /\ a + 1 = num_lines
  BY DEF RingType
<1>2. d \in 0 .. BufferSize /\ D \in 0 .. BufferSize /\ d <= D
      /\ Start(a) = Back(D) /\ End(a) = Back(d)
  BY <1>1, OffsetFacts
<1>3. /\ Back(D) = Back(d) <=> D = d \/ D - d = BufferSize
      /\ Back(D) < Back(d) => Back(d) - Back(D) = D - d
      /\ Back(D) > Back(d) => Back(d) + BufferSize - Back(D) = D - d
      /\ Back(D) \in Pos /\ Back(d) \in Pos
  BY <1>2, Distance, BackIs
<1>4. num_lines = 1 => d = 0 /\ D = buf_occupancy
  BY <1>1 DEF Offsets
<1>5. Ambiguous(off, a) <=> num_lines # 1 /\ D - d = BufferSize
  BY <1>1 DEF Ambiguous, RingType
<1> QED
  BY <1>1, <1>2, <1>3, <1>4, <1>5 DEF OldestLength, Pos

\* get_line reads, of every age, the bytes between two offsets.
LEMMA TextsLemma == ASSUME Unambiguous PROVE RingType => TextsAre
<1> SUFFICES ASSUME RingType, NEW off, Offsets(off), NEW a \in 0 .. num_lines - 1
             PROVE  GetText(a) = LineText(off, a)
  BY DEF TextsAre
<1> USE SizeAssumption
<1> DEFINE d == off[a]
           D == off[a + 1]
           len == D - d
           start == Start(a)
           end == End(a)
           txt == LineText(off, a)
<1>1. d \in 0 .. BufferSize /\ D \in 0 .. BufferSize /\ d <= D /\ len \in 0 .. BufferSize
      /\ start = Back(D) /\ end = Back(d)
  BY OffsetFacts
<1>2. start \in Pos /\ end \in Pos
  BY <1>1, BackIs
<1>3. /\ start = end <=> len = 0 \/ len = BufferSize
      /\ start < end => end - start = len
      /\ start > end => end + BufferSize - start = len
  BY <1>1, Distance
<1>4. txt = [k \in 1 .. len |-> buf[Back(D - k + 1)]]
  BY DEF LineText
<1>5. num_lines = 1 => d = 0 /\ D = buf_occupancy
  BY DEF Offsets, RingType
<1>6. len = BufferSize => num_lines = 1
  <2> SUFFICES ASSUME len = BufferSize, num_lines # 1 PROVE FALSE
    OBVIOUS
  <2>1. Ambiguous(off, a)
    BY DEF Ambiguous, RingType
  <2> QED
    BY <2>1, AmbiguousIs DEF Unambiguous
<1>7. /\ start + len <= BufferSize => txt = Part(start, start + len)
      /\ start + len >= BufferSize =>
           txt = Part(start, BufferSize) \o Part(0, len - (BufferSize - start))
  <2> HIDE DEF d, D, start, txt
  <2>1. PICK n : n = len
    OBVIOUS
  <2>2. txt = [k \in 1 .. n |-> buf[Back(D - k + 1)]]
    BY <1>4, <2>1
  <2>3. /\ start + n <= BufferSize => txt = Part(start, start + n)
        /\ start + n >= BufferSize =>
             txt = Part(start, BufferSize) \o Part(0, n - (BufferSize - start))
    BY <1>1, <2>1, <2>2, PartsAre
  <2> QED
    BY <2>1, <2>3
<1> HIDE DEF d, D, start, end, txt
<1>8. CASE start = end /\ num_lines = 1 /\ buf_occupancy > 0
  <2>1. buf_occupancy = len /\ len = BufferSize
    BY <1>1, <1>3, <1>5, <1>8
  <2>2. GetText(a) = IF start + buf_occupancy <= BufferSize
                     THEN Part(start, start + buf_occupancy)
                     ELSE Part(start, BufferSize)
                            \o Part(0, buf_occupancy - (BufferSize - start))
    BY <1>8 DEF GetText, start, end
  <2>3. start + len >= BufferSize
    BY <1>2, <2>1 DEF Pos
  <2> QED
    BY <1>7, <2>1, <2>2, <2>3 DEF txt
<1>9. CASE ~ (start = end /\ num_lines = 1 /\ buf_occupancy > 0)
  <2>1. GetText(a) = IF start <= end THEN Part(start, end)
                     ELSE Part(start, BufferSize) \o Part(0, end)
    BY <1>9 DEF GetText, start, end
  <2>2. start = end => len = 0
    BY <1>1, <1>3, <1>5, <1>6, <1>9
  <2>3. CASE start <= end
    <3>1. end = start + len /\ start + len <= BufferSize
      BY <1>1, <1>2, <1>3, <2>2, <2>3 DEF Pos
    <3> QED
      BY <1>7, <2>1, <2>3, <3>1 DEF txt
  <2>4. CASE ~ (start <= end)
    <3>1. end = len - (BufferSize - start) /\ start + len >= BufferSize
      BY <1>1, <1>2, <1>3, <2>4 DEF Pos
    <3> QED
      BY <1>7, <2>1, <2>4, <3>1 DEF txt
  <2> QED
    BY <2>3, <2>4
<1> QED
  BY <1>8, <1>9 DEF txt

\* The lines that are shown, by the offsets.
LineIs(off, a) ==
  [text |-> LineText(off, a), truncated |-> lines[SlotOf(a)].is_truncated,
   data |-> lines[SlotOf(a)].line_data]

Text  == Seq(Byte \cup {Nothing})
Lines == [text : Text, truncated : BOOLEAN, data : LineData]

ShownIs ==
  \A off : Offsets(off) =>
    /\ Shown = [k \in 1 .. num_lines |-> LineIs(off, num_lines - k)]
    /\ \A a \in 0 .. num_lines - 1 :
         LineIs(off, a) \in Lines /\ Len(LineText(off, a)) = off[a + 1] - off[a]

\* What get_line shows is what the offsets say.
LEMMA ShownLemma == ASSUME Unambiguous PROVE RingType => ShownIs
<1> SUFFICES ASSUME RingType, NEW off, Offsets(off)
             PROVE  /\ Shown = [k \in 1 .. num_lines |-> LineIs(off, num_lines - k)]
                    /\ \A a \in 0 .. num_lines - 1 :
                         LineIs(off, a) \in Lines /\ Len(LineText(off, a)) = off[a + 1] - off[a]
  BY DEF ShownIs
<1>1. \A a \in 0 .. num_lines - 1 : GetText(a) = LineText(off, a)
  BY TextsLemma DEF TextsAre
<1>2. Shown = [k \in 1 .. num_lines |-> LineIs(off, num_lines - k)]
  <2>1. num_lines \in Nat
    BY DEF RingType
  <2>2. ASSUME NEW k \in 1 .. num_lines PROVE GetLine(num_lines - k) = LineIs(off, num_lines - k)
    <3>1. num_lines - k \in 0 .. num_lines - 1
      BY <2>1
    <3> QED
      BY <3>1, <1>1 DEF GetLine, LineIs
  <2> QED
    BY <2>2 DEF Shown
<1>3. ASSUME NEW a \in 0 .. num_lines - 1
      PROVE  LineIs(off, a) \in Lines /\ Len(LineText(off, a)) = off[a + 1] - off[a]
  <2> DEFINE n == off[a + 1] - off[a]
             txt == LineText(off, a)
  <2>1. off[a] \in 0 .. BufferSize /\ off[a + 1] \in 0 .. BufferSize /\ n \in Nat
    BY OffsetFacts, SizeAssumption
  <2>2. ASSUME NEW k \in 1 .. n PROVE buf[Back(off[a + 1] - k + 1)] \in Byte \cup {Nothing}
    <3>1. off[a + 1] - k + 1 \in 0 .. BufferSize
      BY <2>1, SizeAssumption
    <3>2. Back(off[a + 1] - k + 1) \in Pos
      BY <3>1, BackIs
    <3> QED
      BY <3>2 DEF RingType
  <2>3. txt \in [1 .. n -> Byte \cup {Nothing}]
    BY <2>2 DEF LineText
  <2> HIDE DEF txt, n
  <2>4. txt \in Text /\ Len(txt) = n
    BY <2>1, <2>3 DEF Text
  <2>5. lines[SlotOf(a)] \in Record
    BY DEF Offsets
  <2> QED
    BY <2>4, <2>5 DEF LineIs, Lines, Record, txt, n
<1> QED
  BY <1>2, <1>3

\* The same in the next state.
LEMMA ShownNextLemma == ASSUME Unambiguous PROVE RingType' => ShownIs'
<1>1. RingType => ShownIs
  BY ShownLemma
<1> QED
  BY <1>1, PTL

-----------------------------------------------------------------------------
(* The sizes of queues.                                                    *)

LEMMA QueueFlatten == ASSUME NEW q PROVE Queue!FlattenSeq(q) = FlattenSeq(q)
  BY DEF Queue!FlattenSeq, FlattenSeq

TextsOf(q) == [i \in 1 .. Len(q) |-> q[i].text]

\* The bytes of a queue of lines are those of the sequence of its texts.
LEMMA SizeIs ==
  ASSUME NEW q \in Seq(Lines)
  PROVE  /\ TextsOf(q) \in Seq(Text) /\ Len(TextsOf(q)) = Len(q)
         /\ FlattenSeq(TextsOf(q)) \in Text
         /\ Queue!Size(q) = Len(FlattenSeq(TextsOf(q))) /\ Queue!Size(q) \in Nat
<1>1. Len(q) \in Nat /\ \A i \in 1 .. Len(q) : q[i] \in Lines
  OBVIOUS
<1>2. TextsOf(q) \in [1 .. Len(q) -> Text]
  BY <1>1 DEF TextsOf, Lines
<1>3. TextsOf(q) \in Seq(Text) /\ Len(TextsOf(q)) = Len(q)
  BY <1>1, <1>2
<1>4. FlattenSeq(TextsOf(q)) \in Text
  BY <1>3, FlattenType DEF Text
<1>5. Queue!Size(q) = Len(FlattenSeq(TextsOf(q)))
  <2>1. DOMAIN q = 1 .. Len(q)
    OBVIOUS
  <2>2. Queue!Size(q) = Len(Queue!FlattenSeq(TextsOf(q)))
    BY <2>1 DEF Queue!Size, TextsOf
  <2> QED
    BY <2>2, QueueFlatten
<1>6. Len(FlattenSeq(TextsOf(q))) \in Nat
  BY <1>4 DEF Text
<1> QED
  BY <1>3, <1>4, <1>5, <1>6

\* Adding a line adds its length.
LEMMA SizeAppend ==
  ASSUME NEW q \in Seq(Lines), NEW l \in Lines
  PROVE  Queue!Size(Append(q, l)) = Queue!Size(q) + Len(l.text)
<1> DEFINE r == Append(q, l)
<1>1. r \in Seq(Lines) /\ Len(r) = Len(q) + 1 /\ r[Len(q) + 1] = l
      /\ (\A i \in 1 .. Len(q) : r[i] = q[i]) /\ Len(q) \in Nat /\ l.text \in Text
  BY DEF Lines
<1> HIDE DEF r
<1>2. TextsOf(r) = Append(TextsOf(q), l.text)
  <2> DEFINE u == TextsOf(q)
             v == Append(u, l.text)
  <2>1. u \in Seq(Text) /\ Len(u) = Len(q)
    BY SizeIs
  <2>2. v \in Seq(Text) /\ Len(v) = Len(q) + 1
        /\ \A i \in 1 .. Len(q) + 1 : v[i] = IF i <= Len(q) THEN u[i] ELSE l.text
    <3> HIDE DEF u
    <3> QED
      BY <2>1, <1>1
  <2>3. ASSUME NEW i \in 1 .. Len(q) + 1 PROVE TextsOf(r)[i] = v[i]
    <3>1. TextsOf(r)[i] = r[i].text
      BY <1>1 DEF TextsOf
    <3>2. i <= Len(q) => u[i] = q[i].text
      BY <1>1 DEF TextsOf
    <3> HIDE DEF u, v
    <3> QED
      BY <3>1, <3>2, <2>2, <1>1
  <2>4. TextsOf(r) \in Seq(Text) /\ Len(TextsOf(r)) = Len(q) + 1
    BY <1>1, SizeIs
  <2>5. \A a, b \in Seq(Text) : Len(a) = Len(b) /\ (\A i \in 1 .. Len(a) : a[i] = b[i]) => a = b
    OBVIOUS
  <2> HIDE DEF u, v
  <2>6. TextsOf(r) = v
    BY <2>2, <2>3, <2>4, <2>5
  <2> QED
    BY <2>6 DEF u, v
<1>3. FlattenSeq(TextsOf(r)) = FlattenSeq(TextsOf(q)) \o l.text
  BY <1>1, <1>2, SizeIs, FlattenAppend DEF Text
<1>4. FlattenSeq(TextsOf(q)) \in Text
  BY SizeIs
<1>5. Len(FlattenSeq(TextsOf(q)) \o l.text) = Len(FlattenSeq(TextsOf(q))) + Len(l.text)
  BY <1>1, <1>4 DEF Text
<1> QED
  BY <1>1, <1>3, <1>5, SizeIs DEF r

\* Dropping the oldest line drops its length.
LEMMA SizeTail ==
  ASSUME NEW q \in Seq(Lines), q # << >>
  PROVE  Queue!Size(Tail(q)) = Queue!Size(q) - Len(q[1].text)
<1> DEFINE r == Tail(q)
           h == << q[1].text >>
<1>1. r \in Seq(Lines) /\ Len(r) = Len(q) - 1 /\ (\A i \in 1 .. Len(r) : r[i] = q[i + 1])
      /\ Len(q) \in Nat \ {0} /\ q[1].text \in Text
  <2>1. Len(q) \in Nat \ {0}
    OBVIOUS
  <2>2. q[1] \in Lines
    BY <2>1
  <2>3. r \in Seq(Lines) /\ Len(r) = Len(q) - 1
    BY <2>1
  <2>4. \A i \in 1 .. Len(q) - 1 : r[i] = q[i + 1]
    BY <2>1
  <2> QED
    BY <2>1, <2>2, <2>3, <2>4 DEF Lines
<1> HIDE DEF r
<1>2. TextsOf(r) \in Seq(Text) /\ TextsOf(q) \in Seq(Text) /\ h \in Seq(Text)
      /\ Len(TextsOf(r)) = Len(q) - 1 /\ Len(TextsOf(q)) = Len(q) /\ Len(h) = 1
  BY <1>1, SizeIs
<1>3. TextsOf(q) = h \o TextsOf(r)
  <2>1. h \o TextsOf(r) \in Seq(Text) /\ Len(h \o TextsOf(r)) = Len(q)
    BY <1>1, <1>2
  <2>2. ASSUME NEW i \in 1 .. Len(q) PROVE (h \o TextsOf(r))[i] = TextsOf(q)[i]
    <3>1. (h \o TextsOf(r))[i] = IF i <= 1 THEN h[i] ELSE TextsOf(r)[i - 1]
      BY <1>1, <1>2
    <3>2. i > 1 => i - 1 \in 1 .. Len(r) /\ r[i - 1] = q[i]
      BY <1>1
    <3> QED
      BY <3>1, <3>2, <1>1 DEF TextsOf
  <2>3. \A a, b \in Seq(Text) : Len(a) = Len(b) /\ (\A i \in 1 .. Len(a) : a[i] = b[i]) => a = b
    OBVIOUS
  <2> QED
    BY <2>1, <2>2, <2>3, <1>2
<1>4. FlattenSeq(h) = q[1].text
  BY <1>1 DEF FlattenSeq
<1>5. FlattenSeq(TextsOf(q)) = q[1].text \o FlattenSeq(TextsOf(r))
  BY <1>2, <1>3, <1>4, FlattenConcat DEF Text
<1>6. FlattenSeq(TextsOf(r)) \in Text
  BY <1>1, SizeIs
<1>7. Len(q[1].text \o FlattenSeq(TextsOf(r))) = Len(q[1].text) + Len(FlattenSeq(TextsOf(r)))
  BY <1>1, <1>6 DEF Text
<1>8. Len(q[1].text) \in Nat /\ Len(FlattenSeq(TextsOf(r))) \in Nat
  BY <1>1, <1>6 DEF Text
<1>9. /\ Queue!Size(q) = Len(FlattenSeq(TextsOf(q)))
      /\ Queue!Size(r) = Len(FlattenSeq(TextsOf(r)))
  BY <1>1, SizeIs
<1>10. Queue!Size(r) = Queue!Size(q) - Len(q[1].text)
  BY <1>5, <1>7, <1>8, <1>9
<1> QED
  BY <1>10 DEF r

-----------------------------------------------------------------------------
(* A text that is too long is cut where LineQueue says.                    *)

LEMMA TextsAreSequences ==
  ASSUME NEW n \in Nat, NEW t
  PROVE  t \in Texts(n) <=> t \in Seq(Byte) /\ Len(t) <= n
<1>1. ASSUME t \in Texts(n) PROVE t \in Seq(Byte) /\ Len(t) <= n
  <2>1. PICK k \in 0 .. n : t \in [1 .. k -> Byte]
    BY <1>1 DEF Texts
  <2> QED
    BY <2>1
<1>2. ASSUME t \in Seq(Byte), Len(t) <= n PROVE t \in Texts(n)
  <2>1. Len(t) \in 0 .. n /\ t \in [1 .. Len(t) -> Byte]
    BY <1>2
  <2> QED
    BY <2>1 DEF Texts
<1> QED
  BY <1>1, <1>2

\* A nonempty set of numbers up to a bound has a greatest one.
LEMMA GreatestElement ==
  ASSUME NEW n \in Nat, NEW S \in SUBSET (0 .. n), S # {}
  PROVE  Max(S) \in S /\ \A m \in S : m <= Max(S)
<1> DEFINE R == {n - m : m \in S}
<1>1. R \in SUBSET Nat /\ R # {}
  <2>1. \A m \in S : n - m \in Nat
    OBVIOUS
  <2> QED
    BY <2>1
<1>2. PICK r \in R : \A m \in R : r <= m
  BY <1>1, LeastElement
<1>3. PICK x \in S : r = n - x
  OBVIOUS
<1>4. \A m \in S : x >= m
  BY <1>2, <1>3
<1>5. \E y \in S : \A m \in S : y >= m
  BY <1>4
<1> QED
  BY <1>5 DEF Max

\* The truncation of add is the longest prefix of whole characters that fits, as
\* LineQueue asks.
LEMMA TruncateShows ==
  ASSUME NEW text \in Seq(Byte)
  PROVE  /\ Truncate(text) \in Seq(Byte) /\ Len(Truncate(text)) <= MaxLineLength
         /\ Queue!Shows(Truncate(text), text)
         /\ Len(text) > MaxLineLength <=> Truncate(text) # text
<1> DEFINE t == Truncate(text)
<1> USE SizeAssumption
<1>1. Len(text) \in Nat /\ MaxLineLength \in Nat
  OBVIOUS
<1>2. CASE Len(text) <= MaxLineLength
  <2>1. t = text
    BY <1>2 DEF Truncate
  <2>2. Queue!IsPrefix(text, text)
    BY DEF Queue!IsPrefix
  <2>3. Queue!Shows(text, text)
    BY <1>1, <1>2, <2>2 DEF Queue!Shows, Queue!Whole
  <2> QED
    BY <1>1, <1>2, <2>1, <2>3
<1>3. CASE Len(text) > MaxLineLength
  <2> DEFINE ends == IF Utf8
                     THEN {0} \cup {n \in 1 .. MaxLineLength : text[n + 1] = "initial"}
                     ELSE {MaxLineLength}
             m == Max(ends)
  <2>1. ends \in SUBSET (0 .. MaxLineLength) /\ ends # {}
    OBVIOUS
  <2>2. t = SubSeq(text, 1, m)
    <3>1. ~ (Len(text) <= MaxLineLength)
      BY <1>1, <1>3
    <3> QED
      BY <3>1 DEF Truncate
  <2>3. m \in ends /\ \A n \in ends : n <= m
    BY <2>1, GreatestElement
  <2> HIDE DEF t, m
  <2>4. m \in 0 .. MaxLineLength /\ m < Len(text)
    BY <2>1, <2>3, <1>1, <1>3
  <2>5. t \in Seq(Byte) /\ Len(t) = m /\ t = SubSeq(text, 1, Len(t))
    <3>1. \A k \in 0 .. Len(text) : SubSeq(text, 1, k) \in Seq(Byte) /\ Len(SubSeq(text, 1, k)) = k
      OBVIOUS
    <3> QED
      BY <2>2, <2>4, <3>1
  <2>6. Queue!IsPrefix(t, text)
    <3>1. t = SubSeq(t, 1, Len(t))
      BY <2>5
    <3> QED
      BY <2>4, <2>5, <3>1 DEF Queue!IsPrefix
  <2>7. Queue!Whole(t, text)
    <3>1. ASSUME Utf8, m \in 1 .. Len(text) - 1 PROVE text[m + 1] # "continuation"
      BY <3>1, <2>3
    <3> QED
      BY <2>5, <2>6, <3>1 DEF Queue!Whole
  <2>8. ASSUME NEW n \in m + 1 .. Len(text), n <= MaxLineLength
        PROVE  ~ Queue!Whole(SubSeq(text, 1, n), text)
    <3>1. n \in 1 .. MaxLineLength /\ n \in 1 .. Len(text) - 1 /\ Len(SubSeq(text, 1, n)) = n
      BY <2>4, <2>8, <1>1, <1>3
    <3>2. n \notin ends
      BY <2>3, <2>4, <3>1
    <3>3. Utf8 /\ text[n + 1] # "initial"
      <4>1. n \in 0 .. MaxLineLength /\ m = MaxLineLength => FALSE
        BY <2>8, <2>4
      <4>2. ~ Utf8 => m = MaxLineLength
        BY <2>3
      <4> QED
        BY <3>1, <3>2, <4>1, <4>2
    <3>4. text[n + 1] \in Byte
      BY <3>1
    <3> QED
      BY <3>1, <3>3, <3>4 DEF Queue!Whole, Byte
  <2>9. Queue!Shows(t, text)
    BY <2>4, <2>5, <2>7, <2>8 DEF Queue!Shows
  <2>10. t # text
    BY <2>4, <2>5
  <2> QED
    BY <1>3, <2>4, <2>5, <2>9, <2>10 DEF t
<1> QED
  BY <1>1, <1>2, <1>3

-----------------------------------------------------------------------------
(* The steps.                                                              *)

LEMMA InitRing == Init => RingInv /\ Counted /\ Queue!Init
<1> SUFFICES ASSUME Init PROVE RingInv /\ Counted /\ Queue!Init
  OBVIOUS
<1> USE SizeAssumption
<1>1. RingType
  BY DEF Init, RingType, Pos, Slot
<1>2. Layout
  <2> DEFINE off == [a \in 0 .. 0 |-> 0]
  <2>1. off \in [0 .. num_lines -> 0 .. buf_occupancy] /\ off[0] = 0
    BY DEF Init
  <2>2. Offsets(off)
    BY <2>1 DEF Init, Offsets
  <2> QED
    BY <2>1, <2>2 DEF Layout
<1>3. AddingType
  BY DEF Init, AddingType
<1>4. Shown = << >>
  BY DEF Init, Shown
<1>5. Queue!Size(<< >>) = 0
  <2>1. << >> \in Seq(Lines) /\ TextsOf(<< >>) = << >>
    BY DEF TextsOf
  <2> QED
    BY <2>1, SizeIs, FlattenEmpty
<1> QED
  BY <1>1, <1>2, <1>3, <1>4, <1>5 DEF Init, RingInv, Counted, Queue!Init

\* What is read while no byte and no record of the ring changes.
LEMMA Same ==
  ASSUME UNCHANGED <<buf, write_pos, buf_occupancy, lines, write_line_index, num_lines>>
  PROVE  UNCHANGED Shown /\ (RingType => RingType') /\ (Layout => Layout')
<1>1. UNCHANGED Shown
  BY DEF Shown, GetLine, GetText, Start, End, SlotOf, Part
<1>2. RingType => RingType'
  BY DEF RingType
<1>3. ASSUME NEW off, Offsets(off) PROVE Offsets(off)'
  BY <1>3 DEF Offsets, Start, SlotOf, Back
<1>4. Layout => Layout'
  BY <1>3 DEF Layout
<1> QED
  BY <1>1, <1>2, <1>4

\* The beginning of add keeps the ring and shows nothing new.
LEMMA StartStep ==
  ASSUME RingInv, NEW text \in Texts(MaxText), NEW data \in LineData, AddStart(text, data)
  PROVE  RingInv' /\ (Counted => Counted' /\ Queue!Next)
<1> USE SizeAssumption
<1>1. UNCHANGED Shown /\ RingType' /\ Layout' /\ UNCHANGED buf_occupancy
  BY Same DEF AddStart, ring, RingInv
<1>2. text \in Seq(Byte)
  BY TextsAreSequences
<1>3. /\ Truncate(text) \in Seq(Byte) /\ Len(Truncate(text)) <= MaxLineLength
      /\ Queue!Shows(Truncate(text), text)
      /\ Len(text) > MaxLineLength <=> Truncate(text) # text
  BY <1>2, TruncateShows
<1>4. /\ adding = Nothing
      /\ adding' = [given |-> text, text |-> Truncate(text),
                    truncated |-> Len(text) > MaxLineLength, data |-> data]
      /\ Len(Truncate(text)) >= MinLength
  BY DEF AddStart
<1>5. adding' \in Adding
  <2>1. Truncate(text) \in Texts(MaxLineLength)
    BY <1>3, TextsAreSequences
  <2>2. (Len(text) > MaxLineLength) \in BOOLEAN
    OBVIOUS
  <2> QED
    BY <1>4, <2>1, <2>2 DEF Adding
<1>6. AddingType'
  <2>1. Len(Truncate(text)) \in MinLength .. MaxLineLength
    <3>1. Len(Truncate(text)) \in Nat
      BY <1>3
    <3> QED
      BY <1>3, <1>4, <3>1
  <2> QED
    BY <1>4, <1>5, <2>1 DEF AddingType
<1>7. adding'.truncated = (adding'.text # adding'.given)
  BY <1>3, <1>4
<1>8. Queue!Shows(adding'.text, adding'.given)
  BY <1>3, <1>4
<1>9. Counted => Queue!Size(Shown)' = buf_occupancy'
  BY <1>1 DEF Counted
<1>10. Queue!Offer
  BY <1>1, <1>4, <1>5, <1>7, <1>8 DEF Queue!Offer
<1> QED
  BY <1>1, <1>6, <1>9, <1>10 DEF RingInv, Counted, Queue!Next

\* What is shown is a sequence of lines.
LEMMA ShownSeq ==
  ASSUME Unambiguous, Counted, RingInv
  PROVE  /\ Shown \in Seq(Lines) /\ Len(Shown) = num_lines
         /\ adding # Nothing => (NoRoom <=> ~ Queue!Fits)
<1> USE SizeAssumption
<1>1. RingType /\ ShownIs /\ num_lines \in 0 .. MaxLines
  BY ShownLemma DEF RingInv, RingType
<1>2. PICK off : Offsets(off)
  BY DEF RingInv, Layout
<1>3. Shown = [k \in 1 .. num_lines |-> LineIs(off, num_lines - k)]
      /\ \A a \in 0 .. num_lines - 1 : LineIs(off, a) \in Lines
  BY <1>1, <1>2 DEF ShownIs
<1>4. \A k \in 1 .. num_lines : num_lines - k \in 0 .. num_lines - 1
  BY <1>1
<1>5. Shown \in [1 .. num_lines -> Lines]
  BY <1>3, <1>4
<1>6. Shown \in Seq(Lines) /\ Len(Shown) = num_lines
  <2> HIDE DEF Shown
  <2> QED
    BY <1>1, <1>5
<1>7. ASSUME adding # Nothing PROVE NoRoom <=> ~ Queue!Fits
  <2>1. Len(adding.text) \in Nat
    <3>1. adding.text \in Texts(MaxLineLength)
      BY <1>7 DEF RingInv, AddingType, Adding
    <3> QED
      BY <3>1, TextsAreSequences
  <2>2. buf_occupancy \in Nat /\ Queue!Size(Shown) = buf_occupancy
    BY DEF RingInv, RingType, Counted
  <2> QED
    BY <1>1, <1>6, <2>1, <2>2 DEF NoRoom, Queue!Fits
<1> QED
  BY <1>6, <1>7

OffsetsNext(o) == Offsets(o)'

\* What Evict does to the ring.
Evicts ==
  /\ adding # Nothing /\ NoRoom /\ num_lines > 0 /\ num_lines \in 1 .. MaxLines
  /\ buf_occupancy' = buf_occupancy - OldestLength
  /\ num_lines' = num_lines - 1
  /\ UNCHANGED <<buf, write_pos, lines, write_line_index, adding>>

LEMMA EvictIs == ASSUME RingType, Evict PROVE Evicts
BY DEF Evict, Evicts, RingType

\* The offsets o are those of off without the last.
EvictedTo(off, o) ==
  /\ RingType' /\ OffsetsNext(o)
  /\ \A a \in 0 .. num_lines - 2 : o[a] = off[a] /\ o[a + 1] = off[a + 1]

\* If the length of the oldest line is right, the offsets of the others stay.
LEMMA EvictOffsets ==
  ASSUME RingType, Evict, NEW off, Offsets(off), ~ Ambiguous(off, num_lines - 1),
         NEW o, o = [a \in 0 .. num_lines - 1 |-> off[a]]
  PROVE  EvictedTo(off, o)
<1> USE SizeAssumption
<1>0. o = [a \in 0 .. num_lines - 1 |-> off[a]]
  OBVIOUS
<1>1. Evicts
  BY EvictIs
<1>2. /\ num_lines \in 1 .. MaxLines /\ num_lines > 0 /\ num_lines' = num_lines - 1
      /\ buf_occupancy' = buf_occupancy - OldestLength
      /\ UNCHANGED <<buf, write_pos, lines, write_line_index, adding>>
  BY <1>1 DEF Evicts
<1>3. RingType
  OBVIOUS
<1>4. OldestLength = off[num_lines] - off[num_lines - 1]
  BY <1>2, OldestLengthIs
<1>5. /\ off \in [0 .. num_lines -> 0 .. buf_occupancy]
      /\ off[0] = 0 /\ off[num_lines] = buf_occupancy
      /\ \A a, b \in 0 .. num_lines : a <= b => off[a] <= off[b]
      /\ \A a \in 0 .. num_lines - 1 :
           /\ lines[SlotOf(a)] \in Record
           /\ off[a + 1] - off[a] \in MinLength .. MaxLineLength
           /\ Start(a) = Back(off[a + 1])
  BY DEF Offsets
<1>6. buf_occupancy' = off[num_lines'] /\ buf_occupancy' \in 0 .. buf_occupancy
  <2>1. num_lines \in 0 .. num_lines /\ num_lines - 1 \in 0 .. num_lines
        /\ num_lines - 1 <= num_lines
    BY <1>2
  <2>2. /\ off[num_lines] \in 0 .. buf_occupancy /\ off[num_lines - 1] \in 0 .. buf_occupancy
        /\ off[num_lines - 1] <= off[num_lines] /\ buf_occupancy \in Nat
    BY <1>5, <2>1 DEF RingType
  <2> QED
    BY <1>2, <1>4, <1>5, <2>2
<1>7. RingType'
  BY <1>2, <1>3, <1>6 DEF RingType
<1>9. \A a \in 0 .. num_lines - 2 : /\ a \in 0 .. num_lines - 1 /\ a + 1 \in 0 .. num_lines - 1
                                    /\ o[a] = off[a] /\ o[a + 1] = off[a + 1]
  BY <1>2, <1>0
<1>10. \A a : SlotOf(a)' = SlotOf(a) /\ Start(a)' = Start(a) /\ Back(a)' = Back(a)
  BY <1>2 DEF SlotOf, Start, Back
<1>11. Offsets(o)'
  <2>1. o \in [0 .. num_lines' -> 0 .. buf_occupancy']
    <3>1. \A a \in 0 .. num_lines - 1 : off[a] \in 0 .. off[num_lines - 1]
      <4> TAKE a \in 0 .. num_lines - 1
      <4>1. a \in 0 .. num_lines /\ num_lines - 1 \in 0 .. num_lines /\ a <= num_lines - 1
        BY <1>2
      <4> QED
        BY <4>1, <1>5, <1>3 DEF RingType
    <3> QED
      BY <1>2, <1>6, <1>0, <3>1
  <2>2. o[0] = 0 /\ o[num_lines'] = buf_occupancy'
    BY <1>2, <1>5, <1>6, <1>0
  <2>3. \A a, b \in 0 .. num_lines' : a <= b => o[a] <= o[b]
    <3>1. \A a \in 0 .. num_lines - 1 : a \in 0 .. num_lines /\ o[a] = off[a]
      BY <1>2, <1>0
    <3> QED
      BY <1>2, <1>5, <3>1
  <2>4. \A a \in 0 .. num_lines' - 1 :
           /\ lines'[SlotOf(a)'] \in Record
           /\ o[a + 1] - o[a] \in MinLength .. MaxLineLength
           /\ Start(a)' = Back(o[a + 1])'
    <3> TAKE a \in 0 .. num_lines' - 1
    <3>1. a \in 0 .. num_lines - 2
      BY <1>2
    <3>2. a \in 0 .. num_lines - 1 /\ o[a] = off[a] /\ o[a + 1] = off[a + 1]
      BY <1>9, <3>1
    <3>3. Start(a)' = Start(a) /\ SlotOf(a)' = SlotOf(a) /\ Back(o[a + 1])' = Back(o[a + 1])
      BY <1>10
    <3> QED
      BY <1>2, <1>5, <3>2, <3>3
  <2> QED
    BY <2>1, <2>2, <2>3, <2>4 DEF Offsets
<1> QED
  BY <1>7, <1>9, <1>11 DEF EvictedTo, OffsetsNext

\* If it is not, the bytes of the oldest line become those of the next, which was empty.
LEMMA EvictAmbiguous ==
  ASSUME RingType, Evict, NEW off, Offsets(off), Ambiguous(off, num_lines - 1)
  PROVE  RingType' /\ Layout' /\ ~ Unambiguous
<1> USE SizeAssumption
<1>1. Evicts
  BY EvictIs
<1>2. num_lines \in 1 .. MaxLines /\ num_lines > 1 /\ num_lines' = num_lines - 1
      /\ num_lines - 1 \in 0 .. num_lines - 1 /\ (num_lines - 1) + 1 = num_lines
  BY <1>1 DEF Evicts, Ambiguous
<1>3. /\ off[num_lines - 1] = 0 /\ buf_occupancy = BufferSize
      /\ MinLength = 0 /\ MaxLineLength = BufferSize
  BY <1>2, AmbiguousIs
<1>4. OldestLength = 0
  BY <1>2, OldestLengthIs
<1>5. buf_occupancy' = BufferSize
  BY <1>1, <1>3, <1>4 DEF Evicts
<1>6. RingType'
  BY <1>1, <1>2, <1>5 DEF RingType, Evicts
<1>7. PICK o : o = [a \in 0 .. num_lines - 1 |-> IF a = num_lines - 1 THEN BufferSize ELSE 0]
  OBVIOUS
<1>8. /\ \A a \in 0 .. num_lines - 1 :
           o[a] = IF a = num_lines - 1 THEN BufferSize ELSE 0
      /\ o \in [0 .. num_lines - 1 -> 0 .. BufferSize]
  BY <1>7
<1>9. Back(BufferSize)' = Back(0)
  <2>1. Back(BufferSize) = write_pos /\ Back(0) = write_pos
    BY BackIs DEF RingType, Pos
  <2> QED
    BY <1>1, <2>1 DEF Evicts, Back
<1>10. ASSUME NEW a \in 0 .. num_lines - 2
       PROVE  /\ lines'[SlotOf(a)'] \in Record
              /\ o[a + 1] - o[a] \in MinLength .. MaxLineLength
              /\ Start(a)' = Back(o[a + 1])'
  <2>1. a \in 0 .. num_lines - 1 /\ a + 1 \in 0 .. num_lines - 1 /\ a + 1 \in 0 .. num_lines
        /\ a # num_lines - 1 /\ num_lines - 1 \in 0 .. num_lines /\ a + 1 <= num_lines - 1
    BY <1>2
  <2>2. off[a + 1] = 0
    <3>1. off[a + 1] <= off[num_lines - 1] /\ off[a + 1] \in 0 .. buf_occupancy
      BY <2>1 DEF Offsets
    <3> QED
      BY <3>1, <1>3
  <2>3. lines[SlotOf(a)] \in Record /\ Start(a) = Back(0)
    BY <2>1, <2>2 DEF Offsets
  <2>4. lines'[SlotOf(a)'] \in Record /\ Start(a)' = Back(0) /\ Back(0)' = Back(0)
    BY <1>1, <2>3 DEF Evicts, SlotOf, Start, Back
  <2>5. o[a] = 0 /\ o[a + 1] \in {0, BufferSize}
    BY <1>8, <2>1
  <2>6. o[a + 1] - o[a] \in MinLength .. MaxLineLength
    BY <1>3, <2>5
  <2>7. Back(o[a + 1])' = Back(0)
    <3>1. CASE o[a + 1] = 0
      BY <3>1, <2>4 DEF Back
    <3>2. CASE o[a + 1] = BufferSize
      BY <3>2, <1>9 DEF Back
    <3> QED
      BY <3>1, <3>2, <2>5
  <2> QED
    BY <2>4, <2>6, <2>7
<1>11. Offsets(o)'
  <2>1. /\ o \in [0 .. num_lines' -> 0 .. buf_occupancy']
        /\ o[0] = 0 /\ o[num_lines'] = buf_occupancy'
    BY <1>2, <1>5, <1>8
  <2>2. \A a, b \in 0 .. num_lines' : a <= b => o[a] <= o[b]
    BY <1>2, <1>8
  <2>3. num_lines' - 1 = num_lines - 2
    BY <1>2
  <2> QED
    BY <1>10, <2>1, <2>2, <2>3 DEF Offsets
<1>12. Layout'
  BY <1>11 DEF Layout, Offsets
<1>13. ~ Unambiguous
  BY <1>3 DEF Unambiguous
<1> QED
  BY <1>6, <1>12, <1>13

\* The queue without its oldest line is what is shown then.
LEMMA EvictShows ==
  ASSUME Unambiguous, Counted, RingInv, Evict, NEW off, Offsets(off),
         ~ Ambiguous(off, num_lines - 1), NEW o, EvictedTo(off, o)
  PROVE  Shown' = Tail(Shown) /\ Queue!Size(Shown') = buf_occupancy'
<1> USE SizeAssumption
<1>1. /\ adding # Nothing /\ NoRoom /\ num_lines > 0 /\ num_lines \in 1 .. MaxLines
      /\ buf_occupancy' = buf_occupancy - OldestLength
      /\ num_lines' = num_lines - 1
      /\ UNCHANGED <<buf, write_pos, lines, write_line_index, adding>>
  BY EvictIs DEF Evicts, RingInv
<1>3. RingType /\ ShownIs
  BY ShownLemma DEF RingInv
<1>4. /\ Shown = [k \in 1 .. num_lines |-> LineIs(off, num_lines - k)]
      /\ \A a \in 0 .. num_lines - 1 :
           LineIs(off, a) \in Lines /\ Len(LineText(off, a)) = off[a + 1] - off[a]
      /\ OldestLength = off[num_lines] - off[num_lines - 1]
  BY <1>1, <1>3, OldestLengthIs DEF ShownIs
<1>7. RingType'
  BY DEF EvictedTo
<1>9. \A a \in 0 .. num_lines - 2 : o[a] = off[a] /\ o[a + 1] = off[a + 1]
  BY DEF EvictedTo
<1>11. Offsets(o)'
  BY DEF EvictedTo, OffsetsNext
<1>13. Shown' = Tail(Shown)
  <2>1. Shown' = [k \in 1 .. num_lines - 1 |-> LineIs(o, num_lines - k)']
    <3>1. ShownIs'
      BY <1>7, ShownNextLemma
    <3>2. Shown' = [k \in 1 .. num_lines |-> LineIs(o, num_lines - k)]'
      BY <3>1, <1>11 DEF ShownIs
    <3> QED
      BY <3>2, <1>1
  <2>2. ASSUME NEW k \in 1 .. num_lines - 1
        PROVE  LineIs(o, num_lines - k)' = LineIs(off, num_lines - (k + 1))
    <3>1. PICK a : a = num_lines - 1 - k
      OBVIOUS
    <3>2. a \in 0 .. num_lines - 2 /\ num_lines - (k + 1) = a /\ num_lines' - k = a
      BY <1>1, <3>1
    <3>3. o[a] = off[a] /\ o[a + 1] = off[a + 1]
      BY <1>9, <3>2
    <3>4. LineIs(o, a)' = LineIs(off, a)
      BY <1>1, <3>3 DEF LineIs, LineText, SlotOf, Back
    <3>5. LineIs(o, num_lines - k)' = LineIs(o, a)'
      BY <3>2 DEF LineIs, LineText, SlotOf, Back
    <3> QED
      BY <3>2, <3>4, <3>5
  <2>3. ASSUME NEW k \in 1 .. num_lines - 1
        PROVE  Tail(Shown)[k] = LineIs(off, num_lines - (k + 1))
    <3>1. Shown \in Seq(Lines) /\ Len(Shown) = num_lines
      BY ShownSeq
    <3>2. Tail(Shown)[k] = Shown[k + 1] /\ k + 1 \in 1 .. num_lines
      <4> HIDE DEF Shown
      <4> QED
        BY <3>1, <1>1
    <3> QED
      BY <3>2, <1>4
  <2>4. Tail(Shown) = [k \in 1 .. num_lines - 1 |-> Tail(Shown)[k]]
    <3>1. Shown \in Seq(Lines) /\ Len(Shown) = num_lines
      BY ShownSeq
    <3> HIDE DEF Shown
    <3>2. Tail(Shown) \in Seq(Lines) /\ Len(Tail(Shown)) = num_lines - 1
      BY <3>1, <1>1
    <3>3. \A r \in Seq(Lines) : r = [k \in 1 .. Len(r) |-> r[k]]
      OBVIOUS
    <3> QED
      BY <3>2, <3>3
  <2> QED
    BY <2>1, <2>2, <2>3, <2>4
<1>14. Queue!Size(Shown') = buf_occupancy'
  <2>1. Shown \in Seq(Lines) /\ Len(Shown) = num_lines
    BY ShownSeq
  <2>2. Shown # << >>
    <3> HIDE DEF Shown
    <3> QED
      BY <2>1, <1>1
  <2>3. Queue!Size(Tail(Shown)) = Queue!Size(Shown) - Len(Shown[1].text)
    BY <2>1, <2>2, SizeTail
  <2>4. Len(Shown[1].text) = off[num_lines] - off[num_lines - 1]
    <3>1. Shown[1] = LineIs(off, num_lines - 1) /\ num_lines - 1 \in 0 .. num_lines - 1
          /\ (num_lines - 1) + 1 = num_lines
      BY <1>1, <1>4
    <3> QED
      BY <3>1, <1>4 DEF LineIs
  <2> QED
    BY <1>1, <1>4, <1>13, <2>3, <2>4 DEF Counted
<1> QED
  BY <1>13, <1>14

\* A round of the eviction loop keeps the ring and, if nothing is ambiguous, drops the
\* oldest line of the queue.
LEMMA EvictStep ==
  ASSUME RingInv, Evict
  PROVE  RingInv' /\ (Unambiguous /\ Counted => Counted' /\ Queue!Next)
<1> USE SizeAssumption
<1>1. /\ adding # Nothing /\ NoRoom /\ num_lines > 0 /\ num_lines \in 1 .. MaxLines
      /\ buf_occupancy' = buf_occupancy - OldestLength
      /\ num_lines' = num_lines - 1
      /\ UNCHANGED <<buf, write_pos, lines, write_line_index, adding>>
  BY EvictIs DEF Evicts, RingInv
<1>2. PICK off : Offsets(off)
  BY DEF RingInv, Layout
<1>3. RingType
  BY DEF RingInv
<1>4. AddingType'
  BY <1>1 DEF RingInv, AddingType
<1>5. CASE Ambiguous(off, num_lines - 1)
  BY <1>2, <1>3, <1>4, <1>5, EvictAmbiguous DEF RingInv
<1>6. CASE ~ Ambiguous(off, num_lines - 1)
  <2>1. PICK o : o = [a \in 0 .. num_lines - 1 |-> off[a]]
    OBVIOUS
  <2>2. EvictedTo(off, o)
    BY <1>2, <1>3, <1>6, <2>1, EvictOffsets, Zenon
  <2>3. RingType' /\ Layout'
    BY <2>2 DEF EvictedTo, OffsetsNext, Layout, Offsets
  <2>4. ASSUME Unambiguous, Counted PROVE Counted' /\ Queue!Next
    <3>1. Shown' = Tail(Shown) /\ Queue!Size(Shown') = buf_occupancy'
      BY <1>2, <1>6, <2>1, <2>2, <2>4, EvictShows
    <3>2. Queue!Evict
      BY <1>1, <2>4, <3>1, ShownSeq DEF Queue!Evict
    <3>3. Queue!Size(Shown)' = buf_occupancy'
      BY <3>1
    <3> QED
      BY <3>1, <3>2, <3>3 DEF Counted, Queue!Next
  <2> QED
    BY <1>4, <2>3, <2>4 DEF RingInv
<1> QED
  BY <1>5, <1>6

\* The end of add shows the new line in front of those that were kept.
LEMMA FinishStep ==
  ASSUME RingInv, AddFinish
  PROVE  RingInv' /\ (Unambiguous /\ Counted => Counted' /\ Queue!Next)
<1> USE SizeAssumption
<1> DEFINE new == [text |-> adding.text, truncated |-> adding.truncated, data |-> adding.data]
<1>0. PICK len : len = Len(adding.text)
  OBVIOUS
<1>1. /\ adding # Nothing /\ ~ NoRoom
      /\ lines' = [lines EXCEPT ![write_line_index] =
                     [is_truncated |-> adding.truncated, line_start |-> write_pos,
                      line_data |-> adding.data]]
      /\ write_line_index' = (write_line_index + 1) % MaxLines
      /\ num_lines' = num_lines + 1
      /\ buf' = [p \in Pos |->
                   LET k == (p + BufferSize - write_pos) % BufferSize
                   IN  IF k < len THEN adding.text[k + 1] ELSE buf[p]]
      /\ write_pos' = (write_pos + len) % BufferSize
      /\ buf_occupancy' = buf_occupancy + len
      /\ adding' = Nothing
  BY <1>0 DEF AddFinish
<1>2. RingType
  BY DEF RingInv
<1>3. /\ adding.text \in Seq(Byte) /\ len \in 0 .. BufferSize /\ len \in MinLength .. MaxLineLength
      /\ adding.truncated \in BOOLEAN /\ adding.data \in LineData
  <2>1. adding \in Adding /\ Len(adding.text) \in MinLength .. MaxLineLength
    BY <1>1 DEF RingInv, AddingType
  <2>2. adding.text \in Texts(MaxLineLength)
    BY <2>1 DEF Adding
  <2>3. adding.text \in Seq(Byte)
    BY <2>2, TextsAreSequences
  <2> QED
    BY <1>0, <2>1, <2>3 DEF Adding
<1>4. /\ num_lines \in 0 .. MaxLines - 1 /\ buf_occupancy \in Nat
      /\ buf_occupancy + len <= BufferSize /\ write_pos \in 0 .. BufferSize - 1
      /\ write_line_index \in 0 .. MaxLines - 1
  <2>1. num_lines # MaxLines /\ ~ (len + buf_occupancy > BufferSize)
    BY <1>0, <1>1 DEF NoRoom
  <2> QED
    BY <2>1, <1>2, <1>3 DEF RingType, Pos, Slot
<1>5. SlotOf(0)' = write_line_index /\ write_line_index' \in Slot
  <2>1. write_line_index' = IF write_line_index + 1 < MaxLines THEN write_line_index + 1 ELSE 0
    <3>1. CASE write_line_index + 1 < MaxLines
      <4>1. write_line_index + 1 \in Nat
        BY <1>4
      <4>2. (write_line_index + 1) % MaxLines = write_line_index + 1
        BY <3>1, <4>1, Modulo
      <4> QED
        BY <1>1, <3>1, <4>2
    <3>2. CASE write_line_index + 1 = MaxLines
      <4>1. MaxLines % MaxLines = 0
        BY Modulo
      <4> QED
        BY <1>1, <1>4, <3>2, <4>1
    <3> QED
      BY <3>1, <3>2, <1>4
  <2>2. SlotOf(0)' = IF 1 <= write_line_index' THEN write_line_index' - 1
                     ELSE write_line_index' + MaxLines - 1
    <3>1. write_line_index' \in 0 .. MaxLines - 1 /\ 1 \in 0 .. MaxLines
      BY <1>4, <2>1
    <3>2. (write_line_index' + MaxLines - 1) % MaxLines =
            IF 1 <= write_line_index' THEN write_line_index' - 1
            ELSE write_line_index' + MaxLines - 1
      BY <3>1, Rotate
    <3>3. write_line_index' + MaxLines - 0 - 1 = write_line_index' + MaxLines - 1
      BY <3>1
    <3> QED
      BY <3>2, <3>3 DEF SlotOf
  <2> QED
    BY <1>4, <2>1, <2>2 DEF Slot
<1>6. ASSUME NEW a \in 0 .. num_lines - 1
      PROVE  SlotOf(a + 1)' = SlotOf(a) /\ SlotOf(a) # write_line_index /\ SlotOf(a) \in Slot
  <2>1. a + 1 \in 0 .. MaxLines - 1 /\ 1 \in 0 .. MaxLines - 1 /\ a \in 0 .. MaxLines - 1
    BY <1>4
  <2>2. (write_line_index' + MaxLines - ((a + 1) + 1)) % MaxLines
          = (write_line_index + MaxLines - (a + 1)) % MaxLines
    <3>1. \A d \in 0 .. MaxLines - 1 :
            (write_line_index' + MaxLines - (d + 1)) % MaxLines
              = (write_line_index + MaxLines - d) % MaxLines
      <4>1. Advanced(MaxLines, write_line_index, 1, write_line_index')
        BY <1>1, <1>4, <2>1, Advance
      <4> QED
        BY <4>1 DEF Advanced
    <3> QED
      BY <2>1, <3>1
  <2>3. SlotOf(a + 1)' = SlotOf(a)
    <3>1. write_line_index' + MaxLines - (a + 1) - 1 = write_line_index' + MaxLines - ((a + 1) + 1)
      BY <1>5, <2>1 DEF Slot
    <3>2. write_line_index + MaxLines - a - 1 = write_line_index + MaxLines - (a + 1)
      BY <1>4, <2>1
    <3> QED
      BY <2>2, <3>1, <3>2 DEF SlotOf
  <2>4. SlotOf(a) \in Slot /\ SlotOf(a) # write_line_index
    BY <1>2, <1>4, <2>1, SlotIs
  <2> QED
    BY <2>3, <2>4
<1>7. /\ lines'[SlotOf(0)'] = [is_truncated |-> adding.truncated, line_start |-> write_pos,
                               line_data |-> adding.data]
      /\ \A a \in 0 .. num_lines - 1 : lines'[SlotOf(a + 1)'] = lines[SlotOf(a)]
  BY <1>1, <1>2, <1>4, <1>5, <1>6 DEF RingType, Slot
<1>8. /\ write_pos' \in Pos
      /\ \A d \in 0 .. buf_occupancy : Back(d + len)' = Back(d)
      /\ \A e \in 1 .. buf_occupancy : buf'[Back(e)] = buf[Back(e)]
      /\ \A k \in 1 .. len : buf'[Back(len - k + 1)'] = adding.text[k]
  <2>1. /\ write_pos' \in 0 .. BufferSize - 1
        /\ \A d \in 0 .. BufferSize - len : Back(d + len)' = Back(d)
        /\ \A e \in 1 .. BufferSize :
             /\ Back(e) \in 0 .. BufferSize - 1
             /\ (Back(e) + BufferSize - write_pos) % BufferSize = BufferSize - e
        /\ \A k \in 1 .. len :
             /\ Back(len - k + 1)' \in 0 .. BufferSize - 1
             /\ (Back(len - k + 1)' + BufferSize - write_pos) % BufferSize = k - 1
    <3>1. Advanced(BufferSize, write_pos, len, write_pos')
      BY <1>1, <1>3, <1>4, Advance
    <3> QED
      BY <3>1 DEF Back, Advanced
  <2>2. ASSUME NEW e \in 1 .. buf_occupancy PROVE buf'[Back(e)] = buf[Back(e)]
    <3>1. e \in 1 .. BufferSize /\ ~ (BufferSize - e < len)
      BY <1>3, <1>4
    <3>2. Back(e) \in Pos /\ (Back(e) + BufferSize - write_pos) % BufferSize = BufferSize - e
      BY <2>1, <3>1 DEF Pos
    <3> QED
      BY <1>1, <3>1, <3>2
  <2>3. ASSUME NEW k \in 1 .. len PROVE buf'[Back(len - k + 1)'] = adding.text[k]
    <3>1. /\ Back(len - k + 1)' \in Pos
          /\ (Back(len - k + 1)' + BufferSize - write_pos) % BufferSize = k - 1
      BY <2>1 DEF Pos
    <3>2. k - 1 < len /\ (k - 1) + 1 = k
      BY <1>3
    <3> QED
      BY <1>1, <3>1, <3>2
  <2>4. \A d \in 0 .. buf_occupancy : d \in 0 .. BufferSize - len
    BY <1>3, <1>4
  <2> QED
    BY <2>1, <2>2, <2>3, <2>4 DEF Pos
<1>9. RingType'
  <2>1. buf' \in [Pos -> Byte \cup {Nothing}]
    <3>1. ASSUME NEW p \in Pos,
                 (p + BufferSize - write_pos) % BufferSize < len
          PROVE  adding.text[((p + BufferSize - write_pos) % BufferSize) + 1] \in Byte
      <4>1. p + BufferSize - write_pos \in Nat
        BY <1>4 DEF Pos
      <4>2. \A x \in Nat : x % BufferSize \in Nat
        OBVIOUS
      <4>3. (p + BufferSize - write_pos) % BufferSize \in Nat
        BY <4>1, <4>2
      <4>4. ((p + BufferSize - write_pos) % BufferSize) + 1 \in 1 .. Len(adding.text)
        BY <3>1, <4>3, <1>0, <1>3
      <4> QED
        BY <4>4, <1>3
    <3> QED
      BY <1>1, <1>2, <3>1 DEF RingType
  <2>2. lines' \in [Slot -> Record \cup {Nothing}]
    BY <1>1, <1>2, <1>3 DEF RingType, Record
  <2> QED
    BY <1>1, <1>2, <1>3, <1>4, <1>5, <1>8, <2>1, <2>2 DEF RingType
<1>10. PICK off : Offsets(off)
  BY DEF RingInv, Layout
<1>11. /\ off \in [0 .. num_lines -> 0 .. buf_occupancy]
       /\ off[0] = 0 /\ off[num_lines] = buf_occupancy
       /\ \A a, b \in 0 .. num_lines : a <= b => off[a] <= off[b]
       /\ \A a \in 0 .. num_lines - 1 :
            /\ lines[SlotOf(a)] \in Record
            /\ off[a + 1] - off[a] \in MinLength .. MaxLineLength
            /\ Start(a) = Back(off[a + 1])
  BY <1>10 DEF Offsets
<1>12. PICK o : o = [a \in 0 .. num_lines + 1 |-> IF a = 0 THEN 0 ELSE off[a - 1] + len]
  OBVIOUS
<1>13. /\ o \in [0 .. num_lines + 1 -> 0 .. buf_occupancy + len]
       /\ o[0] = 0 /\ o[1] = len
       /\ \A a \in 0 .. num_lines : o[a + 1] = off[a] + len /\ a + 1 \in 0 .. num_lines + 1
  <2>1. \A a \in 0 .. num_lines : off[a] \in 0 .. buf_occupancy
    BY <1>11
  <2>2. \A a \in 0 .. num_lines + 1 : a # 0 => a - 1 \in 0 .. num_lines
    BY <1>4
  <2>3. \A a \in 0 .. num_lines + 1 : (IF a = 0 THEN 0 ELSE off[a - 1] + len) \in 0 .. buf_occupancy + len
    BY <2>1, <2>2, <1>3, <1>4
  <2>4. o \in [0 .. num_lines + 1 -> 0 .. buf_occupancy + len]
    BY <1>12, <2>3
  <2>5. \A a \in 0 .. num_lines : a + 1 \in 0 .. num_lines + 1 /\ a + 1 # 0 /\ (a + 1) - 1 = a
    BY <1>4
  <2>6. \A a \in 0 .. num_lines : o[a + 1] = off[a] + len
    BY <1>12, <2>5
  <2>7. o[0] = 0 /\ o[1] = len
    BY <1>3, <1>4, <1>11, <1>12
  <2> QED
    BY <2>4, <2>5, <2>6, <2>7
<1>14. Offsets(o)'
  <2>1. o \in [0 .. num_lines' -> 0 .. buf_occupancy'] /\ o[0] = 0 /\ o[num_lines'] = buf_occupancy'
    <3>1. o[num_lines + 1] = off[num_lines] + len
      BY <1>4, <1>13
    <3> QED
      BY <3>1, <1>1, <1>11, <1>13
  <2>2. ASSUME NEW a \in 0 .. num_lines', NEW b \in 0 .. num_lines', a <= b PROVE o[a] <= o[b]
    <3>1. CASE a = 0
      BY <1>1, <1>3, <1>4, <1>13, <3>1
    <3>2. CASE a # 0
      <4>1. a - 1 \in 0 .. num_lines /\ b - 1 \in 0 .. num_lines /\ a - 1 <= b - 1
            /\ (a - 1) + 1 = a /\ (b - 1) + 1 = b
        BY <1>1, <1>4, <2>2, <3>2
      <4>2. off[a - 1] <= off[b - 1] /\ off[a - 1] \in Nat /\ off[b - 1] \in Nat
        BY <1>4, <1>11, <4>1
      <4>3. o[a] = off[a - 1] + len /\ o[b] = off[b - 1] + len
        BY <1>13, <4>1
      <4> QED
        BY <4>2, <4>3, <1>3
    <3> QED
      BY <3>1, <3>2
  <2>3. ASSUME NEW a \in 0 .. num_lines' - 1
        PROVE  /\ lines'[SlotOf(a)'] \in Record
               /\ o[a + 1] - o[a] \in MinLength .. MaxLineLength
               /\ Start(a)' = Back(o[a + 1])'
    <3>1. CASE a = 0
      <4>1. lines'[SlotOf(a)'] \in Record /\ Start(a)' = write_pos
        BY <1>3, <1>4, <1>7, <3>1 DEF Record, Start, Pos
      <4>2. Back(0 + len)' = Back(0) /\ Back(0) = write_pos
        <5>1. 0 \in 0 .. buf_occupancy
          BY <1>4
        <5> QED
          BY <5>1, <1>2, <1>4, <1>8, BackIs
      <4>3. 0 + len = len /\ a + 1 = 1
        BY <1>3, <3>1
      <4>4. Back(o[a + 1])' = write_pos
        BY <1>13, <4>2, <4>3 DEF Back
      <4> QED
        BY <1>3, <1>13, <3>1, <4>1, <4>3, <4>4
    <3>2. CASE a # 0
      <4>1. PICK b \in 0 .. num_lines - 1 : a = b + 1
        <5>1. a - 1 \in 0 .. num_lines - 1 /\ a = (a - 1) + 1
          BY <1>1, <1>4, <3>2
        <5> QED
          BY <5>1
      <4>2. b \in 0 .. num_lines /\ b + 1 \in 0 .. num_lines
        BY <1>4
      <4>3. off[b] \in 0 .. buf_occupancy /\ off[b + 1] \in 0 .. buf_occupancy
        BY <4>2, <1>11
      <4>4. o[a] = off[b] + len /\ o[a + 1] = off[b + 1] + len
        BY <1>13, <4>1, <4>2
      <4>5. Back(o[a + 1])' = Back(off[b + 1])
        <5>1. Back(off[b + 1] + len)' = Back(off[b + 1])
          BY <1>8, <4>3
        <5> QED
          BY <4>4, <5>1 DEF Back
      <4>6. lines'[SlotOf(a)'] = lines[SlotOf(b)]
        BY <1>7, <4>1
      <4>7. Start(a)' = Start(b)
        BY <4>6 DEF Start
      <4>8. lines[SlotOf(b)] \in Record /\ off[b + 1] - off[b] \in MinLength .. MaxLineLength
            /\ Start(b) = Back(off[b + 1])
        BY <1>11
      <4>9. o[a + 1] - o[a] = off[b + 1] - off[b]
        BY <1>3, <1>4, <4>3, <4>4
      <4> QED
        BY <4>5, <4>6, <4>7, <4>8, <4>9
    <3> QED
      BY <3>1, <3>2
  <2> QED
    BY <2>1, <2>2, <2>3 DEF Offsets
<1>15. Layout'
  BY <1>14 DEF Layout, Offsets
<1>16. ASSUME Unambiguous, Counted PROVE Counted' /\ Queue!Next
  <2>1. /\ Shown = [k \in 1 .. num_lines |-> LineIs(off, num_lines - k)]
         /\ Shown \in Seq(Lines) /\ Len(Shown) = num_lines
    BY <1>2, <1>10, <1>16, ShownLemma, ShownSeq DEF ShownIs
  <2>2. Shown' = [k \in 1 .. num_lines + 1 |-> LineIs(o, num_lines - k)']
    <3>1. ShownIs'
      BY <1>9, <1>16, ShownNextLemma
    <3>2. Shown' = [k \in 1 .. num_lines |-> LineIs(o, num_lines - k)]'
      BY <3>1, <1>14 DEF ShownIs
    <3> QED
      BY <3>2, <1>1
  <2>3. ASSUME NEW a \in 0 .. num_lines - 1 PROVE LineIs(o, a + 1)' = LineIs(off, a)
    <3>1. a \in 0 .. num_lines /\ a + 1 \in 0 .. num_lines
      BY <1>4
    <3>2. off[a] \in 0 .. buf_occupancy /\ off[a + 1] \in 0 .. buf_occupancy
      BY <3>1, <1>11
    <3>3. o[a + 1] = off[a] + len /\ o[(a + 1) + 1] = off[a + 1] + len
      BY <3>1, <1>13
    <3>4. o[(a + 1) + 1] - o[a + 1] = off[a + 1] - off[a]
      BY <3>2, <3>3, <1>3, <1>4
    <3>5. ASSUME NEW k \in 1 .. off[a + 1] - off[a]
          PROVE  buf'[Back(o[(a + 1) + 1] - k + 1)'] = buf[Back(off[a + 1] - k + 1)]
      <4>1. PICK e : e = off[a + 1] - k + 1
        OBVIOUS
      <4>2. e \in 1 .. buf_occupancy /\ e \in 0 .. buf_occupancy
        BY <3>2, <4>1, <1>4
      <4>3. o[(a + 1) + 1] - k + 1 = e + len
        BY <3>2, <3>3, <4>1, <1>3, <1>4
      <4>4. Back(e + len)' = Back(e) /\ buf'[Back(e)] = buf[Back(e)]
        BY <4>2, <1>8
      <4>5. Back(o[(a + 1) + 1] - k + 1)' = Back(e)
        BY <4>3, <4>4 DEF Back
      <4> QED
        BY <4>1, <4>4, <4>5
    <3>6. LineText(o, a + 1)' = LineText(off, a)
      BY <3>4, <3>5 DEF LineText
    <3> QED
      BY <3>6, <1>7 DEF LineIs
  <2>4. LineIs(o, 0)' = new
    <3>1. o[0 + 1] - o[0] = len
      BY <1>3, <1>13
    <3>2. ASSUME NEW k \in 1 .. len PROVE buf'[Back(o[0 + 1] - k + 1)'] = adding.text[k]
      <4>1. o[0 + 1] = len
        BY <1>13
      <4>2. Back(o[0 + 1] - k + 1)' = Back(len - k + 1)'
        BY <4>1 DEF Back
      <4> QED
        BY <4>2, <1>8
    <3>3. LineText(o, 0)' = [k \in 1 .. len |-> adding.text[k]]
      BY <3>1, <3>2 DEF LineText
    <3>4. adding.text = [k \in 1 .. len |-> adding.text[k]]
      <4>1. \A r \in Seq(Byte) : r = [k \in 1 .. Len(r) |-> r[k]]
        OBVIOUS
      <4> QED
        BY <4>1, <1>0, <1>3
    <3>5. LineText(o, 0)' = adding.text
      BY <3>3, <3>4
    <3>6. /\ lines'[SlotOf(0)'].is_truncated = adding.truncated
          /\ lines'[SlotOf(0)'].line_data = adding.data
      BY <1>7
    <3> QED
      BY <3>5, <3>6 DEF LineIs
  <2>5. new \in Lines
    <3>1. adding.text \in Text
      BY <1>3 DEF Text
    <3> QED
      BY <3>1, <1>3 DEF Lines
  <2>6. Shown' = Append(Shown, new)
    <3> HIDE DEF new, Shown
    <3>0. Shown \in Seq(Lines) /\ Len(Shown) = num_lines /\ new \in Lines /\ num_lines \in Nat
      BY <1>4, <2>1, <2>5
    <3>1. Append(Shown, new) = [k \in 1 .. num_lines + 1 |-> Append(Shown, new)[k]]
      <4>1. Append(Shown, new) \in Seq(Lines) /\ Len(Append(Shown, new)) = num_lines + 1
        BY <3>0
      <4>2. \A r \in Seq(Lines) : r = [k \in 1 .. Len(r) |-> r[k]]
        OBVIOUS
      <4> QED
        BY <4>1, <4>2
    <3>2. ASSUME NEW k \in 1 .. num_lines + 1
          PROVE  LineIs(o, num_lines - k)' = Append(Shown, new)[k]
      <4>1. CASE k = num_lines + 1
        <5>1. num_lines' - k = 0
          BY <1>1, <1>4, <4>1
        <5>2. LineIs(o, num_lines - k)' = LineIs(o, 0)'
          BY <5>1 DEF LineIs, LineText, SlotOf, Back
        <5>3. Append(Shown, new)[k] = new
          BY <3>0, <4>1
        <5> QED
          BY <5>2, <5>3, <2>4
      <4>2. CASE k # num_lines + 1
        <5>1. k \in 1 .. num_lines /\ num_lines - k \in 0 .. num_lines - 1
              /\ num_lines' - k = (num_lines - k) + 1
          <6>1. PICK n \in Nat : n = num_lines
            BY <3>0
          <6>2. num_lines' = n + 1
            BY <1>1, <6>1
          <6>3. k \in 1 .. n + 1 /\ k # n + 1
            BY <4>2, <6>1
          <6>4. k \in 1 .. n /\ n - k \in 0 .. n - 1 /\ (n + 1) - k = (n - k) + 1
            BY <6>3
          <6> QED
            BY <6>1, <6>2, <6>4
        <5>2. PICK a : a = num_lines - k
          OBVIOUS
        <5>3. LineIs(o, num_lines - k)' = LineIs(o, a + 1)'
          BY <5>1, <5>2 DEF LineIs, LineText, SlotOf, Back
        <5>4. Append(Shown, new)[k] = Shown[k]
          BY <3>0, <5>1
        <5>5. Shown[k] = LineIs(off, a)
          BY <2>1, <5>1, <5>2
        <5> QED
          BY <5>1, <5>2, <5>3, <5>4, <5>5, <2>3
      <4> QED
        BY <4>1, <4>2
    <3> QED
      BY <3>1, <3>2, <2>2
  <2>7. Queue!Size(Shown') = buf_occupancy'
    <3>1. Queue!Size(Append(Shown, new)) = Queue!Size(Shown) + Len(new.text)
      BY <2>1, <2>5, SizeAppend
    <3> QED
      BY <3>1, <1>0, <1>1, <1>16, <2>6 DEF Counted
  <2>8. Queue!Store
    BY <1>1, <1>16, <2>6, ShownSeq DEF Queue!Store
  <2>9. Queue!Size(Shown)' = buf_occupancy'
    BY <2>7
  <2> QED
    BY <2>7, <2>8, <2>9 DEF Counted, Queue!Next
<1>17. AddingType'
  BY <1>1 DEF AddingType
<1> QED
  BY <1>9, <1>15, <1>16, <1>17 DEF RingInv

-----------------------------------------------------------------------------
(* The results.                                                            *)

\* For every size of the ring and every limit on lines: the records say where each line
\* lies, oldest to youngest, and their lengths together are the occupancy, or can be taken
\* so, where a line that fills the ring meets lines without a byte
\* (yc_circular_buffer_add).
THEOREM RingCorrect == Spec => []RingInv
<1>1. RingInv /\ [Next]_vars => RingInv'
  <2> SUFFICES ASSUME RingInv, [Next]_vars PROVE RingInv'
    OBVIOUS
  <2>1. CASE Next
    BY <2>1, StartStep, EvictStep, FinishStep DEF Next
  <2>2. CASE UNCHANGED vars
    BY <2>2, Same DEF vars, RingInv, AddingType
  <2> QED
    BY <2>1, <2>2
<1> QED
  BY <1>1, InitRing, PTL DEF Spec

\* So the assertion of the eviction loop never fails, and the loop ends: what has no room
\* has a line before it, however the bytes are counted (yc_circular_buffer_add).
THEOREM AlwaysLineToDrop == Spec => []LineToDrop
<1>1. RingInv => LineToDrop
  <2> SUFFICES ASSUME RingInv, adding # Nothing, NoRoom, ~ (num_lines > 0) PROVE FALSE
    BY DEF LineToDrop
  <2>1. num_lines = 0 /\ num_lines # MaxLines
    BY SizeAssumption DEF RingInv, RingType
  <2>2. buf_occupancy = 0
    BY <2>1 DEF RingInv, Layout, Offsets
  <2>3. Len(adding.text) \in MinLength .. MaxLineLength
    BY DEF RingInv, AddingType
  <2> QED
    BY <2>1, <2>2, <2>3, SizeAssumption DEF NoRoom
<1> QED
  BY <1>1, RingCorrect, PTL

\* The ring of bytes and the ring of records show what a queue of lines would, also
\* of a line that fills the ring, unless such lines meet lines without a byte
\* (yc_circular_buffer_add, yc_circular_buffer_get_line).
THEOREM RingShowsQueue ==
  ASSUME Unambiguous
  PROVE  Spec => QueueSpec
<1>1. RingInv /\ Counted /\ [Next]_vars => RingInv' /\ Counted' /\ [Queue!Next]_(Queue!vars)
  <2> SUFFICES ASSUME RingInv, Counted, [Next]_vars
               PROVE  RingInv' /\ Counted' /\ [Queue!Next]_(Queue!vars)
    OBVIOUS
  <2>1. CASE Next
    BY <2>1, StartStep, EvictStep, FinishStep DEF Next
  <2>2. CASE UNCHANGED vars
    BY <2>2, Same DEF vars, RingInv, Counted, AddingType, Queue!vars
  <2> QED
    BY <2>1, <2>2
<1> QED
  BY <1>1, InitRing, PTL DEF Spec, QueueSpec, Queue!Spec

=============================================================================

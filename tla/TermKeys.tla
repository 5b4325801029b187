------------------------------ MODULE TermKeys ------------------------------
(***************************************************************************)
(* From bytes to keys (yc-term.c): decode_one and yc_term_feed_input.      *)
(* A byte is a string: "esc", "[", "O", "~", a digit, the last byte of a   *)
(* sequence ("A" ... "H"), or another character.                           *)
(***************************************************************************)
EXTENDS Integers, SequencesExt

CONSTANTS
  MaxPending,   \* MAX_PENDING
  Unsigned      \* how many values an unsigned has

\* An ESC and the byte after it have room.
ASSUME KeysAssumption == MaxPending \in Nat \ {0, 1} /\ Unsigned \in Nat \ {0}

Digit == [d \in {"1", "4", "5", "6", "7", "8"} |->
            CASE d = "1" -> 1 [] d = "4" -> 4 [] d = "5" -> 5
              [] d = "6" -> 6 [] d = "7" -> 7 [] d = "8" -> 8]
IsDigit(b) == b \in DOMAIN Digit

\* What a byte is on its own.
PlainKey(b) ==
  CASE b \in {"\r", "\n"}  -> "ENTER"
    [] b \in {"del", "bs"} -> "BACKSPACE"
    [] OTHER               -> b

\* ESC [ X and ESC O X
Final == [b \in {"A", "B", "C", "D", "H", "F"} |->
            CASE b = "A" -> "UP"    [] b = "B" -> "DOWN" [] b = "C" -> "RIGHT"
              [] b = "D" -> "LEFT"  [] b = "H" -> "HOME" [] b = "F" -> "END"]

\* ESC [ <value> ~
Numbered(value) ==
  CASE value \in {1, 7} -> <<"HOME">>
    [] value \in {4, 8} -> <<"END">>
    [] value = 5        -> <<"PAGE_UP">>
    [] value = 6        -> <<"PAGE_DOWN">>
    [] OTHER            -> << >>

\* The value of the digits, in an unsigned.
Value(digits) == FoldLeft(LAMBDA v, d : (v * 10 + Digit[d]) % Unsigned, 0, digits)

\* The first byte of p from i on that is no digit, or Len(p) + 1.
DigitsEnd(p, i) ==
  CHOOSE e \in i .. Len(p) + 1 :
    /\ \A k \in i .. e - 1 : IsDigit(p[k])
    /\ e <= Len(p) => ~ IsDigit(p[e])

\* decode_one: the bytes used (0: wait for more), and the key, if any.
DecodeOne(p) ==
  LET Is(n, key) == [used |-> n, key |-> key]
      Hold       == Is(0, << >>)
      end        == DigitsEnd(p, 3)
  IN  IF p = << >> THEN Hold
      ELSE IF p[1] # "esc" THEN Is(1, <<PlainKey(p[1])>>)
      ELSE IF Len(p) = 1 THEN Hold
      ELSE IF p[2] \notin {"[", "O"} THEN Is(1, <<"ESCAPE">>)
      ELSE IF Len(p) = 2 THEN Hold
      ELSE IF p[3] \in DOMAIN Final THEN Is(3, <<Final[p[3]]>>)
      ELSE IF ~ IsDigit(p[3]) THEN Is(3, << >>)
      ELSE IF end > Len(p) THEN Hold
      ELSE IF p[end] # "~" THEN Is(end, << >>)
      ELSE Is(end, Numbered(Value(SubSeq(p, 3, end - 1))))

\* The inner loop of yc_term_feed_input: keys come out while any can be decoded.
Drained(s) ==
  LET d == DecodeOne(s.pending)
  IN  [pending |-> SubSeq(s.pending, d.used + 1, Len(s.pending)), keys |-> s.keys \o d.key]

Drain(s) ==
  LET Round[k \in 0 .. Len(s.pending)] == IF k = 0 THEN s ELSE Drained(Round[k - 1])
  IN  Round[Len(s.pending)]

\* A round of its outer loop; a full buffer is garbage.
Feed(s, b) ==
  LET kept == IF Len(s.pending) = MaxPending THEN << >> ELSE s.pending
  IN  Drain([s EXCEPT !.pending = Append(kept, b)])

\* Mutant: the bytes of an unfinished sequence are dropped with each read.
FeedInput_Forgets(s, bytes) ==
  LET Fed[n \in 0 .. Len(bytes)] ==
        IF n = 0 THEN [s EXCEPT !.pending = << >>] ELSE Feed(Fed[n - 1], bytes[n])
  IN  Fed[Len(bytes)]

\* yc_term_feed_input
FeedInput(s, bytes) ==
  LET Fed[n \in 0 .. Len(bytes)] == IF n = 0 THEN s ELSE Feed(Fed[n - 1], bytes[n])
  IN  Fed[Len(bytes)]

-----------------------------------------------------------------------------
(***************************************************************************)
(* The same, for the whole stream at once: it is cut into the shortest     *)
(* pieces that are keys or sequences, and the last, unfinished one waits.  *)
(***************************************************************************)
Piece(p) ==
  \/ Len(p) = 1 /\ p[1] # "esc"
  \/ Len(p) = 3 /\ p[1] = "esc" /\ p[2] \in {"[", "O"} /\ ~ IsDigit(p[3])
  \/ /\ Len(p) > 3 /\ p[1] = "esc" /\ p[2] \in {"[", "O"}
     /\ \A k \in 3 .. Len(p) - 1 : IsDigit(p[k])
     /\ ~ IsDigit(p[Len(p)])

\* An ESC is a key if the next byte shows that no sequence follows.
LoneEsc(p, i) == p[i] = "esc" /\ i < Len(p) /\ p[i + 1] \notin {"[", "O"}

KeyOf(p) ==
  IF Len(p) = 1 THEN <<PlainKey(p[1])>>
  ELSE IF Len(p) = 3 THEN (IF p[3] \in DOMAIN Final THEN <<Final[p[3]]>> ELSE << >>)
  ELSE IF p[Len(p)] = "~" THEN Numbered(Value(SubSeq(p, 3, Len(p) - 1)))
  ELSE << >>

\* Where a piece that begins at i may end.
Ends(stream, i) == {j \in i .. Len(stream) : Piece(SubSeq(stream, i, j))}

\* The keys from each place on.
KeysFrom(stream) ==
  LET From[i \in 1 .. Len(stream) + 1] ==
        IF i > Len(stream) THEN << >>
        ELSE IF LoneEsc(stream, i) THEN <<"ESCAPE">> \o From[i + 1]
        ELSE IF Ends(stream, i) = {} THEN << >>
        ELSE LET j == Min(Ends(stream, i))
             IN  KeyOf(SubSeq(stream, i, j)) \o From[j + 1]
  IN  From

KeysOf(stream) == KeysFrom(stream)[1]

\* No sequence of the stream is longer than the buffer.
SequencesFit(stream) ==
  \A i, j \in 1 .. Len(stream) :
    (j >= i + MaxPending /\ stream[i] = "esc" /\ stream[i + 1] \in {"[", "O"})
      => \E k \in i + 2 .. j - 1 : ~ IsDigit(stream[k])
=============================================================================

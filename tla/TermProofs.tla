----------------------------- MODULE TermProofs -----------------------------
(***************************************************************************)
(* Proofs about the terminal layer.                                        *)
(***************************************************************************)
EXTENDS Term, SequenceFacts

-----------------------------------------------------------------------------
(* What decode_one makes of the bytes that are held.                       *)

\* What comes out is a byte or one of the keys with a name.
Key == STRING \cup {"ENTER", "BACKSPACE", "ESCAPE", "UP", "DOWN", "RIGHT", "LEFT", "HOME",
                    "END", "PAGE_UP", "PAGE_DOWN"}

\* The decoder: the bytes that are held, and the keys that came out.
Decoder == [pending : Seq(STRING), keys : Seq(Key)]

\* The beginning of a sequence.
Begun(p) ==
  /\ p # << >> => p[1] = "esc"
  /\ Len(p) > 1 => p[2] \in {"[", "O"}
  /\ \A k \in 3 .. Len(p) : IsDigit(p[k])

LEMMA NumberedType == \A v : Numbered(v) \in Seq(Key)
<1>1. \A v : Numbered(v) \in {<<"HOME">>, <<"END">>, <<"PAGE_UP">>, <<"PAGE_DOWN">>, << >>}
  BY DEF Numbered
<1>2. {"HOME", "END", "PAGE_UP", "PAGE_DOWN"} \subseteq Key
  BY DEF Key
<1>3. << >> \in Seq(Key) /\ \A k \in Key : <<k>> \in Seq(Key)
  OBVIOUS
<1>4. /\ <<"HOME">> \in Seq(Key) /\ <<"END">> \in Seq(Key)
      /\ <<"PAGE_UP">> \in Seq(Key) /\ <<"PAGE_DOWN">> \in Seq(Key)
  BY <1>2, <1>3
<1> HIDE DEF Key
<1> QED
  BY <1>1, <1>3, <1>4, Zenon

\* The digits of a sequence end at a byte that is none, or with the bytes held.
LEMMA DigitsEndIs ==
  ASSUME NEW p \in Seq(STRING), Len(p) >= 3
  PROVE  /\ DigitsEnd(p, 3) \in 3 .. Len(p) + 1
         /\ \A k \in 3 .. DigitsEnd(p, 3) - 1 : IsDigit(p[k])
         /\ DigitsEnd(p, 3) <= Len(p) => ~ IsDigit(p[DigitsEnd(p, 3)])
<1> DEFINE S == {e \in 3 .. Len(p) + 1 : e <= Len(p) => ~ IsDigit(p[e])}
<1>1. Len(p) \in Nat /\ Len(p) + 1 \in S /\ S \in SUBSET Nat
  OBVIOUS
<1>2. PICK e \in S : \A m \in S : e <= m
  BY <1>1, LeastElement
<1>3. \A k \in 3 .. e - 1 : IsDigit(p[k])
  BY <1>1, <1>2
<1> QED
  BY <1>1, <1>2, <1>3 DEF DigitsEnd

\* The cases of decode_one.
LEMMA DecodeCases ==
  ASSUME NEW p \in Seq(STRING)
  PROVE  \/ Begun(p) /\ DecodeOne(p) = [used |-> 0, key |-> << >>]
         \/ p # << >> /\ p[1] # "esc" /\ DecodeOne(p) = [used |-> 1, key |-> <<PlainKey(p[1])>>]
         \/ Len(p) > 1 /\ p[1] = "esc" /\ p[2] \notin {"[", "O"}
            /\ DecodeOne(p) = [used |-> 1, key |-> <<"ESCAPE">>]
         \/ Len(p) > 2 /\ p[1] = "esc" /\ p[2] \in {"[", "O"} /\ ~ IsDigit(p[3])
            /\ DecodeOne(p) = [used |-> 3, key |-> IF p[3] \in DOMAIN Final THEN <<Final[p[3]]>>
                                                   ELSE << >>]
         \/ \E e \in 4 .. Len(p) :
              /\ p[1] = "esc" /\ p[2] \in {"[", "O"}
              /\ \A k \in 3 .. e - 1 : IsDigit(p[k])
              /\ ~ IsDigit(p[e])
              /\ DecodeOne(p) = [used |-> e, key |-> IF p[e] = "~"
                                                     THEN Numbered(Value(SubSeq(p, 3, e - 1)))
                                                     ELSE << >>]
<1>1. Len(p) \in Nat /\ (p = << >> <=> Len(p) = 0)
  OBVIOUS
<1>2. CASE p = << >>
  BY <1>2 DEF DecodeOne, Begun
<1>3. CASE p # << >> /\ p[1] # "esc"
  BY <1>3 DEF DecodeOne
<1>4. CASE Len(p) = 1 /\ p[1] = "esc"
  BY <1>4 DEF DecodeOne, Begun
<1>5. CASE Len(p) > 1 /\ p[1] = "esc" /\ p[2] \notin {"[", "O"}
  BY <1>5, <1>1 DEF DecodeOne
<1>6. CASE Len(p) = 2 /\ p[1] = "esc" /\ p[2] \in {"[", "O"}
  BY <1>6, <1>1 DEF DecodeOne, Begun
<1>7. CASE Len(p) > 2 /\ p[1] = "esc" /\ p[2] \in {"[", "O"}
  <2>0. Len(p) > 2
    BY <1>7
  <2>1. p # << >> /\ Len(p) # 1 /\ Len(p) # 2
    <3>1. PICK n \in Nat : n = Len(p)
      BY <1>1
    <3>2. n > 2
      BY <2>0, <3>1
    <3>3. n # 0 /\ n # 1 /\ n # 2
      BY <3>2
    <3> QED
      BY <1>1, <3>1, <3>3
  <2>2. DecodeOne(p) =
          IF p[3] \in DOMAIN Final THEN [used |-> 3, key |-> <<Final[p[3]]>>]
          ELSE IF ~ IsDigit(p[3]) THEN [used |-> 3, key |-> << >>]
          ELSE IF DigitsEnd(p, 3) > Len(p) THEN [used |-> 0, key |-> << >>]
          ELSE IF p[DigitsEnd(p, 3)] # "~" THEN [used |-> DigitsEnd(p, 3), key |-> << >>]
          ELSE [used |-> DigitsEnd(p, 3),
                key  |-> Numbered(Value(SubSeq(p, 3, DigitsEnd(p, 3) - 1)))]
    BY <1>7, <2>1 DEF DecodeOne
  <2>3. \A b : b \in DOMAIN Final => ~ IsDigit(b)
    BY DEF Final, IsDigit, Digit
  <2>4. PICK e \in 3 .. Len(p) + 1 :
          /\ e = DigitsEnd(p, 3)
          /\ \A k \in 3 .. e - 1 : IsDigit(p[k])
          /\ e <= Len(p) => ~ IsDigit(p[e])
    BY <1>7, <1>1, DigitsEndIs
  <2>5. CASE ~ IsDigit(p[3])
    BY <1>7, <2>2, <2>5
  <2>6. CASE IsDigit(p[3]) /\ e > Len(p)
    <3>1. e = Len(p) + 1 /\ p[3] \notin DOMAIN Final
      BY <2>3, <2>6, <1>1
    <3>2. Begun(p)
      BY <1>7, <2>4, <3>1, <1>1 DEF Begun
    <3>3. DecodeOne(p) = [used |-> 0, key |-> << >>]
      BY <2>2, <2>4, <2>6, <3>1
    <3> QED
      BY <3>2, <3>3
  <2>7. CASE IsDigit(p[3]) /\ e <= Len(p)
    <3>1. e # 3 /\ p[3] \notin DOMAIN Final
      BY <2>3, <2>4, <2>7
    <3>2. e \in 4 .. Len(p) /\ ~ IsDigit(p[e])
      BY <2>4, <2>7, <3>1, <1>1
    <3>3. DecodeOne(p) = [used |-> e, key |-> IF p[e] = "~"
                                             THEN Numbered(Value(SubSeq(p, 3, e - 1)))
                                             ELSE << >>]
      BY <2>2, <2>4, <2>7, <3>1, <3>2, <1>1
    <3> QED
      BY <1>7, <2>4, <3>2, <3>3
  <2> QED
    BY <2>4, <2>5, <2>6, <2>7, <1>1
<1>8. p = << >> \/ Len(p) = 1 \/ Len(p) = 2 \/ Len(p) > 2
  <2>1. PICK n \in Nat : n = Len(p)
    BY <1>1
  <2>2. n = 0 \/ n = 1 \/ n = 2 \/ n > 2
    OBVIOUS
  <2> QED
    BY <1>1, <2>1, <2>2
<1>9. Len(p) = 2 \/ Len(p) > 2 => Len(p) > 1
  BY <1>1
<1> QED
  <2>1. CASE p = << >>
    BY <2>1, <1>2
  <2>2. CASE p # << >> /\ p[1] # "esc"
    BY <2>2, <1>3
  <2>3. CASE p # << >> /\ p[1] = "esc" /\ Len(p) = 1
    BY <2>3, <1>4
  <2>4. CASE p # << >> /\ p[1] = "esc" /\ (Len(p) = 2 \/ Len(p) > 2) /\ p[2] \notin {"[", "O"}
    BY <2>4, <1>5, <1>9
  <2>5. CASE p # << >> /\ p[1] = "esc" /\ Len(p) = 2 /\ p[2] \in {"[", "O"}
    BY <2>5, <1>6
  <2>6. CASE p # << >> /\ p[1] = "esc" /\ Len(p) > 2 /\ p[2] \in {"[", "O"}
    BY <2>6, <1>7
  <2> QED
    BY <2>1, <2>2, <2>3, <2>4, <2>5, <2>6, <1>8

\* Nothing is used while a sequence may go on, and no more than there is.
LEMMA DecodeType ==
  ASSUME NEW p \in Seq(STRING)
  PROVE  /\ DecodeOne(p).used \in 0 .. Len(p) /\ DecodeOne(p).key \in Seq(Key)
         /\ DecodeOne(p).used = 0 => Begun(p) /\ DecodeOne(p).key = << >>
<1>1. Len(p) \in Nat /\ (p = << >> <=> Len(p) = 0) /\ \A k \in 1 .. Len(p) : p[k] \in STRING
  OBVIOUS
<1>2. \A b \in STRING : PlainKey(b) \in Key
  BY DEF PlainKey, Key
<1>3. \A b \in DOMAIN Final : Final[b] \in Key
  BY DEF Final, Key
<1>4. CASE p # << >> /\ p[1] # "esc" /\ DecodeOne(p) = [used |-> 1, key |-> <<PlainKey(p[1])>>]
  <2>0. 1 \in 1 .. Len(p) /\ 1 \in 0 .. Len(p)
    BY <1>1, <1>4
  <2>1. PlainKey(p[1]) \in Key /\ 1 \in 0 .. Len(p)
    BY <1>1, <1>2, <2>0
  <2> QED
    BY <1>4, <2>1
<1>5. CASE Len(p) > 2 /\ p[1] = "esc" /\ p[2] \in {"[", "O"} /\ ~ IsDigit(p[3])
           /\ DecodeOne(p) = [used |-> 3, key |-> IF p[3] \in DOMAIN Final THEN <<Final[p[3]]>>
                                                   ELSE << >>]
  <2>1. (IF p[3] \in DOMAIN Final THEN <<Final[p[3]]>> ELSE << >>) \in Seq(Key)
    BY <1>3
  <2> QED
    BY <1>1, <1>5, <2>1
<1>6. CASE Len(p) > 1 /\ p[1] = "esc" /\ p[2] \notin {"[", "O"}
            /\ DecodeOne(p) = [used |-> 1, key |-> <<"ESCAPE">>]
  <2>1. <<"ESCAPE">> \in Seq(Key) /\ 1 \in 0 .. Len(p)
    BY <1>1, <1>6 DEF Key
  <2> QED
    BY <1>6, <2>1
<1>7. CASE Begun(p) /\ DecodeOne(p) = [used |-> 0, key |-> << >>]
  BY <1>1, <1>7
<1>8. CASE \E e \in 4 .. Len(p) :
              DecodeOne(p) = [used |-> e, key |-> IF p[e] = "~"
                                                  THEN Numbered(Value(SubSeq(p, 3, e - 1)))
                                                  ELSE << >>]
  <2>1. PICK e \in 4 .. Len(p) :
              DecodeOne(p) = [used |-> e, key |-> IF p[e] = "~"
                                                  THEN Numbered(Value(SubSeq(p, 3, e - 1)))
                                                  ELSE << >>]
    BY <1>8
  <2>2. (IF p[e] = "~" THEN Numbered(Value(SubSeq(p, 3, e - 1))) ELSE << >>) \in Seq(Key)
    BY NumberedType
  <2> QED
    BY <1>1, <2>1, <2>2
<1> QED
  BY <1>4, <1>5, <1>6, <1>7, <1>8, DecodeCases

\* What comes out is decided by the bytes that are used: a piece of the stream, or an
\* ESC before a byte that begins no sequence.
LEMMA DecodePieces ==
  ASSUME NEW p \in Seq(STRING)
  PROVE  \/ Begun(p) /\ DecodeOne(p) = [used |-> 0, key |-> << >>]
         \/ LoneEsc(p, 1) /\ DecodeOne(p) = [used |-> 1, key |-> <<"ESCAPE">>]
         \/ \E e \in 1 .. Len(p) :
              /\ Piece(SubSeq(p, 1, e)) /\ \A d \in 1 .. e - 1 : ~ Piece(SubSeq(p, 1, d))
              /\ ~ LoneEsc(p, 1)
              /\ DecodeOne(p) = [used |-> e, key |-> KeyOf(SubSeq(p, 1, e))]
<1>1. Len(p) \in Nat
  OBVIOUS
<1>2. ASSUME NEW e \in 1 .. Len(p)
      PROVE  /\ SubSeq(p, 1, e) \in Seq(STRING) /\ Len(SubSeq(p, 1, e)) = e
             /\ \A k \in 1 .. e : SubSeq(p, 1, e)[k] = p[k]
  BY <1>1
<1>3. CASE p # << >> /\ p[1] # "esc" /\ DecodeOne(p) = [used |-> 1, key |-> <<PlainKey(p[1])>>]
  <2>1. 1 \in 1 .. Len(p)
    BY <1>3
  <2>2. Len(SubSeq(p, 1, 1)) = 1 /\ SubSeq(p, 1, 1)[1] = p[1]
    BY <1>2, <2>1
  <2>3. Piece(SubSeq(p, 1, 1)) /\ KeyOf(SubSeq(p, 1, 1)) = <<PlainKey(p[1])>>
    BY <1>3, <2>2 DEF Piece, KeyOf
  <2>4. ~ LoneEsc(p, 1)
    BY <1>3 DEF LoneEsc
  <2> QED
    BY <1>3, <2>1, <2>3, <2>4
<1>4. CASE Len(p) > 1 /\ p[1] = "esc" /\ p[2] \notin {"[", "O"}
           /\ DecodeOne(p) = [used |-> 1, key |-> <<"ESCAPE">>]
  BY <1>1, <1>4 DEF LoneEsc
<1>5. ASSUME p[1] = "esc", p[2] \in {"[", "O"}, NEW e \in 3 .. Len(p),
             \A k \in 3 .. e - 1 : IsDigit(p[k]), ~ IsDigit(p[e])
      PROVE  /\ Piece(SubSeq(p, 1, e)) /\ \A d \in 1 .. e - 1 : ~ Piece(SubSeq(p, 1, d))
             /\ ~ LoneEsc(p, 1)
  <2>1. /\ Len(SubSeq(p, 1, e)) = e
        /\ \A k \in 1 .. e : SubSeq(p, 1, e)[k] = p[k]
    BY <1>1, <1>2
  <2>2. Piece(SubSeq(p, 1, e))
    BY <1>1, <1>5, <2>1 DEF Piece
  <2>3. ASSUME NEW d \in 1 .. e - 1 PROVE ~ Piece(SubSeq(p, 1, d))
    <3>1. d \in 1 .. Len(p)
      BY <1>1
    <3>2. Len(SubSeq(p, 1, d)) = d /\ \A k \in 1 .. d : SubSeq(p, 1, d)[k] = p[k]
      BY <3>1, <1>2
    <3>3. CASE d = 1
      BY <1>5, <3>2, <3>3 DEF Piece
    <3>4. CASE d = 2
      BY <1>5, <3>2, <3>4 DEF Piece
    <3>5. CASE d > 2
      <4>1. IsDigit(p[d]) /\ d \in 1 .. d /\ (d = 3 => 3 \in 1 .. d)
        BY <1>5, <3>1, <3>5
      <4> QED
        BY <3>2, <3>5, <4>1 DEF Piece
    <3> QED
      BY <3>3, <3>4, <3>5
  <2>4. ~ LoneEsc(p, 1)
    BY <1>5 DEF LoneEsc
  <2> QED
    BY <2>2, <2>3, <2>4
<1>6. CASE Len(p) > 2 /\ p[1] = "esc" /\ p[2] \in {"[", "O"} /\ ~ IsDigit(p[3])
           /\ DecodeOne(p) = [used |-> 3, key |-> IF p[3] \in DOMAIN Final THEN <<Final[p[3]]>>
                                                  ELSE << >>]
  <2>1. 3 \in 3 .. Len(p) /\ 3 \in 1 .. Len(p)
    BY <1>1, <1>6
  <2>2. /\ Piece(SubSeq(p, 1, 3)) /\ \A d \in 1 .. 3 - 1 : ~ Piece(SubSeq(p, 1, d))
        /\ ~ LoneEsc(p, 1)
    BY <2>1, <1>5, <1>6
  <2>3. Len(SubSeq(p, 1, 3)) = 3 /\ SubSeq(p, 1, 3)[3] = p[3]
    BY <2>1, <1>2
  <2>4. KeyOf(SubSeq(p, 1, 3)) = IF p[3] \in DOMAIN Final THEN <<Final[p[3]]>> ELSE << >>
    BY <2>3 DEF KeyOf
  <2> QED
    BY <1>6, <2>1, <2>2, <2>4
<1>7. CASE \E e \in 4 .. Len(p) :
              /\ p[1] = "esc" /\ p[2] \in {"[", "O"}
              /\ \A k \in 3 .. e - 1 : IsDigit(p[k])
              /\ ~ IsDigit(p[e])
              /\ DecodeOne(p) = [used |-> e, key |-> IF p[e] = "~"
                                                     THEN Numbered(Value(SubSeq(p, 3, e - 1)))
                                                     ELSE << >>]
  <2>1. PICK e \in 4 .. Len(p) :
              /\ p[1] = "esc" /\ p[2] \in {"[", "O"}
              /\ \A k \in 3 .. e - 1 : IsDigit(p[k])
              /\ ~ IsDigit(p[e])
              /\ DecodeOne(p) = [used |-> e, key |-> IF p[e] = "~"
                                                     THEN Numbered(Value(SubSeq(p, 3, e - 1)))
                                                     ELSE << >>]
    BY <1>7
  <2>2. e \in 3 .. Len(p) /\ e \in 1 .. Len(p) /\ e > 3 /\ e \in Nat
    BY <1>1
  <2>3. /\ Piece(SubSeq(p, 1, e)) /\ \A d \in 1 .. e - 1 : ~ Piece(SubSeq(p, 1, d))
        /\ ~ LoneEsc(p, 1)
    BY <2>1, <2>2, <1>5
  <2>4. PICK q \in Seq(STRING) :
          q = SubSeq(p, 1, e) /\ Len(q) = e /\ \A k \in 1 .. e : q[k] = p[k]
    BY <2>2, <1>2
  <2>5. SubSeq(q, 3, e - 1) = SubSeq(p, 3, e - 1)
    BY <2>2, <2>4, <1>1
  <2>6. KeyOf(q) = IF q[Len(q)] = "~" THEN Numbered(Value(SubSeq(q, 3, Len(q) - 1))) ELSE << >>
    BY <2>2, <2>4 DEF KeyOf
  <2>7. q[Len(q)] = p[e] /\ SubSeq(q, 3, Len(q) - 1) = SubSeq(p, 3, e - 1)
    BY <2>2, <2>4, <2>5
  <2>8. DecodeOne(p) = [used |-> e, key |-> KeyOf(SubSeq(p, 1, e))]
    BY <2>1, <2>4, <2>6, <2>7
  <2> QED
    BY <2>2, <2>3, <2>8
<1> QED
  BY <1>3, <1>4, <1>6, <1>7, DecodeCases

\* The beginning of a sequence waits.
LEMMA BegunHolds ==
  ASSUME NEW p \in Seq(STRING), Begun(p)
  PROVE  DecodeOne(p) = [used |-> 0, key |-> << >>]
<1>1. Len(p) \in Nat /\ (p # << >> => Len(p) >= 1)
  OBVIOUS
<1>2. ~ (p # << >> /\ p[1] # "esc")
  BY DEF Begun
<1>3. ~ (Len(p) > 1 /\ p[2] \notin {"[", "O"})
  BY DEF Begun
<1>4. ~ (Len(p) > 2 /\ ~ IsDigit(p[3]))
  BY <1>1 DEF Begun
<1>5. ~ \E e \in 4 .. Len(p) : ~ IsDigit(p[e])
  BY <1>1 DEF Begun
<1> QED
  BY <1>2, <1>3, <1>4, <1>5, DecodeCases

-----------------------------------------------------------------------------
(* The keys of the whole stream.                                           *)

LEMMA KeyOfType ==
  ASSUME NEW p \in Seq(STRING), p # << >>
  PROVE  KeyOf(p) \in Seq(Key)
<1>1. \A b \in STRING : PlainKey(b) \in Key
  BY DEF PlainKey, Key
<1>2. \A b \in DOMAIN Final : Final[b] \in Key
  BY DEF Final, Key
<1>3. p[1] \in STRING
  OBVIOUS
<1>4. PlainKey(p[1]) \in Key /\ (p[3] \in DOMAIN Final => Final[p[3]] \in Key)
  BY <1>1, <1>2, <1>3
<1>5. <<PlainKey(p[1])>> \in Seq(Key) /\ (p[3] \in DOMAIN Final => <<Final[p[3]]>> \in Seq(Key))
  BY <1>4
<1>6. << >> \in Seq(Key)
  OBVIOUS
<1> QED
  BY <1>5, <1>6, NumberedType DEF KeyOf

\* The first end of a piece is one.
LEMMA FirstEnd ==
  ASSUME NEW u \in Seq(STRING), NEW i \in 1 .. Len(u), Ends(u, i) # {}
  PROVE  /\ Min(Ends(u, i)) \in Ends(u, i) /\ Min(Ends(u, i)) \in i .. Len(u)
         /\ \A m \in Ends(u, i) : Min(Ends(u, i)) <= m
<1>1. Len(u) \in Nat
  OBVIOUS
<1>2. Ends(u, i) \subseteq i .. Len(u)
  BY DEF Ends
<1>3. Ends(u, i) \in SUBSET Nat
  BY <1>1, <1>2
<1>4. PICK n \in Ends(u, i) : \A m \in Ends(u, i) : n <= m
  BY <1>3, LeastElement
<1>5. Min(Ends(u, i)) \in Ends(u, i) /\ \A m \in Ends(u, i) : Min(Ends(u, i)) <= m
  BY <1>4 DEF Min
<1> QED
  BY <1>2, <1>5

\* The keys from i on, where g has those from later places on.
KeysAt(u, g, i) ==
  IF i > Len(u) THEN << >>
  ELSE IF LoneEsc(u, i) THEN <<"ESCAPE">> \o g[i + 1]
  ELSE IF Ends(u, i) = {} THEN << >>
  ELSE KeyOf(SubSeq(u, i, Min(Ends(u, i)))) \o g[Min(Ends(u, i)) + 1]

LEMMA KeysAtType ==
  ASSUME NEW u \in Seq(STRING), NEW i \in 1 .. Len(u) + 1, NEW g,
         \A m \in i + 1 .. Len(u) + 1 : g[m] \in Seq(Key)
  PROVE  KeysAt(u, g, i) \in Seq(Key)
<1>1. Len(u) \in Nat /\ << >> \in Seq(Key)
  OBVIOUS
<1>2. CASE i > Len(u)
  BY <1>1, <1>2 DEF KeysAt
<1>3. CASE i <= Len(u)
  <2>0. i \in 1 .. Len(u) /\ ~ (i > Len(u))
    BY <1>1, <1>3
  <2>1. CASE LoneEsc(u, i)
    <3>1. g[i + 1] \in Seq(Key)
      BY <1>1, <2>0
    <3>2. <<"ESCAPE">> \in Seq(Key)
      BY DEF Key
    <3>3. <<"ESCAPE">> \o g[i + 1] \in Seq(Key)
      BY <3>1, <3>2, ConcatFacts
    <3> QED
      BY <2>0, <2>1, <3>3 DEF KeysAt
  <2>2. CASE ~ LoneEsc(u, i) /\ Ends(u, i) # {}
    <3>1. PICK j \in i .. Len(u) : j = Min(Ends(u, i))
      BY <2>0, <2>2, FirstEnd
    <3>2. g[j + 1] \in Seq(Key)
      BY <1>1, <2>0, <3>1
    <3>3. SubSeq(u, i, j) \in Seq(STRING) /\ SubSeq(u, i, j) # << >>
      <4>1. Len(SubSeq(u, i, j)) = j - i + 1 /\ SubSeq(u, i, j) \in Seq(STRING)
        BY <2>0, <3>1
      <4>2. j - i + 1 # 0
        BY <2>0, <3>1
      <4>3. Len(SubSeq(u, i, j)) # 0
        BY <4>1, <4>2
      <4> QED
        BY <4>1, <4>3
    <3>4. KeyOf(SubSeq(u, i, j)) \in Seq(Key)
      BY <3>3, KeyOfType
    <3>5. KeyOf(SubSeq(u, i, j)) \o g[j + 1] \in Seq(Key)
      BY <3>2, <3>4, ConcatFacts
    <3> QED
      BY <2>0, <2>2, <3>1, <3>5 DEF KeysAt
  <2>3. CASE ~ LoneEsc(u, i) /\ Ends(u, i) = {}
    BY <1>1, <2>0, <2>3 DEF KeysAt
  <2> QED
    BY <2>1, <2>2, <2>3
<1> QED
  BY <1>1, <1>2, <1>3

LEMMA KeysAtSame ==
  ASSUME NEW u \in Seq(STRING), NEW i \in 1 .. Len(u) + 1, NEW g, NEW h,
         \A m \in i + 1 .. Len(u) + 1 : g[m] = h[m]
  PROVE  KeysAt(u, g, i) = KeysAt(u, h, i)
<1>1. Len(u) \in Nat
  OBVIOUS
<1>2. CASE i > Len(u)
  BY <1>2 DEF KeysAt
<1>3. CASE i <= Len(u)
  <2>0. i \in 1 .. Len(u) /\ ~ (i > Len(u))
    BY <1>1, <1>3
  <2>1. g[i + 1] = h[i + 1]
    BY <1>1, <2>0
  <2>2. CASE ~ LoneEsc(u, i) /\ Ends(u, i) # {}
    <3>1. PICK j \in i .. Len(u) : j = Min(Ends(u, i))
      BY <2>0, <2>2, FirstEnd
    <3>2. g[j + 1] = h[j + 1]
      BY <1>1, <2>0, <3>1
    <3> QED
      BY <3>1, <3>2 DEF KeysAt
  <2>3. CASE LoneEsc(u, i) \/ Ends(u, i) = {}
    BY <2>1, <2>3 DEF KeysAt
  <2> QED
    BY <2>2, <2>3
<1> QED
  BY <1>1, <1>2, <1>3

\* KeysFrom is what its equation says.
LEMMA KeysFromIs ==
  ASSUME NEW u \in Seq(STRING)
  PROVE  /\ KeysOf(u) = KeysFrom(u)[1]
         /\ \A i \in 1 .. Len(u) + 1 : /\ KeysFrom(u)[i] \in Seq(Key)
                                       /\ KeysFrom(u)[i] = KeysAt(u, KeysFrom(u), i)
<1>0. Len(u) \in Nat
  OBVIOUS
<1>1. PICK l \in Nat : l = Len(u) + 1
  BY <1>0
<1> DEFINE Good(k, g) == \A i \in l - k .. l : g[i] \in Seq(Key) /\ g[i] = KeysAt(u, g, i)
           T == {k \in Nat : k < l => \E g \in [1 .. l -> Seq(Key)] : Good(k, g)}
<1>2. ASSUME NEW k \in Nat, k < l, NEW g \in [1 .. l -> Seq(Key)],
             \A m \in l - k + 1 .. l : g[m] = KeysAt(u, g, m)
      PROVE  \E h \in [1 .. l -> Seq(Key)] : Good(k, h)
  <2> DEFINE i == l - k
             h == [g EXCEPT ![i] = KeysAt(u, g, i)]
  <2>1. i \in 1 .. Len(u) + 1 /\ i \in 1 .. l
    BY <1>1, <1>2
  <2>2. \A m \in i + 1 .. Len(u) + 1 : g[m] \in Seq(Key)
    BY <1>1, <2>1
  <2>3. KeysAt(u, g, i) \in Seq(Key)
    BY <2>1, <2>2, KeysAtType
  <2>4. h \in [1 .. l -> Seq(Key)] /\ h[i] = KeysAt(u, g, i) /\ \A m \in i + 1 .. l : h[m] = g[m]
    BY <2>1, <2>3
  <2> HIDE DEF h
  <2>5. ASSUME NEW m \in i .. l PROVE h[m] = KeysAt(u, h, m)
    <3>1. m \in 1 .. Len(u) + 1 /\ \A n \in m + 1 .. Len(u) + 1 : g[n] = h[n]
      BY <1>0, <1>1, <2>1, <2>4
    <3>2. KeysAt(u, g, m) = KeysAt(u, h, m)
      BY <3>1, KeysAtSame
    <3>3. h[m] = KeysAt(u, g, m)
      <4>1. CASE m = i
        BY <2>4, <4>1
      <4>2. CASE m # i
        <5>1. m \in i + 1 .. l
          BY <2>1, <4>2
        <5> QED
          BY <1>2, <2>4, <5>1
      <4> QED
        BY <4>1, <4>2
    <3> QED
      BY <3>2, <3>3
  <2>6. \A m \in i .. l : h[m] \in Seq(Key)
    BY <2>1, <2>4
  <2> QED
    BY <2>4, <2>5, <2>6
<1>3. 0 \in T
  <2>1. [m \in 1 .. l |-> << >>] \in [1 .. l -> Seq(Key)]
    OBVIOUS
  <2>2. \A m \in l - 0 + 1 .. l : FALSE
    OBVIOUS
  <2>3. 0 < l => \E h \in [1 .. l -> Seq(Key)] : Good(0, h)
    BY <1>2, <2>1, <2>2
  <2> QED
    BY <2>3
<1>4. ASSUME NEW k \in T PROVE k + 1 \in T
  <2>1. k \in Nat
    OBVIOUS
  <2>2. CASE k + 1 < l
    <3>1. PICK g \in [1 .. l -> Seq(Key)] : Good(k, g)
      BY <2>1, <2>2
    <3>2. l - (k + 1) + 1 = l - k
      BY <2>1
    <3>3. \A m \in l - (k + 1) + 1 .. l : g[m] = KeysAt(u, g, m)
      BY <3>1, <3>2
    <3>4. k + 1 \in Nat
      BY <2>1
    <3>5. \E h \in [1 .. l -> Seq(Key)] : Good(k + 1, h)
      BY <1>2, <2>2, <3>3, <3>4
    <3> QED
      BY <3>4, <3>5
  <2>3. CASE ~ (k + 1 < l)
    BY <2>1, <2>3
  <2> QED
    BY <2>2, <2>3
<1>5. T \in SUBSET Nat
  OBVIOUS
<1> HIDE DEF T
<1>6. T = Nat
  BY <1>3, <1>4, <1>5, SetInduction
<1> USE DEF T
<1>7. l - 1 \in T /\ l - 1 < l /\ l - (l - 1) = 1
  <2>1. l - 1 \in Nat /\ l - 1 < l /\ l - (l - 1) = 1
    BY <1>0, <1>1
  <2> HIDE DEF T
  <2> QED
    BY <1>6, <2>1
<1>8. PICK g \in [1 .. l -> Seq(Key)] : Good(l - 1, g)
  BY <1>7
<1>9. g = [i \in 1 .. Len(u) + 1 |->
             IF i > Len(u) THEN << >>
             ELSE IF LoneEsc(u, i) THEN <<"ESCAPE">> \o g[i + 1]
             ELSE IF Ends(u, i) = {} THEN << >>
             ELSE LET j == Min(Ends(u, i))
                  IN  KeyOf(SubSeq(u, i, j)) \o g[j + 1]]
  <2>1. \A i \in 1 .. l : g[i] = KeysAt(u, g, i)
    BY <1>7, <1>8
  <2>2. g = [i \in 1 .. l |-> KeysAt(u, g, i)]
    BY <2>1
  <2> QED
    BY <1>1, <2>2 DEF KeysAt
<1>10. KeysFrom(u) = [i \in 1 .. Len(u) + 1 |-> KeysAt(u, KeysFrom(u), i)]
  BY <1>9 DEF KeysFrom, KeysAt
<1>11. ASSUME NEW i \in 1 .. Len(u) + 1 PROVE KeysFrom(u)[i] \in Seq(Key)
  <2>1. PICK f : f = KeysFrom(u)
    OBVIOUS
  <2>2. \A m \in 1 .. Len(u) + 1 : f[m] = KeysAt(u, f, m)
    BY <1>10, <2>1
  <2> DEFINE R == {k \in Nat : k < l => \A m \in l - k .. l : f[m] \in Seq(Key)}
  <2>3. ASSUME NEW m \in 1 .. l, \A n \in m + 1 .. l : f[n] \in Seq(Key)
        PROVE  f[m] \in Seq(Key)
    BY <1>1, <2>2, <2>3, KeysAtType
  <2>4. 0 \in R
    <3>1. CASE 0 < l
      <4>1. l \in 1 .. l /\ \A n \in l + 1 .. l : FALSE
        BY <3>1
      <4>2. f[l] \in Seq(Key)
        BY <2>3, <4>1
      <4> QED
        BY <4>2
    <3> QED
      BY <3>1
  <2>5. ASSUME NEW k \in R PROVE k + 1 \in R
    <3>1. k \in Nat
      OBVIOUS
    <3>2. CASE k + 1 < l
      <4>1. \A m \in l - k .. l : f[m] \in Seq(Key)
        BY <3>1, <3>2
      <4>2. l - (k + 1) \in 1 .. l /\ l - (k + 1) + 1 = l - k
        BY <3>1, <3>2
      <4>3. f[l - (k + 1)] \in Seq(Key)
        BY <2>3, <4>1, <4>2
      <4>4. \A m \in l - (k + 1) .. l : m = l - (k + 1) \/ m \in l - k .. l
        BY <3>1, <3>2
      <4>5. \A m \in l - (k + 1) .. l : f[m] \in Seq(Key)
        BY <4>1, <4>3, <4>4
      <4> QED
        BY <3>1, <4>5
    <3> QED
      BY <3>1, <3>2
  <2>6. R \in SUBSET Nat
    OBVIOUS
  <2> HIDE DEF R
  <2>7. R = Nat
    BY <2>4, <2>5, <2>6, SetInduction
  <2>8. l - 1 \in R /\ l - 1 < l /\ l - (l - 1) = 1
    BY <1>0, <1>1, <2>7
  <2>9. \A m \in 1 .. l : f[m] \in Seq(Key)
    BY <2>8 DEF R
  <2> QED
    BY <1>1, <2>1, <2>9
<1> QED
  BY <1>10, <1>11 DEF KeysOf

\* Where a sequence has begun and not ended, nothing comes out.
LEMMA KeysOfBegun ==
  ASSUME NEW u \in Seq(STRING), NEW i \in 1 .. Len(u) + 1, Begun(SubSeq(u, i, Len(u)))
  PROVE  KeysFrom(u)[i] = << >>
<1>0. Len(u) \in Nat
  OBVIOUS
<1>1. CASE i > Len(u)
  BY <1>1, KeysFromIs DEF KeysAt
<1>2. CASE i <= Len(u)
  <2>0. i \in 1 .. Len(u)
    BY <1>0, <1>2
  <2>1. PICK p \in Seq(STRING), n \in Nat :
          /\ p = SubSeq(u, i, Len(u)) /\ n = Len(u) - i + 1 /\ n > 0 /\ Len(p) = n
          /\ \A k \in 1 .. n : p[k] = u[i + k - 1]
    <3>1. Len(u) \in i - 1 .. Len(u) /\ Len(u) - i + 1 \in Nat /\ Len(u) - i + 1 > 0
      BY <1>0, <2>0
    <3>2. /\ SubSeq(u, i, Len(u)) \in Seq(STRING) /\ Len(SubSeq(u, i, Len(u))) = Len(u) - i + 1
          /\ \A k \in 1 .. Len(u) - i + 1 : SubSeq(u, i, Len(u))[k] = u[i + k - 1]
      BY <3>1, SubSeqFacts
    <3> QED
      BY <3>1, <3>2
  <2>2. p # << >> /\ p[1] = "esc" /\ p[1] = u[i]
    <3>1. n # 0 /\ 1 \in 1 .. n /\ i + 1 - 1 = i
      BY <2>0, <2>1
    <3>2. p # << >>
      BY <2>1, <3>1
    <3> QED
      BY <2>1, <3>1, <3>2 DEF Begun
  <2>3. ~ LoneEsc(u, i)
    <3>1. SUFFICES ASSUME i < Len(u) PROVE u[i + 1] \in {"[", "O"}
      BY DEF LoneEsc
    <3>2. n > 1 /\ 2 \in 1 .. n /\ i + 2 - 1 = i + 1
      BY <1>0, <2>0, <2>1, <3>1
    <3> QED
      BY <2>1, <3>2 DEF Begun
  <2>4. ASSUME NEW j \in i .. Len(u) PROVE ~ Piece(SubSeq(u, i, j))
    <3>1. PICK q \in Seq(STRING), m \in 1 .. n :
            /\ q = SubSeq(u, i, j) /\ m = j - i + 1 /\ Len(q) = m
            /\ \A k \in 1 .. m : q[k] = u[i + k - 1]
      <4>1. j \in i - 1 .. Len(u) /\ j - i + 1 \in 1 .. n
        BY <1>0, <2>0, <2>1
      <4>2. /\ SubSeq(u, i, j) \in Seq(STRING) /\ Len(SubSeq(u, i, j)) = j - i + 1
            /\ \A k \in 1 .. j - i + 1 : SubSeq(u, i, j)[k] = u[i + k - 1]
        BY <4>1, SubSeqFacts
      <4>3. PICK m \in 1 .. n : m = j - i + 1
        BY <4>1
      <4>4. PICK q \in Seq(STRING) : q = SubSeq(u, i, j)
        BY <4>2
      <4> QED
        BY <4>2, <4>3, <4>4
    <3>2. \A k \in 1 .. m : q[k] = p[k]
      <4>1. \A k \in 1 .. m : k \in 1 .. n
        BY <2>1
      <4> QED
        BY <2>1, <3>1, <4>1, Zenon
    <3>3. CASE m = 1
      BY <2>2, <3>1, <3>2, <3>3 DEF Piece
    <3>4. CASE m = 2
      BY <3>1, <3>4 DEF Piece
    <3>5. CASE m > 2
      <4>1. IsDigit(p[m]) /\ q[m] = p[m]
        <5>1. m \in 3 .. Len(p) /\ m \in 1 .. m
          BY <2>1, <3>5
        <5> QED
          BY <2>1, <3>2, <5>1 DEF Begun
      <4> QED
        BY <3>1, <3>5, <4>1 DEF Piece
    <3> QED
      BY <3>3, <3>4, <3>5
  <2>5. Ends(u, i) = {}
    BY <2>4 DEF Ends
  <2>6. ~ (i > Len(u))
    BY <1>0, <2>0
  <2>7. KeysAt(u, KeysFrom(u), i) = << >>
    BY <2>3, <2>5, <2>6 DEF KeysAt
  <2> QED
    BY <2>7, KeysFromIs
<1> QED
  BY <1>0, <1>1, <1>2

\* What decode_one takes from the bytes at i is what the stream has there.
LEMMA KeysOfDecoded ==
  ASSUME NEW u \in Seq(STRING), NEW i \in 1 .. Len(u), NEW n \in i .. Len(u), NEW p,
         p = SubSeq(u, i, n)
  PROVE  /\ KeysFrom(u)[i] = DecodeOne(p).key \o KeysFrom(u)[i + DecodeOne(p).used]
         /\ i + DecodeOne(p).used \in 1 .. Len(u) + 1
<1>0. Len(u) \in Nat
  OBVIOUS
<1>1. PICK l \in Nat : l = n - i + 1 /\ l > 0
  BY <1>0
<1>2. p \in Seq(STRING) /\ Len(p) = l /\ \A k \in 1 .. l : p[k] = u[i + k - 1]
  BY <1>0, <1>1
<1>3. ~ (i > Len(u)) /\ i + 1 \in 1 .. Len(u) + 1
  BY <1>0
<1>4. KeysFrom(u)[i] = KeysAt(u, KeysFrom(u), i) /\ KeysFrom(u)[i] \in Seq(Key)
  BY <1>0, KeysFromIs
<1>5. CASE DecodeOne(p) = [used |-> 0, key |-> << >>]
  <2>1. << >> \o KeysFrom(u)[i] = KeysFrom(u)[i]
    BY <1>4, ConcatEmpty
  <2>2. i + 0 = i /\ i \in 1 .. Len(u) + 1
    BY <1>0
  <2>3. DecodeOne(p).used = 0 /\ DecodeOne(p).key = << >>
    BY <1>5
  <2> QED
    BY <2>1, <2>2, <2>3
<1>6. CASE LoneEsc(p, 1) /\ DecodeOne(p) = [used |-> 1, key |-> <<"ESCAPE">>]
  <2>1. l > 1 /\ p[1] = u[i] /\ p[2] = u[i + 1] /\ i < Len(u)
    <3>1. 1 < l
      BY <1>2, <1>6 DEF LoneEsc
    <3>2. 1 \in 1 .. l /\ 2 \in 1 .. l /\ i + 1 - 1 = i /\ i + 2 - 1 = i + 1 /\ i < Len(u)
      BY <1>0, <1>1, <3>1
    <3> QED
      BY <1>2, <3>1, <3>2
  <2>2. LoneEsc(u, i)
    BY <1>6, <2>1 DEF LoneEsc
  <2> QED
    BY <1>3, <1>4, <1>6, <2>2 DEF KeysAt
<1>7. CASE \E e \in 1 .. Len(p) :
              /\ Piece(SubSeq(p, 1, e)) /\ \A d \in 1 .. e - 1 : ~ Piece(SubSeq(p, 1, d))
              /\ ~ LoneEsc(p, 1)
              /\ DecodeOne(p) = [used |-> e, key |-> KeyOf(SubSeq(p, 1, e))]
  <2>1. PICK e \in 1 .. l :
              /\ Piece(SubSeq(p, 1, e)) /\ \A d \in 1 .. e - 1 : ~ Piece(SubSeq(p, 1, d))
              /\ ~ LoneEsc(p, 1)
              /\ DecodeOne(p) = [used |-> e, key |-> KeyOf(SubSeq(p, 1, e))]
    BY <1>2, <1>7
  <2>2. ASSUME NEW d \in 1 .. l PROVE SubSeq(u, i, i + d - 1) = SubSeq(p, 1, d)
    <3>1. i + d - 1 \in i .. n
      BY <1>0, <1>1
    <3> QED
      BY <1>0, <1>1, <1>2, <3>1
  <2>3. PICK j \in i .. n : j = i + e - 1
    BY <1>0, <1>1
  <2>4. j \in Ends(u, i)
    <3>1. SubSeq(u, i, j) = SubSeq(p, 1, e)
      BY <2>2, <2>3
    <3>2. Piece(SubSeq(u, i, j))
      BY <2>1, <3>1
    <3>3. j \in i .. Len(u)
      BY <1>0, <2>3
    <3> QED
      BY <3>2, <3>3 DEF Ends
  <2>5. ASSUME NEW m \in Ends(u, i) PROVE j <= m
    <3>1. m \in i .. Len(u) /\ Piece(SubSeq(u, i, m))
      BY DEF Ends
    <3>2. SUFFICES ASSUME m < j PROVE FALSE
      BY <1>0, <2>3, <3>1
    <3>3. PICK d \in 1 .. e - 1 : d = m - i + 1 /\ d \in 1 .. l /\ i + d - 1 = m
      BY <1>0, <1>1, <2>3, <3>1, <3>2
    <3> QED
      BY <2>1, <2>2, <3>1, <3>3
  <2>6. Min(Ends(u, i)) = j
    <3>1. Min(Ends(u, i)) \in i .. Len(u) /\ Min(Ends(u, i)) \in Ends(u, i)
          /\ Min(Ends(u, i)) <= j
      BY <2>4, FirstEnd
    <3>2. j <= Min(Ends(u, i))
      BY <2>5, <3>1
    <3> QED
      BY <1>0, <3>1, <3>2
  <2>7. ~ LoneEsc(u, i)
    <3>1. SUFFICES ASSUME LoneEsc(u, i) PROVE FALSE
      OBVIOUS
    <3>2. p[1] = "esc"
      BY <1>1, <1>2, <3>1 DEF LoneEsc
    <3>3. e # 1
      <4>1. Len(SubSeq(p, 1, 1)) = 1 /\ SubSeq(p, 1, 1)[1] = p[1]
        BY <1>1, <1>2
      <4>2. ~ Piece(SubSeq(p, 1, 1))
        BY <3>2, <4>1 DEF Piece
      <4> QED
        BY <2>1, <4>2
    <3>4. l > 1 /\ 2 \in 1 .. l /\ i + 2 - 1 = i + 1 /\ p[2] = u[i + 1]
      BY <1>1, <1>2, <3>3
    <3> QED
      BY <1>2, <2>1, <3>1, <3>2, <3>4 DEF LoneEsc
  <2>8. KeysFrom(u)[i] = KeyOf(SubSeq(u, i, j)) \o KeysFrom(u)[j + 1]
    BY <1>3, <1>4, <2>4, <2>6, <2>7 DEF KeysAt
  <2>9. SubSeq(u, i, j) = SubSeq(p, 1, e) /\ j + 1 = i + e /\ i + e \in 1 .. Len(u) + 1
    <3>1. SubSeq(u, i, j) = SubSeq(p, 1, e)
      BY <2>2, <2>3
    <3> QED
      BY <1>0, <1>1, <2>3, <3>1
  <2>10. DecodeOne(p).used = e /\ DecodeOne(p).key = KeyOf(SubSeq(p, 1, e))
    BY <2>1
  <2> QED
    BY <2>8, <2>9, <2>10
<1> QED
  BY <1>2, <1>5, <1>6, <1>7, DecodePieces

-----------------------------------------------------------------------------
(* The decoder, byte by byte.                                              *)

\* After n bytes of u: the last of them are held, and the keys that came out are those
\* of u before them.
At(u, t, n) ==
  /\ Len(t.pending) <= n
  /\ t.pending = SubSeq(u, n - Len(t.pending) + 1, n)
  /\ KeysOf(u) = t.keys \o KeysFrom(u)[n - Len(t.pending) + 1]

\* A round takes bytes from the front, unless a sequence has begun.
LEMMA DrainedType ==
  ASSUME NEW t \in Decoder
  PROVE  /\ Drained(t) \in Decoder /\ Len(Drained(t).pending) <= Len(t.pending)
         /\ Begun(t.pending) => Drained(t) = t
         /\ ~ Begun(t.pending) => Len(Drained(t).pending) < Len(t.pending)
<1>1. PICK p \in Seq(STRING), k \in Seq(Key) : t = [pending |-> p, keys |-> k]
  BY DEF Decoder
<1>2. PICK e \in 0 .. Len(p), out \in Seq(Key) :
        /\ e = DecodeOne(p).used /\ out = DecodeOne(p).key
        /\ e = 0 => Begun(p) /\ out = << >>
  BY DecodeType
<1>3. Drained(t) = [pending |-> SubSeq(p, e + 1, Len(p)), keys |-> k \o out]
  BY <1>1, <1>2 DEF Drained
<1>4. Len(p) \in Nat
  OBVIOUS
<1>5. e + 1 \in 1 .. Len(p) + 1 /\ Len(p) \in e + 1 - 1 .. Len(p)
  BY <1>4
<1>6. SubSeq(p, e + 1, Len(p)) \in Seq(STRING) /\ Len(SubSeq(p, e + 1, Len(p))) = Len(p) - e
  <2>1. Len(p) - (e + 1) + 1 = Len(p) - e
    BY <1>4
  <2> QED
    BY <1>5, <2>1, SubSeqFacts
<1>7. k \o out \in Seq(Key)
  BY ConcatFacts
<1>8. Drained(t) \in Decoder
  BY <1>3, <1>6, <1>7 DEF Decoder
<1>9. Len(Drained(t).pending) = Len(p) - e /\ t.pending = p
  BY <1>1, <1>3, <1>6
<1>10. ASSUME Begun(p) PROVE Drained(t) = t
  <2>1. e = 0 /\ out = << >>
    BY <1>2, <1>10, BegunHolds
  <2>2. SubSeq(p, 1, Len(p)) = p
    BY PrefixAll
  <2>3. k \o << >> = k
    BY ConcatEmpty
  <2> QED
    BY <1>1, <1>3, <2>1, <2>2, <2>3
<1>11. ASSUME ~ Begun(p) PROVE Len(p) - e < Len(p)
  BY <1>2, <1>4, <1>11
<1> QED
  BY <1>4, <1>8, <1>9, <1>10, <1>11

LEMMA KeysAssoc ==
  \A a, b, c \in Seq(Key) : (a \o b) \o c = a \o (b \o c)
<1> TAKE a, b, c \in Seq(Key)
<1>1. Associates(a, b, c)
  BY ConcatAssociates
<1> QED
  BY <1>1 DEF Associates

LEMMA DrainedKeeps ==
  ASSUME NEW u \in Seq(STRING), NEW n \in 0 .. Len(u), NEW t \in Decoder, At(u, t, n)
  PROVE  At(u, Drained(t), n)
<1>0. Len(u) \in Nat
  OBVIOUS
<1>1. PICK p \in Seq(STRING), k \in Seq(Key) : t = [pending |-> p, keys |-> k]
  BY DEF Decoder
<1>2. CASE p = << >>
  <2>1. Begun(p)
    BY <1>2 DEF Begun
  <2>2. Drained(t) = t
    BY <1>1, <2>1, DrainedType
  <2> QED
    BY <2>2
<1>3. CASE p # << >>
  <2>1. PICK l \in Nat : l = Len(p) /\ l > 0
    BY <1>3
  <2>2. PICK i \in 1 .. Len(u) : i = n - l + 1 /\ n \in i .. Len(u)
    BY <1>0, <1>1, <2>1 DEF At
  <2>3. p = SubSeq(u, i, n) /\ KeysOf(u) = k \o KeysFrom(u)[i]
    BY <1>1, <2>1, <2>2 DEF At
  <2>4. PICK e \in 0 .. l, out \in Seq(Key) : e = DecodeOne(p).used /\ out = DecodeOne(p).key
    BY <2>1, DecodeType
  <2>5. KeysFrom(u)[i] = out \o KeysFrom(u)[i + e] /\ i + e \in 1 .. Len(u) + 1
    <3>1. /\ KeysFrom(u)[i] = DecodeOne(p).key \o KeysFrom(u)[i + DecodeOne(p).used]
          /\ i + DecodeOne(p).used \in 1 .. Len(u) + 1
      <4>1. i \in 1 .. Len(u) /\ n \in i .. Len(u) /\ p = SubSeq(u, i, n)
        BY <2>2, <2>3
      <4> QED
        BY <4>1, KeysOfDecoded, Zenon
    <3> QED
      BY <2>4, <3>1
  <2>6. PICK rest \in Seq(Key) : rest = KeysFrom(u)[i + e]
    BY <2>5, KeysFromIs
  <2>7. KeysOf(u) = (k \o out) \o rest
    <3>1. (k \o out) \o rest = k \o (out \o rest)
      BY KeysAssoc, Zenon
    <3> QED
      BY <2>3, <2>5, <2>6, <3>1
  <2>8. Drained(t) = [pending |-> SubSeq(p, e + 1, l), keys |-> k \o out]
    BY <1>1, <2>1, <2>4 DEF Drained
  <2>9. e + 1 \in 1 .. n - i + 2 /\ l \in e + 1 - 1 .. n - i + 1 /\ i + (e + 1) - 1 = i + e
        /\ i + l - 1 = n /\ i \in 1 .. Len(u) + 1 /\ n \in i - 1 .. Len(u)
    BY <1>0, <2>1, <2>2
  <2>10. SubSeq(p, e + 1, l) = SubSeq(u, i + e, n)
    <3>1. SubSeq(SubSeq(u, i, n), e + 1, l) = SubSeq(u, i + (e + 1) - 1, i + l - 1)
      BY <2>9, StretchOfStretch
    <3> QED
      BY <2>3, <2>9, <3>1
  <2>11. n \in i + e - 1 .. Len(u)
    BY <1>0, <2>1, <2>2
  <2>12. Len(SubSeq(u, i + e, n)) = n - (i + e) + 1
    BY <2>5, <2>11, SubSeqFacts
  <2>13. PICK q : q = SubSeq(u, i + e, n) /\ Drained(t) = [pending |-> q, keys |-> k \o out]
    BY <2>8, <2>10
  <2>14. Len(q) = n - (i + e) + 1
    BY <2>12, <2>13
  <2>15. n - (n - (i + e) + 1) + 1 = i + e /\ n - (i + e) + 1 <= n
    BY <1>0, <2>2
  <2>16. Drained(t).pending = q /\ Drained(t).keys = k \o out
    BY <2>13
  <2>17. n - Len(q) + 1 = i + e /\ Len(q) <= n
    BY <2>14, <2>15
  <2> QED
    BY <2>6, <2>7, <2>13, <2>16, <2>17 DEF At
<1> QED
  BY <1>2, <1>3

\* Drain is its rounds, one after the other.
LEMMA DrainIs ==
  ASSUME NEW s \in Decoder
  PROVE  \E f : /\ f[0] = s /\ Drain(s) = f[Len(s.pending)]
                /\ \A k \in 0 .. Len(s.pending) - 1 : f[k + 1] = Drained(f[k])
<1>1. PICK l \in Nat : l = Len(s.pending)
  BY DEF Decoder
<1> DEFINE step == [x \in Nat \X Decoder |-> Drained(x[2])]
<1>2. step \in [Nat \X Decoder -> Decoder]
  BY DrainedType
<1>3. PICK f \in [Nat -> Decoder] : Iterates(f, s, step)
  BY <1>2, RecursionExists
<1>4. f[0] = s /\ \A k \in Nat : f[k + 1] = Drained(f[k])
  BY <1>3 DEF Iterates
<1> DEFINE g == [k \in 0 .. l |-> f[k]]
<1>5. ASSUME NEW k \in 0 .. l PROVE g[k] = IF k = 0 THEN s ELSE Drained(g[k - 1])
  <2>1. CASE k = 0
    BY <1>1, <1>4, <2>1
  <2>2. CASE k # 0
    <3>1. k - 1 \in 0 .. l /\ k - 1 \in Nat /\ (k - 1) + 1 = k
      BY <1>1, <2>2
    <3>2. f[(k - 1) + 1] = Drained(f[k - 1])
      BY <1>4, <3>1
    <3>3. g[k] = f[k] /\ g[k - 1] = f[k - 1]
      BY <3>1
    <3> QED
      BY <2>2, <3>1, <3>2, <3>3
  <2> QED
    BY <2>1, <2>2
<1>6. g = [k \in 0 .. l |-> g[k]]
  OBVIOUS
<1> HIDE DEF g
<1>7. g = [k \in 0 .. l |-> IF k = 0 THEN s ELSE Drained(g[k - 1])]
  BY <1>5, <1>6
<1>8. \E h : /\ h = [k \in 0 .. l |-> IF k = 0 THEN s ELSE Drained(h[k - 1])]
             /\ Drain(s) = h[l]
  BY <1>1, <1>7 DEF Drain
<1>9. PICK h : /\ h = [k \in 0 .. l |-> IF k = 0 THEN s ELSE Drained(h[k - 1])]
               /\ Drain(s) = h[l]
  BY <1>8
<1>10. \A k \in 0 .. l : h[k] = IF k = 0 THEN s ELSE Drained(h[k - 1])
  BY <1>9
<1>11. h[0] = s
  <2>1. 0 \in 0 .. l
    BY <1>1
  <2> QED
    BY <1>10, <2>1
<1>12. ASSUME NEW k \in 0 .. l - 1 PROVE h[k + 1] = Drained(h[k])
  <2>1. k + 1 \in 0 .. l /\ k + 1 # 0 /\ (k + 1) - 1 = k
    BY <1>1
  <2> QED
    BY <1>10, <2>1
<1> QED
  BY <1>1, <1>9, <1>11, <1>12

\* t is where the decoder of s may come to, of any stream.
Follows(s, t) ==
  \A u \in Seq(STRING) : \A n \in 0 .. Len(u) : At(u, s, n) => At(u, t, n)

LEMMA DrainKeeps ==
  ASSUME NEW s \in Decoder
  PROVE  /\ Drain(s) \in Decoder /\ Begun(Drain(s).pending)
         /\ Len(Drain(s).pending) <= Len(s.pending)
         /\ Follows(s, Drain(s))
<1>1. PICK l \in Nat : l = Len(s.pending)
  BY DEF Decoder
<1>2. PICK f : /\ f[0] = s /\ Drain(s) = f[l]
               /\ \A k \in 0 .. l - 1 : f[k + 1] = Drained(f[k])
  BY <1>1, DrainIs
<1> DEFINE Good(k) == /\ f[k] \in Decoder /\ Len(f[k].pending) <= l /\ Follows(s, f[k])
                      /\ Begun(f[k].pending) \/ Len(f[k].pending) <= l - k
           T == {k \in Nat : k <= l => Good(k)}
<1>3. 0 \in T
  <2>1. Follows(s, s)
    BY DEF Follows
  <2>2. Good(0)
    BY <1>1, <1>2, <2>1
  <2> QED
    BY <2>2
<1>4. ASSUME NEW k \in T PROVE k + 1 \in T
  <2>1. k \in Nat /\ k + 1 \in Nat
    OBVIOUS
  <2>2. CASE k + 1 <= l
    <3>1. PICK t \in Decoder :
            /\ t = f[k] /\ Len(t.pending) <= l /\ Follows(s, t)
            /\ Begun(t.pending) \/ Len(t.pending) <= l - k
      BY <2>1, <2>2
    <3>2. PICK a \in Nat, b \in Nat : a = Len(t.pending) /\ b = Len(Drained(t).pending)
      BY DrainedType DEF Decoder
    <3>3. f[k + 1] = Drained(t)
      BY <1>1, <1>2, <2>1, <2>2, <3>1
    <3>4. Drained(t) \in Decoder /\ b <= a
          /\ (Begun(t.pending) => Drained(t) = t) /\ (~ Begun(t.pending) => b < a)
      BY <3>2, DrainedType
    <3>5. b <= l
      BY <1>1, <3>1, <3>2, <3>4
    <3>6. Begun(Drained(t).pending) \/ b <= l - (k + 1)
      BY <1>1, <2>1, <3>1, <3>2, <3>4
    <3>7. Follows(s, Drained(t))
      BY <3>1, DrainedKeeps DEF Follows
    <3>8. Good(k + 1)
      BY <3>2, <3>3, <3>4, <3>5, <3>6, <3>7
    <3> HIDE DEF Good
    <3> QED
      BY <2>1, <3>8
  <2>3. CASE ~ (k + 1 <= l)
    BY <2>1, <2>3
  <2> QED
    BY <2>2, <2>3
<1>5. T \in SUBSET Nat
  OBVIOUS
<1> HIDE DEF T, Good
<1>6. T = Nat
  BY <1>3, <1>4, <1>5, SetInduction
<1>7. Good(l)
  BY <1>1, <1>6 DEF T
<1>8. PICK t \in Decoder :
        /\ t = Drain(s) /\ Len(t.pending) <= l /\ Follows(s, t)
        /\ Begun(t.pending) \/ Len(t.pending) <= l - l
  BY <1>2, <1>7 DEF Good
<1>9. Begun(t.pending)
  <2>1. CASE Len(t.pending) <= l - l
    <3>1. t.pending \in Seq(STRING)
      BY DEF Decoder
    <3>2. t.pending = << >>
      BY <1>1, <2>1, <3>1
    <3> QED
      BY <3>2 DEF Begun
  <2> QED
    BY <1>8, <2>1
<1> QED
  BY <1>1, <1>8, <1>9

\* t is where the decoder of s comes to with byte b, of any stream whose sequences fit.
Takes(s, b, t) ==
  \A u \in Seq(STRING) : \A n \in 0 .. Len(u) - 1 :
    (b = u[n + 1] /\ SequencesFit(u) /\ Begun(s.pending) /\ At(u, s, n)) => At(u, t, n + 1)

\* A byte more.  What was held is dropped only when a sequence does not fit.
LEMMA FeedKeeps ==
  ASSUME NEW s \in Decoder, NEW b \in STRING
  PROVE  /\ Feed(s, b) \in Decoder /\ Begun(Feed(s, b).pending)
         /\ Len(s.pending) <= MaxPending => Len(Feed(s, b).pending) <= MaxPending
         /\ Takes(s, b, Feed(s, b))
<1>0. MaxPending \in Nat /\ MaxPending > 1
  BY KeysAssumption
<1>1. PICK p \in Seq(STRING), k \in Seq(Key) : s = [pending |-> p, keys |-> k]
  BY DEF Decoder
<1>2. PICK l \in Nat : l = Len(p)
  OBVIOUS
<1>3. PICK q \in Seq(STRING) : q = IF l = MaxPending THEN << >> ELSE p
  <2>1. << >> \in Seq(STRING)
    OBVIOUS
  <2>2. (IF l = MaxPending THEN << >> ELSE p) \in Seq(STRING)
    BY <2>1
  <2> QED
    BY <2>2
<1>4. PICK t \in Decoder : t = [pending |-> Append(q, b), keys |-> k]
  BY AppendFacts DEF Decoder
<1>5. Feed(s, b) = Drain(t)
  <2>1. s.pending = p /\ s.keys = k /\ [s EXCEPT !.pending = Append(q, b)] = t
    <3>1. PICK a : a = Append(q, b)
      OBVIOUS
    <3>2. [[pending |-> p, keys |-> k] EXCEPT !.pending = a] = [pending |-> a, keys |-> k]
      OBVIOUS
    <3> QED
      BY <1>1, <1>4, <3>1, <3>2
  <2>2. q = IF Len(s.pending) = MaxPending THEN << >> ELSE s.pending
    BY <1>2, <1>3, <2>1
  <2> QED
    BY <2>1, <2>2 DEF Feed
<1>6. Len(Append(q, b)) = Len(q) + 1
  BY AppendFacts
<1>7. ASSUME l <= MaxPending PROVE Len(Drain(t).pending) <= MaxPending
  <2>1. Len(q) <= MaxPending - 1
    BY <1>0, <1>2, <1>3, <1>7
  <2>2. PICK m \in Nat : m = Len(q)
    OBVIOUS
  <2>3. Len(t.pending) = m + 1 /\ m + 1 <= MaxPending
    BY <1>0, <1>4, <1>6, <2>1, <2>2
  <2>4. Len(Drain(t).pending) \in Nat /\ Len(Drain(t).pending) <= m + 1
    BY <2>3, DrainKeeps DEF Decoder
  <2> QED
    BY <1>0, <2>3, <2>4
<1>8. ASSUME NEW u \in Seq(STRING), NEW n \in 0 .. Len(u) - 1, b = u[n + 1],
             SequencesFit(u), Begun(p), At(u, s, n)
      PROVE  At(u, Drain(t), n + 1)
  <2>0. Len(u) \in Nat
    OBVIOUS
  <2>1. l <= n /\ p = SubSeq(u, n - l + 1, n) /\ KeysOf(u) = k \o KeysFrom(u)[n - l + 1]
    BY <1>1, <1>2, <1>8 DEF At
  <2>2. PICK i \in 1 .. Len(u) : i = n - l + 1 /\ n \in i - 1 .. Len(u) /\ l <= n
    <3>1. l <= n
      BY <2>1
    <3> QED
      BY <2>0, <3>1
  <2>3. \A m \in 1 .. l : p[m] = u[i + m - 1]
    <3>1. n - i + 1 = l
      BY <1>2, <2>0, <2>2
    <3> QED
      BY <2>0, <2>1, <2>2, <3>1, SubSeqFacts
  <2>4. l # MaxPending
    <3>1. SUFFICES ASSUME l = MaxPending PROVE FALSE
      OBVIOUS
    <3>2. u[i] = "esc" /\ u[i + 1] \in {"[", "O"}
      <4>1. 1 \in 1 .. l /\ 2 \in 1 .. l /\ i + 1 - 1 = i /\ i + 2 - 1 = i + 1
        BY <1>0, <2>2, <3>1
      <4>2. p # << >> /\ Len(p) > 1
        <5>1. l > 1 /\ l # 0
          BY <1>0, <3>1
        <5> QED
          BY <1>2, <5>1
      <4>3. p[1] = "esc" /\ p[2] \in {"[", "O"}
        BY <1>8, <4>2 DEF Begun
      <4> QED
        BY <2>3, <4>1, <4>3
    <3>3. n + 1 \in 1 .. Len(u) /\ n + 1 >= i + MaxPending
      BY <1>0, <2>0, <2>2, <3>1
    <3>4. PICK d \in i + 2 .. (n + 1) - 1 : ~ IsDigit(u[d])
      BY <1>8, <2>2, <3>2, <3>3 DEF SequencesFit
    <3>5. d - i + 1 \in 3 .. l /\ d - i + 1 \in 1 .. l /\ i + (d - i + 1) - 1 = d
      BY <1>0, <2>0, <2>2, <3>1, <3>4
    <3>6. IsDigit(p[d - i + 1])
      BY <1>2, <1>8, <3>5 DEF Begun
    <3> QED
      BY <2>3, <3>4, <3>5, <3>6
  <2>5. q = p
    BY <1>3, <2>4
  <2>6. Append(p, b) = SubSeq(u, i, n + 1)
    <3>1. /\ SubSeq(u, i, n + 1) \in Seq(STRING) /\ Len(SubSeq(u, i, n + 1)) = n + 1 - i + 1
          /\ \A m \in 1 .. n + 1 - i + 1 : SubSeq(u, i, n + 1)[m] = u[i + m - 1]
      BY <2>0, <2>2, SubSeqFacts
    <3>2. /\ Append(p, b) \in Seq(STRING) /\ Len(Append(p, b)) = l + 1
          /\ (\A m \in 1 .. l : Append(p, b)[m] = p[m]) /\ Append(p, b)[l + 1] = b
      <4>1. /\ Append(p, b) \in Seq(STRING) /\ Len(Append(p, b)) = Len(p) + 1
            /\ (\A m \in 1 .. Len(p) : Append(p, b)[m] = p[m]) /\ Append(p, b)[Len(p) + 1] = b
        BY AppendFacts
      <4> QED
        BY <1>2, <4>1
    <3>3. n + 1 - i + 1 = l + 1 /\ i + (l + 1) - 1 = n + 1
      BY <1>2, <2>0, <2>2
    <3>4. \A m \in 1 .. l + 1 : m \in 1 .. l \/ m = l + 1
      BY <1>2
    <3>5. \A m \in 1 .. l + 1 : Append(p, b)[m] = u[i + m - 1]
      BY <1>8, <2>3, <3>2, <3>3, <3>4
    <3>6. /\ Len(SubSeq(u, i, n + 1)) = l + 1 /\ l + 1 \in Nat
          /\ \A m \in 1 .. l + 1 : SubSeq(u, i, n + 1)[m] = u[i + m - 1]
      <4>1. l + 1 \in Nat
        BY <1>2
      <4> QED
        BY <3>1, <3>3, <4>1, Zenon
    <3>7. Len(Append(p, b)) = Len(SubSeq(u, i, n + 1))
      BY <3>2, <3>6
    <3>8. \A m \in 1 .. Len(Append(p, b)) : Append(p, b)[m] = SubSeq(u, i, n + 1)[m]
      BY <3>2, <3>5, <3>6
    <3> QED
      BY <3>1, <3>2, <3>7, <3>8, SeqEqual, Zenon
  <2>7. At(u, t, n + 1)
    <3>1. t.pending = SubSeq(u, i, n + 1) /\ t.keys = k /\ Len(t.pending) = l + 1
      <4>1. t.pending = Append(q, b) /\ t.keys = k
        BY <1>4
      <4> QED
        BY <1>2, <1>6, <2>5, <2>6, <4>1
    <3>2. n + 1 - (l + 1) + 1 = i /\ l + 1 <= n + 1 /\ n - l + 1 = i
      BY <2>0, <2>2
    <3>3. KeysOf(u) = k \o KeysFrom(u)[i]
      BY <2>1, <3>2
    <3>4. n + 1 - Len(t.pending) + 1 = i /\ Len(t.pending) <= n + 1
      BY <3>1, <3>2
    <3>5. PICK len, m : len = Len(t.pending) /\ m = n + 1
      OBVIOUS
    <3>6. m - len + 1 = i /\ len <= m
      BY <3>4, <3>5
    <3>7. t.pending = SubSeq(u, m - len + 1, m) /\ KeysOf(u) = t.keys \o KeysFrom(u)[m - len + 1]
      BY <3>1, <3>3, <3>5, <3>6
    <3>8. At(u, t, m)
      BY <3>5, <3>6, <3>7, Zenon DEF At
    <3> QED
      BY <3>5, <3>8
  <2>8. n + 1 \in 0 .. Len(u)
    BY <2>0
  <2> QED
    BY <2>7, <2>8, DrainKeeps DEF Follows
<1>9. Takes(s, b, Drain(t))
  BY <1>1, <1>8 DEF Takes
<1>10. s.pending = p
  BY <1>1
<1> QED
  BY <1>2, <1>5, <1>7, <1>9, <1>10, DrainKeeps

\* Reads of any lengths.
LEMMA FeedInputIs ==
  ASSUME NEW s \in Decoder, NEW bytes \in Seq(STRING)
  PROVE  \E f : /\ f[0] = s /\ FeedInput(s, bytes) = f[Len(bytes)]
                /\ \A k \in 0 .. Len(bytes) - 1 : f[k + 1] = Feed(f[k], bytes[k + 1])
<1>1. PICK l \in Nat : l = Len(bytes)
  OBVIOUS
<1> DEFINE step == [x \in Nat \X Decoder |->
                      IF x[1] < l THEN Feed(x[2], bytes[x[1] + 1]) ELSE x[2]]
<1>2. step \in [Nat \X Decoder -> Decoder]
  <2>1. ASSUME NEW x \in Nat \X Decoder, x[1] < l PROVE Feed(x[2], bytes[x[1] + 1]) \in Decoder
    <3>1. x[1] + 1 \in 1 .. l
      BY <1>1, <2>1
    <3>2. bytes[x[1] + 1] \in STRING
      BY <1>1, <3>1
    <3> QED
      BY <3>2, FeedKeeps
  <2>2. \A x \in Nat \X Decoder : x[2] \in Decoder
    OBVIOUS
  <2> QED
    BY <2>1, <2>2
<1>3. PICK f \in [Nat -> Decoder] : Iterates(f, s, step)
  BY <1>2, RecursionExists
<1>4. f[0] = s /\ \A k \in 0 .. l - 1 : f[k + 1] = Feed(f[k], bytes[k + 1])
  <2>1. f[0] = s /\ \A k \in Nat : f[k + 1] = step[<<k, f[k]>>]
    BY <1>3 DEF Iterates
  <2>2. ASSUME NEW k \in 0 .. l - 1 PROVE f[k + 1] = Feed(f[k], bytes[k + 1])
    <3>1. k \in Nat /\ k < l /\ <<k, f[k]>> \in Nat \X Decoder
      BY <1>1
    <3>2. step[<<k, f[k]>>] = Feed(f[k], bytes[k + 1])
      BY <3>1
    <3> QED
      BY <2>1, <3>1, <3>2
  <2> QED
    BY <2>1, <2>2
<1> DEFINE g == [k \in 0 .. l |-> f[k]]
<1>5. ASSUME NEW k \in 0 .. l PROVE g[k] = IF k = 0 THEN s ELSE Feed(g[k - 1], bytes[k])
  <2>1. CASE k = 0
    BY <1>1, <1>4, <2>1
  <2>2. CASE k # 0
    <3>1. k - 1 \in 0 .. l /\ k - 1 \in 0 .. l - 1 /\ (k - 1) + 1 = k
      BY <1>1, <2>2
    <3>2. f[(k - 1) + 1] = Feed(f[k - 1], bytes[(k - 1) + 1])
      BY <1>4, <3>1
    <3>3. g[k] = f[k] /\ g[k - 1] = f[k - 1]
      BY <3>1
    <3> QED
      BY <2>2, <3>1, <3>2, <3>3
  <2> QED
    BY <2>1, <2>2
<1>6. g = [k \in 0 .. l |-> g[k]]
  OBVIOUS
<1> HIDE DEF g
<1>7. g = [k \in 0 .. l |-> IF k = 0 THEN s ELSE Feed(g[k - 1], bytes[k])]
  BY <1>5, <1>6
<1>8. \E h : /\ h = [k \in 0 .. l |-> IF k = 0 THEN s ELSE Feed(h[k - 1], bytes[k])]
             /\ FeedInput(s, bytes) = h[l]
  BY <1>1, <1>7 DEF FeedInput
<1>9. PICK h : /\ h = [k \in 0 .. l |-> IF k = 0 THEN s ELSE Feed(h[k - 1], bytes[k])]
               /\ FeedInput(s, bytes) = h[l]
  BY <1>8
<1>10. \A k \in 0 .. l : h[k] = IF k = 0 THEN s ELSE Feed(h[k - 1], bytes[k])
  BY <1>9
<1>11. h[0] = s
  <2>1. 0 \in 0 .. l
    BY <1>1
  <2> QED
    BY <1>10, <2>1
<1>12. ASSUME NEW k \in 0 .. l - 1 PROVE h[k + 1] = Feed(h[k], bytes[k + 1])
  <2>1. k + 1 \in 0 .. l /\ k + 1 # 0 /\ (k + 1) - 1 = k
    BY <1>1
  <2> QED
    BY <1>10, <2>1
<1> QED
  BY <1>1, <1>9, <1>11, <1>12

\* What is held between reads has room where it is kept, and waits.
Held(t) == t \in Decoder /\ Begun(t.pending) /\ Len(t.pending) <= MaxPending

\* t is where the decoder of s comes to with these bytes, of any stream whose sequences
\* fit.
TakesAll(s, bytes, t) ==
  \A u \in Seq(STRING) : \A n \in 0 .. Len(u) - Len(bytes) :
    (/\ \A k \in 1 .. Len(bytes) : bytes[k] = u[n + k]
     /\ SequencesFit(u) /\ At(u, s, n))
      => At(u, t, n + Len(bytes))

LEMMA FeedInputKeeps ==
  ASSUME NEW s, Held(s), NEW bytes \in Seq(STRING)
  PROVE  Held(FeedInput(s, bytes)) /\ TakesAll(s, bytes, FeedInput(s, bytes))
<1>0. s \in Decoder
  BY DEF Held
<1>1. PICK l \in Nat : l = Len(bytes)
  OBVIOUS
<1>2. PICK f : /\ f[0] = s /\ FeedInput(s, bytes) = f[l]
               /\ \A k \in 0 .. l - 1 : f[k + 1] = Feed(f[k], bytes[k + 1])
  BY <1>0, <1>1, FeedInputIs
<1> DEFINE Good(k) ==
             /\ Held(f[k])
             /\ \A u \in Seq(STRING) : \A n \in 0 .. Len(u) - l :
                  (/\ \A m \in 1 .. l : bytes[m] = u[n + m]
                   /\ SequencesFit(u) /\ At(u, s, n))
                    => At(u, f[k], n + k)
           T == {k \in Nat : k <= l => Good(k)}
<1>3. 0 \in T
  <2>1. ASSUME NEW u \in Seq(STRING), NEW n \in 0 .. Len(u) - l, At(u, s, n)
        PROVE  At(u, f[0], n + 0)
    <3>1. n + 0 = n
      BY <1>1
    <3> QED
      BY <1>2, <2>1, <3>1
  <2>2. Held(f[0])
    BY <1>2
  <2> QED
    BY <2>1, <2>2
<1>4. ASSUME NEW k \in T PROVE k + 1 \in T
  <2>1. k \in Nat /\ k + 1 \in Nat
    OBVIOUS
  <2>2. CASE k + 1 <= l
    <3>1. k <= l /\ k \in 0 .. l - 1 /\ k + 1 \in 1 .. l
      BY <1>1, <2>1, <2>2
    <3>2. PICK t : t = f[k] /\ Good(k)
      <4> HIDE DEF Good
      <4>1. Good(k)
        BY <3>1
      <4> QED
        BY <4>1
    <3>3. t \in Decoder /\ Begun(t.pending) /\ Len(t.pending) <= MaxPending
      BY <3>2 DEF Held
    <3>4. PICK b \in STRING : b = bytes[k + 1]
      <4>1. \A m \in 1 .. l : bytes[m] \in STRING
        BY <1>1
      <4>2. bytes[k + 1] \in STRING
        BY <3>1, <4>1
      <4> QED
        BY <4>2
    <3>5. f[k + 1] = Feed(t, b)
      BY <1>2, <3>1, <3>2, <3>4
    <3>6. Held(Feed(t, b)) /\ Takes(t, b, Feed(t, b))
      BY <3>3, FeedKeeps DEF Held
    <3>7. ASSUME NEW u \in Seq(STRING), NEW n \in 0 .. Len(u) - l,
                 \A m \in 1 .. l : bytes[m] = u[n + m], SequencesFit(u), At(u, s, n)
          PROVE  At(u, Feed(t, b), n + (k + 1))
      <4>1. At(u, t, n + k)
        BY <3>2, <3>7
      <4>2. b = u[n + (k + 1)]
        BY <3>1, <3>4, <3>7
      <4>3. n + k \in 0 .. Len(u) - 1 /\ n + (k + 1) = (n + k) + 1
        <5>1. Len(u) \in Nat
          OBVIOUS
        <5> QED
          BY <1>1, <2>1, <2>2, <5>1
      <4> HIDE DEF Good
      <4>4. At(u, Feed(t, b), (n + k) + 1)
        BY <3>3, <3>6, <3>7, <4>1, <4>2, <4>3 DEF Takes
      <4> QED
        BY <4>3, <4>4
    <3>8. Good(k + 1)
      BY <3>5, <3>6, <3>7
    <3> HIDE DEF Good
    <3> QED
      BY <2>1, <3>8
  <2>3. CASE ~ (k + 1 <= l)
    BY <2>1, <2>3
  <2> QED
    BY <2>2, <2>3
<1>5. T \in SUBSET Nat
  OBVIOUS
<1> HIDE DEF T
<1>6. T = Nat
  BY <1>3, <1>4, <1>5, SetInduction
<1>7. Good(l)
  <2> HIDE DEF Good
  <2> QED
    BY <1>1, <1>6 DEF T
<1> QED
  BY <1>1, <1>2, <1>7 DEF TakesAll

-----------------------------------------------------------------------------
(* The keys are whole.                                                     *)

decoder == [pending |-> pending, keys |-> keys]

\* u goes on where what was read ends.
Continues(u) == n_read <= Len(u) /\ \A k \in 1 .. n_read : u[k] = typed[k]

\* Of every stream that may still come, the decoder has the keys so far.
KeysInv ==
  /\ typed \in Seq(STRING) /\ n_read \in 0 .. Len(typed)
  /\ Held(decoder)
  /\ \A u \in Seq(STRING) : Continues(u) /\ SequencesFit(u) => At(u, decoder, n_read)

LEMMA KeysInvInit == Init => KeysInv
<1> SUFFICES ASSUME Init PROVE KeysInv
  OBVIOUS
<1>1. typed \in Seq(STRING) /\ n_read = 0 /\ pending = << >> /\ keys = << >>
  BY TermAssumption DEF Init, Limit
<1>2. n_read \in 0 .. Len(typed)
  BY <1>1
<1>3. Held(decoder)
  <2>1. << >> \in Seq(STRING) /\ << >> \in Seq(Key) /\ Len(<< >>) = 0
    OBVIOUS
  <2>2. decoder \in Decoder /\ decoder.pending = << >>
    BY <1>1, <2>1 DEF decoder, Decoder
  <2>3. Begun(<< >>)
    BY DEF Begun
  <2>4. 0 <= MaxPending
    BY KeysAssumption
  <2> QED
    BY <2>1, <2>2, <2>3, <2>4 DEF Held
<1>4. ASSUME NEW u \in Seq(STRING) PROVE At(u, decoder, n_read)
  <2>1. Len(<< >>) = 0 /\ 0 - 0 + 1 = 1 /\ SubSeq(u, 1, 0) = << >>
    OBVIOUS
  <2>2. KeysFrom(u)[1] \in Seq(Key) /\ KeysOf(u) = KeysFrom(u)[1]
    BY KeysFromIs
  <2>3. << >> \o KeysFrom(u)[1] = KeysFrom(u)[1]
    BY <2>2, ConcatEmpty
  <2> QED
    BY <1>1, <2>1, <2>2, <2>3 DEF At, decoder
<1> QED
  BY <1>1, <1>2, <1>3, <1>4 DEF KeysInv

LEMMA KeysInvRead ==
  ASSUME KeysInv, NEW n \in 1 .. Len(typed), TtyRead(n)
  PROVE  KeysInv'
<1>1. PICK bytes \in Seq(STRING), s \in Decoder :
        /\ bytes = SubSeq(typed, n_read + 1, n_read + n) /\ Len(bytes) = n
        /\ \A k \in 1 .. n : bytes[k] = typed[n_read + k]
        /\ s = decoder
  <2>1. /\ n_read + 1 \in 1 .. Len(typed) + 1 /\ n_read + n \in n_read + 1 - 1 .. Len(typed)
        /\ n_read + n - (n_read + 1) + 1 = n
        /\ \A k \in 1 .. n : n_read + 1 + k - 1 = n_read + k
    BY DEF KeysInv, TtyRead
  <2>2. typed \in Seq(STRING) /\ decoder \in Decoder
    BY DEF KeysInv, Held
  <2>3. /\ SubSeq(typed, n_read + 1, n_read + n) \in Seq(STRING)
        /\ Len(SubSeq(typed, n_read + 1, n_read + n)) = n_read + n - (n_read + 1) + 1
        /\ \A k \in 1 .. n_read + n - (n_read + 1) + 1 :
             SubSeq(typed, n_read + 1, n_read + n)[k] = typed[n_read + 1 + k - 1]
    BY <2>1, <2>2, SubSeqFacts
  <2>4. PICK bytes \in Seq(STRING) : bytes = SubSeq(typed, n_read + 1, n_read + n)
    BY <2>3
  <2>5. Len(bytes) = n /\ \A k \in 1 .. n : bytes[k] = typed[n_read + k]
    BY <2>1, <2>3, <2>4
  <2>6. PICK s \in Decoder : s = decoder
    BY <2>2
  <2> QED
    BY <2>4, <2>5, <2>6, Zenon
<1>2. PICK t : t = FeedInput(s, bytes)
  OBVIOUS
<1>3. Held(t) /\ TakesAll(s, bytes, t)
  BY <1>1, <1>2, FeedInputKeeps DEF KeysInv
<1>4. t = [pending |-> t.pending, keys |-> t.keys]
  BY <1>3 DEF Held, Decoder
<1>5. n_read' = n_read + n /\ typed' = typed /\ decoder' = t
  BY <1>1, <1>2, <1>4 DEF TtyRead, decoder
<1>6. n_read' \in 0 .. Len(typed')
  BY <1>5 DEF TtyRead, KeysInv
<1>7. ASSUME NEW u \in Seq(STRING), Continues(u)', SequencesFit(u)
      PROVE  At(u, t, n_read + n)
  <2>1. /\ n_read \in 0 .. Len(u) - n
        /\ \A k \in 1 .. n : u[n_read + k] = typed[n_read + k]
        /\ Continues(u)
    <3>1. n_read + n <= Len(u) /\ \A k \in 1 .. n_read + n : u[k] = typed[k]
      BY <1>5, <1>7 DEF Continues
    <3>2. n_read \in Nat /\ n \in Nat /\ Len(u) \in Nat
      BY DEF KeysInv
    <3>3. \A k \in 1 .. n : n_read + k \in 1 .. n_read + n
      BY <3>2
    <3>4. n_read \in 0 .. Len(u) - n /\ n_read <= Len(u)
          /\ \A k \in 1 .. n_read : k \in 1 .. n_read + n
      BY <3>1, <3>2
    <3> QED
      BY <3>1, <3>3, <3>4 DEF Continues
  <2>2. At(u, s, n_read)
    BY <1>1, <1>7, <2>1 DEF KeysInv
  <2>3. \A k \in 1 .. n : bytes[k] = u[n_read + k]
    BY <1>1, <2>1
  <2> QED
    BY <1>1, <1>3, <1>7, <2>1, <2>2, <2>3 DEF TakesAll
<1> QED
  BY <1>3, <1>5, <1>6, <1>7 DEF KeysInv

LEMMA KeysInvStep == KeysInv /\ [Next]_vars => KeysInv'
<1> SUFFICES ASSUME KeysInv, [Next]_vars PROVE KeysInv'
  OBVIOUS
<1>1. CASE UNCHANGED input
  BY <1>1 DEF KeysInv, input, decoder, Continues
<1>2. CASE \E n \in 1 .. Len(typed) : TtyRead(n)
  BY <1>2, KeysInvRead
<1>3. (\E n \in 1 .. Len(typed) : TtyRead(n)) \/ UNCHANGED input
  <2>1. CASE New \/ NewFails \/ Stop \/ Free \/ OnWinch \/ BeginFrame \/ RowEnd
    BY <2>1 DEF New, NewFails, Stop, Free, OnWinch, BeginFrame, RowEnd
  <2>2. CASE \E r \in 0 .. MaxHeight : RowBegin(r)
    BY <2>2 DEF RowBegin
  <2>3. CASE \E text \in Limit.texts : RowPuts(text)
    BY <2>3 DEF RowPuts, Draw
  <2>4. CASE \E sgr \in Limit.sgr : RowAttr(sgr)
    BY <2>4 DEF RowAttr, Draw
  <2>5. CASE \E col \in Limit.cols : RowPad(col)
    BY <2>5 DEF RowPad, Draw
  <2>6. CASE \E cut \in 0 .. MaxHeight : EndFrame(cut)
    BY <2>6 DEF EndFrame
  <2>7. CASE \E s \in Limit.sizes : SizeChanges(s)
    BY <2>7 DEF SizeChanges
  <2>8. CASE UNCHANGED vars
    BY <2>8 DEF vars, input
  <2> QED
    BY <2>1, <2>2, <2>3, <2>4, <2>5, <2>6, <2>7, <2>8 DEF Next
<1> QED
  BY <1>1, <1>2, <1>3

LEMMA KeysInvKeeps == KeysInv => KeysWhole
<1> SUFFICES ASSUME KeysInv PROVE KeysWhole
  OBVIOUS
<1>1. PICK u \in Seq(STRING) :
        /\ u = SubSeq(typed, 1, n_read) /\ Len(u) = n_read
        /\ \A k \in 1 .. n_read : u[k] = typed[k]
  <2>1. typed \in Seq(STRING) /\ n_read \in Nat /\ n_read <= Len(typed)
    BY DEF KeysInv
  <2>2. /\ SubSeq(typed, 1, n_read) \in Seq(STRING) /\ Len(SubSeq(typed, 1, n_read)) = n_read
        /\ \A k \in 1 .. n_read : SubSeq(typed, 1, n_read)[k] = typed[k]
    BY <2>1, PrefixFacts
  <2> QED
    BY <2>2
<1>2. Continues(u) /\ n_read \in Nat
  BY <1>1 DEF Continues, KeysInv
<1>3. /\ pending \in Seq(STRING) /\ keys \in Seq(Key)
      /\ Begun(pending) /\ Len(pending) <= MaxPending
  BY DEF KeysInv, Held, decoder, Decoder
<1>4. ASSUME SequencesFit(u) PROVE keys = KeysOf(u)
  <2>1. At(u, decoder, n_read)
    BY <1>2, <1>4 DEF KeysInv
  <2>2. PICK l \in Nat : l = Len(pending)
    BY <1>3
  <2>3. /\ l <= n_read /\ pending = SubSeq(u, n_read - l + 1, n_read)
        /\ KeysOf(u) = keys \o KeysFrom(u)[n_read - l + 1]
    BY <2>1, <2>2 DEF At, decoder
  <2>4. PICK i \in 1 .. Len(u) + 1 : i = n_read - l + 1
    <3>1. l <= n_read
      BY <2>3
    <3> QED
      BY <1>1, <1>2, <3>1
  <2>5. KeysFrom(u)[i] = << >>
    BY <1>1, <1>3, <2>3, <2>4, KeysOfBegun
  <2>6. keys \o << >> = keys
    BY <1>3, ConcatEmpty
  <2> QED
    BY <2>3, <2>4, <2>5, <2>6
<1> QED
  BY <1>1, <1>3, <1>4 DEF KeysWhole

\* However the reads cut the stream of bytes, inside a sequence or after an ESC, the keys
\* are those of the whole stream, if its sequences fit in the buffer; and what waits for
\* the rest of a sequence has room there (on_tty_read, yc_term_feed_input, decode_one).
THEOREM KeysAlwaysWhole == Spec => []KeysWhole
<1>1. Spec => []KeysInv
  BY KeysInvInit, KeysInvStep, PTL DEF Spec
<1> QED
  BY <1>1, KeysInvKeeps, PTL

-----------------------------------------------------------------------------
(* The terminal is given back.                                             *)

LEMMA RestoredStep == Restored /\ [Next]_vars => Restored'
<1> SUFFICES ASSUME Restored, [Next]_vars PROVE Restored'
  OBVIOUS
<1>1. CASE UNCHANGED modes
  BY <1>1 DEF Restored, modes
<1>2. CASE New \/ NewFails \/ Stop \/ Free
  <2>1. CASE New \/ Stop
    <3>1. life' = "ready" \/ life' = "stopped"
      BY <2>1 DEF New, Stop
    <3> QED
      BY <3>1 DEF Restored
  <2>2. CASE NewFails
    BY <2>2 DEF Restored, NewFails
  <2>3. CASE Free
    BY <2>3 DEF Restored, Free
  <2> QED
    BY <1>2, <2>1, <2>2, <2>3
<1>3. CASE OnWinch \/ BeginFrame \/ RowEnd
  BY <1>1, <1>3 DEF OnWinch, BeginFrame, RowEnd
<1>4. CASE \E r \in 0 .. MaxHeight : RowBegin(r)
  BY <1>1, <1>4 DEF RowBegin
<1>5. CASE \E text \in Limit.texts : RowPuts(text)
  BY <1>1, <1>5 DEF RowPuts, Draw
<1>6. CASE \E sgr \in Limit.sgr : RowAttr(sgr)
  BY <1>1, <1>6 DEF RowAttr, Draw
<1>7. CASE \E col \in Limit.cols : RowPad(col)
  BY <1>1, <1>7 DEF RowPad, Draw
<1>8. CASE \E cut \in 0 .. MaxHeight : EndFrame(cut)
  BY <1>1, <1>8 DEF EndFrame
<1>9. CASE \E n \in 1 .. Len(typed) : TtyRead(n)
  BY <1>1, <1>9 DEF TtyRead
<1>10. CASE \E s \in Limit.sizes : SizeChanges(s)
  BY <1>1, <1>10 DEF SizeChanges
<1>11. CASE UNCHANGED vars
  BY <1>1, <1>11 DEF vars, modes
<1> QED
  BY <1>2, <1>3, <1>4, <1>5, <1>6, <1>7, <1>8, <1>9, <1>10, <1>11 DEF Next

\* Once the object is freed, or was never made, the terminal is in no mode of it, whatever
\* happened before (yc_term_new, yc_term_stop, yc_term_free).
THEOREM AlwaysRestored == Spec => []Restored
<1>1. Init => Restored
  BY DEF Init, Restored
<1> QED
  BY <1>1, RestoredStep, PTL DEF Spec

-----------------------------------------------------------------------------
(* Codepoints and columns.                                                 *)

Byte == 0 .. 255

\* The table is searched by halving, which finds a range if there is one: the ranges
\* do not overlap and are in order.
Ordered(ranges) ==
  /\ ranges \in Seq(Nat \X Nat)
  /\ \A i \in 1 .. Len(ranges) : ranges[i][1] <= ranges[i][2]
  /\ \A i, j \in 1 .. Len(ranges) : i < j => ranges[i][2] < ranges[j][1]

\* A range from lo + 1 to hi has cp.
Between(cp, ranges, lo, hi) ==
  \E k \in lo + 1 .. hi : ranges[k][1] <= cp /\ cp <= ranges[k][2]

\* A round of the search, where f has the results of the later ones.
Halved(cp, ranges, f, lo, hi) ==
  LET mid == lo + (hi - lo) \div 2
  IN  /\ lo < hi
      /\ IF cp < ranges[mid + 1][1] THEN f[<<lo, mid>>]
         ELSE IF cp > ranges[mid + 1][2] THEN f[<<mid + 1, hi>>]
         ELSE TRUE

LEMMA Middle ==
  ASSUME NEW lo \in Nat, NEW hi \in Nat, lo < hi
  PROVE  lo + (hi - lo) \div 2 \in lo .. hi - 1
  OBVIOUS

LEMMA HalvedFinds ==
  ASSUME NEW cp \in Nat, NEW ranges, Ordered(ranges), NEW lo \in 0 .. Len(ranges),
         NEW hi \in 0 .. Len(ranges), NEW f,
         \A a, b \in 0 .. Len(ranges) :
           b - a < hi - lo /\ a >= lo /\ b <= hi => (f[<<a, b>>] <=> Between(cp, ranges, a, b))
  PROVE  Halved(cp, ranges, f, lo, hi) <=> Between(cp, ranges, lo, hi)
<1>0. Len(ranges) \in Nat
  BY DEF Ordered
<1>1. CASE ~ (lo < hi)
  <2>1. lo + 1 .. hi = {}
    BY <1>0, <1>1
  <2> QED
    BY <1>1, <2>1 DEF Halved, Between
<1>2. CASE lo < hi
  <2>1. PICK mid \in lo .. hi - 1 : mid = lo + (hi - lo) \div 2
    BY <1>0, <1>2, Middle
  <2>2. /\ mid \in Nat /\ mid + 1 \in 1 .. Len(ranges) /\ mid \in 0 .. Len(ranges)
        /\ mid + 1 \in 0 .. Len(ranges)
        /\ mid - lo < hi - lo /\ hi - (mid + 1) < hi - lo /\ mid + 1 >= lo /\ mid <= hi
    <3>1. lo \in Nat /\ hi \in Nat /\ hi <= Len(ranges)
      BY <1>0
    <3>2. mid \in Nat /\ lo <= mid /\ mid < hi
      BY <2>1, <3>1
    <3>3. mid + 1 \in 1 .. Len(ranges) /\ mid \in 0 .. Len(ranges) /\ mid + 1 \in 0 .. Len(ranges)
      BY <1>0, <3>1, <3>2
    <3>4. mid - lo < hi - lo /\ hi - (mid + 1) < hi - lo /\ mid + 1 >= lo /\ mid <= hi
      BY <3>1, <3>2
    <3> QED
      BY <3>2, <3>3, <3>4
  <2>3. (f[<<lo, mid>>] <=> Between(cp, ranges, lo, mid))
        /\ (f[<<mid + 1, hi>>] <=> Between(cp, ranges, mid + 1, hi))
    BY <1>0, <2>2
  <2>4. \A k \in 1 .. Len(ranges) : ranges[k][1] \in Nat /\ ranges[k][2] \in Nat
    <3>1. ranges \in Seq(Nat \X Nat)
      BY DEF Ordered
    <3>2. \A k \in 1 .. Len(ranges) : ranges[k] \in Nat \X Nat
      BY <3>1
    <3> QED
      BY <3>2
  <2>5. CASE cp < ranges[mid + 1][1]
    <3>1. \A k \in lo + 1 .. hi : ranges[k][1] <= cp /\ cp <= ranges[k][2] => k \in lo + 1 .. mid
      <4>0. \A k \in lo + 1 .. hi : k >= mid + 1 \/ k \in lo + 1 .. mid
        BY <2>2
      <4>1. SUFFICES ASSUME NEW k \in lo + 1 .. hi, k >= mid + 1, ranges[k][1] <= cp
                     PROVE  FALSE
        BY <4>0
      <4>2. k \in 1 .. Len(ranges)
        BY <1>0
      <4>3. k = mid + 1 \/ mid + 1 < k
        BY <2>2, <4>1
      <4>4. CASE k = mid + 1
        BY <2>2, <2>4, <2>5, <4>1, <4>2, <4>4
      <4>5. CASE mid + 1 < k
        <5>1. ranges[mid + 1][2] < ranges[k][1] /\ ranges[mid + 1][1] <= ranges[mid + 1][2]
          <6>1. /\ \A i \in 1 .. Len(ranges) : ranges[i][1] <= ranges[i][2]
                /\ \A i, j \in 1 .. Len(ranges) : i < j => ranges[i][2] < ranges[j][1]
            BY DEF Ordered
          <6>2. mid + 1 \in 1 .. Len(ranges)
            BY <2>2
          <6> QED
            BY <4>2, <4>5, <6>1, <6>2, Zenon
        <5> QED
          BY <2>2, <2>4, <2>5, <4>1, <4>2, <5>1
      <4> QED
        BY <4>3, <4>4, <4>5
    <3>2. Between(cp, ranges, lo, hi) <=> Between(cp, ranges, lo, mid)
      BY <2>2, <3>1 DEF Between
    <3>3. Halved(cp, ranges, f, lo, hi) <=> f[<<lo, mid>>]
      BY <1>2, <2>1, <2>5 DEF Halved
    <3> QED
      BY <2>3, <3>2, <3>3
  <2>6. CASE ~ (cp < ranges[mid + 1][1]) /\ cp > ranges[mid + 1][2]
    <3>1. \A k \in lo + 1 .. hi :
            ranges[k][1] <= cp /\ cp <= ranges[k][2] => k \in mid + 1 + 1 .. hi
      <4>0. \A k \in lo + 1 .. hi : k <= mid + 1 \/ k \in mid + 1 + 1 .. hi
        BY <2>2
      <4>1. SUFFICES ASSUME NEW k \in lo + 1 .. hi, k <= mid + 1, cp <= ranges[k][2]
                     PROVE  FALSE
        BY <4>0
      <4>2. k \in 1 .. Len(ranges)
        BY <1>0
      <4>3. k = mid + 1 \/ k < mid + 1
        BY <2>2, <4>1
      <4>4. CASE k = mid + 1
        BY <2>2, <2>4, <2>6, <4>1, <4>2, <4>4
      <4>5. CASE k < mid + 1
        <5>1. ranges[k][2] < ranges[mid + 1][1] /\ ranges[mid + 1][1] <= ranges[mid + 1][2]
          <6>1. /\ \A i \in 1 .. Len(ranges) : ranges[i][1] <= ranges[i][2]
                /\ \A i, j \in 1 .. Len(ranges) : i < j => ranges[i][2] < ranges[j][1]
            BY DEF Ordered
          <6>2. mid + 1 \in 1 .. Len(ranges)
            BY <2>2
          <6> QED
            BY <4>2, <4>5, <6>1, <6>2, Zenon
        <5> QED
          BY <2>2, <2>4, <2>6, <4>1, <4>2, <5>1
      <4> QED
        BY <4>3, <4>4, <4>5
    <3>2. Between(cp, ranges, lo, hi) <=> Between(cp, ranges, mid + 1, hi)
      BY <2>2, <3>1 DEF Between
    <3>3. Halved(cp, ranges, f, lo, hi) <=> f[<<mid + 1, hi>>]
      BY <1>2, <2>1, <2>6 DEF Halved
    <3> QED
      BY <2>3, <3>2, <3>3
  <2>7. CASE ~ (cp < ranges[mid + 1][1]) /\ ~ (cp > ranges[mid + 1][2])
    <3>1. Halved(cp, ranges, f, lo, hi)
      BY <1>2, <2>1, <2>7 DEF Halved
    <3>2. Between(cp, ranges, lo, hi)
      <4>1. mid + 1 \in lo + 1 .. hi
        BY <2>1
      <4> QED
        BY <2>2, <2>4, <2>7, <4>1 DEF Between
    <3> QED
      BY <3>1, <3>2
  <2> QED
    BY <2>5, <2>6, <2>7
<1> QED
  BY <1>1, <1>2

\* The search finds what is there.
LEMMA InRangesIs ==
  ASSUME NEW cp \in Nat, NEW ranges, Ordered(ranges)
  PROVE  InRanges(cp, ranges) <=> Between(cp, ranges, 0, Len(ranges))
<1>0. PICK l \in Nat : l = Len(ranges)
  BY DEF Ordered
<1> DEFINE P == (0 .. l) \X (0 .. l)
           found == [s \in P |-> Between(cp, ranges, s[1], s[2])]
<1>1. ASSUME NEW s \in P PROVE found[s] <=> Halved(cp, ranges, found, s[1], s[2])
  <2>1. s[1] \in 0 .. Len(ranges) /\ s[2] \in 0 .. Len(ranges)
    BY <1>0
  <2>2. \A a, b \in 0 .. Len(ranges) : found[<<a, b>>] <=> Between(cp, ranges, a, b)
    BY <1>0
  <2> HIDE DEF found
  <2>3. Halved(cp, ranges, found, s[1], s[2]) <=> Between(cp, ranges, s[1], s[2])
    BY <2>1, <2>2, HalvedFinds
  <2> USE DEF found
  <2>4. found[s] <=> Between(cp, ranges, s[1], s[2])
    OBVIOUS
  <2> HIDE DEF found
  <2> QED
    BY <2>3, <2>4
<1>2. ASSUME NEW s \in P PROVE found[s] = Halved(cp, ranges, found, s[1], s[2])
  <2>1. found[s] \in BOOLEAN
    BY DEF Between
  <2> HIDE DEF found
  <2>2. Halved(cp, ranges, found, s[1], s[2]) \in BOOLEAN
    BY DEF Halved
  <2> QED
    BY <1>1, <2>1, <2>2
<1>3. found = [s \in P |-> Halved(cp, ranges, found, s[1], s[2])]
  <2>1. found = [s \in P |-> found[s]]
    OBVIOUS
  <2> HIDE DEF found
  <2> QED
    BY <1>2, <2>1
<1> HIDE DEF found
<1>4. \E f : /\ f = [s \in P |-> Halved(cp, ranges, f, s[1], s[2])]
             /\ InRanges(cp, ranges) = f[<<0, l>>]
  BY <1>0, <1>3 DEF InRanges, Halved
<1>5. PICK f : /\ f = [s \in P |-> Halved(cp, ranges, f, s[1], s[2])]
               /\ InRanges(cp, ranges) = f[<<0, l>>]
  BY <1>4
<1> DEFINE T == {d \in Nat : \A a, b \in 0 .. l :
                   b - a < d => (f[<<a, b>>] <=> Between(cp, ranges, a, b))}
<1>6. 0 \in T
  <2>1. ASSUME NEW a \in 0 .. l, NEW b \in 0 .. l, b - a < 0
        PROVE  f[<<a, b>>] <=> Between(cp, ranges, a, b)
    <3>1. f[<<a, b>>] = Halved(cp, ranges, f, a, b)
      BY <1>5
    <3>2. ~ (a < b) /\ a + 1 .. b = {}
      BY <1>0, <2>1
    <3> QED
      BY <3>1, <3>2 DEF Halved, Between
  <2> QED
    BY <2>1
<1>7. ASSUME NEW d \in T PROVE d + 1 \in T
  <2>1. ASSUME NEW a \in 0 .. l, NEW b \in 0 .. l, b - a < d + 1
        PROVE  f[<<a, b>>] <=> Between(cp, ranges, a, b)
    <3>1. f[<<a, b>>] = Halved(cp, ranges, f, a, b)
      BY <1>5
    <3>2. \A x, y \in 0 .. l :
            y - x < b - a => (f[<<x, y>>] <=> Between(cp, ranges, x, y))
      <4>1. ASSUME NEW x \in 0 .. l, NEW y \in 0 .. l, y - x < b - a PROVE y - x < d
        BY <1>0, <2>1, <4>1
      <4> QED
        BY <4>1
    <3>3. Halved(cp, ranges, f, a, b) <=> Between(cp, ranges, a, b)
      <4> HIDE DEF T
      <4> QED
        BY <1>0, <3>2, HalvedFinds
    <3> QED
      BY <3>1, <3>3
  <2>2. d + 1 \in Nat
    OBVIOUS
  <2> QED
    BY <2>1, <2>2
<1>8. T \in SUBSET Nat
  OBVIOUS
<1> HIDE DEF T
<1>9. T = Nat
  BY <1>6, <1>7, <1>8, SetInduction
<1>10. l + 1 \in T /\ l - 0 < l + 1 /\ 0 \in 0 .. l /\ l \in 0 .. l
  BY <1>0, <1>9
<1>11. f[<<0, l>>] <=> Between(cp, ranges, 0, l)
  BY <1>10 DEF T
<1> QED
  BY <1>0, <1>5, <1>11

LEMMA TablesOrdered == Ordered(zero_width_ranges) /\ Ordered(wide_ranges)
<1>1. Ordered(wide_ranges)
  BY DEF Ordered, wide_ranges
<1>2. Ordered(zero_width_ranges)
  BY DEF Ordered, zero_width_ranges
<1> QED
  BY <1>1, <1>2

LEMMA InTableIs ==
  ASSUME NEW cp, NEW ranges, Ordered(ranges)
  PROVE  InTable(cp, ranges) <=> Between(cp, ranges, 0, Len(ranges))
<1>1. 0 + 1 .. Len(ranges) = DOMAIN ranges
  BY DEF Ordered
<1> QED
  BY <1>1 DEF InTable, Between, ToSet

\* What a character takes of the columns is what the tables say.
LEMMA ColumnsRight ==
  ASSUME NEW s, Codepoint(s) \in Nat
  PROVE  CodepointColumns(Codepoint(s)) = Columns(s) /\ Columns(s) \in {0, 1, 2}
<1>1. PICK cp \in Nat : cp = Codepoint(s)
  OBVIOUS
<1>2. /\ InRanges(cp, zero_width_ranges) <=> InTable(cp, zero_width_ranges)
      /\ InRanges(cp, wide_ranges) <=> InTable(cp, wide_ranges)
  BY TablesOrdered, InRangesIs, InTableIs
<1> QED
  BY <1>1, <1>2 DEF CodepointColumns, Columns

-----------------------------------------------------------------------------
(* Bytes and characters.                                                   *)

\* The bytes of three and four that stand for a codepoint in another way, or for none.
LEMMA LowBits ==
  /\ \A a \in 224 .. 239 : a % 16 = a - 224
  /\ \A a \in 240 .. 244 : a % 8 = a - 240
  /\ \A a \in 194 .. 223 : a % 32 = a - 192
  /\ \A b \in 128 .. 191 : b % 64 = b - 128
  BY SMT

Joined3(x, y, z) == x * 4096 + y * 64 + z

Joined4(w, x, y, z) == w * 262144 + x * 4096 + y * 64 + z

Joins3(x, y, z) ==
  LET n == Joined3(x, y, z)
   IN  /\ n \in Nat /\ (x * 64 + y) * 64 + z = n
       /\ IllFormed(3, n) <=> (x = 0 /\ y < 32) \/ (x = 13 /\ y > 31)
       /\ ~ (x = 0 /\ y < 32) => n > 127

LEMMA ThreeBits ==
  ASSUME NEW x \in 0 .. 15, NEW y \in 0 .. 63, NEW z \in 0 .. 63
  PROVE  Joins3(x, y, z)
<1>1. PICK n \in Nat : n = x * 4096 + y * 64 + z
  BY SMT
<1>2. n < 2048 <=> x = 0 /\ y < 32
  BY <1>1, SMT
<1>3. n \in 55296 .. 57343 <=> x = 13 /\ y > 31
  BY <1>1, SMT
<1>4. IllFormed(3, n) <=> (x = 0 /\ y < 32) \/ (x = 13 /\ y > 31)
  BY <1>2, <1>3, SMT DEF IllFormed
<1>5. ~ (x = 0 /\ y < 32) => n > 127
  BY <1>2, SMT
<1>6. (x * 64 + y) * 64 + z = n
  BY <1>1, SMT
<1> QED
  BY <1>1, <1>4, <1>5, <1>6, SMT DEF Joined3, Joins3

Joins4(w, x, y, z) ==
  LET n == Joined4(w, x, y, z)
   IN  /\ n \in Nat /\ ((w * 64 + x) * 64 + y) * 64 + z = n
       /\ IllFormed(4, n) <=> w = 0 /\ x < 16
       /\ ~ (w = 0 /\ x < 16) => n > 127

LEMMA FourBits ==
  ASSUME NEW w \in 0 .. 4, NEW x \in 0 .. 63, NEW y \in 0 .. 63, NEW z \in 0 .. 63
  PROVE  Joins4(w, x, y, z)
<1>1. PICK n \in Nat : n = w * 262144 + x * 4096 + y * 64 + z
  BY SMT
<1>2. n < 65536 <=> w = 0 /\ x < 16
  BY <1>1, SMT
<1>3. n \in 55296 .. 57343 => n < 65536
  BY <1>1, SMT
<1>4. IllFormed(4, n) <=> w = 0 /\ x < 16
  BY <1>2, <1>3, SMT DEF IllFormed
<1>5. ~ (w = 0 /\ x < 16) => n > 127
  BY <1>2, SMT
<1>6. ((w * 64 + x) * 64 + y) * 64 + z = n
  BY <1>1, SMT
<1> QED
  BY <1>1, <1>4, <1>5, <1>6, SMT DEF Joined4, Joins4

\* What the first byte says.
LEMMA Leads ==
  ASSUME NEW b \in Byte
  PROVE  /\ b < 128 => Lead(b) = [need |-> 1, bits |-> b]
         /\ b \in 194 .. 223 => Lead(b) = [need |-> 2, bits |-> b % 32]
         /\ b \in 224 .. 239 => Lead(b) = [need |-> 3, bits |-> b % 16]
         /\ b \in 240 .. 244 => Lead(b) = [need |-> 4, bits |-> b % 8]
         /\ b \in 128 .. 193 \/ b > 244 => Lead(b) = [need |-> 0, bits |-> 0]
<1>1. b < 128 => Lead(b) = [need |-> 1, bits |-> b]
  BY SMT DEF Lead, Byte
<1>2. b \in 194 .. 223 => Lead(b) = [need |-> 2, bits |-> b % 32]
  BY SMT DEF Lead, Byte
<1>3. b \in 224 .. 239 => Lead(b) = [need |-> 3, bits |-> b % 16]
  BY SMT DEF Lead, Byte
<1>4. b \in 240 .. 244 => Lead(b) = [need |-> 4, bits |-> b % 8]
  BY SMT DEF Lead, Byte
<1>5. b \in 128 .. 193 \/ b > 244 => Lead(b) = [need |-> 0, bits |-> 0]
  BY SMT DEF Lead, Byte
<1> QED
  BY <1>1, <1>2, <1>3, <1>4, <1>5

Leading(b) ==
  \/ b < 128 /\ Lead(b) = [need |-> 1, bits |-> b]
  \/ b \in 194 .. 223 /\ Lead(b) = [need |-> 2, bits |-> b - 192]
  \/ b \in 224 .. 239 /\ Lead(b) = [need |-> 3, bits |-> b - 224]
  \/ b \in 240 .. 244 /\ Lead(b) = [need |-> 4, bits |-> b - 240]
  \/ b \in (128 .. 193) \cup (245 .. 255) /\ Lead(b) = [need |-> 0, bits |-> 0]

LEMMA LeadIs ==
  ASSUME NEW b \in Byte PROVE Leading(b)
<1>1. CASE b < 128
  BY <1>1, Leads, SMT DEF Leading
<1>2. CASE b \in 194 .. 223
  <2>1. b % 32 = b - 192
    BY <1>2, LowBits, SMT
  <2> QED
    BY <1>2, <2>1, Leads, SMT DEF Leading
<1>3. CASE b \in 224 .. 239
  <2>1. b % 16 = b - 224
    BY <1>3, LowBits, SMT
  <2> QED
    BY <1>3, <2>1, Leads, SMT DEF Leading
<1>4. CASE b \in 240 .. 244
  <2>1. b % 8 = b - 240
    BY <1>4, LowBits, SMT
  <2> QED
    BY <1>4, <2>1, Leads, SMT DEF Leading
<1>5. CASE b \in (128 .. 193) \cup (245 .. 255)
  BY <1>5, Leads, SMT DEF Leading
<1>6. \/ b < 128 \/ b \in 194 .. 223 \/ b \in 224 .. 239 \/ b \in 240 .. 244
      \/ b \in (128 .. 193) \cup (245 .. 255)
  BY SMT DEF Byte
<1> QED
  BY <1>1, <1>2, <1>3, <1>4, <1>5, <1>6

LEMMA ContinuationIs ==
  ASSUME NEW b \in Byte PROVE Continuation(b) <=> b \in 128 .. 191
  BY SMT DEF Continuation, Byte

\* The table of well-formed sequences, by the number of bytes.
Trailing(b) == b \in 128 .. 191

Form2(a, b) == a \in 194 .. 223 /\ Trailing(b)

Form3(a, b, c) ==
  a \in 224 .. 239 /\ Trailing(b) /\ Trailing(c) /\ ~ (a = 224 /\ b < 160) /\ ~ (a = 237 /\ b > 159)

Form4(a, b, c, d) ==
  /\ a \in 240 .. 244 /\ Trailing(b) /\ Trailing(c) /\ Trailing(d)
  /\ ~ (a = 240 /\ b < 144) /\ ~ (a = 244 /\ b > 143)

LEMMA WellFormedIs ==
  ASSUME NEW s \in Seq(Byte)
  PROVE  /\ Len(s) = 1 => (WellFormed(s) <=> s[1] < 128)
         /\ Len(s) = 2 => (WellFormed(s) <=> Form2(s[1], s[2]))
         /\ Len(s) = 3 => (WellFormed(s) <=> Form3(s[1], s[2], s[3]))
         /\ Len(s) = 4 => (WellFormed(s) <=> Form4(s[1], s[2], s[3], s[4]))
<1>1. CASE Len(s) = 1
  BY <1>1, SMT DEF WellFormed
<1>2. CASE Len(s) = 2
  BY <1>2, SMT DEF WellFormed, Form2, Trailing
<1>3. CASE Len(s) = 3
  <2>1. PICK a \in Byte, b \in Byte, c \in Byte : a = s[1] /\ b = s[2] /\ c = s[3]
    BY <1>3
  <2>2. (\A k \in 2 .. Len(s) : s[k] \in 128 .. 191) <=> b \in 128 .. 191 /\ c \in 128 .. 191
    BY <1>3, <2>1
  <2>3. (\A k \in 3 .. Len(s) : s[k] \in 128 .. 191) <=> c \in 128 .. 191
    BY <1>3, <2>1
  <2>4. WellFormed(s) <=>
          /\ c \in 128 .. 191
          /\ \/ a = 224 /\ b \in 160 .. 191
             \/ a \in (225 .. 236) \cup {238, 239} /\ b \in 128 .. 191 /\ c \in 128 .. 191
             \/ a = 237 /\ b \in 128 .. 159
    BY <1>3, <2>1, <2>2, <2>3, SMT DEF WellFormed
  <2>5. WellFormed(s) <=>
          /\ a \in 224 .. 239 /\ b \in 128 .. 191 /\ c \in 128 .. 191
          /\ ~ (a = 224 /\ b < 160) /\ ~ (a = 237 /\ b > 159)
    BY <2>4, SMT DEF Byte
  <2> QED
    BY <1>3, <2>1, <2>5 DEF Form3, Trailing
<1>4. CASE Len(s) = 4
  <2>1. PICK a \in Byte, b \in Byte, c \in Byte, d \in Byte :
          a = s[1] /\ b = s[2] /\ c = s[3] /\ d = s[4]
    BY <1>4
  <2>2. (\A k \in 2 .. Len(s) : s[k] \in 128 .. 191)
          <=> b \in 128 .. 191 /\ c \in 128 .. 191 /\ d \in 128 .. 191
    BY <1>4, <2>1
  <2>3. (\A k \in 3 .. Len(s) : s[k] \in 128 .. 191) <=> c \in 128 .. 191 /\ d \in 128 .. 191
    BY <1>4, <2>1
  <2>4. WellFormed(s) <=>
          /\ c \in 128 .. 191 /\ d \in 128 .. 191
          /\ \/ a = 240 /\ b \in 144 .. 191
             \/ a \in 241 .. 243 /\ b \in 128 .. 191
             \/ a = 244 /\ b \in 128 .. 143
    BY <1>4, <2>1, <2>2, <2>3, SMT DEF WellFormed
  <2>5. WellFormed(s) <=>
          /\ a \in 240 .. 244 /\ b \in 128 .. 191 /\ c \in 128 .. 191 /\ d \in 128 .. 191
          /\ ~ (a = 240 /\ b < 144) /\ ~ (a = 244 /\ b > 143)
    BY <2>4, SMT DEF Byte
  <2> QED
    BY <1>4, <2>1, <2>5 DEF Form4, Trailing
<1> QED
  BY <1>1, <1>2, <1>3, <1>4

\* The bits of the first n bytes.
Bits(text, n) ==
  LET b == Lead(text[1]).bits
  IN  CASE n = 1 -> b
        [] n = 2 -> b * 64 + (text[2] % 64)
        [] n = 3 -> (b * 64 + (text[2] % 64)) * 64 + (text[3] % 64)
        [] n = 4 -> ((b * 64 + (text[2] % 64)) * 64 + (text[3] % 64)) * 64 + (text[4] % 64)

LEMMA BitsIs ==
  ASSUME NEW text, NEW need \in 0 .. 4, need = Lead(text[1]).need
  PROVE  Utf8Decode(text) =
           IF \/ need = 0 \/ Len(text) < need
              \/ \E i \in 2 .. need : ~ Continuation(text[i])
              \/ IllFormed(need, Bits(text, need))
           THEN [used |-> 0, cp |-> 0]
           ELSE [used |-> need, cp |-> Bits(text, need)]
<1> DEFINE g == [n \in 1 .. need |-> Bits(text, n)]
           b == Lead(text[1]).bits
<1>1. ASSUME NEW n \in 1 .. need
      PROVE  g[n] = IF n = 1 THEN b ELSE g[n - 1] * 64 + (text[n] % 64)
  <2>1. n \in {1, 2, 3, 4} /\ (n # 1 => n - 1 \in 1 .. need)
    OBVIOUS
  <2>2. g[n] = Bits(text, n) /\ (n # 1 => g[n - 1] = Bits(text, n - 1))
    BY <2>1
  <2>3. Bits(text, 1) = b
    BY DEF Bits
  <2>4. Bits(text, 2) = Bits(text, 1) * 64 + (text[2] % 64)
    BY DEF Bits
  <2>5. Bits(text, 3) = Bits(text, 2) * 64 + (text[3] % 64)
    BY DEF Bits
  <2>6. Bits(text, 4) = Bits(text, 3) * 64 + (text[4] % 64)
    BY DEF Bits
  <2> HIDE DEF g, b
  <2>7. CASE n = 1
    BY <2>2, <2>3, <2>7
  <2>8. CASE n = 2
    BY <2>1, <2>2, <2>4, <2>8
  <2>9. CASE n = 3
    BY <2>1, <2>2, <2>5, <2>9
  <2>10. CASE n = 4
    BY <2>1, <2>2, <2>6, <2>10
  <2>11. n = 1 \/ n = 2 \/ n = 3 \/ n = 4
    BY <2>1
  <2> QED
    BY <2>7, <2>8, <2>9, <2>10, <2>11, Zenon
<1>2. g = [n \in 1 .. need |-> g[n]]
  OBVIOUS
<1> HIDE DEF g
<1>3. g = [n \in 1 .. need |-> IF n = 1 THEN b ELSE g[n - 1] * 64 + (text[n] % 64)]
  <2>1. [n \in 1 .. need |-> g[n]]
          = [n \in 1 .. need |-> IF n = 1 THEN b ELSE g[n - 1] * 64 + (text[n] % 64)]
    BY <1>1, Zenon
  <2> QED
    BY <1>2, <2>1, Zenon
<1>4. PICK h : h = CHOOSE c :
                  c = [n \in 1 .. need |-> IF n = 1 THEN b ELSE c[n - 1] * 64 + (text[n] % 64)]
  OBVIOUS
<1>5. h = [n \in 1 .. need |-> IF n = 1 THEN b ELSE h[n - 1] * 64 + (text[n] % 64)]
  BY <1>3, <1>4, Zenon
<1>6. Utf8Decode(text) =
        IF \/ need = 0 \/ Len(text) < need
           \/ \E i \in 2 .. need : ~ Continuation(text[i])
           \/ IllFormed(need, h[need])
        THEN [used |-> 0, cp |-> 0]
        ELSE [used |-> need, cp |-> h[need]]
  BY <1>4, Zenon DEF Utf8Decode, b
<1>7. \A n \in 1 .. need : h[n] = IF n = 1 THEN b ELSE h[n - 1] * 64 + (text[n] % 64)
  BY <1>5
<1>8. need >= 1 => h[1] = Bits(text, 1)
  BY <1>7 DEF Bits
<1>9. need >= 2 => h[2] = h[1] * 64 + (text[2] % 64)
  BY <1>7
<1>10. need >= 3 => h[3] = h[2] * 64 + (text[3] % 64)
  BY <1>7
<1>11. need = 4 => h[4] = h[3] * 64 + (text[4] % 64)
  BY <1>7
<1>12. need # 0 => h[need] = Bits(text, need)
  <2>1. need = 0 \/ need = 1 \/ need = 2 \/ need = 3 \/ need = 4
    OBVIOUS
  <2>2. Bits(text, 2) = Bits(text, 1) * 64 + (text[2] % 64)
    BY DEF Bits
  <2>3. Bits(text, 3) = Bits(text, 2) * 64 + (text[3] % 64)
    BY DEF Bits
  <2>4. Bits(text, 4) = Bits(text, 3) * 64 + (text[4] % 64)
    BY DEF Bits
  <2>5. CASE need = 1
    BY <2>5, <1>8
  <2>6. CASE need = 2
    BY <2>2, <2>6, <1>8, <1>9
  <2>7. CASE need = 3
    BY <2>2, <2>3, <2>7, <1>8, <1>9, <1>10
  <2>8. CASE need = 4
    BY <2>2, <2>3, <2>4, <2>8, <1>8, <1>9, <1>10, <1>11
  <2> QED
    BY <2>1, <2>5, <2>6, <2>7, <2>8
<1> QED
  BY <1>6, <1>12

Point2(a, b) == (a - 192) * 64 + (b - 128)

Point3(a, b, c) == (a - 224) * 4096 + (b - 128) * 64 + (c - 128)

Point4(a, b, c, d) == (a - 240) * 262144 + (b - 128) * 4096 + (c - 128) * 64 + (d - 128)

LEMMA CodepointIs ==
  ASSUME NEW s
  PROVE  /\ Len(s) = 1 => Codepoint(s) = s[1]
         /\ Len(s) = 2 => Codepoint(s) = Point2(s[1], s[2])
         /\ Len(s) = 3 => Codepoint(s) = Point3(s[1], s[2], s[3])
         /\ Len(s) = 4 => Codepoint(s) = Point4(s[1], s[2], s[3], s[4])
<1>1. CASE Len(s) = 1
  BY <1>1, SMT DEF Codepoint
<1>2. CASE Len(s) = 2
  BY <1>2, SMT DEF Codepoint, Point2
<1>3. CASE Len(s) = 3
  BY <1>3, SMT DEF Codepoint, Point3
<1>4. CASE Len(s) = 4
  BY <1>4, SMT DEF Codepoint, Point4
<1> QED
  BY <1>1, <1>2, <1>3, <1>4, SMT

\* What the bits of well-formed and other sequences make.
Points_2(a, b) ==
  /\ (a - 192) * 64 + (b % 64) = Point2(a, b)
  /\ Point2(a, b) \in Nat /\ (IllFormed(2, Point2(a, b)) <=> ~ Form2(a, b))
  /\ Form2(a, b) => Point2(a, b) > 127

LEMMA Points2 ==
  ASSUME NEW a \in 194 .. 223, NEW b, Trailing(b)
  PROVE  Points_2(a, b)
<1>1. b \in 128 .. 191 /\ b % 64 = b - 128
  BY LowBits, SMT DEF Trailing
<1>2. PICK n \in Nat : n = Point2(a, b) /\ n > 127 /\ n < 2048
  BY <1>1, SMT DEF Point2
<1>3. Form2(a, b) /\ ~ IllFormed(2, n)
  BY <1>2, SMT DEF Form2, IllFormed
<1> QED
  BY <1>1, <1>2, <1>3, SMT DEF Point2, Points_2

Points_3(a, b, c) ==
  /\ ((a - 224) * 64 + (b % 64)) * 64 + (c % 64) = Point3(a, b, c)
  /\ Point3(a, b, c) \in Nat /\ (IllFormed(3, Point3(a, b, c)) <=> ~ Form3(a, b, c))
  /\ Form3(a, b, c) => Point3(a, b, c) > 127

LEMMA Points3 ==
  ASSUME NEW a \in 224 .. 239, NEW b, Trailing(b), NEW c, Trailing(c)
  PROVE  Points_3(a, b, c)
<1>1. /\ b \in 128 .. 191 /\ b % 64 = b - 128
      /\ c \in 128 .. 191 /\ c % 64 = c - 128
  BY LowBits, SMT DEF Trailing
<1>2. /\ a - 224 \in 0 .. 15 /\ b % 64 \in 0 .. 63 /\ c % 64 \in 0 .. 63
  BY <1>1, SMT
<1>3. PICK x \in 0 .. 15, y \in 0 .. 63, z \in 0 .. 63 : x = a - 224 /\ y = b % 64 /\ z = c % 64
  BY <1>2, Zenon
<1>4. x = a - 224 /\ y = b - 128 /\ z = c - 128
  BY <1>1, <1>3, Zenon
<1>5. Joins3(x, y, z)
  BY ThreeBits
<1>6. PICK n \in Nat : n = Joined3(x, y, z)
  BY <1>5, Zenon DEF Joins3
<1>7. n = Point3(a, b, c)
  BY <1>4, <1>6, SMT DEF Point3, Joined3
<1>8. (a - 224) * 64 + (b % 64) = x * 64 + y /\ c % 64 = z
  BY <1>3, Zenon
<1>9. (x * 64 + y) * 64 + z = n
  BY <1>5, <1>6, Zenon DEF Joins3
<1>10. IllFormed(3, n) <=> (x = 0 /\ y < 32) \/ (x = 13 /\ y > 31)
  BY <1>5, <1>6, Zenon DEF Joins3
<1>11. Form3(a, b, c) <=> ~ (x = 0 /\ y < 32) /\ ~ (x = 13 /\ y > 31)
  BY <1>1, <1>4, SMT DEF Form3, Trailing
<1>12. ~ (x = 0 /\ y < 32) => n > 127
  BY <1>5, <1>6, Zenon DEF Joins3
<1>13. (IllFormed(3, n) <=> ~ Form3(a, b, c)) /\ (Form3(a, b, c) => n > 127)
  BY <1>10, <1>11, <1>12, Zenon
<1> QED
  BY <1>7, <1>8, <1>9, <1>13, Zenon DEF Points_3

\* The first two bytes of what utf8_decode accepts beyond the last codepoint.
Beyond(a, b) == a = 244 /\ b > 143

Points_4(a, b, c, d) ==
  /\ (((a - 240) * 64 + (b % 64)) * 64 + (c % 64)) * 64 + (d % 64) = Point4(a, b, c, d)
  /\ Point4(a, b, c, d) \in Nat
  /\ (IllFormed(4, Point4(a, b, c, d)) <=> ~ Form4(a, b, c, d))
  /\ Form4(a, b, c, d) => Point4(a, b, c, d) > 127

LEMMA Points4 ==
  ASSUME NEW a \in 240 .. 244, NEW b, Trailing(b), NEW c, Trailing(c), NEW d, Trailing(d),
         ~ Beyond(a, b)
  PROVE  Points_4(a, b, c, d)
<1>1. /\ b \in 128 .. 191 /\ b % 64 = b - 128
      /\ c \in 128 .. 191 /\ c % 64 = c - 128
      /\ d \in 128 .. 191 /\ d % 64 = d - 128
  BY LowBits, SMT DEF Trailing
<1>2. /\ a - 240 \in 0 .. 4 /\ b % 64 \in 0 .. 63 /\ c % 64 \in 0 .. 63 /\ d % 64 \in 0 .. 63
  BY <1>1, SMT
<1>3. PICK w \in 0 .. 4, x \in 0 .. 63, y \in 0 .. 63, z \in 0 .. 63 :
        w = a - 240 /\ x = b % 64 /\ y = c % 64 /\ z = d % 64
  BY <1>2, Zenon
<1>4. w = a - 240 /\ x = b - 128 /\ y = c - 128 /\ z = d - 128
  BY <1>1, <1>3, Zenon
<1>5. Joins4(w, x, y, z)
  BY FourBits
<1>6. PICK n \in Nat : n = Joined4(w, x, y, z)
  BY <1>5, Zenon DEF Joins4
<1>7. n = Point4(a, b, c, d)
  BY <1>4, <1>6, SMT DEF Point4, Joined4
<1>8. (a - 240) * 64 + (b % 64) = w * 64 + x /\ c % 64 = y /\ d % 64 = z
  BY <1>3, Zenon
<1>9. ((w * 64 + x) * 64 + y) * 64 + z = n
  BY <1>5, <1>6, Zenon DEF Joins4
<1>10. IllFormed(4, n) <=> w = 0 /\ x < 16
  BY <1>5, <1>6, Zenon DEF Joins4
<1>11. Form4(a, b, c, d) <=> ~ (w = 0 /\ x < 16)
  BY <1>1, <1>4, SMT DEF Form4, Trailing, Beyond
<1>12. ~ (w = 0 /\ x < 16) => n > 127
  BY <1>5, <1>6, Zenon DEF Joins4
<1>13. (IllFormed(4, n) <=> ~ Form4(a, b, c, d)) /\ (Form4(a, b, c, d) => n > 127)
  BY <1>10, <1>11, <1>12, Zenon
<1>14. (((a - 240) * 64 + (b % 64)) * 64 + (c % 64)) * 64 + (d % 64) = n
  BY <1>8, <1>9, Zenon
<1> QED
  BY <1>7, <1>13, <1>14, Zenon DEF Points_4

TooLarge(text) == Len(text) > 1 /\ Beyond(text[1], text[2])

\* utf8_decode takes the well-formed sequence that text begins with, if there is one.
LEMMA DecodeRight ==
  ASSUME NEW text \in Seq(Byte), text # << >>, ~ TooLarge(text)
  PROVE  \/ /\ Utf8Decode(text) = [used |-> 0, cp |-> 0]
            /\ \A n \in 1 .. 4 : n <= Len(text) => ~ WellFormed(SubSeq(text, 1, n))
         \/ \E n \in 1 .. 4 :
              /\ n <= Len(text) /\ WellFormed(SubSeq(text, 1, n))
              /\ \A m \in 1 .. 4 : m <= Len(text) /\ WellFormed(SubSeq(text, 1, m)) => m = n
              /\ Utf8Decode(text) = [used |-> n, cp |-> Codepoint(SubSeq(text, 1, n))]
              /\ Codepoint(SubSeq(text, 1, n)) \in Nat
              /\ n > 1 => Codepoint(SubSeq(text, 1, n)) > 127
<1>0. PICK l \in Nat : l = Len(text) /\ l # 0
  OBVIOUS
<1>1. \A k \in 1 .. l : text[k] \in Byte
  BY <1>0
<1>2. PICK a \in Byte : a = text[1]
  BY <1>0, <1>1
<1>3. ASSUME NEW n \in 1 .. 4, n <= l
      PROVE  /\ SubSeq(text, 1, n) \in Seq(Byte) /\ Len(SubSeq(text, 1, n)) = n
             /\ \A k \in 1 .. n : SubSeq(text, 1, n)[k] = text[k]
  <2>1. n \in Nat /\ n <= Len(text)
    BY <1>0, <1>3
  <2> QED
    BY <2>1, PrefixFacts
<1>4. ASSUME 1 <= l
      PROVE  /\ WellFormed(SubSeq(text, 1, 1)) <=> a < 128
             /\ Codepoint(SubSeq(text, 1, 1)) = a
  <2>1. 1 \in 1 .. 4 /\ 1 \in 1 .. 1
    OBVIOUS
  <2>2. /\ SubSeq(text, 1, 1) \in Seq(Byte) /\ Len(SubSeq(text, 1, 1)) = 1
        /\ \A k \in 1 .. 1 : SubSeq(text, 1, 1)[k] = text[k]
    BY <1>3, <1>4, <2>1
  <2>3. PICK q : q = SubSeq(text, 1, 1)
    OBVIOUS
  <2>4. q \in Seq(Byte) /\ Len(q) = 1 /\ q[1] = a
    BY <1>2, <2>1, <2>2, <2>3, Zenon
  <2>5. WellFormed(q) <=> a < 128
    BY <2>4, WellFormedIs
  <2>6. Codepoint(q) = q[1]
    BY <2>4, CodepointIs, Zenon
  <2> QED
    BY <2>3, <2>4, <2>5, <2>6
<1>5. ASSUME 2 <= l
      PROVE  /\ WellFormed(SubSeq(text, 1, 2)) <=> Form2(a, text[2])
             /\ Codepoint(SubSeq(text, 1, 2)) = Point2(a, text[2])
  <2>1. 2 \in 1 .. 4 /\ 1 \in 1 .. 2 /\ 2 \in 1 .. 2
    OBVIOUS
  <2>2. /\ SubSeq(text, 1, 2) \in Seq(Byte) /\ Len(SubSeq(text, 1, 2)) = 2
        /\ \A k \in 1 .. 2 : SubSeq(text, 1, 2)[k] = text[k]
    BY <1>3, <1>5, <2>1
  <2>3. PICK q : q = SubSeq(text, 1, 2)
    OBVIOUS
  <2>4. q \in Seq(Byte) /\ Len(q) = 2 /\ q[1] = a /\ q[2] = text[2]
    BY <1>2, <2>1, <2>2, <2>3, Zenon
  <2>5. WellFormed(q) <=> Form2(a, text[2])
    BY <2>4, WellFormedIs
  <2>6. Codepoint(q) = Point2(q[1], q[2])
    BY <2>4, CodepointIs, Zenon
  <2> QED
    BY <2>3, <2>4, <2>5, <2>6
<1>6. ASSUME 3 <= l
      PROVE  /\ WellFormed(SubSeq(text, 1, 3)) <=> Form3(a, text[2], text[3])
             /\ Codepoint(SubSeq(text, 1, 3)) = Point3(a, text[2], text[3])
  <2>1. 3 \in 1 .. 4 /\ 1 \in 1 .. 3 /\ 2 \in 1 .. 3 /\ 3 \in 1 .. 3
    OBVIOUS
  <2>2. /\ SubSeq(text, 1, 3) \in Seq(Byte) /\ Len(SubSeq(text, 1, 3)) = 3
        /\ \A k \in 1 .. 3 : SubSeq(text, 1, 3)[k] = text[k]
    BY <1>3, <1>6, <2>1
  <2>3. PICK q : q = SubSeq(text, 1, 3)
    OBVIOUS
  <2>4. q \in Seq(Byte) /\ Len(q) = 3 /\ q[1] = a /\ q[2] = text[2] /\ q[3] = text[3]
    BY <1>2, <2>1, <2>2, <2>3, Zenon
  <2>5. WellFormed(q) <=> Form3(a, text[2], text[3])
    BY <2>4, WellFormedIs
  <2>6. Codepoint(q) = Point3(q[1], q[2], q[3])
    BY <2>4, CodepointIs, Zenon
  <2> QED
    BY <2>3, <2>4, <2>5, <2>6
<1>7. ASSUME 4 <= l
      PROVE  /\ WellFormed(SubSeq(text, 1, 4)) <=> Form4(a, text[2], text[3], text[4])
             /\ Codepoint(SubSeq(text, 1, 4)) = Point4(a, text[2], text[3], text[4])
  <2>1. 4 \in 1 .. 4 /\ 1 \in 1 .. 4 /\ 2 \in 1 .. 4 /\ 3 \in 1 .. 4 /\ 4 \in 1 .. 4
    OBVIOUS
  <2>2. /\ SubSeq(text, 1, 4) \in Seq(Byte) /\ Len(SubSeq(text, 1, 4)) = 4
        /\ \A k \in 1 .. 4 : SubSeq(text, 1, 4)[k] = text[k]
    BY <1>3, <1>7, <2>1
  <2>3. PICK q : q = SubSeq(text, 1, 4)
    OBVIOUS
  <2>4. q \in Seq(Byte) /\ Len(q) = 4 /\ q[1] = a /\ q[2] = text[2] /\ q[3] = text[3]
        /\ q[4] = text[4]
    BY <1>2, <2>1, <2>2, <2>3, Zenon
  <2>5. WellFormed(q) <=> Form4(a, text[2], text[3], text[4])
    BY <2>4, WellFormedIs
  <2>6. Codepoint(q) = Point4(q[1], q[2], q[3], q[4])
    BY <2>4, CodepointIs, Zenon
  <2> QED
    BY <2>3, <2>4, <2>5, <2>6
<1>8. \A k \in 1 .. l : Continuation(text[k]) <=> Trailing(text[k])
  BY <1>1, ContinuationIs DEF Trailing
<1>9. Leading(a)
  BY LeadIs
<1> DEFINE Good(n) == /\ n <= Len(text) /\ WellFormed(SubSeq(text, 1, n))
                      /\ \A m \in 1 .. 4 : m <= Len(text) /\ WellFormed(SubSeq(text, 1, m)) => m = n
                      /\ Utf8Decode(text) = [used |-> n, cp |-> Codepoint(SubSeq(text, 1, n))]
                      /\ Codepoint(SubSeq(text, 1, n)) \in Nat
                      /\ n > 1 => Codepoint(SubSeq(text, 1, n)) > 127
           None == /\ Utf8Decode(text) = [used |-> 0, cp |-> 0]
                   /\ \A n \in 1 .. 4 : n <= Len(text) => ~ WellFormed(SubSeq(text, 1, n))
<1>10. CASE a < 128
  <2>1. Lead(a) = [need |-> 1, bits |-> a] /\ a \in Nat
    BY <1>9, <1>10, SMT DEF Leading, Byte
  <2>2. /\ WellFormed(SubSeq(text, 1, 1))
        /\ 2 <= l => ~ WellFormed(SubSeq(text, 1, 2))
        /\ 3 <= l => ~ WellFormed(SubSeq(text, 1, 3))
        /\ 4 <= l => ~ WellFormed(SubSeq(text, 1, 4))
    <3>1. 1 <= l
      BY <1>0, SMT
    <3> QED
      <4>1. WellFormed(SubSeq(text, 1, 1))
        BY <3>1, <1>4, <1>10, Zenon
      <4>2. 2 <= l => ~ WellFormed(SubSeq(text, 1, 2))
        <5>1. ~ Form2(a, text[2])
          BY <1>10, SMT DEF Form2, Byte
        <5> QED
          BY <1>5, <5>1, Zenon
      <4>3. 3 <= l => ~ WellFormed(SubSeq(text, 1, 3))
        <5>1. ~ Form3(a, text[2], text[3])
          BY <1>10, SMT DEF Form3, Byte
        <5> QED
          BY <1>6, <5>1, Zenon
      <4>4. 4 <= l => ~ WellFormed(SubSeq(text, 1, 4))
        <5>1. ~ Form4(a, text[2], text[3], text[4])
          BY <1>10, SMT DEF Form4, Byte
        <5> QED
          BY <1>7, <5>1, Zenon
      <4> QED
        BY <4>1, <4>2, <4>3, <4>4
  <2>3. Codepoint(SubSeq(text, 1, 1)) = a
    <3>1. 1 <= l
      BY <1>0, SMT
    <3> QED
      BY <1>4, <3>1
  <2>4. Utf8Decode(text) = [used |-> 1, cp |-> a]
    <3>1. 1 = Lead(text[1]).need /\ 1 \in 0 .. 4 /\ Bits(text, 1) = a
      BY <1>2, <2>1, SMT DEF Bits
    <3>2. ~ IllFormed(1, a)
      BY <1>10, <2>1, SMT DEF IllFormed
    <3>3. ~ (Len(text) < 1) /\ 2 .. 1 = {}
      BY <1>0, SMT
    <3> QED
      BY <3>1, <3>2, <3>3, BitsIs
  <2>5. Good(1)
    <3>1. \A m \in 1 .. 4 : m <= Len(text) /\ WellFormed(SubSeq(text, 1, m)) => m = 1
      BY <1>0, <2>2, SMT
    <3> QED
      BY <1>0, <2>1, <2>2, <2>3, <2>4, <3>1, SMT
  <2> QED
    BY <2>5
<1>11. CASE a \in (128 .. 193) \cup (245 .. 255)
  <2>1. Lead(a) = [need |-> 0, bits |-> 0]
    BY <1>9, <1>11, SMT DEF Leading
  <2>2. \A n \in 1 .. 4 : n <= Len(text) => ~ WellFormed(SubSeq(text, 1, n))
    <3>1. /\ ~ WellFormed(SubSeq(text, 1, 1))
          /\ 2 <= l => ~ WellFormed(SubSeq(text, 1, 2))
          /\ 3 <= l => ~ WellFormed(SubSeq(text, 1, 3))
          /\ 4 <= l => ~ WellFormed(SubSeq(text, 1, 4))
      BY <1>0, <1>4, <1>5, <1>6, <1>7, <1>11, SMT DEF Form2, Form3, Form4
    <3> QED
      BY <1>0, <3>1, SMT
  <2>3. 0 = Lead(text[1]).need /\ 0 \in 0 .. 4
    BY <1>2, <2>1, SMT
  <2>4. Utf8Decode(text) = [used |-> 0, cp |-> 0]
    BY <2>3, BitsIs, Zenon
  <2> QED
    BY <2>2, <2>4
<1>12. CASE a \in 194 .. 223
  <2>1. Lead(a) = [need |-> 2, bits |-> a - 192]
    BY <1>9, <1>12, SMT DEF Leading
  <2>2. /\ ~ WellFormed(SubSeq(text, 1, 1))
        /\ 3 <= l => ~ WellFormed(SubSeq(text, 1, 3))
        /\ 4 <= l => ~ WellFormed(SubSeq(text, 1, 4))
    BY <1>0, <1>4, <1>5, <1>6, <1>7, <1>12, SMT DEF Form2, Form3, Form4
  <2>3. 2 = Lead(text[1]).need /\ 2 \in 0 .. 4
    BY <1>2, <2>1, SMT
  <2>4. CASE ~ (2 <= l /\ Trailing(text[2]))
    <3>1. Utf8Decode(text) = [used |-> 0, cp |-> 0]
      <4>1. Len(text) < 2 \/ \E i \in 2 .. 2 : ~ Continuation(text[i])
        BY <1>0, <1>8, <2>4, SMT
      <4> QED
        BY <2>3, <4>1, BitsIs, Zenon
    <3>2. 2 <= l => ~ WellFormed(SubSeq(text, 1, 2))
      BY <1>5, <2>4, SMT DEF Form2
    <3>3. \A m \in 1 .. 4 : m <= Len(text) => ~ WellFormed(SubSeq(text, 1, m))
      BY <1>0, <2>2, <3>2, SMT
    <3> QED
      BY <3>1, <3>3
  <2>5. CASE 2 <= l /\ Trailing(text[2])
    <3>0. Points_2(a, text[2])
      BY <1>12, <2>5, Points2
    <3>1. /\ ~ (Len(text) < 2) /\ ~ \E i \in 2 .. 2 : ~ Continuation(text[i])
      BY <1>0, <1>8, <2>5, SMT
    <3>2. Bits(text, 2) = Point2(a, text[2])
      <4>1. Lead(text[1]).bits = a - 192
        BY <1>2, <2>1
      <4>2. Bits(text, 2) = (a - 192) * 64 + (text[2] % 64)
        BY <4>1, SMT DEF Bits
      <4> QED
        BY <3>0, <4>2, Zenon DEF Points_2
    <3>3. Point2(a, text[2]) \in Nat
          /\ (IllFormed(2, Point2(a, text[2])) <=> ~ Form2(a, text[2]))
          /\ (Form2(a, text[2]) => Point2(a, text[2]) > 127)
      BY <3>0, Zenon DEF Points_2
    <3>4. CASE Form2(a, text[2])
      <4>1. Utf8Decode(text) = [used |-> 2, cp |-> Point2(a, text[2])]
        BY <2>3, <3>1, <3>2, <3>3, <3>4, BitsIs
      <4>2. WellFormed(SubSeq(text, 1, 2)) /\ Codepoint(SubSeq(text, 1, 2)) = Point2(a, text[2])
        BY <1>5, <2>5, <3>4
      <4>3. \A m \in 1 .. 4 : m <= Len(text) /\ WellFormed(SubSeq(text, 1, m)) => m = 2
        BY <1>0, <2>2, SMT
      <4>4. 2 <= Len(text)
        BY <1>0, <2>5
      <4>5. Good(2)
        BY <3>3, <3>4, <4>1, <4>2, <4>3, <4>4
      <4> QED
        BY <4>5
    <3>5. CASE ~ Form2(a, text[2])
      <4>1. Utf8Decode(text) = [used |-> 0, cp |-> 0]
        BY <2>3, <3>2, <3>3, <3>5, BitsIs
      <4>2. 2 <= l => ~ WellFormed(SubSeq(text, 1, 2))
        BY <1>5, <3>5
      <4>3. \A m \in 1 .. 4 : m <= Len(text) => ~ WellFormed(SubSeq(text, 1, m))
        BY <1>0, <2>2, <4>2, SMT
      <4> QED
        BY <4>1, <4>3
    <3> QED
      BY <3>4, <3>5
  <2> QED
    BY <2>4, <2>5
<1>13. CASE a \in 224 .. 239
  <2>1. Lead(a) = [need |-> 3, bits |-> a - 224]
    BY <1>9, <1>13, SMT DEF Leading
  <2>2. /\ ~ WellFormed(SubSeq(text, 1, 1))
        /\ 2 <= l => ~ WellFormed(SubSeq(text, 1, 2))
        /\ 4 <= l => ~ WellFormed(SubSeq(text, 1, 4))
    BY <1>0, <1>4, <1>5, <1>6, <1>7, <1>13, SMT DEF Form2, Form3, Form4
  <2>3. 3 = Lead(text[1]).need /\ 3 \in 0 .. 4
    BY <1>2, <2>1, SMT
  <2>4. CASE ~ (3 <= l /\ Trailing(text[2]) /\ Trailing(text[3]))
    <3>1. Utf8Decode(text) = [used |-> 0, cp |-> 0]
      <4>1. Len(text) < 3 \/ \E i \in 2 .. 3 : ~ Continuation(text[i])
        BY <1>0, <1>8, <2>4, SMT
      <4> QED
        BY <2>3, <4>1, BitsIs, Zenon
    <3>2. 3 <= l => ~ WellFormed(SubSeq(text, 1, 3))
      BY <1>6, <2>4, SMT DEF Form3
    <3>3. \A m \in 1 .. 4 : m <= Len(text) => ~ WellFormed(SubSeq(text, 1, m))
      BY <1>0, <2>2, <3>2, SMT
    <3> QED
      BY <3>1, <3>3
  <2>5. CASE 3 <= l /\ Trailing(text[2]) /\ Trailing(text[3])
    <3>0. Points_3(a, text[2], text[3])
      BY <1>13, <2>5, Points3
    <3>1. /\ ~ (Len(text) < 3) /\ ~ \E i \in 2 .. 3 : ~ Continuation(text[i])
      BY <1>0, <1>8, <2>5, SMT
    <3>2. Bits(text, 3) = Point3(a, text[2], text[3])
      <4>1. Lead(text[1]).bits = a - 224
        BY <1>2, <2>1
      <4>2. Bits(text, 3) = ((a - 224) * 64 + (text[2] % 64)) * 64 + (text[3] % 64)
        BY <4>1, SMT DEF Bits
      <4> QED
        BY <3>0, <4>2, Zenon DEF Points_3
    <3>3. Point3(a, text[2], text[3]) \in Nat
          /\ (IllFormed(3, Point3(a, text[2], text[3])) <=> ~ Form3(a, text[2], text[3]))
          /\ (Form3(a, text[2], text[3]) => Point3(a, text[2], text[3]) > 127)
      BY <3>0, Zenon DEF Points_3
    <3>4. CASE Form3(a, text[2], text[3])
      <4>1. Utf8Decode(text) = [used |-> 3, cp |-> Point3(a, text[2], text[3])]
        BY <2>3, <3>1, <3>2, <3>3, <3>4, BitsIs
      <4>2. WellFormed(SubSeq(text, 1, 3))
            /\ Codepoint(SubSeq(text, 1, 3)) = Point3(a, text[2], text[3])
        BY <1>6, <2>5, <3>4
      <4>3. \A m \in 1 .. 4 : m <= Len(text) /\ WellFormed(SubSeq(text, 1, m)) => m = 3
        BY <1>0, <2>2, SMT
      <4>4. 3 <= Len(text)
        BY <1>0, <2>5
      <4>5. Good(3)
        BY <3>3, <3>4, <4>1, <4>2, <4>3, <4>4
      <4> QED
        BY <4>5
    <3>5. CASE ~ Form3(a, text[2], text[3])
      <4>1. Utf8Decode(text) = [used |-> 0, cp |-> 0]
        BY <2>3, <3>2, <3>3, <3>5, BitsIs
      <4>2. 3 <= l => ~ WellFormed(SubSeq(text, 1, 3))
        BY <1>6, <3>5
      <4>3. \A m \in 1 .. 4 : m <= Len(text) => ~ WellFormed(SubSeq(text, 1, m))
        BY <1>0, <2>2, <4>2, SMT
      <4> QED
        BY <4>1, <4>3
    <3> QED
      BY <3>4, <3>5
  <2> QED
    BY <2>4, <2>5
<1>14. CASE a \in 240 .. 244
  <2>1. Lead(a) = [need |-> 4, bits |-> a - 240]
    BY <1>9, <1>14, SMT DEF Leading
  <2>2. /\ ~ WellFormed(SubSeq(text, 1, 1))
        /\ 2 <= l => ~ WellFormed(SubSeq(text, 1, 2))
        /\ 3 <= l => ~ WellFormed(SubSeq(text, 1, 3))
    BY <1>0, <1>4, <1>5, <1>6, <1>7, <1>14, SMT DEF Form2, Form3, Form4
  <2>3. 4 = Lead(text[1]).need /\ 4 \in 0 .. 4
    BY <1>2, <2>1, SMT
  <2>4. CASE ~ (4 <= l /\ Trailing(text[2]) /\ Trailing(text[3]) /\ Trailing(text[4]))
    <3>1. Utf8Decode(text) = [used |-> 0, cp |-> 0]
      <4>1. Len(text) < 4 \/ \E i \in 2 .. 4 : ~ Continuation(text[i])
        BY <1>0, <1>8, <2>4, SMT
      <4> QED
        BY <2>3, <4>1, BitsIs, Zenon
    <3>2. 4 <= l => ~ WellFormed(SubSeq(text, 1, 4))
      BY <1>7, <2>4, SMT DEF Form4
    <3>3. \A m \in 1 .. 4 : m <= Len(text) => ~ WellFormed(SubSeq(text, 1, m))
      BY <1>0, <2>2, <3>2, SMT
    <3> QED
      BY <3>1, <3>3
  <2>5. CASE 4 <= l /\ Trailing(text[2]) /\ Trailing(text[3]) /\ Trailing(text[4])
    <3>0. Points_4(a, text[2], text[3], text[4])
      <4>1. ~ Beyond(a, text[2])
        BY <1>0, <1>2, <2>5, SMT DEF TooLarge
      <4> QED
        BY <1>14, <2>5, <4>1, Points4
    <3>1. /\ ~ (Len(text) < 4) /\ ~ \E i \in 2 .. 4 : ~ Continuation(text[i])
      BY <1>0, <1>8, <2>5, SMT
    <3>2. Bits(text, 4) = Point4(a, text[2], text[3], text[4])
      <4>1. Lead(text[1]).bits = a - 240
        BY <1>2, <2>1
      <4>2. Bits(text, 4) = (((a - 240) * 64 + (text[2] % 64)) * 64 + (text[3] % 64)) * 64
                              + (text[4] % 64)
        BY <4>1, SMT DEF Bits
      <4> QED
        BY <3>0, <4>2, Zenon DEF Points_4
    <3>3. Point4(a, text[2], text[3], text[4]) \in Nat
          /\ (IllFormed(4, Point4(a, text[2], text[3], text[4]))
                <=> ~ Form4(a, text[2], text[3], text[4]))
          /\ (Form4(a, text[2], text[3], text[4]) => Point4(a, text[2], text[3], text[4]) > 127)
      BY <3>0, Zenon DEF Points_4
    <3>4. CASE Form4(a, text[2], text[3], text[4])
      <4>1. Utf8Decode(text) = [used |-> 4, cp |-> Point4(a, text[2], text[3], text[4])]
        BY <2>3, <3>1, <3>2, <3>3, <3>4, BitsIs
      <4>2. WellFormed(SubSeq(text, 1, 4))
            /\ Codepoint(SubSeq(text, 1, 4)) = Point4(a, text[2], text[3], text[4])
        BY <1>7, <2>5, <3>4
      <4>3. \A m \in 1 .. 4 : m <= Len(text) /\ WellFormed(SubSeq(text, 1, m)) => m = 4
        BY <1>0, <2>2, SMT
      <4>4. 4 <= Len(text)
        BY <1>0, <2>5
      <4>5. Good(4)
        BY <3>3, <3>4, <4>1, <4>2, <4>3, <4>4
      <4> QED
        BY <4>5
    <3>5. CASE ~ Form4(a, text[2], text[3], text[4])
      <4>1. Utf8Decode(text) = [used |-> 0, cp |-> 0]
        BY <2>3, <3>2, <3>3, <3>5, BitsIs
      <4>2. 4 <= l => ~ WellFormed(SubSeq(text, 1, 4))
        BY <1>7, <3>5
      <4>3. \A m \in 1 .. 4 : m <= Len(text) => ~ WellFormed(SubSeq(text, 1, m))
        BY <1>0, <2>2, <4>2, SMT
      <4> QED
        BY <4>1, <4>3
    <3> QED
      BY <3>4, <3>5
  <2> QED
    BY <2>4, <2>5
<1>15. \/ a < 128 \/ a \in (128 .. 193) \cup (245 .. 255)
       \/ a \in 194 .. 223 \/ a \in 224 .. 239 \/ a \in 240 .. 244
  BY SMT DEF Byte
<1> QED
  BY <1>10, <1>11, <1>12, <1>13, <1>14, <1>15

-----------------------------------------------------------------------------
(* The characters of a text.                                               *)

\* No byte sequence of the text stands for more than the last codepoint.
InUnicode(text) == \A i \in 1 .. Len(text) - 1 : ~ Beyond(text[i], text[i + 1])

\* What is shown.
Character == {s \in Seq(Byte) : WellFormed(s) /\ ~ Control(s)}

\* The bytes that the character at i takes, and what is shown for them.
Length(text, i) ==
  IF CharacterAt(text, i) = {} THEN 1 ELSE CHOOSE n \in CharacterAt(text, i) : TRUE

ShownAt(text, i) ==
  LET s == SubSeq(text, i, i + Length(text, i) - 1)
  IN  IF CharacterAt(text, i) = {} \/ Control(s) THEN QuestionMark ELSE s

LEMMA QuestionMarkIs ==
  /\ QuestionMark \in Character /\ Len(QuestionMark) = 1 /\ Columns(QuestionMark) = 1
<1>1. QuestionMark \in Seq(Byte) /\ Len(QuestionMark) = 1 /\ QuestionMark[1] = 63
  BY SMT DEF QuestionMark, Byte
<1>2. WellFormed(QuestionMark) /\ ~ Control(QuestionMark)
  BY <1>1, SMT DEF WellFormed, Control
<1>3. Codepoint(QuestionMark) = 63
  BY <1>1, CodepointIs, Zenon
<1>4. ~ Between(63, zero_width_ranges, 0, Len(zero_width_ranges))
  BY SMT DEF Between, zero_width_ranges
<1>5. ~ Between(63, wide_ranges, 0, Len(wide_ranges))
  BY SMT DEF Between, wide_ranges
<1>6. ~ InTable(63, zero_width_ranges) /\ ~ InTable(63, wide_ranges)
  BY <1>4, <1>5, TablesOrdered, InTableIs
<1> QED
  BY <1>1, <1>2, <1>3, <1>6 DEF Character, Columns

\* What utf8_decode takes at i is the character there.
Taken(text, i) ==
  LET d == Utf8Decode(SubSeq(text, i, Len(text)))
      n == Length(text, i)
      s == SubSeq(text, i, i + n - 1)
  IN  /\ n \in 1 .. 4 /\ i + n - 1 <= Len(text)
      /\ (IF d.used = 0 THEN 1 ELSE d.used) = n
      /\ Replaced(d) => ShownAt(text, i) = QuestionMark
      /\ ~ Replaced(d) => ShownAt(text, i) = s /\ CodepointColumns(d.cp) = Columns(s)
      /\ ShownAt(text, i) \in Character

LEMMA CharacterTaken ==
  ASSUME NEW text \in Seq(Byte), InUnicode(text), NEW i \in 1 .. Len(text)
  PROVE  Taken(text, i)
<1>1. PICK l \in Nat : l = Len(text)
  OBVIOUS
<1>2. PICK rest \in Seq(Byte) : /\ rest = SubSeq(text, i, l) /\ Len(rest) = l - i + 1
                                /\ \A k \in 1 .. l - i + 1 : rest[k] = text[i + k - 1]
  <2>1. i \in 1 .. Len(text) + 1 /\ l \in i - 1 .. Len(text)
    BY <1>1
  <2>2. /\ SubSeq(text, i, l) \in Seq(Byte) /\ Len(SubSeq(text, i, l)) = l - i + 1
        /\ \A k \in 1 .. l - i + 1 : SubSeq(text, i, l)[k] = text[i + k - 1]
    BY <2>1, SubSeqFacts
  <2> QED
    BY <2>2
<1>3. ~ TooLarge(rest) /\ rest # << >>
  <2>1. rest # << >>
    <3>1. l - i + 1 # 0
      BY <1>1
    <3> QED
      BY <1>2, <3>1
  <2>2. ASSUME Len(rest) > 1 PROVE ~ Beyond(rest[1], rest[2])
    <3>1. i \in 1 .. l - 1 /\ 1 \in 1 .. l - i + 1 /\ 2 \in 1 .. l - i + 1
          /\ i + 1 - 1 = i /\ i + 2 - 1 = i + 1
      BY <1>1, <1>2, <2>2
    <3>2. rest[1] = text[i] /\ rest[2] = text[i + 1]
      BY <1>2, <3>1
    <3> QED
      BY <1>1, <3>1, <3>2 DEF InUnicode
  <2> QED
    BY <2>1, <2>2 DEF TooLarge
<1>4. ASSUME NEW n \in 1 .. 4, n <= Len(rest)
      PROVE  /\ SubSeq(rest, 1, n) = SubSeq(text, i, i + n - 1)
             /\ i + n - 1 <= l /\ SubSeq(rest, 1, n) \in Seq(Byte) /\ Len(SubSeq(rest, 1, n)) = n
  <2>1. /\ i \in 1 .. Len(text) + 1 /\ l \in i - 1 .. Len(text)
        /\ 1 \in 1 .. l - i + 2 /\ n \in 1 - 1 .. l - i + 1
        /\ i + 1 - 1 = i
    BY <1>1, <1>2, <1>4
  <2>2. SubSeq(SubSeq(text, i, l), 1, n) = SubSeq(text, i + 1 - 1, i + n - 1)
    BY <2>1, StretchOfStretch
  <2>3. i + n - 1 <= l /\ n \in Nat
    BY <1>1, <1>2, <1>4
  <2> QED
    BY <1>2, <1>4, <2>1, <2>2, <2>3, PrefixFacts
<1>5. CharacterAt(text, i) = {n \in 1 .. 4 : n <= Len(rest) /\ WellFormed(SubSeq(rest, 1, n))}
  <2>1. ASSUME NEW n \in 1 .. 4
        PROVE  i + n - 1 <= Len(text) <=> n <= Len(rest)
    BY <1>1, <1>2
  <2> QED
    BY <1>4, <2>1 DEF CharacterAt
<1>6. PICK d : d = Utf8Decode(rest)
  OBVIOUS
<1>7. CASE d = [used |-> 0, cp |-> 0] /\ CharacterAt(text, i) = {}
  <2>1. Length(text, i) = 1 /\ ShownAt(text, i) = QuestionMark /\ d.used = 0
    BY <1>7, Zenon DEF Length, ShownAt
  <2>2. 1 \in 1 .. 4 /\ i + 1 - 1 <= Len(text) /\ Replaced(d)
    BY <2>1 DEF Replaced
  <2> QED
    BY <1>1, <1>2, <1>6, <2>1, <2>2, QuestionMarkIs, Zenon DEF Taken
<1>8. CASE \E n \in 1 .. 4 :
              /\ n <= Len(rest) /\ CharacterAt(text, i) = {n}
              /\ WellFormed(SubSeq(rest, 1, n))
              /\ d = [used |-> n, cp |-> Codepoint(SubSeq(rest, 1, n))]
              /\ Codepoint(SubSeq(rest, 1, n)) \in Nat
              /\ n > 1 => Codepoint(SubSeq(rest, 1, n)) > 127
  <2>1. PICK n \in 1 .. 4 :
              /\ n <= Len(rest) /\ CharacterAt(text, i) = {n}
              /\ WellFormed(SubSeq(rest, 1, n))
              /\ d = [used |-> n, cp |-> Codepoint(SubSeq(rest, 1, n))]
              /\ Codepoint(SubSeq(rest, 1, n)) \in Nat
              /\ n > 1 => Codepoint(SubSeq(rest, 1, n)) > 127
    BY <1>8
  <2>2. PICK s : s = SubSeq(text, i, i + n - 1)
    OBVIOUS
  <2>3. s = SubSeq(rest, 1, n) /\ i + n - 1 <= l /\ s \in Seq(Byte) /\ Len(s) = n
    BY <1>4, <2>1, <2>2
  <2>4. Length(text, i) = n
    BY <2>1 DEF Length
  <2>5. d.used = n /\ n # 0 /\ d.cp = Codepoint(s)
    BY <2>1, <2>3
  <2>6. Codepoint(s) \in Nat /\ (n > 1 => Codepoint(s) > 127) /\ WellFormed(s)
    BY <2>1, <2>3
  <2>7. Replaced(d) <=> Control(s)
    <3>1. CASE n = 1
      <4>1. Codepoint(s) = s[1]
        BY <2>3, <3>1, CodepointIs, Zenon
      <4> QED
        BY <2>3, <2>5, <3>1, <4>1 DEF Replaced, Control
    <3>2. CASE n > 1
      <4>1. ~ Control(s)
        BY <2>3, <3>2 DEF Control
      <4>2. PICK c \in Nat : c = Codepoint(s) /\ c > 127
        BY <2>6, <3>2
      <4>3. ~ (c < 32) /\ c # 127
        BY <4>2
      <4> QED
        BY <2>5, <4>1, <4>2, <4>3 DEF Replaced
    <3> QED
      BY <3>1, <3>2
  <2>8. ShownAt(text, i) = IF Control(s) THEN QuestionMark ELSE s
    BY <2>1, <2>2, <2>4 DEF ShownAt
  <2>9. CodepointColumns(d.cp) = Columns(s)
    BY <2>5, <2>6, ColumnsRight
  <2>10. ShownAt(text, i) \in Character
    BY <2>3, <2>6, <2>8, QuestionMarkIs DEF Character
  <2> QED
    BY <1>1, <1>2, <1>6, <2>2, <2>3, <2>4, <2>5, <2>7, <2>8, <2>9, <2>10, Zenon DEF Taken
<1> QED
  <2>1. \/ /\ Utf8Decode(rest) = [used |-> 0, cp |-> 0]
           /\ \A n \in 1 .. 4 : n <= Len(rest) => ~ WellFormed(SubSeq(rest, 1, n))
        \/ \E n \in 1 .. 4 :
              /\ n <= Len(rest) /\ WellFormed(SubSeq(rest, 1, n))
              /\ \A m \in 1 .. 4 : m <= Len(rest) /\ WellFormed(SubSeq(rest, 1, m)) => m = n
              /\ Utf8Decode(rest) = [used |-> n, cp |-> Codepoint(SubSeq(rest, 1, n))]
              /\ Codepoint(SubSeq(rest, 1, n)) \in Nat
              /\ n > 1 => Codepoint(SubSeq(rest, 1, n)) > 127
    BY <1>3, DecodeRight
  <2>2. CASE /\ Utf8Decode(rest) = [used |-> 0, cp |-> 0]
             /\ \A n \in 1 .. 4 : n <= Len(rest) => ~ WellFormed(SubSeq(rest, 1, n))
    BY <1>5, <1>6, <1>7, <2>2
  <2>3. ASSUME NEW n \in 1 .. 4, n <= Len(rest), WellFormed(SubSeq(rest, 1, n)),
               \A m \in 1 .. 4 : m <= Len(rest) /\ WellFormed(SubSeq(rest, 1, m)) => m = n
        PROVE  CharacterAt(text, i) = {n}
    BY <1>5, <2>3
  <2> QED
    BY <1>6, <1>8, <2>1, <2>2, <2>3, Zenon

\* What follows from each place on: what is first there, and what follows from the next
\* place on.
Chains(f, l, first, next) ==
  \A i \in 1 .. l : f[i] = IF i = l THEN << >> ELSE first[i] \o f[next[i]]

LEMMA ChainExists ==
  ASSUME NEW S, NEW l \in Nat \ {0}, NEW first \in [1 .. l -> Seq(S)],
         NEW next \in [1 .. l -> Nat], \A i \in 1 .. l - 1 : next[i] \in i + 1 .. l
  PROVE  \E f \in [1 .. l -> Seq(S)] : Chains(f, l, first, next)
<1> DEFINE Link(f, i) == f[i] = IF i = l THEN << >> ELSE first[i] \o f[next[i]]
           T == {k \in Nat : k < l =>
                   \E f \in [1 .. l -> Seq(S)] : \A i \in l - k .. l : Link(f, i)}
<1>1. 0 \in T
  <2>1. [i \in 1 .. l |-> << >>] \in [1 .. l -> Seq(S)]
    OBVIOUS
  <2>2. \A i \in l - 0 .. l : Link([m \in 1 .. l |-> << >>], i)
    OBVIOUS
  <2> QED
    BY <2>1, <2>2
<1>2. ASSUME NEW k \in T PROVE k + 1 \in T
  <2>1. k \in Nat /\ k + 1 \in Nat
    OBVIOUS
  <2>2. CASE k + 1 < l
    <3>1. k < l
      BY <2>1, <2>2
    <3>2. PICK g \in [1 .. l -> Seq(S)] : \A i \in l - k .. l : Link(g, i)
      <4> HIDE DEF Link
      <4> QED
        BY <3>1
    <3>3. PICK j \in 1 .. l - 1 : j = l - (k + 1)
      BY <2>1, <2>2
    <3>4. PICK n \in j + 1 .. l : n = next[j]
      OBVIOUS
    <3>5. n \in 1 .. l /\ j \in 1 .. l /\ first[j] \o g[n] \in Seq(S)
      <4>1. n \in 1 .. l /\ j \in 1 .. l
        OBVIOUS
      <4>2. first[j] \in Seq(S) /\ g[n] \in Seq(S)
        BY <4>1
      <4> QED
        BY <4>1, <4>2, ConcatFacts
    <3>6. PICK f \in [1 .. l -> Seq(S)] :
            f[j] = first[j] \o g[n] /\ \A i \in 1 .. l : i # j => f[i] = g[i]
      <4>1. PICK entry \in Seq(S) : entry = first[j] \o g[n]
        BY <3>5
      <4>2. [g EXCEPT ![j] = entry] \in [1 .. l -> Seq(S)]
        BY <3>5
      <4>3. /\ [g EXCEPT ![j] = entry][j] = entry
            /\ \A i \in 1 .. l : i # j => [g EXCEPT ![j] = entry][i] = g[i]
        BY <3>5
      <4> QED
        BY <4>1, <4>2, <4>3
    <3>7. ASSUME NEW i \in l - (k + 1) .. l PROVE Link(f, i)
      <4>1. CASE i = j
        <5>1. n # j /\ i # l
          <6>1. j \notin j + 1 .. l /\ l \notin 1 .. l - 1
            OBVIOUS
          <6> QED
            BY <4>1, <6>1, Zenon
        <5>2. f[n] = g[n]
          BY <3>5, <3>6, <5>1
        <5> QED
          BY <3>4, <3>6, <4>1, <5>1, <5>2
      <4>2. CASE i # j
        <5>1. i \in l - k .. l /\ i \in 1 .. l
          BY <2>1, <3>3, <4>2
        <5>2. Link(g, i) /\ f[i] = g[i]
          BY <3>2, <3>6, <4>2, <5>1
        <5>3. i # l => f[next[i]] = g[next[i]]
          <6>1. SUFFICES ASSUME i # l PROVE f[next[i]] = g[next[i]]
            OBVIOUS
          <6>2. i \in 1 .. l - 1
            BY <5>1, <6>1
          <6>3. next[i] \in i + 1 .. l
            BY <6>2
          <6>4. PICK n2 \in i + 1 .. l : n2 = next[i]
            BY <6>3
          <6>5. n2 \in 1 .. l /\ n2 # j
            BY <2>1, <3>3, <5>1
          <6> QED
            BY <3>6, <6>4, <6>5
        <5> QED
          BY <5>2, <5>3
      <4> QED
        BY <4>1, <4>2
    <3> QED
      BY <2>1, <3>7
  <2>3. CASE ~ (k + 1 < l)
    BY <2>1, <2>3
  <2> QED
    BY <2>2, <2>3
<1>3. T \in SUBSET Nat
  OBVIOUS
<1> HIDE DEF T
<1>4. T = Nat
  BY <1>1, <1>2, <1>3, SetInduction
<1>5. l - 1 \in T /\ l - 1 < l /\ l - (l - 1) = 1
  BY <1>4
<1>6. PICK f \in [1 .. l -> Seq(S)] : \A i \in 1 .. l : Link(f, i)
  BY <1>5 DEF T
<1> QED
  BY <1>6 DEF Chains

LEMMA ChainType ==
  ASSUME NEW S, NEW l \in Nat \ {0}, NEW first \in [1 .. l -> Seq(S)],
         NEW next \in [1 .. l -> Nat], \A i \in 1 .. l - 1 : next[i] \in i + 1 .. l,
         NEW f, Chains(f, l, first, next)
  PROVE  \A i \in 1 .. l : f[i] \in Seq(S)
<1> DEFINE T == {k \in Nat : \A i \in 1 .. l : i >= l - k => f[i] \in Seq(S)}
<1>1. 0 \in T
  <2>1. \A i \in 1 .. l : i >= l - 0 => i = l
    OBVIOUS
  <2>2. f[l] = << >> /\ << >> \in Seq(S)
    BY DEF Chains
  <2> QED
    BY <2>1, <2>2
<1>2. ASSUME NEW k \in T PROVE k + 1 \in T
  <2>1. k \in Nat /\ k + 1 \in Nat
    OBVIOUS
  <2>2. ASSUME NEW i \in 1 .. l, i >= l - (k + 1) PROVE f[i] \in Seq(S)
    <3>1. CASE i = l
      BY <3>1 DEF Chains
    <3>2. CASE i # l
      <4>1. i \in 1 .. l - 1
        BY <3>2
      <4>2. next[i] \in i + 1 .. l
        BY <4>1
      <4>3. next[i] \in 1 .. l /\ next[i] >= l - k
        <5>1. PICK m \in i + 1 .. l : m = next[i]
          BY <4>2
        <5>2. m \in 1 .. l /\ m >= l - k
          BY <2>1, <2>2, <4>1
        <5> QED
          BY <5>1, <5>2
      <4>4. f[next[i]] \in Seq(S) /\ first[i] \in Seq(S)
        BY <4>3
      <4>5. first[i] \o f[next[i]] \in Seq(S)
        BY <4>4, ConcatFacts
      <4> QED
        BY <3>2, <4>5 DEF Chains
    <3> QED
      BY <3>1, <3>2
  <2> QED
    BY <2>1, <2>2
<1>3. T \in SUBSET Nat
  OBVIOUS
<1> HIDE DEF T
<1>4. T = Nat
  BY <1>1, <1>2, <1>3, SetInduction
<1>5. l \in T /\ \A i \in 1 .. l : i >= l - l
  BY <1>4
<1> QED
  BY <1>5 DEF T

\* A character takes what it takes within the text.
LEMMA LengthIs ==
  ASSUME NEW text \in Seq(Byte), NEW i \in 1 .. Len(text)
  PROVE  /\ Length(text, i) \in 1 .. 4 /\ i + Length(text, i) - 1 <= Len(text)
         /\ ShownAt(text, i) \in Character
<1>1. CASE CharacterAt(text, i) = {}
  <2>1. Length(text, i) = 1 /\ ShownAt(text, i) = QuestionMark
    BY <1>1, Zenon DEF Length, ShownAt
  <2>2. i + 1 - 1 <= Len(text)
    OBVIOUS
  <2> QED
    BY <2>1, <2>2, QuestionMarkIs
<1>2. CASE CharacterAt(text, i) # {}
  <2>1. PICK n : n = Length(text, i)
    OBVIOUS
  <2>2. n \in CharacterAt(text, i)
    BY <1>2, <2>1 DEF Length
  <2>3. n \in 1 .. 4 /\ i + n - 1 <= Len(text) /\ WellFormed(SubSeq(text, i, i + n - 1))
    BY <2>2 DEF CharacterAt
  <2>4. SubSeq(text, i, i + n - 1) \in Seq(Byte)
    BY <2>3, SubSeqFacts
  <2>5. ShownAt(text, i) = IF Control(SubSeq(text, i, i + n - 1)) THEN QuestionMark
                           ELSE SubSeq(text, i, i + n - 1)
    BY <1>2, <2>1, Zenon DEF ShownAt
  <2>6. ShownAt(text, i) \in Character
    BY <2>3, <2>4, <2>5, QuestionMarkIs DEF Character
  <2> QED
    BY <2>1, <2>3, <2>6
<1> QED
  BY <1>1, <1>2

\* ShownFrom is what its equation says.
LEMMA ShownFromIs ==
  ASSUME NEW text \in Seq(Byte)
  PROVE  /\ ShownFrom(text)[Len(text) + 1] = << >>
         /\ \A i \in 1 .. Len(text) + 1 : ShownFrom(text)[i] \in Seq(Character)
         /\ \A i \in 1 .. Len(text) :
              ShownFrom(text)[i] = <<ShownAt(text, i)>> \o ShownFrom(text)[i + Length(text, i)]
<1>1. PICK l \in Nat \ {0} : l = Len(text) + 1
  OBVIOUS
<1> DEFINE first == [i \in 1 .. l |-> IF i = l THEN << >> ELSE <<ShownAt(text, i)>>]
           next  == [i \in 1 .. l |-> IF i = l THEN l ELSE i + Length(text, i)]
<1>2. ASSUME NEW i \in 1 .. l - 1
      PROVE  Length(text, i) \in 1 .. 4 /\ i + Length(text, i) \in i + 1 .. l
             /\ ShownAt(text, i) \in Character
  <2>1. i \in 1 .. Len(text)
    BY <1>1
  <2>3. Length(text, i) \in 1 .. 4 /\ i + Length(text, i) - 1 <= Len(text)
        /\ ShownAt(text, i) \in Character
    BY <2>1, LengthIs
  <2>4. PICK n \in 1 .. 4 : n = Length(text, i) /\ i + n - 1 <= Len(text)
    BY <2>3
  <2>5. i + n \in i + 1 .. l
    <3>1. PICK k \in Nat : k = Len(text)
      OBVIOUS
    <3>2. i + n - 1 <= k /\ l = k + 1
      BY <1>1, <2>4, <3>1
    <3> QED
      BY <3>2
  <2> QED
    BY <2>3, <2>4, <2>5
<1>3. first \in [1 .. l -> Seq(Character)] /\ next \in [1 .. l -> Nat]
      /\ \A i \in 1 .. l - 1 : next[i] \in i + 1 .. l
  <2>1. ASSUME NEW i \in 1 .. l PROVE first[i] \in Seq(Character) /\ next[i] \in Nat
    <3>1. CASE i = l
      BY <3>1
    <3>2. CASE i # l
      <4>1. i \in 1 .. l - 1
        BY <3>2
      <4>2. ShownAt(text, i) \in Character /\ i + Length(text, i) \in i + 1 .. l
        BY <1>2, <4>1
      <4> QED
        BY <3>2, <4>2
    <3> QED
      BY <3>1, <3>2
  <2>2. ASSUME NEW i \in 1 .. l - 1 PROVE next[i] \in i + 1 .. l
    BY <1>2
  <2> QED
    BY <2>1, <2>2
<1>4. ASSUME NEW f
      PROVE  Chains(f, l, first, next)
               <=> \A i \in 1 .. l : f[i] = IF i = l THEN << >>
                                            ELSE <<ShownAt(text, i)>> \o f[i + Length(text, i)]
  BY DEF Chains
<1> HIDE DEF first, next
<1>5. PICK g \in [1 .. l -> Seq(Character)] : Chains(g, l, first, next)
  BY <1>3, ChainExists
<1> DEFINE From(f, i) == IF i > Len(text) THEN << >>
                         ELSE IF CharacterAt(text, i) = {} THEN <<QuestionMark>> \o f[i + 1]
                         ELSE LET n == CHOOSE n \in CharacterAt(text, i) : TRUE
                                  s == SubSeq(text, i, i + n - 1)
                              IN  <<IF Control(s) THEN QuestionMark ELSE s>> \o f[i + n]
<1>6. ASSUME NEW f, NEW i \in 1 .. l
      PROVE  From(f, i) = IF i = l THEN << >> ELSE <<ShownAt(text, i)>> \o f[i + Length(text, i)]
  <2>1. i > Len(text) <=> i = l
    BY <1>1
  <2>2. CASE CharacterAt(text, i) = {}
    BY <2>1, <2>2, Zenon DEF ShownAt, Length
  <2>3. CASE CharacterAt(text, i) # {}
    <3>1. PICK n : n = CHOOSE m \in CharacterAt(text, i) : TRUE
      OBVIOUS
    <3>2. PICK s : s = SubSeq(text, i, i + n - 1)
      OBVIOUS
    <3>3. Length(text, i) = n
      BY <2>3, <3>1, Zenon DEF Length
    <3>4. ShownAt(text, i) = IF Control(s) THEN QuestionMark ELSE s
      BY <2>3, <3>2, <3>3, Zenon DEF ShownAt
    <3>5. From(f, i) = IF i > Len(text) THEN << >>
                       ELSE <<IF Control(s) THEN QuestionMark ELSE s>> \o f[i + n]
      BY <2>3, <3>1, <3>2
    <3> QED
      BY <2>1, <3>3, <3>4, <3>5, Zenon
  <2> QED
    BY <2>2, <2>3
<1>7. ShownFrom(text) = CHOOSE f : f = [i \in 1 .. Len(text) + 1 |-> From(f, i)]
  BY Zenon DEF ShownFrom
<1> HIDE DEF From
<1>8. g = [i \in 1 .. Len(text) + 1 |-> From(g, i)]
  <2>1. \A i \in 1 .. l : g[i] = From(g, i)
    BY <1>4, <1>5, <1>6
  <2> QED
    BY <1>1, <2>1
<1>9. PICK f : f = ShownFrom(text)
  OBVIOUS
<1>10. f = [i \in 1 .. Len(text) + 1 |-> From(f, i)]
  BY <1>7, <1>8, <1>9, Zenon
<1>11. \A i \in 1 .. l : f[i] = IF i = l THEN << >>
                                ELSE <<ShownAt(text, i)>> \o f[i + Length(text, i)]
  BY <1>1, <1>6, <1>10
<1>12. Chains(f, l, first, next)
  BY <1>4, <1>11
<1>13. \A i \in 1 .. l : f[i] \in Seq(Character)
  BY <1>3, <1>12, ChainType
<1>14. \A i \in 1 .. Len(text) : i \in 1 .. l /\ i # l
  BY <1>1
<1>15. l \in 1 .. l
  BY <1>1
<1> QED
  BY <1>1, <1>9, <1>11, <1>13, <1>14, <1>15

-----------------------------------------------------------------------------
(* The columns of characters.                                              *)

\* f has the columns of the beginnings of q.
Sums(f, q) == f[0] = 0 /\ \A i \in 1 .. Len(q) : f[i] = f[i - 1] + Columns(q[i])

LEMMA ColumnsType == \A s : Columns(s) \in {0, 1, 2}
  BY DEF Columns

LEMMA SumExists ==
  ASSUME NEW S, NEW q \in Seq(S)
  PROVE  \E f \in [0 .. Len(q) -> Nat] : Sums(f, q)
<1> DEFINE step == [x \in Nat \X S |-> x[1] + Columns(x[2])]
<1>1. step \in [Nat \X S -> Nat]
  BY ColumnsType
<1>2. PICK f \in [0 .. Len(q) -> Nat] : Folds(f, q, 0, step)
  BY <1>1, FoldExists
<1>3. ASSUME NEW i \in 1 .. Len(q) PROVE f[i] = f[i - 1] + Columns(q[i])
  <2>1. i - 1 \in 0 .. Len(q) /\ q[i] \in S
    OBVIOUS
  <2>2. f[i] = step[<<f[i - 1], q[i]>>] /\ <<f[i - 1], q[i]>> \in Nat \X S
    BY <1>2, <2>1 DEF Folds
  <2> QED
    BY <2>2
<1> QED
  BY <1>2, <1>3 DEF Sums, Folds

LEMMA SumsAgree ==
  ASSUME NEW q, NEW r, NEW f, NEW g, Sums(f, q), Sums(g, r),
         NEW k \in Nat, k <= Len(q), k <= Len(r), Len(q) \in Nat, Len(r) \in Nat,
         \A i \in 1 .. k : q[i] = r[i]
  PROVE  f[k] = g[k]
<1> DEFINE T == {n \in Nat : n <= k => f[n] = g[n]}
<1>1. 0 \in T
  BY DEF Sums
<1>2. ASSUME NEW n \in T PROVE n + 1 \in T
  <2>1. n \in Nat /\ (n + 1) - 1 = n
    OBVIOUS
  <2>2. CASE n + 1 <= k
    <3>1. n + 1 \in 1 .. Len(q) /\ n + 1 \in 1 .. Len(r) /\ n + 1 \in 1 .. k /\ n <= k
      BY <2>1, <2>2
    <3>2. f[n] = g[n]
      BY <3>1
    <3>3. f[n + 1] = f[(n + 1) - 1] + Columns(q[n + 1])
      BY <3>1 DEF Sums
    <3>4. g[n + 1] = g[(n + 1) - 1] + Columns(r[n + 1])
      BY <3>1 DEF Sums
    <3>5. q[n + 1] = r[n + 1]
      BY <3>1
    <3>6. f[n + 1] = g[n + 1]
      BY <2>1, <3>2, <3>3, <3>4, <3>5, Zenon
    <3> QED
      BY <2>1, <3>6
  <2>3. CASE ~ (n + 1 <= k)
    BY <2>1, <2>3
  <2> QED
    BY <2>2, <2>3
<1>3. T \in SUBSET Nat
  OBVIOUS
<1> HIDE DEF T
<1>4. k \in T
  BY <1>1, <1>2, <1>3, SetInduction
<1> QED
  BY <1>4 DEF T

LEMMA TotalIs ==
  ASSUME NEW S, NEW q \in Seq(S), NEW f, Sums(f, q)
  PROVE  TotalColumns(q) = f[Len(q)]
<1>1. PICK l \in Nat : l = Len(q)
  OBVIOUS
<1>2. PICK g \in [0 .. l -> Nat] : Sums(g, q)
  BY <1>1, SumExists
<1>3. ASSUME NEW n \in 0 .. l PROVE g[n] = IF n = 0 THEN 0 ELSE g[n - 1] + Columns(q[n])
  <2>1. CASE n = 0
    BY <1>2, <2>1 DEF Sums
  <2>2. CASE n # 0
    <3>1. n \in 1 .. Len(q)
      BY <1>1, <2>2
    <3> QED
      BY <1>2, <2>2, <3>1 DEF Sums
  <2> QED
    BY <2>1, <2>2
<1>4. g = [n \in 0 .. l |-> IF n = 0 THEN 0 ELSE g[n - 1] + Columns(q[n])]
  BY <1>3
<1>5. PICK h : h = CHOOSE c : c = [n \in 0 .. l |-> IF n = 0 THEN 0 ELSE c[n - 1] + Columns(q[n])]
  OBVIOUS
<1>6. h = [n \in 0 .. l |-> IF n = 0 THEN 0 ELSE h[n - 1] + Columns(q[n])]
  BY <1>4, <1>5, Zenon
<1>7. TotalColumns(q) = h[l]
  BY <1>1, <1>5, Zenon DEF TotalColumns
<1>8. Sums(h, q)
  <2>1. \A n \in 0 .. l : h[n] = IF n = 0 THEN 0 ELSE h[n - 1] + Columns(q[n])
    BY <1>6
  <2>2. 0 \in 0 .. l /\ \A n \in 1 .. Len(q) : n \in 0 .. l /\ n # 0
    BY <1>1
  <2> QED
    BY <2>1, <2>2 DEF Sums
<1>9. l <= Len(q) /\ Len(q) \in Nat /\ \A i \in 1 .. l : q[i] = q[i]
  BY <1>1
<1>10. h[l] = f[l]
  BY <1>8, <1>9, SumsAgree
<1> QED
  BY <1>1, <1>7, <1>10

LEMMA TotalType ==
  ASSUME NEW S, NEW q \in Seq(S) PROVE TotalColumns(q) \in Nat
<1>1. PICK f \in [0 .. Len(q) -> Nat] : Sums(f, q)
  BY SumExists
<1>2. TotalColumns(q) = f[Len(q)] /\ Len(q) \in 0 .. Len(q)
  BY <1>1, TotalIs
<1> QED
  BY <1>2

LEMMA TotalEmpty == TotalColumns(<< >>) = 0
<1>1. << >> \in Seq({}) /\ Len(<< >>) = 0
  OBVIOUS
<1>2. PICK f \in [0 .. Len(<< >>) -> Nat] : Sums(f, << >>)
  BY <1>1, SumExists
<1>3. TotalColumns(<< >>) = f[Len(<< >>)]
  BY <1>1, <1>2, TotalIs
<1> QED
  BY <1>1, <1>2, <1>3 DEF Sums

LEMMA TotalAppend ==
  ASSUME NEW S, NEW q \in Seq(S), NEW e \in S
  PROVE  TotalColumns(Append(q, e)) = TotalColumns(q) + Columns(e)
<1>1. PICK l \in Nat : l = Len(q)
  OBVIOUS
<1>2. PICK r \in Seq(S) : /\ r = Append(q, e) /\ Len(r) = l + 1
                          /\ \A i \in 1 .. l : r[i] = q[i]
                          /\ r[l + 1] = e
  BY <1>1, AppendFacts
<1>3. PICK f \in [0 .. Len(r) -> Nat] : Sums(f, r)
  BY SumExists
<1>4. TotalColumns(r) = f[l + 1]
  BY <1>2, <1>3, TotalIs
<1>5. f[l + 1] = f[l] + Columns(e)
  <2>1. l + 1 \in 1 .. Len(r) /\ (l + 1) - 1 = l
    BY <1>1, <1>2
  <2>2. f[l + 1] = f[(l + 1) - 1] + Columns(r[l + 1])
    BY <1>3, <2>1 DEF Sums
  <2> QED
    BY <1>2, <2>1, <2>2
<1>6. Sums(f, q)
  <2>1. \A i \in 1 .. l : i \in 1 .. Len(r)
    BY <1>1, <1>2
  <2> QED
    BY <1>1, <1>2, <1>3, <2>1 DEF Sums
<1>7. TotalColumns(q) = f[l]
  BY <1>1, <1>6, TotalIs
<1> QED
  BY <1>2, <1>4, <1>5, <1>7

-----------------------------------------------------------------------------
(* What yc_term_row_puts draws.                                            *)

\* A row, and a place in a text with a row.
Rows == [bytes : Seq(Nat), cols : Nat]

Cursors(text) == [i : 1 .. Len(text) + 1, row : Rows]

LEMMA CharacterFacts ==
  ASSUME NEW c \in Character
  PROVE  c \in Seq(Nat) /\ Len(c) \in 1 .. 4 /\ c # << >>
<1>1. c \in Seq(Nat)
  <2>1. c \in Seq(Byte)
    BY DEF Character
  <2>2. PICK l \in Nat : l = Len(c)
    BY <2>1
  <2>3. \A k \in 1 .. l : c[k] \in Nat
    <3>1. \A k \in 1 .. l : c[k] \in Byte
      BY <2>1, <2>2
    <3>2. \A b \in Byte : b \in Nat
      BY DEF Byte
    <3> QED
      BY <3>1, <3>2
  <2>4. c = [k \in 1 .. l |-> c[k]]
    BY <2>1, <2>2
  <2> QED
    BY <2>3, <2>4
<1>2. Len(c) = 1 \/ Len(c) = 2 \/ Len(c) = 3 \/ Len(c) = 4
  BY Zenon DEF Character, WellFormed
<1>3. Len(c) \in 1 .. 4
  BY <1>2
<1>4. c # << >>
  <2>1. Len(c) # 0
    BY <1>2
  <2> QED
    BY <2>1
<1> QED
  BY <1>1, <1>3, <1>4

LEMMA PutCharIs ==
  ASSUME NEW row \in Rows, NEW c \in Character
  PROVE  LET next == PutChar(row, c, Columns(c))
         IN  /\ next \in Rows
             /\ \/ next = row /\ (row.cols >= width \/ row.cols + Columns(c) > width)
                \/ /\ next # row /\ ~ (row.cols >= width) /\ ~ (row.cols + Columns(c) > width)
                   /\ next = [bytes |-> row.bytes \o c, cols |-> row.cols + Columns(c)]
<1>1. CASE row.cols >= width \/ row.cols + Columns(c) > width
  BY <1>1 DEF PutChar
<1>2. CASE ~ (row.cols >= width) /\ ~ (row.cols + Columns(c) > width)
  <2>1. PICK next : next = [bytes |-> row.bytes \o c, cols |-> row.cols + Columns(c)]
    OBVIOUS
  <2>2. PutChar(row, c, Columns(c)) = next
    BY <1>2, <2>1, Zenon DEF PutChar
  <2>3. row.bytes \in Seq(Nat) /\ row.cols \in Nat /\ c \in Seq(Nat) /\ Len(c) \in 1 .. 4
    BY CharacterFacts DEF Rows
  <2>4. row.bytes \o c \in Seq(Nat) /\ Len(row.bytes \o c) = Len(row.bytes) + Len(c)
    BY <2>3, ConcatFacts
  <2>5. next \in Rows
    <3>1. Columns(c) \in Nat
      BY ColumnsType
    <3>2. row.cols + Columns(c) \in Nat
      BY <2>3, <3>1
    <3> QED
      BY <2>1, <2>4, <3>2 DEF Rows
  <2>6. next # row
    <3>1. Len(row.bytes) + Len(c) # Len(row.bytes)
      <4>1. PICK m \in Nat, n \in 1 .. 4 : m = Len(row.bytes) /\ n = Len(c)
        BY <2>3
      <4>2. m + n # m
        OBVIOUS
      <4> QED
        BY <4>1, <4>2
    <3>2. next.bytes # row.bytes
      BY <2>1, <2>4, <3>1
    <3> QED
      BY <3>2
  <2> QED
    BY <1>2, <2>1, <2>2, <2>5, <2>6
<1> QED
  BY <1>1, <1>2

\* A round draws the character there, or ends the loop.
LEMMA PutNextIs ==
  ASSUME NEW text \in Seq(Byte), InUnicode(text), NEW s \in Cursors(text)
  PROVE  LET c    == ShownAt(text, s.i)
             next == PutChar(s.row, c, Columns(c))
         IN  /\ PutNext(text, s) \in Cursors(text)
             /\ s.i > Len(text) => PutNext(text, s) = s
             /\ ~ (s.i > Len(text)) =>
                  PutNext(text, s) =
                    [i |-> IF next = s.row THEN Len(text) + 1 ELSE s.i + Length(text, s.i),
                     row |-> next]
<1>1. PICK l \in Nat : l = Len(text)
  OBVIOUS
<1>2. PICK i \in 1 .. l + 1, row \in Rows : i = s.i /\ row = s.row
  BY <1>1 DEF Cursors
<1>3. CASE i > l
  BY <1>1, <1>2, <1>3 DEF PutNext
<1>4. CASE ~ (i > l)
  <2>1. i \in 1 .. Len(text)
    BY <1>1, <1>4
  <2>2. Taken(text, i)
    BY <2>1, CharacterTaken
  <2>3. PICK d : d = Utf8Decode(SubSeq(text, i, Len(text)))
    OBVIOUS
  <2>4. PICK n : n = Length(text, i)
    OBVIOUS
  <2>5. /\ n \in 1 .. 4 /\ i + n - 1 <= Len(text)
        /\ (IF d.used = 0 THEN 1 ELSE d.used) = n
        /\ Replaced(d) => ShownAt(text, i) = QuestionMark
        /\ ~ Replaced(d) => /\ ShownAt(text, i) = SubSeq(text, i, i + n - 1)
                            /\ CodepointColumns(d.cp) = Columns(SubSeq(text, i, i + n - 1))
        /\ ShownAt(text, i) \in Character
    BY <2>2, <2>3, <2>4, Zenon DEF Taken
  <2>6. PICK next : next = PutChar(row, ShownAt(text, i), Columns(ShownAt(text, i)))
    OBVIOUS
  <2>7. next = IF Replaced(d) THEN PutChar(row, QuestionMark, 1)
               ELSE PutChar(row, SubSeq(text, i, i + n - 1), CodepointColumns(d.cp))
    <3>1. Columns(QuestionMark) = 1
      BY QuestionMarkIs
    <3>2. CASE Replaced(d)
      BY <2>5, <2>6, <3>1, <3>2, Zenon
    <3>3. CASE ~ Replaced(d)
      BY <2>5, <2>6, <3>3, Zenon
    <3> QED
      BY <3>2, <3>3
  <2>8. PutNext(text, s) = [i |-> IF next = row THEN Len(text) + 1 ELSE i + n, row |-> next]
    BY <1>1, <1>2, <1>4, <2>3, <2>5, <2>7, Zenon DEF PutNext
  <2>9. next \in Rows
    BY <2>5, <2>6, PutCharIs
  <2>10. i + n \in 1 .. l + 1 /\ l + 1 \in 1 .. l + 1
    <3>1. i + n - 1 <= l
      BY <1>1, <2>5
    <3>2. PICK m \in 1 .. 4 : m = n
      BY <2>5
    <3> QED
      BY <3>1, <3>2
  <2>11. PutNext(text, s) \in Cursors(text)
    BY <1>1, <2>8, <2>9, <2>10 DEF Cursors
  <2> QED
    BY <1>1, <1>2, <1>4, <2>4, <2>6, <2>8, <2>11, Zenon
<1> QED
  BY <1>3, <1>4

\* The rounds of yc_term_row_puts.
Rounds(row, text, f) ==
  /\ f[0] = [i |-> 1, row |-> row] /\ Puts(row, text) = f[Len(text)].row
  /\ \A k \in Nat : f[k + 1] = PutNext(text, f[k])

LEMMA PutsIs ==
  ASSUME NEW text \in Seq(Byte), InUnicode(text), NEW row \in Rows
  PROVE  \E f \in [Nat -> Cursors(text)] : Rounds(row, text, f)
<1>1. PICK l \in Nat : l = Len(text)
  OBVIOUS
<1> DEFINE step == [x \in Nat \X Cursors(text) |-> PutNext(text, x[2])]
           start == [i |-> 1, row |-> row]
<1>2. step \in [Nat \X Cursors(text) -> Cursors(text)]
  <2>1. \A x \in Nat \X Cursors(text) : PutNext(text, x[2]) \in Cursors(text)
    BY PutNextIs
  <2> QED
    BY <2>1
<1>3. start \in Cursors(text)
  <2>1. 1 \in 1 .. Len(text) + 1
    BY <1>1
  <2> QED
    BY <2>1 DEF Cursors
<1>4. PICK f \in [Nat -> Cursors(text)] : Iterates(f, start, step)
  <2> HIDE DEF start, step
  <2> QED
    BY <1>2, <1>3, RecursionExists
<1>5. f[0] = start /\ \A k \in Nat : f[k + 1] = PutNext(text, f[k])
  <2>1. \A k \in Nat : <<k, f[k]>> \in Nat \X Cursors(text)
    OBVIOUS
  <2> HIDE DEF start
  <2> QED
    BY <1>4, <2>1 DEF Iterates
<1> HIDE DEF start, step
<1> DEFINE g == [k \in 0 .. l |-> f[k]]
<1>6. ASSUME NEW k \in 0 .. l PROVE g[k] = IF k = 0 THEN start ELSE PutNext(text, g[k - 1])
  <2>1. CASE k = 0
    BY <1>1, <1>5, <2>1
  <2>2. CASE k # 0
    <3>1. k - 1 \in 0 .. l /\ k - 1 \in Nat /\ (k - 1) + 1 = k
      BY <1>1, <2>2
    <3>2. f[(k - 1) + 1] = PutNext(text, f[k - 1])
      BY <1>5, <3>1
    <3>3. g[k] = f[k] /\ g[k - 1] = f[k - 1]
      BY <3>1
    <3> QED
      BY <2>2, <3>1, <3>2, <3>3
  <2> QED
    BY <2>1, <2>2
<1>7. g = [k \in 0 .. l |-> g[k]]
  OBVIOUS
<1> HIDE DEF g
<1>8. g = [k \in 0 .. l |-> IF k = 0 THEN start ELSE PutNext(text, g[k - 1])]
  BY <1>6, <1>7
<1>9. PICK h :
        h = CHOOSE c : c = [k \in 0 .. l |-> IF k = 0 THEN start ELSE PutNext(text, c[k - 1])]
  OBVIOUS
<1>10. h = [k \in 0 .. l |-> IF k = 0 THEN start ELSE PutNext(text, h[k - 1])]
  BY <1>8, <1>9, Zenon
<1>11. Puts(row, text) = h[l].row
  BY <1>1, <1>9, Zenon DEF Puts, start
<1>12. \A k \in 0 .. l : h[k] = IF k = 0 THEN start ELSE PutNext(text, h[k - 1])
  BY <1>10
<1> DEFINE T == {k \in Nat : k <= l => h[k] = f[k]}
<1>13. 0 \in T
  <2>1. 0 \in 0 .. l
    BY <1>1
  <2> QED
    BY <1>5, <1>12, <2>1
<1>14. ASSUME NEW k \in T PROVE k + 1 \in T
  <2>1. k \in Nat /\ k + 1 \in Nat /\ (k + 1) - 1 = k /\ k + 1 # 0
    OBVIOUS
  <2>2. CASE k + 1 <= l
    <3>1. k + 1 \in 0 .. l /\ k <= l
      BY <1>1, <2>1, <2>2
    <3>2. h[k] = f[k]
      BY <3>1
    <3>3. h[k + 1] = PutNext(text, h[(k + 1) - 1])
      BY <1>12, <2>1, <3>1
    <3>4. h[k + 1] = f[k + 1]
      BY <1>5, <2>1, <3>2, <3>3
    <3> QED
      BY <2>1, <3>4
  <2>3. CASE ~ (k + 1 <= l)
    BY <2>1, <2>3
  <2> QED
    BY <2>2, <2>3
<1>15. T \in SUBSET Nat
  OBVIOUS
<1> HIDE DEF T
<1>16. l \in T
  BY <1>13, <1>14, <1>15, SetInduction
<1>17. h[l] = f[l]
  BY <1>16 DEF T
<1> QED
  BY <1>1, <1>5, <1>11, <1>17 DEF start, Rounds

\* row with these characters behind what it has.
With(row, done) ==
  [bytes |-> row.bytes \o FlattenSeq(done), cols |-> row.cols + TotalColumns(done)]

\* No room for c, where w columns are.
NoRoom(w, row, c) == row.cols >= w \/ row.cols + Columns(c) > w

LEMMA CharactersFlat ==
  ASSUME NEW q \in Seq(Character) PROVE q \in Seq(Seq(Nat)) /\ FlattenSeq(q) \in Seq(Nat)
<1>1. \A c \in Character : c \in Seq(Nat)
  BY CharacterFacts
<1>2. q \in Seq(Seq(Nat))
  <2>1. Character \subseteq Seq(Nat)
    BY <1>1
  <2> HIDE DEF Character
  <2> QED
    BY <2>1
<1> QED
  BY <1>2, FlattenType

LEMMA ItemsAssoc ==
  \A s, t, u \in Seq(Nat) : (s \o t) \o u = s \o (t \o u)
<1> TAKE s, t, u \in Seq(Nat)
<1>1. Associates(s, t, u)
  BY ConcatAssociates
<1> QED
  BY <1>1 DEF Associates

LEMMA ItemsAppend ==
  ASSUME NEW b \in Seq(Nat), NEW u \in Seq(Nat), NEW e \in Nat
  PROVE  b \o Append(u, e) = Append(b \o u, e) /\ b \o u \in Seq(Nat)
<1>1. b \o Append(u, e) = Append(b \o u, e)
  BY ConcatAppend
<1>2. b \o u \in Seq(Nat)
  BY ConcatFacts
<1> QED
  BY <1>1, <1>2

LEMMA CharactersAssoc ==
  \A s, t, u \in Seq(Character) : (s \o t) \o u = s \o (t \o u)
<1> TAKE s, t, u \in Seq(Character)
<1>1. Associates(s, t, u)
  BY ConcatAssociates
<1> QED
  BY <1>1 DEF Associates

LEMMA WithOne ==
  ASSUME NEW row \in Rows, NEW done \in Seq(Character), NEW c \in Character
  PROVE  /\ With(row, done) \in Rows
         /\ With(row, Append(done, c)) =
              [bytes |-> With(row, done).bytes \o c, cols |-> With(row, done).cols + Columns(c)]
<1>1. /\ done \in Seq(Seq(Nat)) /\ c \in Seq(Nat) /\ FlattenSeq(done) \in Seq(Nat)
      /\ row.bytes \in Seq(Nat) /\ row.cols \in Nat
  BY CharactersFlat, CharacterFacts DEF Rows
<1>2. FlattenSeq(Append(done, c)) = FlattenSeq(done) \o c
  BY <1>1, FlattenAppend
<1>3. (row.bytes \o FlattenSeq(done)) \o c = row.bytes \o (FlattenSeq(done) \o c)
  <2>1. PICK b \in Seq(Nat), d \in Seq(Nat) : b = row.bytes /\ d = FlattenSeq(done)
    BY <1>1
  <2>2. c \in Seq(Nat)
    BY <1>1
  <2>3. (b \o d) \o c = b \o (d \o c)
    BY <2>2, ItemsAssoc, Zenon
  <2> QED
    BY <2>1, <2>3
<1>4. TotalColumns(Append(done, c)) = TotalColumns(done) + Columns(c)
  BY TotalAppend
<1>5. PICK t \in Nat : t = TotalColumns(done)
  BY TotalType
<1>6. PICK n \in Nat, m \in Nat : n = Columns(c) /\ m = row.cols
  BY <1>1, ColumnsType
<1>7. m + (t + n) = (m + t) + n /\ m + t \in Nat
  OBVIOUS
<1>8. row.bytes \o FlattenSeq(done) \in Seq(Nat)
  BY <1>1, ConcatFacts
<1>9. With(row, done) \in Rows
  BY <1>5, <1>6, <1>7, <1>8 DEF With, Rows
<1> QED
  BY <1>2, <1>3, <1>4, <1>5, <1>6, <1>7, <1>9, Zenon DEF With

\* Characters of the text from the first on are drawn, as many as fit in w columns.
Fills(w, text, row, result) ==
  \E done, rest \in Seq(Character) :
    /\ Shown(text) = done \o rest
    /\ result = With(row, done) /\ result.cols <= w
    /\ rest # << >> => NoRoom(w, result, rest[1])

\* After k rounds.
Going(text, row, k, s) ==
  \E done, rest \in Seq(Character) :
    /\ Shown(text) = done \o rest
    /\ s.row = With(row, done) /\ s.row.cols <= width
    /\ \/ s.i > k /\ rest = ShownFrom(text)[s.i]
       \/ s.i = Len(text) + 1 /\ rest # << >> /\ NoRoom(width, s.row, rest[1])

LEMMA GoingStep ==
  ASSUME NEW text \in Seq(Byte), InUnicode(text), NEW row \in Rows, NEW k \in Nat,
         NEW s \in Cursors(text), Going(text, row, k, s), width \in Nat
  PROVE  Going(text, row, k + 1, PutNext(text, s)) \/ k >= Len(text)
<1>1. PICK l \in Nat : l = Len(text)
  OBVIOUS
<1>2. PICK i \in 1 .. l + 1, r \in Rows : i = s.i /\ r = s.row
  BY <1>1 DEF Cursors
<1>3. PICK done \in Seq(Character), rest \in Seq(Character) :
        /\ Shown(text) = done \o rest
        /\ r = With(row, done) /\ r.cols <= width
        /\ \/ i > k /\ rest = ShownFrom(text)[i]
           \/ i = l + 1 /\ rest # << >> /\ NoRoom(width, r, rest[1])
  BY <1>1, <1>2, Zenon DEF Going
<1>4. CASE i = l + 1
  <2>1. s.i > Len(text)
    BY <1>1, <1>2, <1>4
  <2>2. PutNext(text, s) = s
    BY <2>1, PutNextIs
  <2>3. CASE k < l
    <3>1. i > k + 1
      BY <1>4, <2>3
    <3>2. \/ i > k + 1 /\ rest = ShownFrom(text)[i]
          \/ i = l + 1 /\ rest # << >> /\ NoRoom(width, r, rest[1])
      BY <1>3, <3>1
    <3> QED
      BY <1>1, <1>2, <1>3, <2>2, <3>2, Zenon DEF Going
  <2>4. CASE k >= l
    BY <1>1, <2>4
  <2> QED
    BY <2>3, <2>4
<1>5. CASE i # l + 1
  <2>1. i \in 1 .. Len(text) /\ ~ (s.i > Len(text)) /\ i > k /\ rest = ShownFrom(text)[i]
    BY <1>1, <1>2, <1>3, <1>5
  <2>2. PICK c, n, next : /\ c = ShownAt(text, i) /\ n = Length(text, i)
                          /\ next = PutChar(r, c, Columns(c))
    OBVIOUS
  <2>3. c \in Character /\ n \in 1 .. 4 /\ i + n - 1 <= Len(text)
    BY <2>1, <2>2, CharacterTaken DEF Taken
  <2>4. PutNext(text, s) = [i |-> IF next = r THEN Len(text) + 1 ELSE i + n, row |-> next]
    BY <1>2, <2>1, <2>2, PutNextIs
  <2>5. PICK later \in Seq(Character) : /\ later = ShownFrom(text)[i + n]
                                        /\ rest = <<c>> \o later
    <3>1. PICK m \in 1 .. 4 : m = n
      BY <2>3
    <3>2. i + n \in 1 .. Len(text) + 1
      BY <1>1, <2>3, <3>1
    <3>3. ShownFrom(text)[i + n] \in Seq(Character)
      BY <3>2, ShownFromIs
    <3>4. ShownFrom(text)[i] = <<c>> \o ShownFrom(text)[i + n]
      BY <2>1, <2>2, ShownFromIs
    <3> QED
      BY <2>1, <3>3, <3>4
  <2>6. rest # << >> /\ rest[1] = c
    <3>1. <<c>> \in Seq(Character) /\ Len(<<c>>) = 1 /\ <<c>>[1] = c
      BY <2>3
    <3>2. Len(rest) = 1 + Len(later) /\ Len(later) \in Nat
      BY <2>5, <3>1, ConcatFacts
    <3>3. 1 \in 1 .. 1 + Len(later)
      BY <3>2
    <3>4. rest[1] = IF 1 <= 1 THEN <<c>>[1] ELSE later[1 - 1]
      BY <2>5, <3>1, <3>3, ConcatFacts
    <3>5. Len(rest) # 0
      BY <3>2
    <3> QED
      BY <3>1, <3>4, <3>5
  <2>7. \/ next = r /\ NoRoom(width, r, c)
        \/ /\ next # r /\ ~ NoRoom(width, r, c)
           /\ next = [bytes |-> r.bytes \o c, cols |-> r.cols + Columns(c)]
    BY <2>2, <2>3, PutCharIs DEF NoRoom
  <2>8. CASE next = r /\ NoRoom(width, r, c)
    <3>1. PICK t : t = PutNext(text, s)
      OBVIOUS
    <3>2. t.i = Len(text) + 1 /\ t.row = r
      BY <2>4, <2>8, <3>1
    <3>3. Going(text, row, k + 1, t)
      BY <1>3, <2>6, <2>8, <3>2, Zenon DEF Going
    <3> QED
      BY <3>1, <3>3
  <2>9. CASE next # r /\ ~ NoRoom(width, r, c)
             /\ next = [bytes |-> r.bytes \o c, cols |-> r.cols + Columns(c)]
    <3>1. PICK t : t = PutNext(text, s)
      OBVIOUS
    <3>2. t.i = i + n /\ t.row = next
      <4>1. next # r
        BY <2>9
      <4>2. t = [i |-> i + n, row |-> next]
        BY <2>4, <3>1, <4>1, Zenon
      <4> QED
        BY <4>2
    <3>3. next = With(row, Append(done, c))
      BY <1>3, <2>3, <2>9, WithOne
    <3>4. next.cols <= width
      <4>1. PICK a \in Nat, b \in Nat : a = r.cols /\ b = Columns(c)
        BY ColumnsType DEF Rows
      <4>2. ~ (a + b > width)
        BY <2>9, <4>1 DEF NoRoom
      <4>3. a + b <= width
        BY <4>2
      <4> QED
        BY <2>9, <4>1, <4>3
    <3>5. i + n > k + 1
      <4>1. PICK m \in 1 .. 4 : m = n
        BY <2>3
      <4> QED
        BY <2>1, <4>1
    <3>6. Append(done, c) \in Seq(Character) /\ Shown(text) = Append(done, c) \o later
      <4>1. <<c>> \in Seq(Character)
        BY <2>3
      <4>2. done \o (<<c>> \o later) = (done \o <<c>>) \o later
        BY <4>1, CharactersAssoc, Zenon
      <4>3. done \o <<c>> = Append(done, c) /\ Append(done, c) \in Seq(Character)
        BY <2>3
      <4> QED
        BY <1>3, <2>5, <4>2, <4>3
    <3>7. Going(text, row, k + 1, t)
      BY <2>5, <3>2, <3>3, <3>4, <3>5, <3>6, Zenon DEF Going
    <3> QED
      BY <3>1, <3>7
  <2> QED
    BY <2>7, <2>8, <2>9
<1> QED
  BY <1>4, <1>5

LEMMA PutsFills ==
  ASSUME NEW text \in Seq(Byte), InUnicode(text), NEW row \in Rows, width \in Nat,
         row.cols <= width
  PROVE  Fills(width, text, row, Puts(row, text))
<1>1. PICK l \in Nat : l = Len(text)
  OBVIOUS
<1>2. PICK f \in [Nat -> Cursors(text)] :
        /\ f[0] = [i |-> 1, row |-> row] /\ Puts(row, text) = f[l].row
        /\ \A k \in Nat : f[k + 1] = PutNext(text, f[k])
  <2>1. PICK f \in [Nat -> Cursors(text)] : Rounds(row, text, f)
    BY PutsIs, Zenon
  <2> QED
    BY <1>1, <2>1, Zenon DEF Rounds
<1>3. << >> \in Seq(Character) /\ 1 \in 1 .. Len(text) + 1
  BY <1>1
<1>4. Shown(text) \in Seq(Character) /\ Shown(text) = ShownFrom(text)[1]
  BY <1>3, ShownFromIs DEF Shown
<1> DEFINE T == {k \in Nat : k <= l => Going(text, row, k, f[k])}
<1>5. 0 \in T
  <2>1. With(row, << >>) = row
    <3>1. row.bytes \o << >> = row.bytes /\ row.cols + 0 = row.cols
          /\ row = [bytes |-> row.bytes, cols |-> row.cols]
      BY ConcatEmpty DEF Rows
    <3> QED
      BY <3>1, FlattenEmpty, TotalEmpty, Zenon DEF With
  <2>2. Shown(text) = << >> \o Shown(text)
    BY <1>4, ConcatEmpty
  <2>3. f[0].row = row /\ f[0].i = 1 /\ 1 > 0
    BY <1>2
  <2>4. Going(text, row, 0, f[0])
    BY <1>3, <1>4, <2>1, <2>2, <2>3, Zenon DEF Going
  <2> QED
    BY <2>4
<1>6. ASSUME NEW k \in T PROVE k + 1 \in T
  <2>1. k \in Nat /\ k + 1 \in Nat
    OBVIOUS
  <2>2. CASE k + 1 <= l
    <3>1. k <= l /\ ~ (k >= l)
      BY <2>1, <2>2
    <3>2. Going(text, row, k, f[k]) /\ f[k] \in Cursors(text) /\ f[k + 1] = PutNext(text, f[k])
      BY <1>2, <2>1, <3>1
    <3>3. Going(text, row, k + 1, f[k + 1])
      BY <1>1, <2>1, <3>1, <3>2, GoingStep
    <3> QED
      BY <2>1, <3>3
  <2>3. CASE ~ (k + 1 <= l)
    BY <2>1, <2>3
  <2> QED
    BY <2>2, <2>3
<1>7. T \in SUBSET Nat
  OBVIOUS
<1> HIDE DEF T
<1>8. l \in T
  BY <1>5, <1>6, <1>7, SetInduction
<1>9. Going(text, row, l, f[l])
  BY <1>8 DEF T
<1>10. PICK s \in Cursors(text) : s = f[l]
  BY <1>2
<1>11. PICK done \in Seq(Character), rest \in Seq(Character) :
        /\ Shown(text) = done \o rest
        /\ s.row = With(row, done) /\ s.row.cols <= width
        /\ \/ s.i > l /\ rest = ShownFrom(text)[s.i]
           \/ s.i = Len(text) + 1 /\ rest # << >> /\ NoRoom(width, s.row, rest[1])
  BY <1>9, <1>10, Zenon DEF Going
<1>12. rest # << >> => NoRoom(width, s.row, rest[1])
  <2>1. CASE s.i > l /\ rest = ShownFrom(text)[s.i]
    <3>1. PICK i \in 1 .. l + 1 : i = s.i
      BY <1>1 DEF Cursors
    <3>2. i = Len(text) + 1
      BY <1>1, <2>1, <3>1
    <3>3. rest = << >>
      BY <2>1, <3>1, <3>2, ShownFromIs
    <3> QED
      BY <3>3
  <2> QED
    BY <1>11, <2>1
<1> QED
  BY <1>2, <1>10, <1>11, <1>12, Zenon DEF Fills

-----------------------------------------------------------------------------
(* Characters one after the other are shown as they are.                   *)

\* The first byte of a character says how long it is.
Size(b) == IF b < 128 THEN 1 ELSE IF b < 224 THEN 2 ELSE IF b < 240 THEN 3 ELSE 4

LEMMA LengthByLead ==
  ASSUME NEW s \in Seq(Byte), NEW t \in Seq(Byte), WellFormed(s), WellFormed(t), s[1] = t[1]
  PROVE  Len(s) = Len(t)
<1>1. ASSUME NEW u \in Seq(Byte), WellFormed(u) PROVE Len(u) = Size(u[1])
  <2>1. Len(u) = 1 \/ Len(u) = 2 \/ Len(u) = 3 \/ Len(u) = 4
    BY <1>1, Zenon DEF WellFormed
  <2>2. CASE Len(u) = 1
    <3>1. PICK b \in Byte : b = u[1] /\ b < 128
      BY <1>1, <2>2, WellFormedIs
    <3>2. Size(b) = 1
      BY <3>1 DEF Size
    <3> QED
      BY <2>2, <3>1, <3>2, Zenon
  <2>3. CASE Len(u) = 2
    <3>1. PICK b \in 194 .. 223 : b = u[1]
      BY <1>1, <2>3, WellFormedIs, Zenon DEF Form2
    <3>2. Size(b) = 2
      BY SMT DEF Size
    <3> QED
      BY <2>3, <3>1, <3>2, Zenon
  <2>4. CASE Len(u) = 3
    <3>1. PICK b \in 224 .. 239 : b = u[1]
      BY <1>1, <2>4, WellFormedIs, Zenon DEF Form3
    <3>2. Size(b) = 3
      BY SMT DEF Size
    <3> QED
      BY <2>4, <3>1, <3>2, Zenon
  <2>5. CASE Len(u) = 4
    <3>1. PICK b \in 240 .. 244 : b = u[1]
      BY <1>1, <2>5, WellFormedIs, Zenon DEF Form4
    <3>2. Size(b) = 4
      BY SMT DEF Size
    <3> QED
      BY <2>5, <3>1, <3>2, Zenon
  <2> QED
    BY <2>1, <2>2, <2>3, <2>4, <2>5
<1> QED
  BY <1>1

\* A character in a text is shown as it is.
LEMMA ShownAsIs ==
  ASSUME NEW text \in Seq(Byte), NEW c \in Character, NEW i \in 1 .. Len(text),
         i + Len(c) - 1 <= Len(text), SubSeq(text, i, i + Len(c) - 1) = c
  PROVE  Length(text, i) = Len(c) /\ ShownAt(text, i) = c
<1>1. PICK n \in 1 .. 4 : n = Len(c)
  BY CharacterFacts
<1>2. c \in Seq(Byte) /\ WellFormed(c) /\ ~ Control(c)
  BY DEF Character
<1>3. n \in CharacterAt(text, i)
  BY <1>1, <1>2 DEF CharacterAt
<1>4. ASSUME NEW m \in CharacterAt(text, i) PROVE m = n
  <2>1. m \in 1 .. 4 /\ i + m - 1 <= Len(text) /\ WellFormed(SubSeq(text, i, i + m - 1))
    BY <1>4 DEF CharacterAt
  <2>2. PICK d \in Seq(Byte) : d = SubSeq(text, i, i + m - 1) /\ Len(d) = m /\ d[1] = text[i]
    <3>1. PICK j \in i - 1 .. Len(text) : j = i + m - 1
      BY <2>1
    <3>2. i \in 1 .. Len(text) + 1 /\ j - i + 1 = m /\ 1 \in 1 .. m /\ i + 1 - 1 = i
      BY <2>1, <3>1
    <3>3. /\ SubSeq(text, i, j) \in Seq(Byte) /\ Len(SubSeq(text, i, j)) = j - i + 1
          /\ \A k \in 1 .. j - i + 1 : SubSeq(text, i, j)[k] = text[i + k - 1]
      BY <3>2, SubSeqFacts
    <3> QED
      BY <3>1, <3>2, <3>3
  <2>3. c[1] = text[i]
    <3>1. /\ i \in 1 .. Len(text) + 1 /\ i + n - 1 \in i - 1 .. Len(text)
          /\ 1 \in 1 .. i + n - 1 - i + 1 /\ i + 1 - 1 = i
      BY <1>1
    <3>2. \A k \in 1 .. i + n - 1 - i + 1 : SubSeq(text, i, i + n - 1)[k] = text[i + k - 1]
      BY <3>1, SubSeqFacts
    <3> QED
      BY <1>1, <3>1, <3>2
  <2>4. WellFormed(d) /\ c[1] = d[1]
    BY <2>1, <2>2, <2>3
  <2>5. Len(c) = Len(d)
    BY <1>2, <2>4, LengthByLead, Zenon
  <2> QED
    BY <1>1, <2>2, <2>5
<1>5. Length(text, i) = n
  BY <1>3, <1>4 DEF Length
<1>6. CharacterAt(text, i) # {}
  BY <1>3
<1> QED
  BY <1>1, <1>2, <1>5, <1>6, Zenon DEF ShownAt

LEMMA CharactersBytes ==
  ASSUME NEW q \in Seq(Character) PROVE q \in Seq(Seq(Byte)) /\ FlattenSeq(q) \in Seq(Byte)
<1>1. Character \subseteq Seq(Byte)
  BY DEF Character
<1>2. q \in Seq(Seq(Byte))
  <2> HIDE DEF Character
  <2> QED
    BY <1>1
<1> QED
  BY <1>2, FlattenType

LEMMA FlattenOne ==
  ASSUME NEW c \in Character PROVE FlattenSeq(<<c>>) = c
<1>1. c \in Seq(Byte) /\ << >> \in Seq(Seq(Byte))
  BY DEF Character
<1>2. FlattenSeq(Append(<< >>, c)) = FlattenSeq(<< >>) \o c
  BY <1>1, FlattenAppend
<1>3. Append(<< >>, c) = <<c>>
  OBVIOUS
<1> QED
  BY <1>1, <1>2, <1>3, FlattenEmpty, ConcatEmpty

LEMMA FlattenFirst ==
  ASSUME NEW c \in Character, NEW q \in Seq(Character)
  PROVE  FlattenSeq(<<c>> \o q) = c \o FlattenSeq(q)
<1>1. <<c>> \in Seq(Seq(Byte)) /\ q \in Seq(Seq(Byte))
  <2>1. <<c>> \in Seq(Character)
    OBVIOUS
  <2> QED
    BY <2>1, CharactersBytes
<1>2. FlattenSeq(<<c>> \o q) = FlattenSeq(<<c>>) \o FlattenSeq(q)
  BY <1>1, FlattenConcat
<1> QED
  BY <1>2, FlattenOne

LEMMA BytesAssoc ==
  \A s, t, u \in Seq(Byte) : (s \o t) \o u = s \o (t \o u)
<1> TAKE s, t, u \in Seq(Byte)
<1>1. Associates(s, t, u)
  BY ConcatAssociates
<1> QED
  BY <1>1 DEF Associates

\* A sequence that is not empty has a first element, and others behind it.
LEMMA SplitFirst ==
  ASSUME NEW S, NEW q \in Seq(S), q # << >>
  PROVE  \E c \in S, r \in Seq(S) : q = <<c>> \o r /\ Len(r) = Len(q) - 1
<1>1. PICK l \in Nat : l = Len(q) /\ l > 0
  OBVIOUS
<1>2. PICK c \in S : c = q[1]
  BY <1>1
<1>3. PICK r \in Seq(S) : Len(r) = l - 1 /\ \A k \in 1 .. l - 1 : r[k] = q[k + 1]
  <2>1. 2 \in 1 .. Len(q) + 1 /\ l \in 2 - 1 .. Len(q) /\ l - 2 + 1 = l - 1
        /\ \A k \in 1 .. l - 1 : 2 + k - 1 = k + 1
    BY <1>1
  <2>2. /\ SubSeq(q, 2, l) \in Seq(S) /\ Len(SubSeq(q, 2, l)) = l - 2 + 1
        /\ \A k \in 1 .. l - 2 + 1 : SubSeq(q, 2, l)[k] = q[2 + k - 1]
    BY <2>1, SubSeqFacts
  <2>3. ASSUME NEW k \in 1 .. l - 1 PROVE SubSeq(q, 2, l)[k] = q[k + 1]
    <3>1. k \in 1 .. l - 2 + 1 /\ 2 + k - 1 = k + 1
      BY <2>1
    <3> QED
      BY <2>2, <3>1
  <2> QED
    BY <2>1, <2>2, <2>3
<1>4. q = <<c>> \o r
  <2>1. PICK p \in Seq(S) : p = <<c>> \o r /\ Len(p) = l
                            /\ \A k \in 1 .. l : p[k] = IF k <= 1 THEN <<c>>[k] ELSE r[k - 1]
    <3>1. <<c>> \in Seq(S) /\ Len(<<c>>) = 1 /\ 1 + (l - 1) = l
      BY <1>1
    <3>2. /\ <<c>> \o r \in Seq(S) /\ Len(<<c>> \o r) = 1 + Len(r)
          /\ \A k \in 1 .. 1 + Len(r) : (<<c>> \o r)[k] = IF k <= 1 THEN <<c>>[k] ELSE r[k - 1]
      BY <3>1, ConcatFacts
    <3> QED
      BY <1>3, <3>1, <3>2
  <2>2. ASSUME NEW k \in 1 .. l PROVE p[k] = q[k]
    <3>1. CASE k = 1
      BY <1>2, <2>1, <3>1
    <3>2. CASE k # 1
      <4>1. k - 1 \in 1 .. l - 1 /\ (k - 1) + 1 = k /\ ~ (k <= 1)
        BY <3>2
      <4>2. r[k - 1] = q[(k - 1) + 1]
        BY <1>3, <4>1
      <4> QED
        BY <2>1, <4>1, <4>2
    <3> QED
      BY <3>1, <3>2
  <2>3. p = [k \in 1 .. l |-> p[k]] /\ q = [k \in 1 .. l |-> q[k]]
    BY <1>1, <2>1
  <2> QED
    BY <2>1, <2>2, <2>3
<1> QED
  BY <1>1, <1>3, <1>4

\* A stretch of bytes, between others.
InPlace(p, c, t) ==
  LET text == p \o (c \o t)
      i    == Len(p) + 1
  IN  /\ i \in 1 .. Len(text) /\ i + Len(c) - 1 <= Len(text)
      /\ Len(p \o c) = i + Len(c) - 1
      /\ SubSeq(text, i, i + Len(c) - 1) = c

LEMMA StretchInPlace ==
  ASSUME NEW p \in Seq(Byte), NEW c \in Seq(Byte), NEW t \in Seq(Byte), Len(c) # 0
  PROVE  InPlace(p, c, t)
<1>1. PICK lp \in Nat, lc \in Nat, lt \in Nat : lp = Len(p) /\ lc = Len(c) /\ lt = Len(t)
  OBVIOUS
<1>2. PICK u \in Seq(Byte) : /\ u = c \o t /\ Len(u) = lc + lt
                             /\ \A k \in 1 .. lc + lt : u[k] = IF k <= lc THEN c[k] ELSE t[k - lc]
  <2>1. /\ c \o t \in Seq(Byte) /\ Len(c \o t) = Len(c) + Len(t)
        /\ \A k \in 1 .. Len(c) + Len(t) : (c \o t)[k] = IF k <= Len(c) THEN c[k] ELSE t[k - Len(c)]
    BY ConcatFacts
  <2> QED
    BY <1>1, <2>1, Zenon
<1>3. PICK text : text = p \o u
  OBVIOUS
<1>4. /\ text \in Seq(Byte) /\ Len(text) = Len(p) + Len(u)
      /\ \A k \in 1 .. Len(p) + Len(u) : text[k] = IF k <= Len(p) THEN p[k] ELSE u[k - Len(p)]
  BY <1>3, ConcatFacts
<1>5. Len(p) + Len(u) = lp + (lc + lt)
  BY <1>1, <1>2
<1>6. PICK i \in Nat, j \in Nat : i = lp + 1 /\ j = i + lc - 1
  <2>1. lp + 1 \in Nat /\ lp + 1 + lc - 1 \in Nat
    OBVIOUS
  <2> QED
    BY <2>1
<1>7. /\ i \in 1 .. Len(text) + 1 /\ j \in i - 1 .. Len(text) /\ j - i + 1 = lc
      /\ i \in 1 .. Len(text) /\ j <= Len(text)
  <2>1. PICK l \in Nat : l = Len(text) /\ l = lp + (lc + lt)
    BY <1>4, <1>5
  <2>2. lc # 0
    BY <1>1
  <2>3. i \in 1 .. l + 1 /\ j \in i - 1 .. l /\ j - i + 1 = lc /\ i \in 1 .. l /\ j <= l
    BY <1>6, <2>1, <2>2
  <2> QED
    BY <2>1, <2>3
<1>8. PICK s \in Seq(Byte) : /\ s = SubSeq(text, i, j) /\ Len(s) = lc
                             /\ \A k \in 1 .. lc : s[k] = text[i + k - 1]
  <2>1. /\ SubSeq(text, i, j) \in Seq(Byte) /\ Len(SubSeq(text, i, j)) = j - i + 1
        /\ \A k \in 1 .. j - i + 1 : SubSeq(text, i, j)[k] = text[i + k - 1]
    BY <1>4, <1>7, SubSeqFacts
  <2> QED
    BY <1>7, <2>1
<1>9. ASSUME NEW k \in 1 .. lc PROVE s[k] = c[k]
  <2>1. PICK n \in 1 .. lp + (lc + lt) : n = i + k - 1 /\ ~ (n <= lp) /\ n - lp = k
    <3>1. i + k - 1 \in 1 .. lp + (lc + lt) /\ ~ (i + k - 1 <= lp) /\ i + k - 1 - lp = k
      BY <1>6
    <3> QED
      BY <3>1
  <2>2. text[n] = u[k]
    <3>1. n \in 1 .. Len(p) + Len(u) /\ ~ (n <= Len(p)) /\ n - Len(p) = k
      BY <1>1, <1>5, <2>1
    <3> QED
      BY <1>4, <3>1
  <2>3. k \in 1 .. lc + lt /\ k <= lc
    OBVIOUS
  <2>4. u[k] = c[k]
    BY <1>2, <2>3
  <2> QED
    BY <1>8, <2>1, <2>2, <2>4
<1>10. s = c
  <2>1. DOMAIN s = 1 .. lc /\ DOMAIN c = 1 .. lc
    BY <1>1, <1>8
  <2> QED
    BY <1>9, <2>1
<1>11. Len(p \o c) = lp + lc
  BY <1>1, ConcatFacts
<1>12. lp + lc = j
  BY <1>6
<1> QED
  BY <1>1, <1>2, <1>3, <1>6, <1>7, <1>8, <1>10, <1>11, <1>12, Zenon DEF InPlace

\* What follows a text of characters, at its place.
LEMMA ShownBehind ==
  ASSUME NEW n \in Nat
  PROVE  \A q \in Seq(Character), p \in Seq(Byte) :
           Len(q) = n => ShownFrom(p \o FlattenSeq(q))[Len(p) + 1] = q
<1> DEFINE T == {k \in Nat : \A q \in Seq(Character), p \in Seq(Byte) :
                   Len(q) = k => ShownFrom(p \o FlattenSeq(q))[Len(p) + 1] = q}
<1>1. 0 \in T
  <2> SUFFICES ASSUME NEW q \in Seq(Character), NEW p \in Seq(Byte), Len(q) = 0
               PROVE  ShownFrom(p \o FlattenSeq(q))[Len(p) + 1] = q
    OBVIOUS
  <2>1. q = << >>
    OBVIOUS
  <2>2. p \o FlattenSeq(q) = p
    BY <2>1, FlattenEmpty, ConcatEmpty
  <2>3. ShownFrom(p)[Len(p) + 1] = << >>
    BY ShownFromIs
  <2> QED
    BY <2>1, <2>2, <2>3
<1>2. ASSUME NEW k \in T PROVE k + 1 \in T
  <2> SUFFICES ASSUME NEW q \in Seq(Character), NEW p \in Seq(Byte), Len(q) = k + 1
               PROVE  ShownFrom(p \o FlattenSeq(q))[Len(p) + 1] = q
    OBVIOUS
  <2>0. k \in Nat /\ k + 1 # 0
    OBVIOUS
  <2>1. q # << >>
    BY <2>0
  <2>2. PICK c \in Character, r \in Seq(Character) : q = <<c>> \o r /\ Len(r) = Len(q) - 1
    <3> HIDE DEF T
    <3> QED
      BY <2>1, SplitFirst
  <2>3. Len(r) = k
    BY <2>0, <2>2
  <2>4. c \in Seq(Byte) /\ FlattenSeq(r) \in Seq(Byte)
    BY CharactersBytes DEF Character
  <2>5. PICK text \in Seq(Byte) : text = p \o (c \o FlattenSeq(r))
    <3>1. c \o FlattenSeq(r) \in Seq(Byte)
      BY <2>4, ConcatFacts
    <3>2. p \o (c \o FlattenSeq(r)) \in Seq(Byte)
      BY <3>1, ConcatFacts
    <3> QED
      BY <3>2
  <2>6. PICK head \in Seq(Byte) : head = p \o c
    BY <2>4, ConcatFacts
  <2>7. text = head \o FlattenSeq(r)
    <3>1. (p \o c) \o FlattenSeq(r) = p \o (c \o FlattenSeq(r))
      BY <2>4, BytesAssoc, Zenon
    <3> QED
      BY <2>5, <2>6, <3>1
  <2>8. p \o FlattenSeq(q) = text
    BY <2>2, <2>5, FlattenFirst
  <2>9. ShownFrom(text)[Len(head) + 1] = r
    <3>1. \A q2 \in Seq(Character), p2 \in Seq(Byte) :
            Len(q2) = k => ShownFrom(p2 \o FlattenSeq(q2))[Len(p2) + 1] = q2
      OBVIOUS
    <3> QED
      BY <2>3, <2>7, <3>1
  <2> HIDE DEF T
  <2>10. PICK i \in Nat, m \in 1 .. 4 : i = Len(p) + 1 /\ m = Len(c)
    <3>1. Len(p) + 1 \in Nat /\ Len(c) \in 1 .. 4
      BY CharacterFacts
    <3> QED
      BY <3>1
  <2>11. i \in 1 .. Len(text) /\ i + m - 1 <= Len(text) /\ Len(head) = i + m - 1
    <3>1. InPlace(p, c, FlattenSeq(r))
      BY <2>4, CharacterFacts, StretchInPlace
    <3> QED
      BY <2>5, <2>6, <2>10, <3>1, Zenon DEF InPlace
  <2>12. SubSeq(text, i, i + m - 1) = c
    <3>1. InPlace(p, c, FlattenSeq(r))
      BY <2>4, CharacterFacts, StretchInPlace
    <3> QED
      BY <2>5, <2>10, <3>1, Zenon DEF InPlace
  <2>13. Length(text, i) = m /\ ShownAt(text, i) = c
    BY <2>10, <2>11, <2>12, ShownAsIs
  <2>14. ShownFrom(text)[i] = <<c>> \o ShownFrom(text)[i + m]
    BY <2>11, <2>13, ShownFromIs
  <2>15. i + m = Len(head) + 1
    BY <2>10, <2>11
  <2> QED
    BY <2>2, <2>8, <2>9, <2>10, <2>14, <2>15
<1>3. T \in SUBSET Nat
  OBVIOUS
<1> HIDE DEF T
<1>4. n \in T
  BY <1>1, <1>2, <1>3, SetInduction
<1> QED
  BY <1>4 DEF T

LEMMA ShownFlat ==
  ASSUME NEW q \in Seq(Character) PROVE Shown(FlattenSeq(q)) = q
<1>1. << >> \in Seq(Byte) /\ Len(<< >>) + 1 = 1 /\ Len(q) \in Nat
  OBVIOUS
<1>2. ShownFrom(<< >> \o FlattenSeq(q))[Len(<< >>) + 1] = q
  BY <1>1, ShownBehind
<1>3. << >> \o FlattenSeq(q) = FlattenSeq(q)
  BY CharactersBytes, ConcatEmpty
<1> QED
  BY <1>1, <1>2, <1>3 DEF Shown

-----------------------------------------------------------------------------
(* The text of a row.                                                      *)

\* What a byte or an escape sequence adds to the text.
TextItem(e) == IF e < 256 THEN <<e>> ELSE << >>

LEMMA TextAppend ==
  ASSUME NEW b \in Seq(Nat), NEW e \in Nat
  PROVE  /\ TextOf(b) \in Seq(Byte)
         /\ TextOf(Append(b, e)) = TextOf(b) \o TextItem(e)
<1>1. PICK l \in Nat : l = Len(b)
  OBVIOUS
<1>2. PICK r \in Seq(Nat) : /\ r = Append(b, e) /\ Len(r) = l + 1
                            /\ \A i \in 1 .. l : r[i] = b[i]
                            /\ r[l + 1] = e
  BY <1>1, AppendFacts
<1>3. \A n \in Nat : TextItem(n) \in Seq(Byte)
  <2>1. ASSUME NEW n \in Nat PROVE TextItem(n) \in Seq(Byte)
    <3>1. CASE n < 256
      <4>1. n \in Byte
        BY <3>1 DEF Byte
      <4> QED
        BY <3>1, <4>1 DEF TextItem
    <3>2. CASE ~ (n < 256)
      BY <3>2 DEF TextItem
    <3> QED
      BY <3>1, <3>2
  <2> QED
    BY <2>1
<1> DEFINE items(q) == [i \in DOMAIN q |-> TextItem(q[i])]
<1>4. \A q : TextOf(q) = FlattenSeq(items(q))
  BY DEF TextOf, TextItem
<1>5. ASSUME NEW q \in Seq(Nat) PROVE items(q) \in Seq(Seq(Byte)) /\ Len(items(q)) = Len(q)
  <2>1. PICK m \in Nat : m = Len(q) /\ DOMAIN q = 1 .. m
    OBVIOUS
  <2>2. ASSUME NEW i \in 1 .. m PROVE TextItem(q[i]) \in Seq(Byte)
    <3>1. q[i] \in Nat
      BY <2>1
    <3> QED
      BY <1>3, <3>1
  <2> QED
    BY <2>1, <2>2
<1>6. items(r) = Append(items(b), TextItem(e))
  <2>1. PICK p \in Seq(Seq(Byte)) :
          p = items(b) /\ Len(p) = l /\ \A i \in 1 .. l : p[i] = TextItem(b[i])
    <3>1. DOMAIN b = 1 .. l
      BY <1>1
    <3> QED
      BY <1>1, <1>5, <3>1
  <2>2. PICK a : a = Append(p, TextItem(e))
    OBVIOUS
  <2>3. /\ a \in Seq(Seq(Byte)) /\ Len(a) = l + 1
        /\ \A i \in 1 .. l : a[i] = p[i]
        /\ a[l + 1] = TextItem(e)
    <3>1. TextItem(e) \in Seq(Byte)
      BY <1>3
    <3>2. /\ Append(p, TextItem(e)) \in Seq(Seq(Byte)) /\ Len(Append(p, TextItem(e))) = Len(p) + 1
          /\ \A i \in 1 .. Len(p) : Append(p, TextItem(e))[i] = p[i]
          /\ Append(p, TextItem(e))[Len(p) + 1] = TextItem(e)
      BY <3>1, AppendFacts
    <3> QED
      BY <2>1, <2>2, <3>2
  <2>4. PICK c \in Seq(Seq(Byte)) : /\ c = items(r) /\ Len(c) = l + 1
                                    /\ \A i \in 1 .. l + 1 : c[i] = TextItem(r[i])
    <3>1. DOMAIN r = 1 .. l + 1
      BY <1>2
    <3> QED
      BY <1>2, <1>5, <3>1
  <2> HIDE DEF items
  <2>5. ASSUME NEW i \in 1 .. l + 1 PROVE a[i] = c[i]
    <3>1. CASE i = l + 1
      BY <1>2, <2>3, <2>4, <3>1
    <3>2. CASE i # l + 1
      <4>1. i \in 1 .. l
        BY <3>2
      <4> QED
        BY <1>2, <2>1, <2>3, <2>4, <4>1
    <3> QED
      BY <3>1, <3>2
  <2>6. a = c
    <3>1. a = [i \in 1 .. l + 1 |-> a[i]] /\ c = [i \in 1 .. l + 1 |-> c[i]]
      BY <2>3, <2>4
    <3> QED
      BY <2>5, <3>1
  <2> QED
    BY <2>1, <2>2, <2>4, <2>6
<1> HIDE DEF items
<1>7. items(b) \in Seq(Seq(Byte)) /\ TextItem(e) \in Seq(Byte)
  BY <1>3, <1>5
<1>8. FlattenSeq(Append(items(b), TextItem(e))) = FlattenSeq(items(b)) \o TextItem(e)
  BY <1>7, FlattenAppend
<1>9. FlattenSeq(items(b)) \in Seq(Byte)
  BY <1>7, FlattenType
<1> QED
  BY <1>2, <1>4, <1>6, <1>8, <1>9

LEMMA TextEmpty == TextOf(<< >>) = << >>
<1>1. [i \in DOMAIN << >> |-> IF << >>[i] < 256 THEN <<(<< >>)[i]>> ELSE << >>] = << >>
  OBVIOUS
<1> QED
  BY <1>1, FlattenEmpty DEF TextOf

\* An escape sequence is no text.
LEMMA TextAttr ==
  ASSUME NEW b \in Seq(Nat), NEW e \in Nat, e > 255
  PROVE  TextOf(Append(b, e)) = TextOf(b)
<1>1. TextItem(e) = << >>
  BY DEF TextItem
<1> QED
  BY <1>1, TextAppend, ConcatEmpty

LEMMA ByteIsNat == Byte \subseteq Nat
  BY DEF Byte

LEMMA BytesAreNats ==
  ASSUME NEW t \in Seq(Byte) PROVE t \in Seq(Nat)
<1>1. PICK l \in Nat : l = Len(t)
  OBVIOUS
<1>2. \A k \in 1 .. l : t[k] \in Byte
  BY <1>1
<1>3. \A k \in 1 .. l : t[k] \in Nat
  BY <1>2, ByteIsNat
<1>4. t = [k \in 1 .. l |-> t[k]]
  BY <1>1
<1> QED
  BY <1>3, <1>4

\* What is shown of a row is bytes.
LEMMA TextType ==
  ASSUME NEW b \in Seq(Nat) PROVE TextOf(b) \in Seq(Byte)
<1>1. 0 \in Nat
  OBVIOUS
<1> QED
  BY <1>1, TextAppend

\* Bytes behind a row are its text behind that of the row.
LEMMA TextConcat ==
  ASSUME NEW b \in Seq(Nat), NEW t \in Seq(Byte)
  PROVE  TextOf(b \o t) = TextOf(b) \o t
<1> DEFINE T == {u \in Seq(Byte) : TextOf(b \o u) = TextOf(b) \o u}
<1>0. TextOf(b) \in Seq(Byte)
  BY TextType
<1>1. << >> \in T
  BY <1>0, ConcatEmpty
<1>2. ASSUME NEW u \in T, NEW e \in Byte PROVE Append(u, e) \in T
  <2>1. u \in Seq(Byte) /\ u \in Seq(Nat) /\ e \in Nat /\ e < 256
    BY BytesAreNats DEF Byte
  <2>2. b \o Append(u, e) = Append(b \o u, e) /\ b \o u \in Seq(Nat)
    BY <2>1, ItemsAppend
  <2>3. TextOf(Append(b \o u, e)) = TextOf(b \o u) \o TextItem(e)
    BY <2>1, <2>2, TextAppend
  <2>4. TextItem(e) = <<e>> /\ <<e>> \in Seq(Byte)
    BY <2>1 DEF TextItem
  <2>5. TextOf(b \o u) = TextOf(b) \o u
    OBVIOUS
  <2>6. (TextOf(b) \o u) \o <<e>> = TextOf(b) \o (u \o <<e>>)
    BY <1>0, <2>1, <2>4, BytesAssoc
  <2>7. u \o <<e>> = Append(u, e) /\ Append(u, e) \in Seq(Byte)
    BY <2>1
  <2> QED
    BY <2>2, <2>3, <2>4, <2>5, <2>6, <2>7
<1>3. T \in SUBSET Seq(Byte)
  OBVIOUS
<1> HIDE DEF T
<1>4. T = Seq(Byte)
  BY <1>1, <1>2, <1>3, SeqInduction
<1> QED
  BY <1>4 DEF T

LEMMA TotalConcat ==
  ASSUME NEW p \in Seq(Character), NEW q \in Seq(Character)
  PROVE  TotalColumns(p \o q) = TotalColumns(p) + TotalColumns(q)
<1> DEFINE T == {r \in Seq(Character) : TotalColumns(p \o r) = TotalColumns(p) + TotalColumns(r)}
<1>0. TotalColumns(p) \in Nat
  BY TotalType
<1>1. << >> \in T
  BY <1>0, TotalEmpty, ConcatEmpty
<1>2. ASSUME NEW r \in T, NEW c \in Character PROVE Append(r, c) \in T
  <2>1. r \in Seq(Character) /\ Append(r, c) \in Seq(Character)
    OBVIOUS
  <2>2. TotalColumns(p \o r) = TotalColumns(p) + TotalColumns(r)
    OBVIOUS
  <2> HIDE DEF T
  <2>3. p \o Append(r, c) = Append(p \o r, c) /\ p \o r \in Seq(Character)
    BY <2>1, ConcatAppend, ConcatFacts
  <2>4. TotalColumns(Append(p \o r, c)) = TotalColumns(p \o r) + Columns(c)
    BY <2>3, TotalAppend
  <2>5. TotalColumns(Append(r, c)) = TotalColumns(r) + Columns(c)
    BY <2>1, TotalAppend
  <2>6. PICK x \in Nat, y \in Nat, z \in Nat :
          x = TotalColumns(p) /\ y = TotalColumns(r) /\ z = Columns(c)
    BY <1>0, <2>1, TotalType, ColumnsType
  <2>7. (x + y) + z = x + (y + z)
    OBVIOUS
  <2>8. TotalColumns(p \o Append(r, c)) = TotalColumns(p) + TotalColumns(Append(r, c))
    BY <2>2, <2>3, <2>4, <2>5, <2>6, <2>7
  <2> QED
    BY <2>1, <2>8 DEF T
<1>3. T \in SUBSET Seq(Character)
  OBVIOUS
<1> HIDE DEF T
<1>4. T = Seq(Character)
  BY <1>1, <1>2, <1>3, SeqInduction
<1> QED
  BY <1>4 DEF T

\* Spaces, as characters.
Space == <<32>>
Spaces(n) == [i \in 1 .. n |-> Space]

LEMMA SpaceIs == Space \in Character /\ Columns(Space) = 1
<1>1. Space \in Seq(Byte) /\ Len(Space) = 1 /\ Space[1] = 32
  BY SMT DEF Space, Byte
<1>2. WellFormed(Space) /\ ~ Control(Space)
  BY <1>1, SMT DEF WellFormed, Control
<1>3. Codepoint(Space) = 32
  BY <1>1, CodepointIs, Zenon
<1>4. ~ Between(32, zero_width_ranges, 0, Len(zero_width_ranges))
  BY SMT DEF Between, zero_width_ranges
<1>5. ~ Between(32, wide_ranges, 0, Len(wide_ranges))
  BY SMT DEF Between, wide_ranges
<1>6. ~ InTable(32, zero_width_ranges) /\ ~ InTable(32, wide_ranges)
  BY <1>4, <1>5, TablesOrdered, InTableIs
<1> QED
  BY <1>1, <1>2, <1>3, <1>6 DEF Character, Columns

LEMMA SpacesAre ==
  ASSUME NEW n \in Nat
  PROVE  /\ Spaces(n) \in Seq(Character) /\ Len(Spaces(n)) = n
         /\ FlattenSeq(Spaces(n)) = [i \in 1 .. n |-> 32]
         /\ TotalColumns(Spaces(n)) = n
<1> DEFINE T == {k \in Nat : /\ FlattenSeq(Spaces(k)) = [i \in 1 .. k |-> 32]
                             /\ TotalColumns(Spaces(k)) = k}
<1>0. ASSUME NEW k \in Nat PROVE Spaces(k) \in Seq(Character) /\ Len(Spaces(k)) = k
  BY SpaceIs DEF Spaces
<1>1. 0 \in T
  <2>1. Spaces(0) = << >> /\ [i \in 1 .. 0 |-> 32] = << >>
    BY DEF Spaces
  <2> QED
    BY <2>1, FlattenEmpty, TotalEmpty
<1>2. ASSUME NEW k \in T PROVE k + 1 \in T
  <2>1. k \in Nat /\ k + 1 \in Nat /\ FlattenSeq(Spaces(k)) = [i \in 1 .. k |-> 32]
        /\ TotalColumns(Spaces(k)) = k
    OBVIOUS
  <2> HIDE DEF T
  <2>2. Spaces(k + 1) = Append(Spaces(k), Space)
    BY <2>1 DEF Spaces
  <2>3. Spaces(k) \in Seq(Seq(Byte)) /\ Space \in Seq(Byte)
    <3>1. Spaces(k) \in Seq(Character)
      BY <1>0, <2>1
    <3> QED
      BY <3>1, CharactersBytes, SpaceIs DEF Character
  <2>4. FlattenSeq(Spaces(k + 1)) = [i \in 1 .. k |-> 32] \o <<32>>
    <3>1. FlattenSeq(Append(Spaces(k), Space)) = FlattenSeq(Spaces(k)) \o Space
      BY <2>3, FlattenAppend
    <3> QED
      BY <2>1, <2>2, <3>1 DEF Space
  <2>5. [i \in 1 .. k |-> 32] \o <<32>> = [i \in 1 .. k + 1 |-> 32]
    BY <2>1
  <2>6. TotalColumns(Spaces(k + 1)) = k + 1
    BY <1>0, <2>1, <2>2, SpaceIs, TotalAppend
  <2> QED
    BY <2>1, <2>4, <2>5, <2>6 DEF T
<1>3. T \in SUBSET Nat
  OBVIOUS
<1> HIDE DEF T
<1>4. n \in T
  BY <1>1, <1>2, <1>3, SetInduction
<1> QED
  BY <1>0, <1>4 DEF T

-----------------------------------------------------------------------------
(* The rows of a frame.                                                    *)

\* The text of a row is of whole characters, and its columns are theirs.
RowText(row) ==
  LET chars == Shown(TextOf(row.bytes))
  IN  FlattenSeq(chars) = TextOf(row.bytes) /\ row.cols = TotalColumns(chars)

\* A row that was drawn in w columns.
Drawn(w, row) == row \in Rows /\ RowText(row) /\ row.cols <= w

LEMMA TextRow ==
  ASSUME NEW row, NEW c \in Seq(Character),
         TextOf(row.bytes) = FlattenSeq(c), row.cols = TotalColumns(c)
  PROVE  RowText(row)
<1>1. Shown(TextOf(row.bytes)) = c
  BY ShownFlat
<1> QED
  BY <1>1 DEF RowText

LEMMA RowTextIs ==
  ASSUME NEW row \in Rows, RowText(row)
  PROVE  \E c \in Seq(Character) :
           TextOf(row.bytes) = FlattenSeq(c) /\ row.cols = TotalColumns(c)
<1>1. row.bytes \in Seq(Nat) /\ 0 \in Nat
  BY DEF Rows
<1>2. TextOf(row.bytes) \in Seq(Byte)
  BY <1>1, TextAppend
<1>3. PICK t \in Seq(Byte) : t = TextOf(row.bytes)
  BY <1>2
<1>4. Shown(t) \in Seq(Character)
  <2>1. 1 \in 1 .. Len(t) + 1
    OBVIOUS
  <2> QED
    BY <2>1, ShownFromIs DEF Shown
<1> QED
  BY <1>3, <1>4 DEF RowText

LEMMA EmptyRow == width \in Nat => Empty \in Rows /\ RowText(Empty) /\ Drawn(width, Empty)
<1>1. Empty.bytes = << >> /\ Empty.cols = 0 /\ Empty \in Rows /\ << >> \in Seq(Character)
  BY DEF Empty, Rows
<1>2. TextOf(Empty.bytes) = FlattenSeq(<< >>) /\ Empty.cols = TotalColumns(<< >>)
  BY <1>1, TextEmpty, FlattenEmpty, TotalEmpty
<1>3. RowText(Empty)
  BY <1>1, <1>2, TextRow
<1>4. width \in Nat => 0 <= width
  OBVIOUS
<1> QED
  BY <1>1, <1>3, <1>4 DEF Drawn

\* Characters behind a row.
LEMMA WithText ==
  ASSUME NEW row \in Rows, RowText(row), NEW done \in Seq(Character)
  PROVE  With(row, done) \in Rows /\ RowText(With(row, done))
<1>1. PICK c \in Seq(Character) :
        TextOf(row.bytes) = FlattenSeq(c) /\ row.cols = TotalColumns(c)
  BY RowTextIs
<1>2. row.bytes \in Seq(Nat) /\ FlattenSeq(done) \in Seq(Byte) /\ FlattenSeq(done) \in Seq(Nat)
  BY CharactersBytes, CharactersFlat DEF Rows
<1>3. TextOf(row.bytes \o FlattenSeq(done)) = TextOf(row.bytes) \o FlattenSeq(done)
  BY <1>2, TextConcat
<1>4. c \o done \in Seq(Character)
  BY ConcatFacts
<1>5. FlattenSeq(c \o done) = FlattenSeq(c) \o FlattenSeq(done)
  <2>1. c \in Seq(Seq(Byte)) /\ done \in Seq(Seq(Byte))
    BY CharactersBytes
  <2> QED
    BY <2>1, FlattenConcat
<1>6. TotalColumns(c \o done) = TotalColumns(c) + TotalColumns(done)
  BY TotalConcat
<1>7. With(row, done).bytes = row.bytes \o FlattenSeq(done)
      /\ With(row, done).cols = row.cols + TotalColumns(done)
  BY DEF With
<1>8. RowText(With(row, done))
  BY <1>1, <1>3, <1>4, <1>5, <1>6, <1>7, TextRow
<1>9. With(row, done) \in Rows
  <2>1. TotalColumns(done) \in Nat /\ row.cols \in Nat
    BY TotalType DEF Rows
  <2>2. row.bytes \o FlattenSeq(done) \in Seq(Nat) /\ row.cols + TotalColumns(done) \in Nat
    BY <1>2, <2>1, ConcatFacts
  <2> QED
    BY <2>2 DEF With, Rows
<1> QED
  BY <1>8, <1>9

\* yc_term_row_attr and yc_term_row_end.
LEMMA AttrDraws ==
  ASSUME NEW row, Drawn(width, row), NEW sgr \in Nat, sgr > 255
  PROVE  Drawn(width, Attr(row, sgr))
<1>1. row \in Rows /\ row.bytes \in Seq(Nat) /\ row.cols \in Nat /\ row.cols <= width
  BY DEF Drawn, Rows
<1>2. PICK next : next = Attr(row, sgr)
  OBVIOUS
<1>3. next = [bytes |-> Append(row.bytes, sgr), cols |-> row.cols]
  BY <1>1, <1>2 DEF Attr, Rows
<1>4. TextOf(next.bytes) = TextOf(row.bytes) /\ next.cols = row.cols
  BY <1>1, <1>3, TextAttr
<1>5. RowText(next)
  BY <1>4 DEF Drawn, RowText
<1>6. next \in Rows
  BY <1>1, <1>3, AppendFacts DEF Rows
<1> QED
  BY <1>1, <1>2, <1>4, <1>5, <1>6 DEF Drawn

\* yc_term_row_puts.
LEMMA PutsDraws ==
  ASSUME NEW row, Drawn(width, row), width \in Nat, NEW text \in Seq(Byte), InUnicode(text)
  PROVE  Drawn(width, Puts(row, text))
<1>1. row \in Rows /\ RowText(row) /\ row.cols <= width
  BY DEF Drawn
<1>2. Fills(width, text, row, Puts(row, text))
  BY <1>1, PutsFills
<1>3. PICK done \in Seq(Character) :
        Puts(row, text) = With(row, done) /\ Puts(row, text).cols <= width
  BY <1>2 DEF Fills
<1>4. With(row, done) \in Rows /\ RowText(With(row, done))
  BY <1>1, WithText
<1> QED
  BY <1>3, <1>4 DEF Drawn

\* yc_term_row_pad draws spaces, up to the column or the right edge.
LEMMA PadIs ==
  ASSUME NEW row \in Rows, width \in Nat, row.cols <= width, NEW col \in Nat
  PROVE  \E n \in Nat :
           /\ Pad(row, col) = With(row, Spaces(n)) /\ Pad(row, col).cols <= width
           /\ Pad(row, col).cols = row.cols + n
           /\ row.cols <= col =>
                row.cols + n = IF col > width THEN width ELSE col
<1>1. PICK m \in Nat : m = row.cols
  BY DEF Rows
<1>2. PICK n \in Int : n = IF col > width THEN width - m ELSE col - m
  BY <1>1
<1>3. Pad(row, col) = IF n <= 0 THEN row
                      ELSE [bytes |-> row.bytes \o [i \in 1 .. n |-> 32], cols |-> m + n]
  BY <1>1, <1>2 DEF Pad
<1>4. CASE n <= 0
  <2>1. Spaces(0) = << >>
    BY DEF Spaces
  <2>2. With(row, Spaces(0)) = row
    <3>1. row.bytes \o << >> = row.bytes /\ row.cols + 0 = row.cols
          /\ row = [bytes |-> row.bytes, cols |-> row.cols]
      BY ConcatEmpty DEF Rows
    <3> QED
      BY <2>1, <3>1, FlattenEmpty, TotalEmpty, Zenon DEF With
  <2>3. m <= width /\ m + 0 = m /\ (m <= col => m = IF col > width THEN width ELSE col)
    BY <1>1, <1>2, <1>4
  <2>4. 0 \in Nat /\ Pad(row, col) = row
    BY <1>3, <1>4
  <2> QED
    BY <1>1, <2>2, <2>3, <2>4
<1>5. CASE ~ (n <= 0)
  <2>1. n \in Nat
    BY <1>5
  <2>2. FlattenSeq(Spaces(n)) = [i \in 1 .. n |-> 32] /\ TotalColumns(Spaces(n)) = n
    BY <2>1, SpacesAre
  <2>3. Pad(row, col) = With(row, Spaces(n))
    BY <1>1, <1>3, <1>5, <2>2 DEF With
  <2>4. Pad(row, col).cols = m + n
    BY <1>3, <1>5
  <2>5. m + n <= width /\ m + n = IF col > width THEN width ELSE col
    BY <1>1, <1>2
  <2> QED
    BY <1>1, <2>1, <2>3, <2>4, <2>5
<1> QED
  BY <1>4, <1>5

LEMMA PadDraws ==
  ASSUME NEW row, Drawn(width, row), width \in Nat, NEW col \in Nat
  PROVE  Drawn(width, Pad(row, col))
<1>1. row \in Rows /\ RowText(row) /\ row.cols <= width
  BY DEF Drawn
<1>2. PICK n \in Nat : Pad(row, col) = With(row, Spaces(n)) /\ Pad(row, col).cols <= width
  BY <1>1, PadIs
<1>3. Spaces(n) \in Seq(Character)
  BY SpacesAre
<1>4. With(row, Spaces(n)) \in Rows /\ RowText(With(row, Spaces(n)))
  BY <1>1, <1>3, WithText
<1> QED
  BY <1>2, <1>4 DEF Drawn

\* A text of spaces is padding, too.
LEMMA PadFills ==
  ASSUME NEW col \in Nat, width \in Nat
  PROVE  Fills(width, [i \in 1 .. col |-> 32], Empty, Pad(Empty, col))
<1>1. Empty \in Rows /\ Empty.cols = 0 /\ 0 <= width /\ 0 <= col
  BY EmptyRow DEF Empty
<1>2. PICK n \in Nat :
        /\ Pad(Empty, col) = With(Empty, Spaces(n)) /\ Pad(Empty, col).cols <= width
        /\ Pad(Empty, col).cols = Empty.cols + n
        /\ Empty.cols <= col => Empty.cols + n = IF col > width THEN width ELSE col
  BY <1>1, PadIs
<1>3. n = IF col > width THEN width ELSE col
  BY <1>1, <1>2
<1>4. PICK d \in Nat : d = col - n
  <2>1. n <= col
    BY <1>3
  <2>2. col - n \in Nat
    BY <2>1
  <2> QED
    BY <2>2
<1>5. Spaces(n) \in Seq(Character) /\ Spaces(d) \in Seq(Character) /\ Spaces(col) \in Seq(Character)
      /\ Len(Spaces(n)) = n /\ Len(Spaces(d)) = d
  BY SpacesAre
<1>6. Spaces(col) = Spaces(n) \o Spaces(d)
  <2>1. n + d = col
    BY <1>4
  <2> QED
    BY <2>1 DEF Spaces
<1>7. Shown([i \in 1 .. col |-> 32]) = Spaces(col)
  BY <1>5, ShownFlat, SpacesAre
<1>8. ASSUME Spaces(d) # << >> PROVE NoRoom(width, Pad(Empty, col), Spaces(d)[1])
  <2>1. d # 0
    BY <1>5, <1>8
  <2>2. n = width
    BY <1>3, <1>4, <2>1
  <2>3. Pad(Empty, col).cols = width
    BY <1>1, <1>2, <2>2
  <2> QED
    BY <2>3 DEF NoRoom
<1> QED
  BY <1>2, <1>5, <1>6, <1>7, <1>8, Zenon DEF Fills

\* What is drawn in an empty row is clipped at the right edge.
ClippedTo(chars, row) ==
  \E k \in 0 .. Len(chars) :
    LET cols(n) == TotalColumns(SubSeq(chars, 1, n))
    IN  /\ row.bytes = FlattenSeq(SubSeq(chars, 1, k))
        /\ row.cols = cols(k) /\ cols(k) <= width
        /\ k < Len(chars) => cols(k) = width \/ cols(k + 1) > width

LEMMA FillsClipped ==
  ASSUME NEW text \in Seq(Byte), NEW row, Fills(width, text, Empty, row), width \in Nat
  PROVE  ClippedTo(Shown(text), row)
<1>1. PICK done \in Seq(Character), rest \in Seq(Character) :
        /\ Shown(text) = done \o rest
        /\ row = With(Empty, done) /\ row.cols <= width
        /\ rest # << >> => NoRoom(width, row, rest[1])
  BY Zenon DEF Fills
<1>2. PICK chars \in Seq(Character) : chars = done \o rest
  BY ConcatFacts
<1>3. PICK k \in Nat, l \in Nat : k = Len(done) /\ l = Len(rest)
  OBVIOUS
<1>4. /\ Len(chars) = k + l
      /\ \A i \in 1 .. k + l : chars[i] = IF i <= k THEN done[i] ELSE rest[i - k]
  BY <1>2, <1>3, ConcatFacts
<1>5. SubSeq(chars, 1, k) = done
  <2>1. k <= Len(chars)
    BY <1>3, <1>4
  <2>2. PICK s \in Seq(Character) : /\ s = SubSeq(chars, 1, k) /\ Len(s) = k
                                    /\ \A i \in 1 .. k : s[i] = chars[i]
    <3>1. /\ SubSeq(chars, 1, k) \in Seq(Character) /\ Len(SubSeq(chars, 1, k)) = k
          /\ \A i \in 1 .. k : SubSeq(chars, 1, k)[i] = chars[i]
      BY <2>1, PrefixFacts
    <3> QED
      BY <3>1
  <2>3. ASSUME NEW i \in 1 .. k PROVE s[i] = done[i]
    <3>1. i \in 1 .. k + l /\ i <= k
      OBVIOUS
    <3> QED
      BY <1>4, <2>2, <3>1
  <2>4. s = [i \in 1 .. k |-> s[i]] /\ done = [i \in 1 .. k |-> done[i]]
    BY <1>3, <2>2
  <2> QED
    BY <2>2, <2>3, <2>4
<1>6. row.bytes = FlattenSeq(done) /\ row.cols = TotalColumns(done)
  <2>1. FlattenSeq(done) \in Seq(Nat) /\ TotalColumns(done) \in Nat
    BY CharactersFlat, TotalType
  <2>2. << >> \o FlattenSeq(done) = FlattenSeq(done) /\ 0 + TotalColumns(done) = TotalColumns(done)
    BY <2>1, ConcatEmpty
  <2> QED
    BY <1>1, <2>2 DEF With, Empty
<1>7. ASSUME k < Len(chars)
      PROVE  \/ TotalColumns(SubSeq(chars, 1, k)) = width
             \/ TotalColumns(SubSeq(chars, 1, k + 1)) > width
  <2>1. rest # << >> /\ k + 1 \in 1 .. k + l
    BY <1>3, <1>4, <1>7
  <2>2. PICK c \in Character : c = rest[1] /\ chars[k + 1] = c
    <3>1. rest[1] \in Character
      BY <2>1
    <3>2. ~ (k + 1 <= k) /\ k + 1 - k = 1
      OBVIOUS
    <3>3. chars[k + 1] = rest[1]
      BY <1>4, <2>1, <3>2
    <3> QED
      BY <3>1, <3>3
  <2>3. SubSeq(chars, 1, k + 1) = Append(done, c)
    <3>1. PICK s \in Seq(Character) : /\ s = SubSeq(chars, 1, k + 1) /\ Len(s) = k + 1
                                      /\ \A i \in 1 .. k + 1 : s[i] = chars[i]
      <4>1. k + 1 <= Len(chars) /\ k + 1 \in Nat
        BY <1>4, <1>7
      <4>2. /\ SubSeq(chars, 1, k + 1) \in Seq(Character) /\ Len(SubSeq(chars, 1, k + 1)) = k + 1
            /\ \A i \in 1 .. k + 1 : SubSeq(chars, 1, k + 1)[i] = chars[i]
        BY <4>1, PrefixFacts
      <4> QED
        BY <4>2
    <3>2. \A i \in 1 .. k : done[i] = s[i]
      <4>1. \A i \in 1 .. k : i \in 1 .. k + l /\ i <= k /\ i \in 1 .. k + 1
        OBVIOUS
      <4> QED
        BY <1>4, <3>1, <4>1
    <3>3. s[k + 1] = c
      BY <2>2, <3>1
    <3>4. s = Append(done, s[k + 1])
      BY <1>3, <3>1, <3>2, SplitLast
    <3> QED
      BY <3>1, <3>3, <3>4
  <2>4. TotalColumns(SubSeq(chars, 1, k + 1)) = TotalColumns(done) + Columns(c)
    BY <2>3, TotalAppend
  <2>5. row.cols >= width \/ row.cols + Columns(c) > width
    BY <1>1, <2>1, <2>2 DEF NoRoom
  <2>6. PICK t \in Nat : t = TotalColumns(done)
    BY TotalType
  <2>7. t <= width /\ (t >= width => t = width)
    BY <1>1, <1>6, <2>6
  <2> QED
    BY <1>5, <1>6, <2>4, <2>5, <2>6, <2>7
<1>8. k \in 0 .. Len(chars)
  BY <1>3, <1>4
<1> QED
  BY <1>1, <1>2, <1>5, <1>6, <1>7, <1>8, Zenon DEF ClippedTo

-----------------------------------------------------------------------------
(* The invariant of the rows.                                              *)

TermTypes ==
  /\ session \in DOMAIN Sessions
  /\ width \in Nat /\ height \in 0 .. MaxHeight /\ tty \in Nat \X (0 .. MaxHeight)
  /\ in_frame \in BOOLEAN /\ current_row \in 0 .. MaxHeight
  /\ back \in [Row -> Rows] /\ front \in [Row -> Rows]
  /\ asked \in Seq(Seq(Nat))

\* The rows of a frame, and of the last one.
BackDrawn == in_frame => \A r \in Row : r < height => Drawn(width, back[r])
FrontText == \A r \in Row : RowText(front[r])

\* Nothing is drawn before there is a terminal.
NotYet == life = "none" => ~ in_frame /\ front = [r \in Row |-> Empty]

\* What the current row has after at most one text.
AskedDrawn ==
  (in_frame /\ current_row < height) =>
    /\ asked = << >> => back[current_row] = Empty
    /\ (Len(asked) = 1 /\ asked[1] \in Limit.texts) =>
          Fills(width, asked[1], Empty, back[current_row])

RowsInv == TermTypes /\ BackDrawn /\ FrontText /\ NotYet /\ AskedDrawn

\* No text has a byte sequence of a codepoint beyond the last one.
UnicodeTexts == \A s \in DOMAIN Sessions : \A text \in Sessions[s].texts : InUnicode(text)

LEMMA RowIs ==
  /\ \A r : r \in Row <=> r \in Nat /\ r < MaxHeight
  /\ \A w \in Nat : Empty \in Rows /\ RowText(Empty) /\ Drawn(w, Empty)
<1>1. MaxHeight \in Nat
  BY TermAssumption
<1>2. \A r : r \in Row <=> r \in Nat /\ r < MaxHeight
  BY <1>1 DEF Row
<1>3. Empty \in Rows /\ Empty.cols = 0
  BY DEF Empty, Rows
<1>4. RowText(Empty)
  <2>1. /\ TextOf(Empty.bytes) = FlattenSeq(<< >>) /\ Empty.cols = TotalColumns(<< >>)
        /\ << >> \in Seq(Character)
    BY TextEmpty, FlattenEmpty, TotalEmpty DEF Empty
  <2> QED
    BY <2>1, TextRow
<1> QED
  BY <1>2, <1>3, <1>4 DEF Drawn

LEMMA EmptyRows ==
  /\ [r \in Row |-> Empty] \in [Row -> Rows]
  /\ \A r \in Row : RowText([q \in Row |-> Empty][r])
<1>1. 0 \in Nat
  OBVIOUS
<1> QED
  BY <1>1, RowIs

LEMMA RowsInvInit == Init => RowsInv
<1> SUFFICES ASSUME Init PROVE RowsInv
  OBVIOUS
<1>1. session \in DOMAIN Sessions /\ Limit = Sessions[session]
  BY DEF Init, Limit
<1>2. tty \in Nat \X (0 .. MaxHeight)
  <2>1. Sessions[session].sizes \subseteq Nat \X (0 .. MaxHeight)
    BY <1>1, TermAssumption
  <2> QED
    BY <1>1, <2>1 DEF Init
<1>3. width \in Nat /\ height \in 0 .. MaxHeight /\ 0 \in 0 .. MaxHeight
  <2>1. MaxHeight \in Nat /\ Default \in Nat \X (1 .. MaxHeight)
    BY TermAssumption
  <2>2. PICK a \in Nat, b \in 1 .. MaxHeight : Default = <<a, b>>
    BY <2>1
  <2> QED
    BY <2>1, <2>2 DEF Init
<1>4. TermTypes
  <2>1. back \in [Row -> Rows] /\ front \in [Row -> Rows]
    BY EmptyRows DEF Init
  <2>2. asked \in Seq(Seq(Nat)) /\ in_frame \in BOOLEAN /\ current_row = 0
    <3>1. << >> \in Seq(Seq(Nat))
      OBVIOUS
    <3>2. asked = << >> /\ in_frame = FALSE /\ current_row = 0
      BY DEF Init
    <3> QED
      BY <3>1, <3>2
  <2> QED
    BY <1>1, <1>2, <1>3, <2>1, <2>2 DEF TermTypes
<1>5. FrontText
  BY EmptyRows DEF Init, FrontText
<1>6. BackDrawn /\ NotYet /\ AskedDrawn
  BY DEF Init, BackDrawn, NotYet, AskedDrawn
<1> QED
  BY <1>4, <1>5, <1>6 DEF RowsInv

rows == <<session, life, width, height, back, front, current_row, in_frame, asked, tty>>

LEMMA RowsInvStutter == RowsInv /\ UNCHANGED rows => RowsInv'
  BY DEF RowsInv, rows, TermTypes, BackDrawn, FrontText, NotYet, AskedDrawn, Limit

\* A size that the terminal has, or the default.
LEMMA SizeIs ==
  ASSUME RowsInv, NEW s \in {tty, Default}
  PROVE  s[1] \in Nat /\ s[2] \in 0 .. MaxHeight
<1>1. MaxHeight \in Nat /\ Default \in Nat \X (1 .. MaxHeight)
  BY TermAssumption
<1>2. tty \in Nat \X (0 .. MaxHeight)
  BY DEF RowsInv, TermTypes
<1>3. s \in Nat \X (0 .. MaxHeight)
  BY <1>1, <1>2
<1> QED
  BY <1>3

LEMMA RowsInvSize ==
  ASSUME RowsInv, ~ in_frame, \E s \in {tty, Default} : SetSize(s),
         UNCHANGED <<session, frame, tty>>, life' # "none"
  PROVE  RowsInv'
<1>1. PICK s \in {tty, Default} : SetSize(s)
  OBVIOUS
<1>2. width' \in Nat /\ height' \in 0 .. MaxHeight
  BY <1>1, SizeIs DEF SetSize
<1>3. front' = front \/ front' = [r \in Row |-> Empty]
  BY <1>1 DEF SetSize
<1>4. front' \in [Row -> Rows] /\ FrontText'
  <2>1. CASE front' = front
    BY <2>1 DEF RowsInv, TermTypes, FrontText
  <2>2. CASE front' = [r \in Row |-> Empty]
    BY <2>2, EmptyRows DEF FrontText
  <2> QED
    BY <1>3, <2>1, <2>2
<1>5. TermTypes'
  BY <1>2, <1>4 DEF RowsInv, TermTypes, frame
<1>6. BackDrawn' /\ AskedDrawn' /\ NotYet'
  BY DEF BackDrawn, AskedDrawn, NotYet, frame
<1> QED
  BY <1>4, <1>5, <1>6 DEF RowsInv

LEMMA RowsInvBegin == RowsInv /\ BeginFrame => RowsInv'
<1> SUFFICES ASSUME RowsInv, BeginFrame PROVE RowsInv'
  OBVIOUS
<1>1. /\ session' = session /\ width' = width /\ height' = height /\ tty' = tty /\ front' = front
      /\ in_frame' = TRUE /\ current_row' = 0 /\ asked' = << >> /\ life' = life /\ life # "none"
      /\ back' = [r \in Row |-> IF r < height THEN Empty ELSE back[r]]
  BY DEF BeginFrame, modes, size, world
<1>2. TermTypes /\ width \in Nat /\ height \in 0 .. MaxHeight /\ MaxHeight \in Nat
  BY TermAssumption DEF RowsInv, TermTypes
<1>3. \A r \in Row : r < height => back'[r] = Empty
  BY <1>1
<1>4. back' \in [Row -> Rows]
  <2>1. \A r \in Row : (IF r < height THEN Empty ELSE back[r]) \in Rows
    BY <1>2, RowIs DEF TermTypes
  <2> QED
    BY <1>1, <2>1
<1>5. TermTypes'
  BY <1>1, <1>2, <1>4 DEF TermTypes
<1>6. BackDrawn'
  <2>1. Drawn(width, Empty)
    BY <1>2, RowIs
  <2>2. \A r \in Row : r < height' => Drawn(width', back'[r])
    BY <1>1, <1>3, <2>1
  <2> QED
    BY <2>2 DEF BackDrawn
<1>7. FrontText' /\ NotYet'
  BY <1>1 DEF RowsInv, FrontText, NotYet
<1>8. AskedDrawn'
  <2>1. ASSUME current_row' < height' PROVE back'[current_row'] = Empty
    <3>1. 0 \in Row /\ 0 < height
      BY <1>1, <1>2, <2>1, RowIs, TermAssumption
    <3> QED
      BY <1>1, <1>3, <3>1
  <2>2. Len(asked') # 1
    BY <1>1
  <2> QED
    BY <2>1, <2>2 DEF AskedDrawn
<1> QED
  BY <1>5, <1>6, <1>7, <1>8 DEF RowsInv

LEMMA RowsInvRow ==
  ASSUME RowsInv, NEW n \in 0 .. MaxHeight, RowBegin(n) PROVE RowsInv'
<1>1. /\ session' = session /\ width' = width /\ height' = height /\ tty' = tty /\ front' = front
      /\ in_frame' = TRUE /\ current_row' = n /\ asked' = << >> /\ life' = life /\ in_frame
      /\ back' = IF n < height THEN [back EXCEPT ![n] = Empty] ELSE back
  <2>1. in_frame = TRUE
    BY DEF RowBegin, RowsInv, TermTypes
  <2> QED
    BY <2>1 DEF RowBegin, bounds, modes, size, world
<1>2. /\ TermTypes /\ width \in Nat /\ height \in 0 .. MaxHeight /\ MaxHeight \in Nat
      /\ back \in [Row -> Rows]
  BY TermAssumption DEF RowsInv, TermTypes
<1>3. n < height => n \in Row
  BY <1>2, RowIs
<1>4. /\ back' \in [Row -> Rows]
      /\ \A r \in Row : back'[r] = back[r] \/ back'[r] = Empty
      /\ n < height => back'[n] = Empty
  <2>1. Empty \in Rows
    BY <1>2, RowIs
  <2> QED
    BY <1>1, <1>2, <1>3, <2>1
<1>5. TermTypes'
  BY <1>1, <1>2, <1>4 DEF TermTypes
<1>6. BackDrawn'
  <2>1. Drawn(width, Empty)
    BY <1>2, RowIs
  <2>2. \A r \in Row : r < height => Drawn(width, back[r])
    BY <1>1 DEF RowsInv, BackDrawn
  <2>3. \A r \in Row : r < height' => Drawn(width', back'[r])
    BY <1>1, <1>4, <2>1, <2>2
  <2> QED
    BY <2>3 DEF BackDrawn
<1>7. FrontText' /\ NotYet'
  BY <1>1 DEF RowsInv, FrontText, NotYet
<1>8. AskedDrawn'
  <2>1. Len(asked') # 1
    BY <1>1
  <2> QED
    BY <1>1, <1>4, <2>1 DEF AskedDrawn
<1> QED
  BY <1>5, <1>6, <1>7, <1>8 DEF RowsInv

LEMMA CurrentIsRow ==
  ASSUME RowsInv, current_row < height PROVE current_row \in Row
<1>1. current_row \in 0 .. MaxHeight /\ height \in 0 .. MaxHeight /\ MaxHeight \in Nat
  BY TermAssumption DEF RowsInv, TermTypes
<1> QED
  BY <1>1, RowIs

\* A request that draws row in place of the current one.
Drew(request, row) ==
  /\ in_frame /\ current_row < height
  /\ asked' = Append(asked, request)
  /\ back' = [back EXCEPT ![current_row] = row]
  /\ UNCHANGED <<session, life, width, height, front, current_row, in_frame, tty>>

LEMMA RowsInvDrew ==
  ASSUME RowsInv, NEW request \in Seq(Nat), NEW row, Drew(request, row),
         Drawn(width, Current) => Drawn(width, row),
         request \in Limit.texts /\ Current = Empty => Fills(width, request, Empty, row)
  PROVE  RowsInv'
<1>1. /\ session' = session /\ width' = width /\ height' = height /\ tty' = tty /\ front' = front
      /\ in_frame' = in_frame /\ current_row' = current_row /\ life' = life /\ in_frame
      /\ current_row < height
      /\ asked' = Append(asked, request) /\ back' = [back EXCEPT ![current_row] = row]
  BY DEF Drew
<1>2. /\ TermTypes /\ width \in Nat /\ height \in 0 .. MaxHeight /\ MaxHeight \in Nat
      /\ back \in [Row -> Rows] /\ asked \in Seq(Seq(Nat)) /\ current_row \in 0 .. MaxHeight
  BY TermAssumption DEF RowsInv, TermTypes
<1>3. current_row \in Row
  BY <1>1, CurrentIsRow
<1>4. Drawn(width, row) /\ row \in Rows
  <2>1. Drawn(width, back[current_row])
    BY <1>1, <1>3 DEF RowsInv, BackDrawn
  <2> QED
    BY <2>1 DEF Current, Drawn
<1>5. /\ back' \in [Row -> Rows] /\ back'[current_row] = row
      /\ \A r \in Row : r # current_row => back'[r] = back[r]
  BY <1>1, <1>2, <1>3, <1>4
<1>6. asked' \in Seq(Seq(Nat))
  BY <1>1, <1>2, AppendFacts
<1>7. TermTypes'
  BY <1>1, <1>2, <1>5, <1>6 DEF TermTypes
<1>8. BackDrawn'
  <2>1. \A r \in Row : r < height => Drawn(width, back[r])
    BY <1>1 DEF RowsInv, BackDrawn
  <2>2. \A r \in Row : r < height' => Drawn(width', back'[r])
    BY <1>1, <1>4, <1>5, <2>1
  <2> QED
    BY <2>2 DEF BackDrawn
<1>9. FrontText' /\ NotYet'
  BY <1>1 DEF RowsInv, FrontText, NotYet
<1>10. AskedDrawn'
  <2>1. PICK l \in Nat : l = Len(asked) /\ Len(asked') = l + 1 /\ asked'[l + 1] = request
    <3>1. Len(asked) \in Nat /\ Len(Append(asked, request)) = Len(asked) + 1
          /\ Append(asked, request)[Len(asked) + 1] = request
      BY <1>2, AppendFacts
    <3> QED
      BY <1>1, <3>1
  <2>2. asked' # << >>
    <3>1. Len(asked') # 0
      BY <2>1
    <3> QED
      BY <3>1
  <2>3. Len(asked') = 1 => l = 0
    <3>1. \A x \in Nat : x + 1 = 1 => x = 0
      OBVIOUS
    <3> QED
      BY <2>1, <3>1, Zenon
  <2>4. ASSUME Len(asked') = 1, asked'[1] \in Limit'.texts
        PROVE  Fills(width', asked'[1], Empty, back'[current_row'])
    <3>1. l = 0
      BY <2>1, <2>4, <2>3
    <3>2. asked = << >> /\ asked'[1] = request
      <4>1. Len(asked) = 0 /\ asked'[0 + 1] = request
        BY <2>1, <3>1
      <4> QED
        BY <1>2, <4>1
    <3>3. Current = Empty
      BY <1>1, <3>2 DEF RowsInv, AskedDrawn, Current
    <3>4. Limit' = Limit
      BY <1>1 DEF Limit
    <3>5. Fills(width, request, Empty, row)
      BY <2>4, <3>2, <3>3, <3>4
    <3> QED
      BY <1>1, <1>5, <3>2, <3>5
  <2> QED
    BY <2>2, <2>4 DEF AskedDrawn
<1> QED
  BY <1>7, <1>8, <1>9, <1>10 DEF RowsInv

\* The texts and attributes a client may ask for.
LEMMA LimitIs ==
  ASSUME RowsInv
  PROVE  /\ Limit.texts \subseteq Seq(Byte) /\ Limit.sizes \subseteq Nat \X (0 .. MaxHeight)
         /\ \A sgr \in Limit.sgr : sgr \in Nat /\ sgr > 255
         /\ Limit.cols \subseteq Nat
         /\ UnicodeTexts => \A text \in Limit.texts : InUnicode(text)
<1>1. session \in DOMAIN Sessions /\ Limit = Sessions[session]
  BY DEF RowsInv, TermTypes, Limit
<1> QED
  BY <1>1, TermAssumption DEF UnicodeTexts, Byte

\* The current row is one that was drawn.
LEMMA CurrentDrawn ==
  ASSUME RowsInv, in_frame, current_row < height
  PROVE  Drawn(width, Current) /\ Current \in Rows /\ width \in Nat /\ Current.cols <= width
<1>1. width \in Nat
  BY DEF RowsInv, TermTypes
<1>2. current_row \in Row
  BY CurrentIsRow
<1>3. Drawn(width, back[current_row])
  BY <1>2 DEF RowsInv, BackDrawn
<1> QED
  BY <1>1, <1>3 DEF Drawn, Current

LEMMA OneItem == \A n \in Nat : n > 255 => <<n>> \in Seq(Nat) /\ <<n>> \notin Seq(Byte)
<1> SUFFICES ASSUME NEW n \in Nat, n > 255 PROVE <<n>> \in Seq(Nat) /\ <<n>> \notin Seq(Byte)
  OBVIOUS
<1>1. n \notin Byte
  BY DEF Byte
<1>2. ASSUME <<n>> \in Seq(Byte) PROVE FALSE
  <2>1. PICK t \in Seq(Byte) : t = <<n>>
    BY <1>2
  <2>2. Len(t) = 1 /\ t[1] = n
    BY <2>1
  <2>3. t[1] \in Byte
    BY <2>2
  <2> QED
    BY <1>1, <2>2, <2>3
<1> QED
  BY <1>2

LEMMA RowsInvAttr ==
  ASSUME RowsInv, NEW sgr \in Nat, sgr > 255, Drew(<<sgr>>, Attr(Current, sgr))
  PROVE  RowsInv'
<1>1. in_frame /\ current_row < height
  BY DEF Drew
<1>2. <<sgr>> \in Seq(Nat) /\ <<sgr>> \notin Limit.texts
  BY OneItem, LimitIs
<1>3. Drawn(width, Attr(Current, sgr))
  BY <1>1, CurrentDrawn, AttrDraws
<1>4. PICK row : row = Attr(Current, sgr)
  OBVIOUS
<1> QED
  BY <1>2, <1>3, <1>4, RowsInvDrew

LEMMA RowsInvPuts ==
  ASSUME RowsInv, UnicodeTexts, NEW text \in Limit.texts, RowPuts(text)
  PROVE  RowsInv'
<1>1. in_frame /\ current_row < height /\ Drew(text, Puts(Current, text))
  BY DEF RowPuts, Draw, Drew, bounds, modes, size, world
<1>2. text \in Seq(Byte) /\ InUnicode(text)
  BY LimitIs
<1>3. text \in Seq(Nat)
  BY <1>2, BytesAreNats
<1>4. Current \in Rows /\ width \in Nat /\ Current.cols <= width
  BY <1>1, CurrentDrawn
<1>5. Fills(width, text, Current, Puts(Current, text))
  BY <1>2, <1>4, PutsFills
<1>6. Drawn(width, Puts(Current, text))
  BY <1>1, <1>2, CurrentDrawn, PutsDraws
<1> QED
  BY <1>1, <1>3, <1>5, <1>6, RowsInvDrew

LEMMA RowsInvPad ==
  ASSUME RowsInv, NEW col \in Limit.cols, RowPad(col)
  PROVE  RowsInv'
<1>1. in_frame /\ current_row < height /\ Drew([i \in 1 .. col |-> 32], Pad(Current, col))
  BY DEF RowPad, Draw, Drew, bounds, modes, size, world
<1>2. col \in Nat
  BY LimitIs
<1>3. [i \in 1 .. col |-> 32] \in Seq(Nat)
  BY <1>2
<1>4. width \in Nat
  BY DEF RowsInv, TermTypes
<1>5. Current = Empty => Fills(width, [i \in 1 .. col |-> 32], Empty, Pad(Current, col))
  BY <1>2, <1>4, PadFills
<1>6. Drawn(width, Pad(Current, col))
  BY <1>1, <1>2, <1>4, CurrentDrawn, PadDraws
<1> QED
  BY <1>1, <1>3, <1>5, <1>6, RowsInvDrew

LEMMA RowsInvEnd ==
  ASSUME RowsInv, NEW cut \in 0 .. MaxHeight, EndFrame(cut)
  PROVE  RowsInv'
<1>1. /\ session' = session /\ width' = width /\ height' = height /\ tty' = tty /\ back' = back
      /\ in_frame' = FALSE /\ current_row' = current_row /\ asked' = << >> /\ life' = life
      /\ in_frame
      /\ front' = [r \in Row |-> IF r \in Changed THEN back[r] ELSE front[r]]
  BY DEF EndFrame, bounds, modes, size
<1>2. TermTypes /\ back \in [Row -> Rows] /\ front \in [Row -> Rows] /\ height \in 0 .. MaxHeight
  BY DEF RowsInv, TermTypes
<1>3. /\ front' \in [Row -> Rows]
      /\ \A r \in Row : front'[r] = IF r \in Changed THEN back[r] ELSE front[r]
  BY <1>1, <1>2
<1>4. FrontText'
  <2>1. ASSUME NEW r \in Row, r \in Changed PROVE RowText(back[r])
    <3>1. r \in 0 .. height - 1 /\ r < height
      BY <1>2, <2>1 DEF Changed
    <3>2. Drawn(width, back[r])
      BY <1>1, <3>1 DEF RowsInv, BackDrawn
    <3> QED
      BY <3>2 DEF Drawn
  <2>2. \A r \in Row : RowText(front[r])
    BY DEF RowsInv, FrontText
  <2> QED
    BY <1>3, <2>1, <2>2 DEF FrontText
<1>5. asked' \in Seq(Seq(Nat))
  BY <1>1
<1>6. TermTypes'
  BY <1>1, <1>2, <1>3, <1>5 DEF TermTypes
<1>7. BackDrawn' /\ AskedDrawn'
  BY <1>1 DEF BackDrawn, AskedDrawn
<1>8. NotYet'
  BY <1>1 DEF RowsInv, NotYet
<1> QED
  BY <1>4, <1>6, <1>7, <1>8 DEF RowsInv

LEMMA RowsInvStep == RowsInv /\ UnicodeTexts /\ [Next]_vars => RowsInv'
<1> SUFFICES ASSUME RowsInv, UnicodeTexts, [Next]_vars PROVE RowsInv'
  OBVIOUS
<1>1. CASE New
  <2>1. ~ in_frame
    BY <1>1 DEF New, RowsInv, NotYet
  <2>2. UNCHANGED <<session, frame, tty>> /\ life' # "none"
    BY <1>1 DEF New, bounds
  <2>3. \E s \in {tty, Default} : SetSize(s)
    BY <1>1, Zenon DEF New
  <2> QED
    BY <2>1, <2>2, <2>3, RowsInvSize
<1>2. CASE NewFails
  <2>1. UNCHANGED <<session, width, height, back, front, current_row, in_frame, asked, tty>>
        /\ life' = "failed"
    BY <1>2 DEF NewFails, bounds, size, frame, world
  <2> QED
    BY <2>1 DEF RowsInv, TermTypes, BackDrawn, FrontText, NotYet, AskedDrawn, Limit
<1>3. CASE Stop
  <2>1. UNCHANGED <<session, width, height, back, front, current_row, in_frame, asked, tty>>
        /\ life' = "stopped"
    BY <1>3 DEF Stop, bounds, size, frame, world
  <2> QED
    BY <2>1 DEF RowsInv, TermTypes, BackDrawn, FrontText, NotYet, AskedDrawn, Limit
<1>4. CASE Free
  <2>1. UNCHANGED <<session, width, height, back, front, current_row, in_frame, asked, tty>>
        /\ life' = "freed"
    BY <1>4 DEF Free, bounds, size, frame, world
  <2> QED
    BY <2>1 DEF RowsInv, TermTypes, BackDrawn, FrontText, NotYet, AskedDrawn, Limit
<1>5. CASE OnWinch
  <2>1. ~ in_frame /\ UNCHANGED <<session, frame, tty>> /\ life' # "none"
    BY <1>5 DEF OnWinch, bounds, modes
  <2>2. \E s \in {tty, Default} : SetSize(s)
    BY <1>5, Zenon DEF OnWinch
  <2> QED
    BY <2>1, <2>2, RowsInvSize
<1>6. CASE BeginFrame
  BY <1>6, RowsInvBegin
<1>7. CASE RowEnd
  <2>1. Drew(<<RESET>>, Attr(Current, RESET))
    BY <1>7 DEF RowEnd, Drew, bounds, modes, size, world
  <2>2. RESET \in Nat /\ RESET > 255
    BY DEF RESET
  <2> QED
    BY <2>1, <2>2, RowsInvAttr
<1>8. CASE \E r \in 0 .. MaxHeight : RowBegin(r)
  BY <1>8, RowsInvRow
<1>9. CASE \E text \in Limit.texts : RowPuts(text)
  BY <1>9, RowsInvPuts
<1>10. CASE \E sgr \in Limit.sgr : RowAttr(sgr)
  <2>1. PICK sgr \in Limit.sgr : RowAttr(sgr)
    BY <1>10
  <2>2. Drew(<<sgr>>, Attr(Current, sgr))
    BY <2>1 DEF RowAttr, Draw, Drew, bounds, modes, size, world
  <2>3. sgr \in Nat /\ sgr > 255
    BY LimitIs
  <2> QED
    BY <2>2, <2>3, RowsInvAttr
<1>11. CASE \E col \in Limit.cols : RowPad(col)
  BY <1>11, RowsInvPad
<1>12. CASE \E cut \in 0 .. MaxHeight : EndFrame(cut)
  BY <1>12, RowsInvEnd
<1>13. CASE \E n \in 1 .. Len(typed) : TtyRead(n)
  BY <1>13, RowsInvStutter DEF TtyRead, rows, bounds, modes, size, frame, world
<1>14. CASE \E s \in Limit.sizes : SizeChanges(s)
  <2>1. PICK s \in Limit.sizes : SizeChanges(s)
    BY <1>14
  <2>2. tty' \in Nat \X (0 .. MaxHeight)
    BY <2>1, LimitIs DEF SizeChanges
  <2>3. UNCHANGED <<session, life, width, height, back, front, current_row, in_frame, asked>>
    BY <2>1 DEF SizeChanges, bounds, modes, size, frame
  <2> QED
    BY <2>2, <2>3 DEF RowsInv, TermTypes, BackDrawn, FrontText, NotYet, AskedDrawn, Limit
<1>15. CASE UNCHANGED vars
  BY <1>15, RowsInvStutter DEF vars, rows
<1> QED
  BY <1>1, <1>2, <1>3, <1>4, <1>5, <1>6, <1>7, <1>8, <1>9, <1>10, <1>11, <1>12, <1>13, <1>14,
     <1>15 DEF Next

LEMMA RowsInvClipped == RowsInv => Clipped
<1> SUFFICES ASSUME RowsInv, in_frame, Len(asked) = 1, asked[1] \in Limit.texts,
                    current_row < height
             PROVE  ClippedTo(Shown(asked[1]), back[current_row])
  BY Zenon DEF Clipped, ClippedTo
<1>1. Fills(width, asked[1], Empty, back[current_row])
  BY DEF RowsInv, AskedDrawn
<1>2. asked[1] \in Seq(Byte) /\ width \in Nat
  BY LimitIs DEF RowsInv, TermTypes
<1> QED
  BY <1>1, <1>2, FillsClipped

\* A row with one text shows as many of its characters as fit, whole, and counts their
\* columns, whatever bytes the text is of: ill-formed, control characters, wide or without
\* columns (yc_term_row_puts, utf8_decode, codepoint_columns).
THEOREM AlwaysClipped == ASSUME UnicodeTexts PROVE Spec => []Clipped
<1>1. RowsInv /\ [Next]_vars => RowsInv'
  BY RowsInvStep
<1>2. Spec => []RowsInv
  BY <1>1, RowsInvInit, PTL DEF Spec
<1> QED
  BY <1>2, RowsInvClipped, PTL

-----------------------------------------------------------------------------
(* The screen shows the frame.                                             *)

\* A resize that is due is of another size.
Due == (winch => size # tty) /\ (life = "none" => ~ winch)

\* The rows that were sent since the size was last set are on the screen.
Sent ==
  (size = tty /\ ~ lost) =>
    \A r \in Row : (r < height /\ front[r].bytes # << >>) => screen[r] = front[r].bytes

\* A frame has all rows, and is kept until the next one.
Whole == fresh => \A r \in Row : r < height => front[r].bytes # << >>
Kept  == (fresh /\ ~ in_frame) => \A r \in Row : r < height => front[r] = back[r]

ShowsInv == Due /\ Sent /\ Whole /\ Kept

LEMMA ShowsInvInit == Init => ShowsInv
<1> SUFFICES ASSUME Init PROVE ShowsInv
  OBVIOUS
<1>1. Due /\ Whole /\ Kept
  BY DEF Init, Due, Whole, Kept
<1>2. \A r \in Row : front[r].bytes = << >>
  BY DEF Init, Empty
<1>3. Sent
  BY <1>2 DEF Sent
<1> QED
  BY <1>1, <1>3 DEF ShowsInv

\* The rows of the last frame stay as they are.
shown == <<width, height, front, tty, winch, screen, fresh, lost>>

LEMMA ShowsInvKeeps ==
  ASSUME ShowsInv, UNCHANGED shown, life' = "none" => life = "none",
         in_frame' \/ UNCHANGED <<back, in_frame>>
  PROVE  ShowsInv'
<1>1. Due'
  BY DEF ShowsInv, Due, shown, size
<1>2. Sent' /\ Whole'
  BY DEF ShowsInv, Sent, Whole, shown, size
<1>3. Kept'
  BY DEF ShowsInv, Kept, shown
<1> QED
  BY <1>1, <1>2, <1>3 DEF ShowsInv

LEMMA ShowsInvSize ==
  ASSUME ShowsInv, \E s \in {tty, Default} : SetSize(s), ~ winch', life' # "none",
         UNCHANGED <<back, in_frame, tty>>,
         \A r \in Row : front[r].bytes # << >> => screen'[r] = screen[r]
  PROVE  ShowsInv'
<1>1. PICK s \in {tty, Default} : SetSize(s)
  OBVIOUS
<1>2. Due'
  BY DEF Due
<1>3. CASE s = size
  <2>1. /\ width' = width /\ height' = height /\ front' = front /\ fresh' = fresh
        /\ lost' = lost /\ tty' = tty /\ back' = back /\ in_frame' = in_frame
    BY <1>1, <1>3 DEF SetSize, size
  <2>2. Sent'
    <3>1. SUFFICES ASSUME size' = tty', ~ lost', NEW r \in Row, r < height', front'[r].bytes # << >>
                   PROVE  screen'[r] = front'[r].bytes
      BY DEF Sent
    <3>2. size = tty /\ ~ lost /\ r < height /\ front[r].bytes # << >>
      BY <2>1, <3>1 DEF size
    <3>3. screen[r] = front[r].bytes /\ screen'[r] = screen[r]
      BY <3>2 DEF ShowsInv, Sent
    <3> QED
      BY <2>1, <3>3
  <2>3. Whole' /\ Kept'
    BY <2>1 DEF ShowsInv, Whole, Kept
  <2> QED
    BY <1>2, <2>2, <2>3 DEF ShowsInv
<1>4. CASE s # size
  <2>1. front' = [r \in Row |-> Empty] /\ fresh' = FALSE
    BY <1>1, <1>4 DEF SetSize
  <2>2. \A r \in Row : front'[r].bytes = << >>
    BY <2>1 DEF Empty
  <2>3. Sent'
    BY <2>2 DEF Sent
  <2>4. Whole' /\ Kept'
    BY <2>1 DEF Whole, Kept
  <2> QED
    BY <1>2, <2>3, <2>4 DEF ShowsInv
<1> QED
  BY <1>3, <1>4

\* A row that was drawn fits in the columns of the terminal.
LEMMA DrawnFits ==
  ASSUME NEW row, Drawn(width, row), size = tty
  PROVE  Fits(row.bytes)
<1>1. tty[1] = width
  BY DEF size
<1> QED
  BY <1>1 DEF Drawn, RowText, Fits

LEMMA ShowsInvEnd ==
  ASSUME RowsInv, ShowsInv, EveryRow, NEW cut \in 0 .. MaxHeight, EndFrame(cut)
  PROVE  ShowsInv'
<1>1. /\ size' = size /\ height' = height /\ tty' = tty /\ winch' = winch /\ back' = back
      /\ life' = life /\ in_frame
      /\ front' = [r \in Row |-> IF r \in Changed THEN back[r] ELSE front[r]]
      /\ \A r \in 0 .. height - 1 : back[r].bytes # << >>
  BY DEF EndFrame, bounds, modes, size
<1>2. /\ back \in [Row -> Rows] /\ front \in [Row -> Rows] /\ height \in 0 .. MaxHeight
      /\ MaxHeight \in Nat
  BY TermAssumption DEF RowsInv, TermTypes
<1>3. ASSUME NEW r \in Row, r < height
      PROVE  r \in 0 .. height - 1 /\ Drawn(width, back[r]) /\ back[r].bytes # << >>
  <2>1. r \in 0 .. height - 1
    BY <1>2, <1>3, RowIs
  <2> QED
    BY <1>1, <1>3, <2>1 DEF RowsInv, BackDrawn
<1>4. ASSUME NEW r \in Row, r < height PROVE front'[r] = back[r]
  <2>1. CASE r \in Changed
    BY <1>1, <2>1
  <2>2. CASE r \notin Changed
    <3>1. back[r].bytes = front[r].bytes
      BY <1>3, <1>4, <2>2 DEF Changed
    <3>2. RowText(front[r]) /\ RowText(back[r])
      BY <1>3, <1>4 DEF RowsInv, FrontText, Drawn
    <3>3. back[r].cols = front[r].cols
      BY <3>1, <3>2, Zenon DEF RowText
    <3>4. back[r] \in Rows /\ front[r] \in Rows
      BY <1>2
    <3>5. back[r] = front[r]
      BY <3>1, <3>3, <3>4 DEF Rows
    <3> QED
      BY <1>1, <2>2, <3>5
  <2> QED
    BY <2>1, <2>2
<1>5. Due'
  BY <1>1 DEF ShowsInv, Due
<1>6. Whole' /\ Kept'
  BY <1>1, <1>3, <1>4 DEF Whole, Kept
<1>7. Sent'
  <2>1. SUFFICES ASSUME size = tty, ~ lost', NEW r \in Row, r < height
                 PROVE  screen'[r] = back[r].bytes
    BY <1>1, <1>4 DEF Sent
  <2>2. ~ lost /\ \A q \in Changed : ~ (q >= cut)
    BY <2>1 DEF EndFrame
  <2>3. screen' = [q \in Row |-> IF q \notin Changed \/ q > cut THEN screen[q]
                                 ELSE IF q = cut \/ ~ Fits(back[q].bytes) THEN Junk
                                 ELSE back[q].bytes]
    BY <2>1, Zenon DEF EndFrame
  <2>4. screen'[r] = IF r \notin Changed \/ r > cut THEN screen[r]
                     ELSE IF r = cut \/ ~ Fits(back[r].bytes) THEN Junk
                     ELSE back[r].bytes
    BY <2>3
  <2>5. CASE r \in Changed
    <3>1. ~ (r >= cut)
      BY <2>2, <2>5
    <3>2. ~ (r > cut) /\ r # cut
      BY <3>1, <1>2, RowIs
    <3>3. Fits(back[r].bytes)
      BY <1>3, <2>1, DrawnFits
    <3> QED
      BY <2>4, <2>5, <3>2, <3>3, Zenon
  <2>6. CASE r \notin Changed
    <3>1. back[r].bytes = front[r].bytes /\ back[r].bytes # << >>
      BY <1>3, <2>1, <2>6 DEF Changed
    <3>2. screen[r] = front[r].bytes
      BY <2>1, <2>2, <3>1 DEF ShowsInv, Sent
    <3> QED
      BY <2>4, <2>6, <3>1, <3>2
  <2> QED
    BY <2>5, <2>6
<1> QED
  BY <1>5, <1>6, <1>7 DEF ShowsInv

LEMMA ShowsInvStep ==
  RowsInv /\ ShowsInv /\ EveryRow /\ ~ Bounce /\ [Next]_vars => ShowsInv'
<1> SUFFICES ASSUME RowsInv, ShowsInv, EveryRow, ~ Bounce, [Next]_vars PROVE ShowsInv'
  OBVIOUS
<1>1. CASE New
  <2>1. ~ in_frame /\ \A r \in Row : front[r].bytes = << >>
    BY <1>1 DEF New, RowsInv, NotYet, Empty
  <2>2. UNCHANGED <<back, in_frame, tty, winch>> /\ life' # "none" /\ ~ winch
    BY <1>1 DEF New, frame, ShowsInv, Due
  <2>3. \E s \in {tty, Default} : SetSize(s)
    BY <1>1, Zenon DEF New
  <2> QED
    BY <2>1, <2>2, <2>3, ShowsInvSize
<1>2. CASE NewFails \/ Stop \/ Free
  <2>1. UNCHANGED shown /\ UNCHANGED <<back, in_frame>> /\ life' # "none"
    BY <1>2 DEF NewFails, Stop, Free, shown, size, frame, world
  <2> QED
    BY <2>1, ShowsInvKeeps
<1>3. CASE OnWinch
  <2>1. UNCHANGED <<back, in_frame, tty, screen>> /\ ~ winch' /\ life' # "none"
    BY <1>3 DEF OnWinch, modes, frame
  <2>2. \E s \in {tty, Default} : SetSize(s)
    BY <1>3, Zenon DEF OnWinch
  <2> QED
    BY <2>1, <2>2, ShowsInvSize
<1>4. CASE BeginFrame
  <2>1. UNCHANGED shown /\ in_frame' /\ life' = life
    BY <1>4 DEF BeginFrame, shown, modes, size, world
  <2> QED
    BY <2>1, ShowsInvKeeps
<1>5. CASE \/ RowEnd
           \/ \E r \in 0 .. MaxHeight : RowBegin(r)
           \/ \E text \in Limit.texts : RowPuts(text)
           \/ \E sgr \in Limit.sgr : RowAttr(sgr)
           \/ \E col \in Limit.cols : RowPad(col)
  <2>1. UNCHANGED shown /\ in_frame' /\ life' = life
    <3>1. CASE RowEnd
      BY <3>1 DEF RowEnd, shown, modes, size, world
    <3>2. CASE \E r \in 0 .. MaxHeight : RowBegin(r)
      BY <3>2 DEF RowBegin, shown, modes, size, world
    <3>3. CASE \E text \in Limit.texts : RowPuts(text)
      BY <3>3 DEF RowPuts, Draw, shown, modes, size, world
    <3>4. CASE \E sgr \in Limit.sgr : RowAttr(sgr)
      BY <3>4 DEF RowAttr, Draw, shown, modes, size, world
    <3>5. CASE \E col \in Limit.cols : RowPad(col)
      BY <3>5 DEF RowPad, Draw, shown, modes, size, world
    <3> QED
      BY <1>5, <3>1, <3>2, <3>3, <3>4, <3>5
  <2> QED
    BY <2>1, ShowsInvKeeps
<1>6. CASE \E cut \in 0 .. MaxHeight : EndFrame(cut)
  BY <1>6, ShowsInvEnd
<1>7. CASE \E n \in 1 .. Len(typed) : TtyRead(n)
  <2>1. UNCHANGED shown /\ UNCHANGED <<back, in_frame>> /\ life' = life
    BY <1>7 DEF TtyRead, shown, modes, size, frame, world
  <2> QED
    BY <2>1, ShowsInvKeeps
<1>8. CASE \E s \in Limit.sizes : SizeChanges(s)
  <2>1. PICK s \in Limit.sizes : SizeChanges(s)
    BY <1>8
  <2>2. /\ tty' = s /\ size' = size /\ s # size /\ height' = height /\ front' = front
        /\ fresh' = fresh /\ back' = back /\ in_frame' = in_frame /\ life' = life
        /\ life \in {"ready", "stopped"}
    BY <2>1 DEF SizeChanges, size, modes, frame
  <2>3. Due' /\ Sent'
    BY <2>2 DEF Due, Sent
  <2>4. Whole' /\ Kept'
    BY <2>2 DEF ShowsInv, Whole, Kept
  <2> QED
    BY <2>3, <2>4 DEF ShowsInv
<1>9. CASE UNCHANGED vars
  <2>1. UNCHANGED shown /\ UNCHANGED <<back, in_frame>> /\ life' = life
    BY <1>9 DEF vars, shown
  <2> QED
    BY <2>1, ShowsInvKeeps
<1> QED
  BY <1>1, <1>2, <1>3, <1>4, <1>5, <1>6, <1>7, <1>8, <1>9 DEF Next

LEMMA ShowsInvShows == RowsInv /\ ShowsInv => ScreenShowsFrame
<1> SUFFICES ASSUME RowsInv, ShowsInv, ~ in_frame, fresh, size = tty, ~ lost,
                    NEW r \in 0 .. height - 1
             PROVE  screen[r] = front[r].bytes /\ front[r] = back[r]
  BY DEF ScreenShowsFrame
<1>1. r \in Row /\ r < height
  <2>1. height \in 0 .. MaxHeight /\ MaxHeight \in Nat
    BY TermAssumption DEF RowsInv, TermTypes
  <2> QED
    BY <2>1, RowIs
<1> QED
  BY <1>1 DEF ShowsInv, Sent, Whole, Kept

\* After each frame the screen shows all of it, although only the rows that changed are
\* sent and each row only as far as it fits: unless a write failed, or the terminal has a
\* size that is not yet known.  The client ends every row, and a terminal does not return
\* to its old size unnoticed (yc_term_end_frame, rows_differ, yc_term_set_size).
THEOREM AlwaysShown == ASSUME UnicodeTexts, EveryRow, ~ Bounce PROVE Spec => []ScreenShowsFrame
<1>1. RowsInv /\ [Next]_vars => RowsInv'
  BY RowsInvStep
<1>2. RowsInv /\ ShowsInv /\ [Next]_vars => ShowsInv'
  BY ShowsInvStep
<1>3. Spec => [](RowsInv /\ ShowsInv)
  BY <1>1, <1>2, RowsInvInit, ShowsInvInit, PTL DEF Spec
<1> QED
  BY <1>3, ShowsInvShows, PTL
=============================================================================

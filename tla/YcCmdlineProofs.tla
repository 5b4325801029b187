--------------------------- MODULE YcCmdlineProofs ---------------------------
(***************************************************************************)
(* Proofs about YcCmdline, for every table of options, every function of   *)
(* theirs and every regular command line of any length: it is understood   *)
(* as it was meant, what is left of it is what the program is to find, and *)
(* it is accepted if and only if it is right.                              *)
(***************************************************************************)
EXTENDS YcCmdline, SequenceFacts, FiniteSetTheorems

-----------------------------------------------------------------------------
(* One option after another.                                               *)

\* h holds what the first options of q make of d.
Handles(h, d, q) ==
  h[0] = d /\ \A m \in 1 .. Len(q) : h[m] = Step(h[m - 1], q[m])

\* What FoldLeft is defined by: the same over sets of positions.
Iterated(g, d, q, m) ==
  g = [s \in SUBSET (1 .. m) |->
         IF s = {} THEN d ELSE Step(g[s \ {Max(s)}], q[Max(s)])]

\* The Max of a set of integers is its greatest member.
LEMMA GreatestIs ==
  ASSUME NEW s, NEW m \in s, s \subseteq Int, \A k \in s : k <= m
  PROVE  Max(s) = m
<1>1. \A k \in s : m >= k
  OBVIOUS
<1>2. Max(s) \in s /\ \A k \in s : Max(s) >= k
  BY <1>1 DEF Max
<1>3. Max(s) <= m /\ Max(s) >= m /\ Max(s) \in Int /\ m \in Int
  BY <1>2
<1> QED
  BY <1>3

\* What FoldLeft chooses exists: over n positions, by induction on n.
LEMMA IteratedExists ==
  ASSUME NEW S, NEW q \in Seq(S), NEW d, NEW n \in Nat
  PROVE  \E g : Iterated(g, d, q, n)
<1> DEFINE T == {m \in Nat : \E g : Iterated(g, d, q, m)}
<1>1. 0 \in T
  <2> DEFINE g == [s \in SUBSET (1 .. 0) |-> d]
  <2>1. \A s \in SUBSET (1 .. 0) : s = {}
    OBVIOUS
  <2>2. g = [s \in SUBSET (1 .. 0) |->
               IF s = {} THEN d ELSE Step(g[s \ {Max(s)}], q[Max(s)])]
    BY <2>1
  <2>3. Iterated(g, d, q, 0)
    BY <2>2 DEF Iterated
  <2> HIDE DEF g
  <2> QED
    BY <2>3
<1>2. ASSUME NEW m \in T PROVE m + 1 \in T
  <2>1. PICK g : Iterated(g, d, q, m)
    OBVIOUS
  <2> DEFINE E == [s \in SUBSET (1 .. m + 1) |->
                     IF s \in SUBSET (1 .. m) THEN g[s] ELSE Step(g[s \ {m + 1}], q[m + 1])]
  <2>2. ASSUME NEW s \in SUBSET (1 .. m + 1)
        PROVE  E[s] = IF s = {} THEN d ELSE Step(E[s \ {Max(s)}], q[Max(s)])
    <3>1. CASE s = {}
      BY <2>1, <3>1 DEF Iterated
    <3>2. CASE s # {} /\ s \in SUBSET (1 .. m)
      <4>1. g[s] = Step(g[s \ {Max(s)}], q[Max(s)])
        BY <2>1, <3>2 DEF Iterated
      <4>2. s \ {Max(s)} \in SUBSET (1 .. m) /\ s \ {Max(s)} \in SUBSET (1 .. m + 1)
        BY <3>2
      <4> QED
        BY <3>2, <4>1, <4>2
    <3>3. CASE s \notin SUBSET (1 .. m)
      <4>1. m + 1 \in s /\ \A k \in s : k <= m + 1
        BY <3>3
      <4>2. Max(s) = m + 1
        <5>1. s \subseteq Int
          OBVIOUS
        <5> QED
          BY <4>1, <5>1, GreatestIs
      <4>3. s \ {m + 1} \in SUBSET (1 .. m) /\ s \ {m + 1} \in SUBSET (1 .. m + 1)
        OBVIOUS
      <4>4. E[s] = Step(g[s \ {m + 1}], q[m + 1]) /\ E[s \ {m + 1}] = g[s \ {m + 1}]
        BY <3>3, <4>3
      <4>5. s # {}
        BY <4>1
      <4> QED
        BY <4>2, <4>4, <4>5
    <3> QED
      BY <3>1, <3>2, <3>3
  <2>3. E = [s \in SUBSET (1 .. m + 1) |-> E[s]]
    OBVIOUS
  <2> HIDE DEF E
  <2>4. E = [s \in SUBSET (1 .. m + 1) |->
               IF s = {} THEN d ELSE Step(E[s \ {Max(s)}], q[Max(s)])]
    BY <2>2, <2>3
  <2>5. Iterated(E, d, q, m + 1)
    BY <2>4 DEF Iterated
  <2> QED
    BY <2>5
<1>3. T = Nat
  <2> HIDE DEF T
  <2> QED
    BY <1>1, <1>2, SetInduction DEF T
<1> QED
  BY <1>3

\* HandleAll goes through its options from the first to the last.
LEMMA HandleAllIs ==
  ASSUME NEW S, NEW q \in Seq(S), NEW d
  PROVE  \E h : Handles(h, d, q) /\ HandleAll(d, q) = h[Len(q)]
<1> DEFINE n == Len(q)
           g == CHOOSE f : Iterated(f, d, q, n)
           h == [m \in 0 .. n |-> g[1 .. m]]
<1>1. n \in Nat /\ DOMAIN q = 1 .. n
  OBVIOUS
<1>2. Iterated(g, d, q, n)
  BY <1>1, IteratedExists
<1>3. HandleAll(d, q) = g[1 .. n]
  BY <1>1 DEF HandleAll, FoldLeft, MapThenFoldSet, Iterated
<1> HIDE DEF g
<1>4. h[0] = d
  BY <1>1, <1>2 DEF Iterated
<1>5. ASSUME NEW m \in 1 .. n PROVE h[m] = Step(h[m - 1], q[m])
  <2>1. Max(1 .. m) = m
    <3>1. m \in 1 .. m /\ 1 .. m \subseteq Int /\ \A k \in 1 .. m : k <= m
      BY <1>1
    <3> QED
      BY <3>1, GreatestIs
  <2>2. 1 .. m \in SUBSET (1 .. n) /\ 1 .. m # {} /\ (1 .. m) \ {m} = 1 .. m - 1
    <3>1. m \in Nat /\ n \in Nat /\ 1 <= m /\ m <= n
      BY <1>1
    <3> HIDE DEF n
    <3>2. 1 .. m \in SUBSET (1 .. n) /\ m \in 1 .. m
      BY <3>1
    <3>3. \A k : k \in (1 .. m) \ {m} <=> k \in 1 .. m - 1
      BY <3>1
    <3> QED
      BY <3>2, <3>3
  <2>3. g[1 .. m] = Step(g[(1 .. m) \ {Max(1 .. m)}], q[Max(1 .. m)])
    BY <1>2, <2>2 DEF Iterated
  <2>4. h[m] = g[1 .. m] /\ h[m - 1] = g[1 .. m - 1]
    BY <1>1
  <2> QED
    BY <2>1, <2>2, <2>3, <2>4
<1>6. h[n] = g[1 .. n]
  BY <1>1
<1> HIDE DEF h
<1> QED
  BY <1>3, <1>4, <1>5, <1>6 DEF Handles

\* No option changes nothing,
LEMMA HandleNone == ASSUME NEW d PROVE HandleAll(d, << >>) = d
<1>1. << >> \in Seq({}) /\ Len(<< >>) = 0
  OBVIOUS
<1>2. PICK h : Handles(h, d, << >>) /\ HandleAll(d, << >>) = h[Len(<< >>)]
  BY <1>1, HandleAllIs
<1> QED
  BY <1>1, <1>2 DEF Handles

\* one more option is one more Step,
LEMMA HandleAppend ==
  ASSUME NEW S, NEW q \in Seq(S), NEW e \in S, NEW d
  PROVE  HandleAll(d, Append(q, e)) = Step(HandleAll(d, q), e)
<1> DEFINE n == Len(q)
<1>0. /\ Append(q, e) \in Seq(S) /\ Len(Append(q, e)) = n + 1 /\ Append(q, e)[n + 1] = e
      /\ \A m \in 1 .. n : Append(q, e)[m] = q[m]
  BY AppendFacts
<1>1. PICK r \in Seq(S) : r = Append(q, e) /\ Len(r) = n + 1 /\ r[n + 1] = e
                         /\ \A m \in 1 .. n : r[m] = q[m]
  BY <1>0
<1>2. PICK h : Handles(h, d, q) /\ HandleAll(d, q) = h[n]
  BY HandleAllIs
<1>3. PICK g : Handles(g, d, r) /\ HandleAll(d, r) = g[n + 1]
  BY <1>1, HandleAllIs
<1> DEFINE T == {m \in Nat : m <= n => g[m] = h[m]}
<1>4. n \in Nat
  OBVIOUS
<1> HIDE DEF n
<1>5. 0 \in T
  BY <1>2, <1>3 DEF Handles
<1>6. ASSUME NEW m \in T PROVE m + 1 \in T
  <2> SUFFICES ASSUME m + 1 <= n PROVE g[m + 1] = h[m + 1]
    OBVIOUS
  <2>1. g[m] = h[m] /\ m + 1 \in 1 .. n /\ m + 1 \in 1 .. n + 1 /\ m + 1 - 1 = m
    BY <1>4
  <2>2. h[m + 1] = Step(h[m + 1 - 1], q[m + 1])
    BY <1>2, <2>1 DEF Handles, n
  <2>3. g[m + 1] = Step(g[m + 1 - 1], r[m + 1])
    BY <1>1, <1>3, <2>1 DEF Handles
  <2> QED
    BY <1>1, <2>1, <2>2, <2>3
<1>7. n \in T
  <2> HIDE DEF T
  <2>1. T = Nat
    BY <1>5, <1>6, SetInduction DEF T
  <2> QED
    BY <1>4, <2>1
<1>8. g[n] = h[n]
  BY <1>4, <1>7
<1>9. g[n + 1] = Step(g[n + 1 - 1], r[n + 1])
  BY <1>1, <1>3, <1>4 DEF Handles
<1>10. n + 1 - 1 = n
  BY <1>4
<1> QED
  BY <1>1, <1>2, <1>3, <1>8, <1>9, <1>10

\* and some options after others go on from what those made.
LEMMA HandleConcat ==
  ASSUME NEW S, NEW p \in Seq(S), NEW q \in Seq(S), NEW d
  PROVE  HandleAll(d, p \o q) = HandleAll(HandleAll(d, p), q)
<1> DEFINE T == {r \in Seq(S) : HandleAll(d, p \o r) = HandleAll(HandleAll(d, p), r)}
<1>1. << >> \in T
  BY HandleNone, ConcatEmpty
<1>2. ASSUME NEW r \in T, NEW e \in S PROVE Append(r, e) \in T
  <2>1. p \o Append(r, e) = Append(p \o r, e) /\ p \o r \in Seq(S)
    BY ConcatAppend, ConcatFacts
  <2>2. HandleAll(d, Append(p \o r, e)) = Step(HandleAll(d, p \o r), e)
    BY <2>1, HandleAppend
  <2>3. HandleAll(HandleAll(d, p), Append(r, e)) = Step(HandleAll(HandleAll(d, p), r), e)
    BY HandleAppend
  <2>4. Append(r, e) \in Seq(S)
    BY AppendFacts
  <2> QED
    BY <2>1, <2>2, <2>3, <2>4
<1>3. T = Seq(S)
  <2> HIDE DEF T
  <2> QED
    BY <1>1, <1>2, SeqInduction DEF T
<1> QED
  BY <1>3

\* What failed or ended the program is not mended by more options.
LEMMA HandleStuck ==
  ASSUME NEW S, NEW q \in Seq(S), NEW d, d.outcome # "processing"
  PROVE  HandleAll(d, q) = d
<1> DEFINE T == {r \in Seq(S) : HandleAll(d, r) = d}
<1>1. << >> \in T
  BY HandleNone
<1>2. ASSUME NEW r \in T, NEW e \in S PROVE Append(r, e) \in T
  <2>1. Append(r, e) \in Seq(S)
    BY AppendFacts
  <2>2. HandleAll(d, Append(r, e)) = Step(HandleAll(d, r), e)
    BY HandleAppend
  <2>3. Step(d, e) = d
    BY DEF Step
  <2> QED
    BY <2>1, <2>2, <2>3
<1>3. T = Seq(S)
  <2> HIDE DEF T
  <2> QED
    BY <1>1, <1>2, SeqInduction DEF T
<1> QED
  BY <1>3

\* What a function of an option returns: its settings, and no decision to accept.
IsResult(d) ==
  /\ d = Ended(d.settings, d.outcome)
  /\ d.outcome \notin {"checking", "accepted"}

\* Each of these is such a result.
LEMMA ResultForms ==
  ASSUME NEW s
  PROVE  /\ IsResult(Done(s)) /\ IsResult(Ended(s, "refused"))
         /\ IsResult(Ended(s, "exit 0")) /\ IsResult(Ended(s, "exit 1"))
<1>1. IsResult(Done(s)) /\ IsResult(Ended(s, "refused"))
  BY DEF IsResult, Done, Ended
<1>2. ASSUME NEW how, how \notin {"checking", "accepted"} PROVE IsResult(Ended(s, how))
  BY <1>2 DEF IsResult, Ended
<1>3. "exit 0" \notin {"checking", "accepted"} /\ "exit 1" \notin {"checking", "accepted"}
  BY Zenon
<1> QED
  BY <1>1, <1>2, <1>3, Zenon

\* The function of every option returns one.
LEMMA HandleEnds ==
  ASSUME NEW s, NEW o \in Options, NEW v
  PROVE  IsResult(Handle(s, o, v))
<1>1. Table[o].type \in {"string", "boolean", "uint", "colorize", "recorder", "ui-option",
                        "list", "help-ui"}
  BY CmdlineAssumption
<1>2. CASE Table[o].type = "string"
  BY <1>2, ResultForms, Zenon DEF Handle
<1>3. CASE Table[o].type = "boolean"
  BY <1>3, ResultForms, Zenon DEF Handle
<1>4. CASE Table[o].type = "uint"
  <2>1. Handle(s, o, v) = HandleUint(s, o, v)
    BY <1>4, Zenon DEF Handle
  <2> QED
    BY <2>1, ResultForms, Zenon DEF HandleUint
<1>5. CASE Table[o].type = "colorize"
  <2>1. Handle(s, o, v) = HandleColorize(s, o, v)
    BY <1>5, Zenon DEF Handle
  <2> QED
    BY <2>1, ResultForms, Zenon DEF HandleColorize
<1>6. CASE Table[o].type = "recorder"
  <2>1. Handle(s, o, v) = HandleRecorder(s, o, v)
    BY <1>6, Zenon DEF Handle
  <2> QED
    BY <2>1, ResultForms, Zenon DEF HandleRecorder
<1>7. CASE Table[o].type = "ui-option"
  <2>1. Handle(s, o, v) = HandleUIOption(s, o, v)
    BY <1>7, Zenon DEF Handle
  <2> QED
    BY <2>1, ResultForms, Zenon DEF HandleUIOption
<1>8. CASE Table[o].type = "list"
  BY <1>8, ResultForms, Zenon DEF Handle
<1>9. CASE Table[o].type = "help-ui"
  <2>1. Handle(s, o, v) = Ended(s, "exit 0") \/ Handle(s, o, v) = Ended(s, "exit 1")
    BY <1>9, Zenon DEF Handle
  <2> QED
    BY <2>1, ResultForms, Zenon
<1> QED
  BY <1>1, <1>2, <1>3, <1>4, <1>5, <1>6, <1>7, <1>8, <1>9

\* The same of several options.
LEMMA HandleAllEnds ==
  ASSUME NEW V, NEW q \in Seq([option : Options, value : V]), NEW d, IsResult(d)
  PROVE  IsResult(HandleAll(d, q))
<1> DEFINE S == [option : Options, value : V]
           T == {r \in Seq(S) : IsResult(HandleAll(d, r))}
<1>1. << >> \in T
  BY HandleNone
<1>2. ASSUME NEW r \in T, NEW e \in S PROVE Append(r, e) \in T
  <2>1. Append(r, e) \in Seq(S) /\ e.option \in Options
    BY AppendFacts
  <2> HIDE DEF S
  <2>2. HandleAll(d, Append(r, e)) = Step(HandleAll(d, r), e)
    BY HandleAppend
  <2>3. IsResult(HandleAll(d, r)) /\ IsResult(Handle(HandleAll(d, r).settings, e.option, e.value))
    BY <2>1, HandleEnds
  <2>4. IsResult(Step(HandleAll(d, r), e))
    BY <2>3, Zenon DEF Step
  <2> QED
    BY <2>1, <2>2, <2>4
<1>3. T = Seq(S)
  <2> HIDE DEF T, S
  <2> QED
    BY <1>1, <1>2, SeqInduction DEF T
<1> QED
  BY <1>3

-----------------------------------------------------------------------------
(* The items of a line.                                                    *)

\* The lines that the proofs are about.
RegularLines == {l \in Lines : Regular(l)}

IsDash(item) == item.form = "word" /\ item.word = Dash
FirstDash(l) == SelectInSeq(l, IsDash)

\* How many items are heeded.
Heed(l) == IF FirstDash(l) = 0 THEN Len(l) ELSE FirstDash(l) - 1

\* What stays in argv of an item that was passed, and of the first k; and the
\* words of the others.
Keep(p, item) == IF ~p.swallow \/ item.form = "word" THEN Words(item) ELSE << >>
Kept(l, p, k) == FlattenSeq([j \in 1 .. k |-> Keep(p, l[j])])
Rest(l, k) == FlattenSeq([j \in 1 .. Len(l) - k |-> Words(l[j + k])])

\* What the first k items set.
Upto(l, k) == FlattenSeq([j \in 1 .. k |-> Sets(l[j])])
OptionsIn(sets) == {set.option : set \in ToSet(sets)}
Result(l, k) == HandleAll(Done(Default), Upto(l, k))

Permitted(p, item) ==
  item.form = "word" =>
    \/ item.word.kind = "text" /\ p.extra
    \/ item.word.kind = "long" /\ item.word.name \notin Options /\ p.unknown

\* What the program finds in argv after the options.
Leaving(l) ==
  [k \in 1 .. Len(l) |->
     IF k > Heed(l) + 1 \/ (l[k].form = "word" /\ l[k].word # Dash) THEN Words(l[k]) ELSE <<>>]
Left(l, p) == IF ~p.swallow THEN Rest(l, 0) ELSE FlattenSeq(Leaving(l))

Together(opts) ==
  /\ \A o \in Options : Table[o].mandatory => o \in opts
  /\ \A x \in Exclusions : LET n == Cardinality(x.options \cap opts) IN
                             n <= 1 /\ (x.one_required => n = 1)

WantedOf(l, p) ==
  /\ Result(l, Heed(l)).outcome = "processing"
  /\ Together(OptionsIn(Upto(l, Heed(l))))
  /\ \A k \in 1 .. Heed(l) : Permitted(p, l[k])
  /\ FirstDash(l) # 0 => p.extra

\* What holds when k items were passed.
Passed(k) ==
  /\ used = OptionsIn(Upto(line, k))
  /\ Done(settings) = Result(line, k)
  /\ \A j \in 1 .. k : Permitted(permit, line[j])

\* The loop is always between two items.
Between(k) ==
  /\ Passed(k)
  /\ argv = Kept(line, permit, k) \o Rest(line, k)
  /\ i = Len(Kept(line, permit, k)) + 1

CmdInv ==
  /\ line \in RegularLines /\ permit \in Modes
  /\ ~permit.swallow => argv = Rest(line, 0)
  /\ outcome = "processing" => \E k \in 0 .. Heed(line) : Between(k)
  /\ outcome \in {"checking", "accepted"} =>
       /\ Passed(Heed(line)) /\ argv = Left(line, permit)
       /\ FirstDash(line) # 0 => permit.extra
  /\ outcome = "accepted" => WantedOf(line, permit)
  /\ outcome = "refused" => ~WantedOf(line, permit)

AllWords(l) == UNION {ToSet(Words(l[k])) : k \in 1 .. Len(l)}
AllSets(l) == UNION {ToSet(Sets(l[k])) : k \in 1 .. Len(l)}

\* The words of an item and what it sets, by its form.
LEMMA OneWord ==
  ASSUME NEW e
  PROVE  /\ e.form = "joined" =>
              /\ Words(e) = <<Long(e.option, e.value)>>
              /\ Sets(e) = <<[option |-> e.option, value |-> e.value]>>
         /\ e.form = "alone" =>
              /\ Words(e) = <<Long(e.option, NoValue)>>
              /\ Sets(e) = <<[option |-> e.option, value |-> NoValue]>>
         /\ e.form = "letters" =>
              /\ Words(e) = <<Letters(e.letters)>>
              /\ Sets(e) = [k \in DOMAIN e.letters |->
                              [option |-> Shortcut[e.letters[k]], value |-> NoValue]]
         /\ e.form = "word" => Words(e) = <<e.word>> /\ Sets(e) = << >>
<1>1. ASSUME e.form = "joined" PROVE Words(e) = <<Long(e.option, e.value)>>
  BY <1>1, Zenon DEF Words
<1>2. ASSUME e.form = "alone" PROVE Words(e) = <<Long(e.option, NoValue)>>
  BY <1>2, Zenon DEF Words
<1>3. ASSUME e.form = "letters" PROVE Words(e) = <<Letters(e.letters)>>
  BY <1>3, Zenon DEF Words
<1>4. ASSUME e.form = "word" PROVE Words(e) = <<e.word>>
  BY <1>4, Zenon DEF Words
<1>5. ASSUME e.form = "joined" PROVE Sets(e) = <<[option |-> e.option, value |-> e.value]>>
  BY <1>5, Zenon DEF Sets
<1>6. ASSUME e.form = "alone" PROVE Sets(e) = <<[option |-> e.option, value |-> NoValue]>>
  BY <1>6, Zenon DEF Sets
<1>7. ASSUME e.form = "letters"
      PROVE  Sets(e) = [k \in DOMAIN e.letters |->
                          [option |-> Shortcut[e.letters[k]], value |-> NoValue]]
  BY <1>7, Zenon DEF Sets
<1>8. ASSUME e.form = "word" PROVE Sets(e) = << >>
  BY <1>8, Zenon DEF Sets
<1> QED
  BY <1>1, <1>2, <1>3, <1>4, <1>5, <1>6, <1>7, <1>8, Zenon

\* The same of the forms with a word for the value.
LEMMA TwoWords ==
  ASSUME NEW e
  PROVE  /\ e.form = "separate" =>
              /\ Words(e) = <<Long(e.option, NoValue), e.value>>
              /\ Sets(e) = <<[option |-> e.option, value |-> e.value]>>
         /\ e.form = "letter" =>
              /\ Words(e) = <<Letters(<<e.letter>>), e.value>>
              /\ Sets(e) = <<[option |-> Shortcut[e.letter], value |-> e.value]>>
<1>1. ASSUME e.form = "separate" PROVE Words(e) = <<Long(e.option, NoValue), e.value>>
  BY <1>1, Zenon DEF Words
<1>2. ASSUME e.form = "letter" PROVE Words(e) = <<Letters(<<e.letter>>), e.value>>
  BY <1>2, Zenon DEF Words
<1>3. ASSUME e.form = "separate" PROVE Sets(e) = <<[option |-> e.option, value |-> e.value]>>
  BY <1>3, Zenon DEF Sets
<1>4. ASSUME e.form = "letter"
      PROVE  Sets(e) = <<[option |-> Shortcut[e.letter], value |-> e.value]>>
  BY <1>4, Zenon DEF Sets
<1> QED
  BY <1>1, <1>2, <1>3, <1>4, Zenon

\* The first word of an option is the option.
LEMMA FirstWord ==
  ASSUME NEW e
  PROVE  /\ e.form \in {"joined", "separate", "alone"} =>
              Words(e)[1] = Long(e.option, e.value) \/ Words(e)[1] = Long(e.option, NoValue)
         /\ e.form \in {"letter", "letters"} =>
              Words(e)[1] = Letters(<<e.letter>>) \/ Words(e)[1] = Letters(e.letters)
<1>0. ASSUME NEW a, NEW b PROVE <<a>>[1] = a /\ <<a, b>>[1] = a
  OBVIOUS
<1>1. ASSUME e.form = "joined" PROVE Words(e)[1] = Long(e.option, e.value)
  <2>1. Words(e) = <<Long(e.option, e.value)>>
    BY <1>1, OneWord, Zenon
  <2> QED
    BY <1>0, <2>1, Zenon
<1>2. ASSUME e.form = "separate" PROVE Words(e)[1] = Long(e.option, NoValue)
  <2>1. Words(e) = <<Long(e.option, NoValue), e.value>>
    BY <1>2, TwoWords, Zenon
  <2> QED
    BY <1>0, <2>1, Zenon
<1>3. ASSUME e.form = "alone" PROVE Words(e)[1] = Long(e.option, NoValue)
  <2>1. Words(e) = <<Long(e.option, NoValue)>>
    BY <1>3, OneWord, Zenon
  <2> QED
    BY <1>0, <2>1, Zenon
<1>4. ASSUME e.form = "letter" PROVE Words(e)[1] = Letters(<<e.letter>>)
  <2>1. Words(e) = <<Letters(<<e.letter>>), e.value>>
    BY <1>4, TwoWords, Zenon
  <2> QED
    BY <1>0, <2>1, Zenon
<1>5. ASSUME e.form = "letters" PROVE Words(e)[1] = Letters(e.letters)
  <2>1. Words(e) = <<Letters(e.letters)>>
    BY <1>5, OneWord, Zenon
  <2> QED
    BY <1>0, <2>1, Zenon
<1> QED
  BY <1>1, <1>2, <1>3, <1>4, <1>5

\* A line is a sequence of items that can be told apart.
LEMMA LineFacts ==
  ASSUME NEW l \in RegularLines
  PROVE  /\ l \in Seq(ToSet(l)) /\ Len(l) \in Nat /\ DOMAIN l = 1 .. Len(l)
         /\ \A k \in 1 .. Len(l) :
              IsOption(l[k]) \/ IsWord(l[k]) \/ (k = Len(l) /\ IsCutShort(l[k]))
         /\ \A k \in 1 .. Len(l) : ~LoneLetter(l[k]) /\ \A set \in ToSet(Sets(l[k])) : Fits(set)
<1>0. l \in Lines
  BY DEF RegularLines
<1>1. l \in Seq(ToSet(l)) /\ \A k \in DOMAIN l :
        IsOption(l[k]) \/ IsWord(l[k]) \/ (k = Len(l) /\ IsCutShort(l[k]))
  BY <1>0, CmdlineAssumption
<1>2. Len(l) \in Nat /\ DOMAIN l = 1 .. Len(l)
  BY <1>1
<1>3. \A k \in DOMAIN l : ~LoneLetter(l[k]) /\ \A set \in ToSet(Sets(l[k])) : Fits(set)
  BY Zenon DEF RegularLines, Regular
<1> QED
  BY <1>1, <1>2, <1>3

\* The forms of an item.
LEMMA FormOf ==
  ASSUME NEW l \in RegularLines, NEW k \in 1 .. Len(l)
  PROVE  \/ l[k].form \in {"joined", "alone", "word", "separate", "letter"}
         \/ l[k].form = "letters" /\ l[k].letters \in Seq(DOMAIN Shortcut) /\ l[k].letters # << >>
  BY LineFacts DEF IsOption, IsWord, IsCutShort

\* A sequence is one over any set that has its members.
LEMMA SeqWithin ==
  ASSUME NEW S, NEW q \in Seq(S), NEW T, ToSet(q) \subseteq T
  PROVE  q \in Seq(T)
<1>1. DOMAIN q = 1 .. Len(q) /\ Len(q) \in Nat /\ q = [k \in 1 .. Len(q) |-> q[k]]
  OBVIOUS
<1>2. \A k \in 1 .. Len(q) : q[k] \in T
  BY <1>1 DEF ToSet
<1>3. q \in [1 .. Len(q) -> T]
  BY <1>1, <1>2
<1> QED
  BY <1>1, <1>3

\* An item has a word or two, of which the first tells what it is.
LEMMA WordsType ==
  ASSUME NEW l \in RegularLines, NEW k \in 1 .. Len(l)
  PROVE  /\ Words(l[k]) \in Seq(AllWords(l)) /\ Sets(l[k]) \in Seq(AllSets(l))
         /\ Len(Words(l[k])) = IF l[k].form \in {"separate", "letter"} THEN 2 ELSE 1
<1> DEFINE e == l[k]
<1>0. /\ e.form \in {"joined", "alone", "word", "letters"} \/ e.form \in {"separate", "letter"}
      /\ e.form = "letters" => e.letters \in Seq(DOMAIN Shortcut)
  BY FormOf
<1>1. /\ e.form \in {"joined", "alone", "word", "letters"} =>
           \E w : Words(e) = <<w>> /\ (e.form \in {"joined", "alone"} => \E x : Sets(e) = <<x>>)
      /\ e.form \in {"separate", "letter"} =>
           (\E w, v : Words(e) = <<w, v>>) /\ (\E x : Sets(e) = <<x>>)
  <2>1. ASSUME e.form = "joined" PROVE (\E w : Words(e) = <<w>>) /\ (\E x : Sets(e) = <<x>>)
    BY <2>1, OneWord
  <2>2. ASSUME e.form = "alone" PROVE (\E w : Words(e) = <<w>>) /\ (\E x : Sets(e) = <<x>>)
    BY <2>2, OneWord
  <2>3. ASSUME e.form = "word" PROVE \E w : Words(e) = <<w>>
    BY <2>3, OneWord
  <2>4. ASSUME e.form = "letters" PROVE \E w : Words(e) = <<w>>
    BY <2>4, OneWord
  <2>5. ASSUME e.form = "separate" PROVE (\E w, v : Words(e) = <<w, v>>) /\ (\E x : Sets(e) = <<x>>)
    BY <2>5, TwoWords
  <2>6. ASSUME e.form = "letter" PROVE (\E w, v : Words(e) = <<w, v>>) /\ (\E x : Sets(e) = <<x>>)
    BY <2>6, TwoWords
  <2> QED
    BY <2>1, <2>2, <2>3, <2>4, <2>5, <2>6
<1>2. ASSUME NEW w PROVE <<w>> \in Seq({w}) /\ Len(<<w>>) = 1
  OBVIOUS
<1>3. ASSUME NEW w, NEW v PROVE <<w, v>> \in Seq({w, v}) /\ Len(<<w, v>>) = 2
  OBVIOUS
<1>4. /\ \E S : Words(e) \in Seq(S)
      /\ Len(Words(e)) = IF e.form \in {"separate", "letter"} THEN 2 ELSE 1
  <2>1. CASE e.form \in {"joined", "alone", "word", "letters"}
    BY <1>1, <1>2, <2>1
  <2>2. CASE e.form \in {"separate", "letter"}
    <3>1. PICK w, v : Words(e) = <<w, v>>
      BY <1>1, <2>2
    <3>2. Words(e) \in Seq({w, v}) /\ Len(Words(e)) = 2
      BY <1>3, <3>1
    <3> QED
      BY <2>2, <3>2
  <2> QED
    BY <1>0, <2>1, <2>2
<1>5. \E S : Sets(e) \in Seq(S)
  <2>1. CASE e.form \in {"joined", "alone", "separate", "letter"}
    <3>1. \E w : Sets(e) = <<w>>
      BY <1>1, <2>1
    <3> QED
      BY <3>1, <1>2
  <2>2. CASE e.form = "word"
    <3>1. Sets(e) = << >>
      BY <2>2, OneWord
    <3>2. << >> \in Seq({})
      OBVIOUS
    <3> QED
      BY <3>1, <3>2
  <2>3. CASE e.form = "letters"
    <3>1. Sets(e) = [j \in DOMAIN e.letters |-> [option |-> Shortcut[e.letters[j]], value |-> NoValue]]
      BY <2>3, OneWord
    <3>2. DOMAIN e.letters = 1 .. Len(e.letters) /\ Len(e.letters) \in Nat
      BY <1>0, <2>3
    <3> DEFINE S == {[option |-> Shortcut[e.letters[j]], value |-> NoValue] : j \in DOMAIN e.letters}
    <3>3. Sets(e) \in [DOMAIN e.letters -> S]
      BY <3>1
    <3> HIDE DEF S
    <3>4. Sets(e) \in Seq(S)
      BY <3>2, <3>3
    <3> QED
      BY <3>4
  <2> QED
    BY <1>0, <2>1, <2>2, <2>3
<1>6. ToSet(Words(e)) \subseteq AllWords(l) /\ ToSet(Sets(e)) \subseteq AllSets(l)
  BY DEF AllWords, AllSets
<1> HIDE DEF e
<1>7. Words(e) \in Seq(AllWords(l)) /\ Sets(e) \in Seq(AllSets(l))
  BY <1>4, <1>5, <1>6, SeqWithin
<1> QED
  BY <1>4, <1>7 DEF e

-----------------------------------------------------------------------------
(* One item after another.                                                 *)

\* The first k of f, and those after the first k of n.
FirstOf(f, k) == [j \in 1 .. k |-> f[j]]
AfterOf(f, n, k) == [j \in 1 .. n - k |-> f[j + k]]

\* The first k + 1 flattened are the first k flattened, and then the next.
GoesOn(S, f, k) ==
  /\ FirstOf(f, k) \in Seq(Seq(S))
  /\ FlattenSeq(FirstOf(f, k + 1)) = FlattenSeq(FirstOf(f, k)) \o f[k + 1]

LEMMA FlattenUpto ==
  ASSUME NEW S, NEW n \in Nat, NEW f \in [1 .. n -> Seq(S)], NEW k \in 0 .. n - 1
  PROVE  GoesOn(S, f, k)
<1> DEFINE a == [j \in 1 .. k |-> f[j]]
           b == [j \in 1 .. k + 1 |-> f[j]]
<1>1. k \in Nat /\ k + 1 \in 1 .. n /\ \A j \in 1 .. k + 1 : f[j] \in Seq(S)
  OBVIOUS
<1>2. a \in Seq(Seq(S)) /\ b \in Seq(Seq(S)) /\ Len(a) = k /\ Len(b) = k + 1
  BY <1>1
<1>3. \A j \in 1 .. k : a[j] = b[j]
  BY <1>1
<1>4. b[k + 1] = f[k + 1]
  BY <1>1
<1> HIDE DEF a, b
<1>5. b = Append(a, b[k + 1])
  BY <1>1, <1>2, <1>3, SplitLast
<1>6. FlattenSeq(Append(a, f[k + 1])) = FlattenSeq(a) \o f[k + 1]
  BY <1>1, <1>2, FlattenAppend
<1> QED
  BY <1>2, <1>4, <1>5, <1>6 DEF a, b, FirstOf, GoesOn

\* What FlattenSeq makes of one sequence is that sequence.
LEMMA FlattenOne ==
  ASSUME NEW S, NEW w \in Seq(S)
  PROVE  FlattenSeq(<<w>>) = w
<1>1. << >> \in Seq(Seq(S)) /\ <<w>> = Append(<< >>, w)
  OBVIOUS
<1>2. FlattenSeq(Append(<< >>, w)) = FlattenSeq(<< >>) \o w
  BY <1>1, FlattenAppend
<1> QED
  BY <1>1, <1>2, FlattenEmpty, ConcatEmpty

\* The flattening of the items from k on.
LEMMA FlattenFrom ==
  ASSUME NEW S, NEW n \in Nat, NEW f \in [1 .. n -> Seq(S)], NEW k \in 0 .. n - 1
  PROVE  FlattenSeq(AfterOf(f, n, k)) = f[k + 1] \o FlattenSeq(AfterOf(f, n, k + 1))
<1> DEFINE a == <<f[k + 1]>>
           b == [j \in 1 .. n - (k + 1) |-> f[j + (k + 1)]]
           c == [j \in 1 .. n - k |-> f[j + k]]
<1>1. k \in Nat /\ k + 1 \in 1 .. n /\ f[k + 1] \in Seq(S) /\ n - (k + 1) \in Nat /\ n - k \in Nat
  OBVIOUS
<1>2. a \in Seq(Seq(S)) /\ Len(a) = 1 /\ a[1] = f[k + 1]
  BY <1>1
<1>3. b \in Seq(Seq(S)) /\ Len(b) = n - (k + 1)
  BY <1>1
<1>4. c \in Seq(Seq(S)) /\ Len(c) = n - k
  BY <1>1
<1>5. \A j \in 1 .. n - k : c[j] = IF j <= 1 THEN a[j] ELSE b[j - 1]
  BY <1>1
<1> HIDE DEF a, b, c
<1>6. /\ a \o b \in Seq(Seq(S)) /\ Len(a \o b) = Len(a) + Len(b)
      /\ \A j \in 1 .. Len(a) + Len(b) :
           (a \o b)[j] = IF j <= Len(a) THEN a[j] ELSE b[j - Len(a)]
  <2>1. PICK Q : Q = Seq(S)
    OBVIOUS
  <2>2. a \in Seq(Q) /\ b \in Seq(Q)
    BY <1>2, <1>3, <2>1
  <2>3. /\ a \o b \in Seq(Q) /\ Len(a \o b) = Len(a) + Len(b)
        /\ \A j \in 1 .. Len(a) + Len(b) :
             (a \o b)[j] = IF j <= Len(a) THEN a[j] ELSE b[j - Len(a)]
    BY <2>2, ConcatFacts, Zenon
  <2> QED
    BY <2>1, <2>3, Zenon
<1>7. c = a \o b
  <2>1. PICK ab \in Seq(Seq(S)) : ab = a \o b
    BY <1>6
  <2>2. /\ Len(ab) = n - k
        /\ \A j \in 1 .. n - k : ab[j] = IF j <= 1 THEN a[j] ELSE b[j - 1]
    <3>1. Len(ab) = Len(a) + Len(b)
          /\ \A j \in 1 .. Len(a) + Len(b) : ab[j] = IF j <= Len(a) THEN a[j] ELSE b[j - Len(a)]
      BY <1>6, <2>1, Zenon
    <3>2. Len(a) = 1 /\ Len(b) = n - (k + 1) /\ Len(a) + Len(b) = n - k
      BY <1>1, <1>2, <1>3
    <3> QED
      BY <3>1, <3>2
  <2>3. Len(ab) = Len(c) /\ \A j \in 1 .. Len(c) : ab[j] = c[j]
    BY <1>4, <1>5, <2>2
  <2> QED
    BY <1>4, <2>1, <2>3, SeqEqual
<1>8. FlattenSeq(a \o b) = FlattenSeq(a) \o FlattenSeq(b)
  BY <1>2, <1>3, FlattenConcat
<1>9. FlattenSeq(a) = f[k + 1]
  BY <1>1, FlattenOne DEF a
<1> QED
  BY <1>7, <1>8, <1>9 DEF b, c, AfterOf

\* What is kept of one item more, what it sets, and what remains after it.
LEMMA KeptNext ==
  ASSUME NEW l \in RegularLines, NEW p, NEW k \in 0 .. Len(l) - 1
  PROVE  /\ Keep(p, l[k + 1]) \in Seq(AllWords(l)) /\ Kept(l, p, k) \in Seq(AllWords(l))
         /\ Kept(l, p, k + 1) = Kept(l, p, k) \o Keep(p, l[k + 1])
<1> DEFINE n == Len(l)
           f == [j \in 1 .. n |-> Keep(p, l[j])]
<1>1. n \in Nat
  BY LineFacts
<1>2. \A j \in 1 .. n : Keep(p, l[j]) \in Seq(AllWords(l))
  BY WordsType DEF Keep
<1>3. f \in [1 .. n -> Seq(AllWords(l))]
  BY <1>2
<1>4. k \in Nat /\ k + 1 \in 1 .. n /\ f[k + 1] = Keep(p, l[k + 1])
  BY <1>1
<1>5. FirstOf(f, k) = [j \in 1 .. k |-> Keep(p, l[j])]
  BY <1>1 DEF FirstOf
<1>6. FirstOf(f, k + 1) = [j \in 1 .. k + 1 |-> Keep(p, l[j])]
  BY <1>1 DEF FirstOf
<1> HIDE DEF n, f
<1>7. /\ FirstOf(f, k) \in Seq(Seq(AllWords(l)))
      /\ FlattenSeq(FirstOf(f, k + 1)) = FlattenSeq(FirstOf(f, k)) \o f[k + 1]
  <2>1. PICK W : W = AllWords(l)
    OBVIOUS
  <2>2. n \in Nat /\ k \in 0 .. n - 1 /\ f \in [1 .. n -> Seq(W)]
    BY <1>1, <1>3, <2>1 DEF n
  <2>3. GoesOn(W, f, k)
    BY <2>2, FlattenUpto, Zenon
  <2> QED
    BY <2>1, <2>3, Zenon DEF GoesOn
<1>8. Kept(l, p, k + 1) = Kept(l, p, k) \o Keep(p, l[k + 1])
  BY <1>4, <1>5, <1>6, <1>7 DEF Kept
<1>9. Kept(l, p, k) \in Seq(AllWords(l))
  BY <1>5, <1>7, FlattenType DEF Kept
<1> QED
  BY <1>2, <1>4, <1>8, <1>9

\* The options of k + 1 items are those of k items and the next one's.
LEMMA UptoNext ==
  ASSUME NEW l \in RegularLines, NEW k \in 0 .. Len(l) - 1
  PROVE  /\ Sets(l[k + 1]) \in Seq(AllSets(l)) /\ Upto(l, k) \in Seq(AllSets(l))
         /\ Upto(l, k + 1) = Upto(l, k) \o Sets(l[k + 1])
<1> DEFINE n == Len(l)
           f == [j \in 1 .. n |-> Sets(l[j])]
<1>1. n \in Nat
  BY LineFacts
<1>2. \A j \in 1 .. n : Sets(l[j]) \in Seq(AllSets(l))
  BY WordsType
<1>3. f \in [1 .. n -> Seq(AllSets(l))]
  BY <1>2
<1>4. k \in Nat /\ k + 1 \in 1 .. n /\ f[k + 1] = Sets(l[k + 1])
  BY <1>1
<1>5. FirstOf(f, k) = [j \in 1 .. k |-> Sets(l[j])]
  BY <1>1 DEF FirstOf
<1>6. FirstOf(f, k + 1) = [j \in 1 .. k + 1 |-> Sets(l[j])]
  BY <1>1 DEF FirstOf
<1> HIDE DEF n, f
<1>7. /\ FirstOf(f, k) \in Seq(Seq(AllSets(l)))
      /\ FlattenSeq(FirstOf(f, k + 1)) = FlattenSeq(FirstOf(f, k)) \o f[k + 1]
  <2>1. PICK W : W = AllSets(l)
    OBVIOUS
  <2>2. n \in Nat /\ k \in 0 .. n - 1 /\ f \in [1 .. n -> Seq(W)]
    BY <1>1, <1>3, <2>1 DEF n
  <2>3. GoesOn(W, f, k)
    BY <2>2, FlattenUpto, Zenon
  <2> QED
    BY <2>1, <2>3, Zenon DEF GoesOn
<1>8. Upto(l, k + 1) = Upto(l, k) \o Sets(l[k + 1])
  BY <1>4, <1>5, <1>6, <1>7 DEF Upto
<1>9. Upto(l, k) \in Seq(AllSets(l))
  BY <1>5, <1>7, FlattenType DEF Upto
<1> QED
  BY <1>2, <1>4, <1>8, <1>9

\* The words from item k + 1 on are its own and those after it.
LEMMA RestNext ==
  ASSUME NEW l \in RegularLines, NEW k \in 0 .. Len(l) - 1
  PROVE  /\ Rest(l, k) = Words(l[k + 1]) \o Rest(l, k + 1)
         /\ Rest(l, k) \in Seq(AllWords(l))
<1> DEFINE n == Len(l)
           f == [j \in 1 .. n |-> Words(l[j])]
<1>1. n \in Nat
  BY LineFacts
<1>2. \A j \in 1 .. n : Words(l[j]) \in Seq(AllWords(l))
  BY WordsType
<1>3. f \in [1 .. n -> Seq(AllWords(l))]
  BY <1>2
<1>4. k \in Nat /\ k + 1 \in 1 .. n /\ f[k + 1] = Words(l[k + 1]) /\ n - k \in Nat
  BY <1>1
<1>5. AfterOf(f, n, k) = [j \in 1 .. n - k |-> Words(l[j + k])]
  BY <1>1 DEF AfterOf
<1>6. AfterOf(f, n, k + 1) = [j \in 1 .. n - (k + 1) |-> Words(l[j + (k + 1)])]
  BY <1>1 DEF AfterOf
<1>7. AfterOf(f, n, k) \in Seq(Seq(AllWords(l)))
  <2>1. \A j \in 1 .. n - k : j + k \in 1 .. n
    BY <1>1, <1>4
  <2>2. \A j \in 1 .. n - k : f[j + k] \in Seq(AllWords(l))
    BY <1>2, <2>1
  <2> HIDE DEF f
  <2>3. AfterOf(f, n, k) \in [1 .. n - k -> Seq(AllWords(l))]
    BY <2>2 DEF AfterOf
  <2> HIDE DEF n
  <2>4. PICK m \in Nat : m = n - k
    BY <1>4
  <2> QED
    BY <2>3, <2>4
<1>8. FlattenSeq(AfterOf(f, n, k)) = f[k + 1] \o FlattenSeq(AfterOf(f, n, k + 1))
  <2>1. k \in 0 .. n - 1
    OBVIOUS
  <2> HIDE DEF n, f
  <2> QED
    BY <1>1, <1>3, <2>1, FlattenFrom
<1> HIDE DEF f
<1> QED
  BY <1>4, <1>5, <1>6, <1>7, <1>8, FlattenType DEF Rest

\* At the begin nothing was kept or set; at the end nothing remains.
LEMMA Ends0 ==
  ASSUME NEW l \in RegularLines, NEW p
  PROVE  /\ Kept(l, p, 0) = << >> /\ Upto(l, 0) = << >>
         /\ \A k \in Nat : k >= Len(l) => Rest(l, k) = << >>
<1>1. [j \in 1 .. 0 |-> Keep(p, l[j])] = << >> /\ [j \in 1 .. 0 |-> Sets(l[j])] = << >>
  OBVIOUS
<1>2. ASSUME NEW k \in Nat, k >= Len(l) PROVE [j \in 1 .. Len(l) - k |-> Words(l[j + k])] = << >>
  BY <1>2, LineFacts
<1> QED
  BY <1>1, <1>2, FlattenEmpty DEF Kept, Upto, Rest

\* What k + 1 items mean is what the next one makes of what k items mean.
LEMMA ResultNext ==
  ASSUME NEW l \in RegularLines, NEW k \in 0 .. Len(l) - 1
  PROVE  Result(l, k + 1) = HandleAll(Result(l, k), Sets(l[k + 1]))
<1>1. /\ Upto(l, k + 1) = Upto(l, k) \o Sets(l[k + 1])
      /\ Upto(l, k) \in Seq(AllSets(l)) /\ Sets(l[k + 1]) \in Seq(AllSets(l))
  BY UptoNext
<1>2. HandleAll(Done(Default), Upto(l, k) \o Sets(l[k + 1])) =
        HandleAll(HandleAll(Done(Default), Upto(l, k)), Sets(l[k + 1]))
  BY <1>1, HandleConcat
<1> QED
  BY <1>1, <1>2 DEF Result

\* An item that fails makes the line fail.
LEMMA ResultStuck ==
  ASSUME NEW l \in RegularLines, NEW k \in 0 .. Len(l), Result(l, k).outcome # "processing",
         NEW m \in k .. Len(l)
  PROVE  Result(l, m) = Result(l, k)
<1> DEFINE T == {d \in Nat : k + d <= Len(l) => Result(l, k + d) = Result(l, k)}
<1>0. Len(l) \in Nat /\ k \in Nat
  BY LineFacts
<1>1. 0 \in T
  BY <1>0
<1>2. ASSUME NEW d \in T PROVE d + 1 \in T
  <2> SUFFICES ASSUME k + (d + 1) <= Len(l) PROVE Result(l, k + (d + 1)) = Result(l, k)
    OBVIOUS
  <2>1. k + d \in 0 .. Len(l) - 1 /\ k + (d + 1) = (k + d) + 1 /\ Result(l, k + d) = Result(l, k)
    BY <1>0
  <2>2. PICK j \in 0 .. Len(l) - 1 : j = k + d
    BY <2>1
  <2>3. Result(l, j + 1) = HandleAll(Result(l, j), Sets(l[j + 1]))
    BY ResultNext
  <2>4. Sets(l[j + 1]) \in Seq(AllSets(l))
    BY UptoNext
  <2>5. HandleAll(Result(l, j), Sets(l[j + 1])) = Result(l, j)
    BY <2>1, <2>2, <2>4, HandleStuck
  <2> QED
    BY <2>1, <2>2, <2>3, <2>5
<1>3. T = Nat
  <2> HIDE DEF T
  <2> QED
    BY <1>1, <1>2, SetInduction DEF T
<1>4. m - k \in Nat /\ k + (m - k) = m /\ m <= Len(l)
  BY <1>0
<1>5. PICK d \in Nat : d = m - k
  BY <1>4
<1>6. d \in T
  <2> HIDE DEF T
  <2> QED
    BY <1>3, <1>5
<1> QED
  BY <1>4, <1>5, <1>6

\* The options of two sequences together are those of each.
OptionsJoin(p, q) == OptionsIn(p \o q) = OptionsIn(p) \cup OptionsIn(q)

LEMMA OptionsOfConcat ==
  ASSUME NEW S, NEW p \in Seq(S), NEW q \in Seq(S)
  PROVE  OptionsJoin(p, q)
<1> DEFINE r == p \o q
<1>1. /\ r \in Seq(S) /\ Len(r) = Len(p) + Len(q) /\ Len(p) \in Nat /\ Len(q) \in Nat
      /\ \A k \in 1 .. Len(p) + Len(q) : r[k] = IF k <= Len(p) THEN p[k] ELSE q[k - Len(p)]
  BY ConcatFacts
<1> HIDE DEF r
<1>2. DOMAIN p = 1 .. Len(p) /\ DOMAIN q = 1 .. Len(q) /\ DOMAIN r = 1 .. Len(p) + Len(q)
  BY <1>1
<1>3. ASSUME NEW x \in ToSet(r) PROVE x \in ToSet(p) \cup ToSet(q)
  <2>1. PICK k \in 1 .. Len(p) + Len(q) : x = r[k]
    BY <1>2 DEF ToSet
  <2>2. k <= Len(p) => k \in DOMAIN p /\ x = p[k]
    BY <1>1, <1>2, <2>1
  <2>3. ~(k <= Len(p)) => k - Len(p) \in DOMAIN q /\ x = q[k - Len(p)]
    BY <1>1, <1>2, <2>1
  <2> QED
    BY <2>2, <2>3 DEF ToSet
<1>4. ASSUME NEW x \in ToSet(p) PROVE x \in ToSet(r)
  <2>1. PICK k \in 1 .. Len(p) : x = p[k]
    BY <1>2 DEF ToSet
  <2>2. k \in DOMAIN r /\ r[k] = x
    BY <1>1, <1>2, <2>1
  <2> QED
    BY <2>2 DEF ToSet
<1>5. ASSUME NEW x \in ToSet(q) PROVE x \in ToSet(r)
  <2>1. PICK k \in 1 .. Len(q) : x = q[k]
    BY <1>2 DEF ToSet
  <2>2. /\ k + Len(p) \in 1 .. Len(p) + Len(q) /\ ~(k + Len(p) <= Len(p))
        /\ (k + Len(p)) - Len(p) = k
    BY <1>1
  <2>3. r[k + Len(p)] = q[(k + Len(p)) - Len(p)]
    BY <1>1, <2>2
  <2>4. k + Len(p) \in DOMAIN r /\ r[k + Len(p)] = x
    BY <1>2, <2>1, <2>2, <2>3
  <2> QED
    BY <2>4 DEF ToSet
<1>6. ToSet(r) = ToSet(p) \cup ToSet(q)
  BY <1>3, <1>4, <1>5
<1> QED
  BY <1>6 DEF OptionsIn, OptionsJoin, r

\* The options that k + 1 items use.
LEMMA OptionsNext ==
  ASSUME NEW l \in RegularLines, NEW k \in 0 .. Len(l) - 1
  PROVE  OptionsIn(Upto(l, k + 1)) = OptionsIn(Upto(l, k)) \cup OptionsIn(Sets(l[k + 1]))
<1>1. /\ Upto(l, k + 1) = Upto(l, k) \o Sets(l[k + 1])
      /\ Upto(l, k) \in Seq(AllSets(l)) /\ Sets(l[k + 1]) \in Seq(AllSets(l))
  BY UptoNext
<1>2. OptionsIn(Upto(l, k) \o Sets(l[k + 1])) = OptionsIn(Upto(l, k)) \cup OptionsIn(Sets(l[k + 1]))
  BY <1>1, OptionsOfConcat DEF OptionsJoin
<1> QED
  BY <1>1, <1>2

\* A sequence uses finitely many options.
LEMMA OptionsFinite ==
  ASSUME NEW S, NEW q \in Seq(S)
  PROVE  IsFiniteSet(OptionsIn(q))
<1> DEFINE T == {r \in Seq(S) : IsFiniteSet(OptionsIn(r))}
<1>1. << >> \in T
  <2>1. OptionsIn(<< >>) = {}
    BY DEF OptionsIn, ToSet
  <2>2. << >> \in Seq(S) /\ IsFiniteSet({})
    BY FS_EmptySet
  <2> QED
    BY <2>1, <2>2
<1>2. ASSUME NEW r \in T, NEW e \in S PROVE Append(r, e) \in T
  <2>1. Append(r, e) = r \o <<e>> /\ <<e>> \in Seq(S) /\ Append(r, e) \in Seq(S)
    OBVIOUS
  <2>2. OptionsIn(<<e>>) = {e.option}
    BY DEF OptionsIn, ToSet
  <2>3. OptionsIn(r \o <<e>>) = OptionsIn(r) \cup OptionsIn(<<e>>)
    <3>1. r \in Seq(S)
      OBVIOUS
    <3>2. PICK v \in Seq(S) : v = <<e>>
      BY <2>1
    <3> HIDE DEF T
    <3>3. OptionsJoin(r, v)
      BY <3>1, OptionsOfConcat, Zenon
    <3> QED
      BY <3>2, <3>3, Zenon DEF OptionsJoin
  <2>4. IsFiniteSet(OptionsIn(r) \cup {e.option})
    BY FS_AddElement
  <2> QED
    BY <2>1, <2>2, <2>3, <2>4
<1>3. T = Seq(S)
  <2> HIDE DEF T
  <2> QED
    BY <1>1, <1>2, SeqInduction DEF T
<1> QED
  BY <1>3

\* The first lone dash of the line.
LEMMA FirstDashIs ==
  ASSUME NEW l \in RegularLines
  PROVE  /\ FirstDash(l) \in 0 .. Len(l) /\ Heed(l) \in 0 .. Len(l)
         /\ FirstDash(l) # 0 => IsDash(l[FirstDash(l)]) /\ Heed(l) = FirstDash(l) - 1
         /\ FirstDash(l) = 0 => Heed(l) = Len(l)
         /\ \A k \in 1 .. Heed(l) : ~IsDash(l[k])
<1> DEFINE I == {k \in 1 .. Len(l) : IsDash(l[k])}
<1>0. Len(l) \in Nat
  BY LineFacts
<1>1. FirstDash(l) = IF I # {} THEN Min(I) ELSE 0
  BY DEF FirstDash, SelectInSeq
<1>2. CASE I = {}
  <2>1. FirstDash(l) = 0 /\ \A k \in 1 .. Len(l) : ~IsDash(l[k])
    BY <1>1, <1>2
  <2> QED
    BY <1>0, <2>1 DEF Heed
<1>3. CASE I # {}
  <2>1. I \in SUBSET Nat
    BY <1>0
  <2> HIDE DEF I
  <2>2. PICK m \in I : \A k \in I : m <= k
    BY <1>3, <2>1, LeastElement
  <2>3. Min(I) \in I /\ \A k \in I : Min(I) <= k
    BY <2>1, <2>2 DEF Min
  <2>4. FirstDash(l) \in I /\ \A k \in I : FirstDash(l) <= k
    BY <1>1, <1>3, <2>3
  <2>5. FirstDash(l) \in 1 .. Len(l) /\ IsDash(l[FirstDash(l)])
    BY <2>4 DEF I
  <2>6. Heed(l) = FirstDash(l) - 1
    BY <2>5 DEF Heed
  <2>7. \A k \in 1 .. Heed(l) : ~IsDash(l[k])
    BY <1>0, <2>4, <2>5, <2>6 DEF I
  <2> QED
    BY <1>0, <2>5, <2>6, <2>7
<1> QED
  BY <1>2, <1>3

\* What is flattened can be cut between any two of its sequences.
LEMMA FlattenSplit ==
  ASSUME NEW S, NEW n \in Nat, NEW f \in [1 .. n -> Seq(S)], NEW k \in 0 .. n
  PROVE  FlattenSeq(f) = FlattenSeq(FirstOf(f, k)) \o FlattenSeq(AfterOf(f, n, k))
<1> DEFINE a == FirstOf(f, k)
           b == AfterOf(f, n, k)
<1>1. k \in Nat /\ n - k \in Nat /\ \A j \in 1 .. n : f[j] \in Seq(S)
  OBVIOUS
<1>2. a \in Seq(Seq(S)) /\ Len(a) = k /\ \A j \in 1 .. k : a[j] = f[j]
  BY <1>1 DEF FirstOf
<1>3. b \in Seq(Seq(S)) /\ Len(b) = n - k /\ \A j \in 1 .. n - k : b[j] = f[j + k]
  <2>1. \A j \in 1 .. n - k : j + k \in 1 .. n
    BY <1>1
  <2>2. \A j \in 1 .. n - k : f[j + k] \in Seq(S)
    BY <1>1, <2>1
  <2>3. PICK m \in Nat : m = n - k
    BY <1>1
  <2>4. b \in [1 .. m -> Seq(S)] /\ \A j \in 1 .. m : b[j] = f[j + k]
    BY <2>2, <2>3 DEF AfterOf
  <2> HIDE DEF b
  <2> QED
    BY <2>3, <2>4
<1>4. f \in Seq(Seq(S)) /\ Len(f) = n
  OBVIOUS
<1> HIDE DEF a, b
<1>5. /\ a \o b \in Seq(Seq(S)) /\ Len(a \o b) = Len(a) + Len(b)
      /\ \A j \in 1 .. Len(a) + Len(b) :
           (a \o b)[j] = IF j <= Len(a) THEN a[j] ELSE b[j - Len(a)]
  <2>1. PICK Q : Q = Seq(S)
    OBVIOUS
  <2>2. a \in Seq(Q) /\ b \in Seq(Q)
    BY <1>2, <1>3, <2>1
  <2>3. /\ a \o b \in Seq(Q) /\ Len(a \o b) = Len(a) + Len(b)
        /\ \A j \in 1 .. Len(a) + Len(b) :
             (a \o b)[j] = IF j <= Len(a) THEN a[j] ELSE b[j - Len(a)]
    BY <2>2, ConcatFacts, Zenon
  <2> QED
    BY <2>1, <2>3, Zenon
<1>6. PICK ab \in Seq(Seq(S)) : ab = a \o b
  BY <1>5
<1>7. Len(ab) = n /\ \A j \in 1 .. n : ab[j] = IF j <= k THEN a[j] ELSE b[j - k]
  <2>1. /\ Len(ab) = Len(a) + Len(b)
        /\ \A j \in 1 .. Len(a) + Len(b) : ab[j] = IF j <= Len(a) THEN a[j] ELSE b[j - Len(a)]
    BY <1>5, <1>6, Zenon
  <2>2. Len(a) = k /\ Len(b) = n - k /\ Len(a) + Len(b) = n
    BY <1>1, <1>2, <1>3
  <2> QED
    BY <2>1, <2>2
<1>8. \A j \in 1 .. n : ab[j] = f[j]
  <2> SUFFICES ASSUME NEW j \in 1 .. n PROVE ab[j] = f[j]
    OBVIOUS
  <2>1. CASE j <= k
    BY <1>1, <1>2, <1>7, <2>1
  <2>2. CASE ~(j <= k)
    <3>1. j - k \in 1 .. n - k /\ (j - k) + k = j
      BY <1>1, <2>2
    <3>2. b[j - k] = f[(j - k) + k]
      BY <1>3, <3>1
    <3> QED
      BY <1>7, <2>2, <3>1, <3>2
  <2> QED
    BY <2>1, <2>2
<1>9. f = ab
  BY <1>4, <1>7, <1>8, SeqEqual
<1>10. FlattenSeq(a \o b) = FlattenSeq(a) \o FlattenSeq(b)
  BY <1>2, <1>3, FlattenConcat
<1> QED
  BY <1>6, <1>9, <1>10 DEF a, b

\* What is left when words are swallowed.
LEMMA LeftIs ==
  ASSUME NEW l \in RegularLines, NEW p, p.swallow
  PROVE  /\ FirstDash(l) = 0 => Left(l, p) = Kept(l, p, Len(l))
         /\ FirstDash(l) # 0 => Left(l, p) = Kept(l, p, Heed(l)) \o Rest(l, FirstDash(l))
<1> DEFINE n == Len(l)
           h == Heed(l)
           f == [k \in 1 .. n |-> IF k > h + 1 \/ (l[k].form = "word" /\ l[k].word # Dash)
                                    THEN Words(l[k]) ELSE << >>]
<1>1. n \in Nat /\ h \in 0 .. n
  BY LineFacts, FirstDashIs
<1>2. Left(l, p) = FlattenSeq(f)
  BY DEF Left, Leaving
<1>3. \A k \in 1 .. h : k \in 1 .. n /\ f[k] = Keep(p, l[k])
  BY <1>1, FirstDashIs DEF Keep, IsDash
<1>4. f \in [1 .. n -> Seq(AllWords(l))]
  <2>1. \A k \in 1 .. n : Words(l[k]) \in Seq(AllWords(l)) /\ << >> \in Seq(AllWords(l))
    BY WordsType
  <2> QED
    BY <2>1
<1>5. CASE FirstDash(l) = 0
  <2>1. h = n
    BY <1>5, FirstDashIs
  <2>2. f = [j \in 1 .. n |-> Keep(p, l[j])]
    BY <1>3, <2>1
  <2> QED
    BY <1>2, <1>5, <2>2 DEF Kept
<1>6. CASE FirstDash(l) # 0
  <2>1. h + 1 = FirstDash(l) /\ h \in 0 .. n - 1 /\ IsDash(l[h + 1])
    BY <1>1, <1>6, FirstDashIs
  <2>2. f[h + 1] = << >>
    BY <1>1, <2>1 DEF IsDash
  <2>3. FirstOf(f, h) = [j \in 1 .. h |-> Keep(p, l[j])]
    BY <1>3 DEF FirstOf
  <2>4. AfterOf(f, n, h + 1) = [j \in 1 .. n - (h + 1) |-> Words(l[j + (h + 1)])]
    BY <1>1 DEF AfterOf
  <2> HIDE DEF f, h, n
  <2>5. FlattenSeq(f) = FlattenSeq(FirstOf(f, h)) \o FlattenSeq(AfterOf(f, n, h))
    BY <1>1, <1>4, FlattenSplit
  <2>6. FlattenSeq(AfterOf(f, n, h)) = f[h + 1] \o FlattenSeq(AfterOf(f, n, h + 1))
    BY <1>1, <1>4, <2>1, FlattenFrom
  <2>7. FlattenSeq(AfterOf(f, n, h + 1)) = Rest(l, h + 1)
    BY <2>4 DEF Rest, n
  <2>8. Rest(l, h + 1) \in Seq(AllWords(l))
    <3>1. CASE h + 1 \in 0 .. n - 1
      BY <3>1, RestNext DEF n
    <3>2. CASE h + 1 \in Nat /\ h + 1 >= n
      <4>1. Rest(l, h + 1) = << >>
        BY <3>2, Ends0 DEF n
      <4>2. << >> \in Seq(AllWords(l))
        OBVIOUS
      <4> QED
        BY <4>1, <4>2
    <3> QED
      BY <1>1, <2>1, <3>1, <3>2
  <2>9. << >> \o Rest(l, h + 1) = Rest(l, h + 1)
    BY <2>8, ConcatEmpty
  <2>10. FlattenSeq(FirstOf(f, h)) = Kept(l, p, h)
    BY <2>3 DEF Kept
  <2> QED
    BY <1>2, <1>6, <2>1, <2>2, <2>5, <2>6, <2>7, <2>9, <2>10 DEF h
<1> QED
  BY <1>5, <1>6

-----------------------------------------------------------------------------
(* The words at i.                                                         *)

\* a, b and c in a row: what is behind a, and what taking b out leaves.
HasMiddle(s, a, b, c, S) ==
  /\ s \in Seq(S) /\ Len(s) = Len(a) + Len(b) + Len(c)
  /\ s[Len(a) + 1] = b[1]
  /\ Len(b) = 2 => s[Len(a) + 1 + 1] = b[2]
  /\ s = (a \o b) \o c
  /\ SubSeq(s, 1, Len(a)) \o SubSeq(s, Len(a) + 1 + Len(b), Len(s)) = a \o c

LEMMA Middle ==
  ASSUME NEW S, NEW a \in Seq(S), NEW b \in Seq(S), NEW c \in Seq(S), b # << >>,
         NEW s, s = a \o (b \o c)
  PROVE  HasMiddle(s, a, b, c, S)
<1> USE DEF HasMiddle
<1> DEFINE m == Len(a)
           k == Len(b)
<1>1. m \in Nat /\ k \in Nat /\ k >= 1 /\ Len(c) \in Nat
  OBVIOUS
<1>2. PICK d \in Seq(S) : d = b \o c
  <2>1. b \o c \in Seq(S)
    BY ConcatFacts
  <2> QED
    BY <2>1
<1>3. /\ Len(d) = k + Len(c)
      /\ \A j \in 1 .. k + Len(c) : d[j] = IF j <= k THEN b[j] ELSE c[j - k]
  BY <1>2, ConcatFacts
<1>4. /\ s \in Seq(S) /\ Len(s) = m + Len(d)
      /\ \A j \in 1 .. m + Len(d) : s[j] = IF j <= m THEN a[j] ELSE d[j - m]
  BY <1>2, ConcatFacts
<1>5. s = (a \o b) \o c
  <2>1. Associates(a, b, c)
    BY ConcatAssociates
  <2> QED
    BY <2>1, Zenon DEF Associates
<1> HIDE DEF m, k
<1>6. Len(s) = m + k + Len(c)
  BY <1>1, <1>3, <1>4
<1>7. s[m + 1] = b[1]
  <2>1. m + 1 \in 1 .. m + Len(d) /\ ~(m + 1 <= m) /\ (m + 1) - m = 1 /\ 1 \in 1 .. k + Len(c) /\ 1 <= k
    BY <1>1, <1>3
  <2>2. s[m + 1] = d[(m + 1) - m]
    BY <1>4, <2>1
  <2> QED
    BY <1>3, <2>1, <2>2
<1>8. k = 2 => s[m + 1 + 1] = b[2]
  <2> SUFFICES ASSUME k = 2 PROVE s[m + 1 + 1] = b[2]
    OBVIOUS
  <2>1. /\ m + 1 + 1 \in 1 .. m + Len(d) /\ ~(m + 1 + 1 <= m) /\ (m + 1 + 1) - m = 2
        /\ 2 \in 1 .. k + Len(c) /\ 2 <= k
    BY <1>1, <1>3
  <2>2. s[m + 1 + 1] = d[(m + 1 + 1) - m]
    BY <1>4, <2>1
  <2> QED
    BY <1>3, <2>1, <2>2
<1>9. SubSeq(s, 1, m) = a
  <2>1. /\ SubSeq(s, 1, m) \in Seq(S) /\ Len(SubSeq(s, 1, m)) = m
        /\ \A j \in 1 .. m : SubSeq(s, 1, m)[j] = s[j]
    <3>1. s \in Seq(S) /\ m \in Nat /\ m <= Len(s)
      BY <1>1, <1>4, <1>6
    <3> QED
      BY <3>1, PrefixFacts, Zenon
  <2>2. PICK t \in Seq(S) : t = SubSeq(s, 1, m)
    BY <2>1
  <2>3. Len(t) = Len(a) /\ \A j \in 1 .. Len(t) : t[j] = a[j]
    BY <1>1, <1>3, <1>4, <2>1, <2>2 DEF m
  <2> QED
    BY <2>2, <2>3, SeqEqual
<1>10. SubSeq(s, m + 1 + k, Len(s)) = c
  <2>1. m + 1 + k \in 1 .. Len(s) + 1 /\ Len(s) \in (m + 1 + k) - 1 .. Len(s)
        /\ Len(s) - (m + 1 + k) + 1 = Len(c)
    BY <1>1, <1>6
  <2>2. /\ SubSeq(s, m + 1 + k, Len(s)) \in Seq(S)
        /\ Len(SubSeq(s, m + 1 + k, Len(s))) = Len(s) - (m + 1 + k) + 1
        /\ \A j \in 1 .. Len(s) - (m + 1 + k) + 1 :
             SubSeq(s, m + 1 + k, Len(s))[j] = s[(m + 1 + k) + j - 1]
    <3>1. PICK i1 \in 1 .. Len(s) + 1 : i1 = m + 1 + k
      BY <2>1
    <3>2. PICK i2 \in i1 - 1 .. Len(s) : i2 = Len(s)
      BY <2>1, <3>1
    <3>3. SubSeq(s, i1, i2) \in Seq(S) /\ Len(SubSeq(s, i1, i2)) = i2 - i1 + 1
      BY <1>4, SubSeqFacts, Zenon
    <3>4. \A j \in 1 .. i2 - i1 + 1 : SubSeq(s, i1, i2)[j] = s[i1 + j - 1]
      BY <1>4, SubSeqFacts, Zenon
    <3> QED
      BY <3>1, <3>2, <3>3, <3>4, Zenon
  <2>3. PICK t \in Seq(S) : t = SubSeq(s, m + 1 + k, Len(s))
    BY <2>2
  <2>4. Len(t) = Len(c) /\ \A j \in 1 .. Len(c) : t[j] = s[(m + 1 + k) + j - 1]
    BY <2>1, <2>2, <2>3
  <2>5. ASSUME NEW j \in 1 .. Len(c) PROVE s[(m + 1 + k) + j - 1] = c[j]
    <3>1. /\ (m + 1 + k) + j - 1 \in 1 .. m + Len(d) /\ ~((m + 1 + k) + j - 1 <= m)
          /\ ((m + 1 + k) + j - 1) - m = k + j /\ k + j \in 1 .. k + Len(c) /\ ~(k + j <= k)
          /\ (k + j) - k = j
      BY <1>1, <1>3
    <3>2. s[(m + 1 + k) + j - 1] = d[((m + 1 + k) + j - 1) - m]
      BY <1>4, <3>1
    <3>3. d[k + j] = c[(k + j) - k]
      BY <1>3, <3>1
    <3> QED
      BY <3>1, <3>2, <3>3
  <2> QED
    BY <2>3, <2>4, <2>5, SeqEqual
<1> QED
  BY <1>4, <1>5, <1>6, <1>7, <1>8, <1>9, <1>10 DEF m, k

\* The fields of each kind of word.
LEMMA Kinds ==
  ASSUME NEW o, NEW v, NEW c
  PROVE  /\ Long(o, v).kind = "long" /\ Long(o, v).name = o /\ Long(o, v).value = v
         /\ Letters(c).kind = "letters" /\ Letters(c).letters = c
         /\ Dash.kind = "dash"
  BY DEF Long, Letters, Dash

\* What the first word of an item tells of the item, if it is a long option.
ToldByLong(l, k, e, w) ==
  /\ w.name \notin Options => e.form = "word" /\ w = e.word
  /\ w.name \in Options /\ w.value = NoValue /\ ValueFollows(w.name) =>
       \/ e.form = "separate" /\ e.option = w.name
       \/ e.form = "word" /\ w = e.word /\ k = Len(l)
  /\ w.name \in Options /\ w.value = NoValue /\ ~ValueFollows(w.name) =>
       e.form = "alone" /\ e.option = w.name
  /\ w.name \in Options /\ w.value # NoValue /\ Table[w.name].takes =>
       e.form = "joined" /\ e.option = w.name /\ e.value = w.value
  /\ w.name \in Options /\ w.value # NoValue /\ ~Table[w.name].takes =>
       e.form = "word" /\ w = e.word

LEMMA LongTells ==
  ASSUME NEW l \in RegularLines, NEW k \in 1 .. Len(l), NEW e, e = l[k], NEW w, w = Words(e)[1],
         w.kind = "long"
  PROVE  ToldByLong(l, k, e, w)
<1> USE DEF ToldByLong, NeedsWord, ValueFollows
<1>0. IsOption(e) \/ IsWord(e) \/ (k = Len(l) /\ IsCutShort(e))
  BY LineFacts
<1>1. CASE e.form = "joined"
  <2>1. w = Long(e.option, e.value)
    BY <1>1, OneWord
  <2>2. w.name = e.option /\ w.value = e.value
    BY <2>1 DEF Long
  <2>3. e.option \in Options /\ Table[e.option].takes /\ e.value # NoValue
    BY <1>0, <1>1 DEF IsOption, IsWord, IsCutShort
  <2> QED
    BY <1>1, <2>2, <2>3
<1>2. CASE e.form = "separate"
  <2>0. Words(e) = <<Long(e.option, NoValue), e.value>>
    BY <1>2, TwoWords, Zenon
  <2>1. w = Long(e.option, NoValue)
    BY <2>0
  <2>2. w.name = e.option /\ w.value = NoValue
    BY <2>1 DEF Long
  <2>3. e.option \in Options /\ ValueFollows(e.option)
    BY <1>0, <1>2 DEF IsOption, IsWord, IsCutShort
  <2> QED
    BY <1>2, <2>2, <2>3
<1>3. CASE e.form = "alone"
  <2>1. w = Long(e.option, NoValue)
    BY <1>3, OneWord
  <2>2. w.name = e.option /\ w.value = NoValue
    BY <2>1 DEF Long
  <2>3. e.option \in Options /\ ~ValueFollows(e.option)
    BY <1>0, <1>3 DEF IsOption, IsWord, IsCutShort
  <2> QED
    BY <1>3, <2>2, <2>3
<1>4. CASE e.form = "letter"
  <2>0. Words(e) = <<Letters(<<e.letter>>), e.value>>
    BY <1>4, TwoWords, Zenon
  <2>1. w = Letters(<<e.letter>>)
    BY <2>0
  <2> QED
    BY <2>1 DEF Letters
<1>5. CASE e.form = "letters"
  <2>1. w = Letters(e.letters)
    BY <1>5, OneWord
  <2> QED
    BY <2>1 DEF Letters
<1>6. CASE e.form = "word"
  <2>1. w = e.word
    BY <1>6, OneWord
  <2>2. \/ w.name \notin Options \/ (w.value # NoValue /\ ~Table[w.name].takes)
        \/ k = Len(l) /\ w.name \in Options /\ w.value = NoValue /\ ValueFollows(w.name)
    <3>1. w # Dash /\ \A c : w # Letters(<<c>>)
      BY DEF Dash, Letters
    <3> QED
      BY <1>0, <1>6, <2>1, <3>1 DEF IsOption, IsWord, IsCutShort
  <2> QED
    BY <1>6, <2>1, <2>2
<1> QED
  BY <1>1, <1>2, <1>3, <1>4, <1>5, <1>6, FormOf

\* And if it is none.
LEMMA OtherTells ==
  ASSUME NEW l \in RegularLines, NEW k \in 1 .. Len(l), NEW e, e = l[k], NEW w, w = Words(e)[1]
  PROVE  /\ w.kind = "dash" => IsDash(e)
         /\ w.kind = "text" => e.form = "word" /\ w = e.word
         /\ IsDash(e) => w = Dash
<1>0. IsOption(e) \/ IsWord(e) \/ (k = Len(l) /\ IsCutShort(e))
  BY LineFacts
<1>1. CASE e.form \in {"joined", "separate", "alone"}
  <2>1. w = Long(e.option, e.value) \/ w = Long(e.option, NoValue)
    BY <1>1, FirstWord
  <2> QED
    BY <1>1, <2>1, Kinds DEF IsDash
<1>2. CASE e.form \in {"letter", "letters"}
  <2>1. w = Letters(<<e.letter>>) \/ w = Letters(e.letters)
    BY <1>2, FirstWord
  <2> QED
    BY <1>2, <2>1, Kinds DEF IsDash
<1>3. CASE e.form = "word"
  <2>1. w = e.word
    BY <1>3, OneWord
  <2>2. w.kind = "dash" => w = Dash
    <3>1. \A c : Letters(<<c>>).kind = "letters"
      BY Kinds
    <3> QED
      BY <1>0, <1>3, <2>1, <3>1 DEF IsOption, IsWord, IsCutShort
  <2> QED
    BY <1>3, <2>1, <2>2 DEF IsDash
<1> QED
  BY <1>1, <1>2, <1>3, FormOf

\* And if it is letters.
ToldByLetters(l, k, e, w) ==
  /\ Len(w.letters) = 1 /\ w.letters[1] \notin DOMAIN Shortcut => e.form = "word" /\ w = e.word
  /\ Len(w.letters) = 1 /\ w.letters[1] \in DOMAIN Shortcut
       /\ ~Table[Shortcut[w.letters[1]]].takes =>
         e.form = "letters" /\ e.letters = w.letters
  /\ Len(w.letters) = 1 /\ w.letters[1] \in DOMAIN Shortcut
       /\ Table[Shortcut[w.letters[1]]].takes =>
         \/ e.form = "letter" /\ e.letter = w.letters[1]
         \/ e.form = "word" /\ w = e.word /\ k = Len(l)
  /\ Len(w.letters) > 1 /\ (\E c \in ToSet(w.letters) : Unusable(c)) => e.form = "word" /\ w = e.word
  /\ Len(w.letters) > 1 /\ ~(\E c \in ToSet(w.letters) : Unusable(c)) =>
         e.form = "letters" /\ e.letters = w.letters

LEMMA LettersTell ==
  ASSUME NEW l \in RegularLines, NEW k \in 1 .. Len(l), NEW e, e = l[k], NEW w, w = Words(e)[1],
         w.kind = "letters"
  PROVE  ToldByLetters(l, k, e, w)
<1> USE DEF ToldByLetters
<1>0. IsOption(e) \/ IsWord(e) \/ (k = Len(l) /\ IsCutShort(e))
  BY LineFacts
<1>1. CASE e.form \in {"joined", "separate", "alone"}
  <2>1. w = Long(e.option, e.value) \/ w = Long(e.option, NoValue)
    BY <1>1, FirstWord
  <2> QED
    BY <2>1 DEF Long
<1>2. CASE e.form = "letter"
  <2>0. Words(e) = <<Letters(<<e.letter>>), e.value>>
    BY <1>2, TwoWords, Zenon
  <2>1. w = Letters(<<e.letter>>)
    BY <2>0
  <2>2. w.letters = <<e.letter>> /\ Len(w.letters) = 1 /\ w.letters[1] = e.letter
    BY <2>1 DEF Letters
  <2>3. e.letter \in DOMAIN Shortcut /\ Table[Shortcut[e.letter]].takes
    BY <1>0, <1>2 DEF IsOption, IsWord, IsCutShort
  <2> QED
    BY <1>2, <2>2, <2>3
<1>3. CASE e.form = "letters"
  <2>1. w = Letters(e.letters)
    BY <1>3, OneWord
  <2>2. w.letters = e.letters
    BY <2>1 DEF Letters
  <2>3. e.letters \in Seq(DOMAIN Shortcut) /\ \A c \in ToSet(e.letters) : ~Table[Shortcut[c]].takes
    BY <1>0, <1>3, LineFacts DEF IsOption, IsWord, IsCutShort
  <2>4. \A c \in ToSet(e.letters) : c \in DOMAIN Shortcut /\ ~Unusable(c)
    BY <2>3 DEF Unusable, ToSet
  <2>5. Len(e.letters) = 1 => e.letters[1] \in ToSet(e.letters)
    BY <2>3 DEF ToSet
  <2> QED
    BY <1>3, <2>2, <2>3, <2>4, <2>5
<1>4. CASE e.form = "word"
  <2>1. w = e.word
    BY <1>4, OneWord
  <2>2. \/ IF Len(w.letters) = 1 THEN w.letters[1] \notin DOMAIN Shortcut
           ELSE \E c \in ToSet(w.letters) : Unusable(c)
        \/ k = Len(l) /\ \E c \in DOMAIN Shortcut : w = Letters(<<c>>) /\ Table[Shortcut[c]].takes
    <3>1. w # Dash
      BY DEF Dash
    <3> QED
      BY <1>0, <1>4, <2>1, <3>1 DEF IsOption, IsWord, IsCutShort, NeedsWord
  <2>3. CASE k = Len(l) /\ \E c \in DOMAIN Shortcut : w = Letters(<<c>>) /\ Table[Shortcut[c]].takes
    <3>1. PICK c \in DOMAIN Shortcut : w = Letters(<<c>>) /\ Table[Shortcut[c]].takes
      BY <2>3
    <3>2. Len(w.letters) = 1 /\ w.letters[1] = c
      BY <3>1, Kinds
    <3>3. /\ w.letters[1] \in DOMAIN Shortcut /\ Table[Shortcut[w.letters[1]]].takes
          /\ ~(Len(w.letters) > 1) /\ k = Len(l) /\ e.form = "word" /\ w = e.word
      <4>1. w.letters[1] \in DOMAIN Shortcut /\ Table[Shortcut[w.letters[1]]].takes
        BY <3>1, <3>2, Zenon
      <4>2. ~(Len(w.letters) > 1)
        BY <3>2
      <4> QED
        BY <1>4, <2>1, <2>3, <4>1, <4>2, Zenon
    <3> QED
      BY <3>3, Zenon
  <2>4. CASE IF Len(w.letters) = 1 THEN w.letters[1] \notin DOMAIN Shortcut
             ELSE \E c \in ToSet(w.letters) : Unusable(c)
    <3>1. CASE Len(w.letters) = 1
      BY <1>4, <2>1, <2>4, <3>1
    <3>2. CASE Len(w.letters) # 1
      BY <1>4, <2>1, <2>4, <3>2
    <3> QED
      BY <3>1, <3>2
  <2> QED
    BY <2>2, <2>3, <2>4
<1> QED
  BY <1>1, <1>2, <1>3, <1>4, FormOf

-----------------------------------------------------------------------------
(* The steps.                                                              *)

\* Between two items, i is at the first word of an item that is still heeded, or
\* at the dash, or at the end.
LEMMA AtItem ==
  ASSUME CmdInv, NEW k \in 0 .. Heed(line), Between(k), i <= Len(argv)
  PROVE  /\ k \in 0 .. Len(line) - 1
         /\ Word = Words(line[k + 1])[1]
         /\ Len(Words(line[k + 1])) = 2 => i # Len(argv) /\ argv[i + 1] = Words(line[k + 1])[2]
         /\ Len(Words(line[k + 1])) = 1 /\ k + 1 = Len(line) => i = Len(argv)
         /\ IF IsDash(line[k + 1]) THEN k = Heed(line) /\ FirstDash(line) = k + 1
            ELSE k \in 0 .. Heed(line) - 1
<1> DEFINE W == AllWords(line)
           a == Kept(line, permit, k)
<1>0. line \in RegularLines /\ Len(line) \in Nat /\ Heed(line) \in 0 .. Len(line)
  BY LineFacts, FirstDashIs DEF CmdInv
<1>1. argv = a \o Rest(line, k) /\ i = Len(a) + 1
  BY DEF Between
<1>2. k < Len(line)
  <2> SUFFICES ASSUME k >= Len(line) PROVE FALSE
    BY <1>0
  <2>1. k = Len(line) /\ Rest(line, k) = << >>
    BY <1>0, Ends0
  <2>2. a \in Seq(W)
    <3>1. CASE k = 0
      <4>1. Kept(line, permit, 0) = << >> /\ << >> \in Seq(W)
        BY <1>0, Ends0
      <4> QED
        BY <3>1, <4>1
    <3>2. CASE k # 0
      <4>1. PICK j \in 0 .. Len(line) - 1 : k = j + 1
        BY <1>0, <3>2
      <4>2. /\ Keep(permit, line[j + 1]) \in Seq(W) /\ Kept(line, permit, j) \in Seq(W)
            /\ Kept(line, permit, j + 1) = Kept(line, permit, j) \o Keep(permit, line[j + 1])
        BY <1>0, KeptNext
      <4> QED
        BY <4>1, <4>2, ConcatFacts
    <3> QED
      BY <3>1, <3>2
  <2> HIDE DEF a
  <2>3. argv = a /\ Len(a) \in Nat
    BY <1>1, <2>1, <2>2, ConcatEmpty
  <2> QED
    BY <1>1, <2>3
<1>3. k \in 0 .. Len(line) - 1
  BY <1>0, <1>2
<1>4. a \in Seq(W)
  BY <1>0, <1>3, KeptNext
<1>5. PICK b \in Seq(W) : b = Words(line[k + 1]) /\ b # << >> /\ (Len(b) = 1 \/ Len(b) = 2)
  <2>1. k + 1 \in 1 .. Len(line)
    BY <1>0, <1>3
  <2>2. Words(line[k + 1]) \in Seq(W) /\ (Len(Words(line[k + 1])) = 1 \/ Len(Words(line[k + 1])) = 2)
    <3>1. PICK m \in 1 .. Len(line) : m = k + 1
      BY <2>1
    <3>2. Words(line[m]) \in Seq(AllWords(line))
          /\ Len(Words(line[m])) = IF line[m].form \in {"separate", "letter"} THEN 2 ELSE 1
      BY <1>0, WordsType
    <3> QED
      BY <3>1, <3>2
  <2>3. Words(line[k + 1]) # << >>
    <3>1. ASSUME NEW q, Len(q) = 1 \/ Len(q) = 2 PROVE q # << >>
      BY <3>1
    <3> QED
      BY <2>2, <3>1, Zenon
  <2> HIDE DEF W
  <2> QED
    BY <2>2, <2>3, Zenon
<1>6. PICK c \in Seq(W) : c = Rest(line, k + 1) /\ Rest(line, k) = b \o c /\ (k + 1 = Len(line) => c = << >>)
  <2>1. Rest(line, k) = b \o Rest(line, k + 1)
    BY <1>0, <1>3, <1>5, RestNext
  <2>2. CASE k + 1 = Len(line)
    <3>1. Rest(line, k + 1) = << >>
      BY <1>0, <1>3, <2>2, Ends0
    <3>2. << >> \in Seq(W)
      OBVIOUS
    <3> QED
      BY <2>1, <3>1, <3>2
  <2>3. CASE k + 1 # Len(line)
    <3>1. k + 1 \in 0 .. Len(line) - 1
      BY <1>0, <1>3, <2>3
    <3>2. Rest(line, k + 1) \in Seq(W)
      BY <1>0, <3>1, RestNext
    <3> QED
      BY <2>1, <2>3, <3>2
  <2> QED
    BY <2>2, <2>3
<1> HIDE DEF W, a
<1>7. /\ Len(argv) = Len(a) + Len(b) + Len(c) /\ argv[Len(a) + 1] = b[1]
      /\ Len(b) = 2 => argv[Len(a) + 1 + 1] = b[2]
  <2>1. argv = a \o (b \o c)
    BY <1>1, <1>6
  <2> QED
    <3>1. HasMiddle(argv, a, b, c, W)
      BY <1>4, <1>5, <2>1, Middle, Zenon
    <3> QED
      BY <3>1, Zenon DEF HasMiddle
<1>8. Len(a) \in Nat /\ Len(c) \in Nat
  BY <1>4
<1>9. Len(b) = 2 => i # Len(argv) /\ argv[i + 1] = b[2]
  BY <1>1, <1>7, <1>8
<1>10. Len(b) = 1 /\ k + 1 = Len(line) => i = Len(argv)
  BY <1>1, <1>6, <1>7, <1>8
<1>11. IF IsDash(line[k + 1]) THEN k = Heed(line) /\ FirstDash(line) = k + 1
       ELSE k \in 0 .. Heed(line) - 1
  <2>1. CASE k = Heed(line)
    <3>1. FirstDash(line) # 0
      BY <1>0, <1>3, <2>1, FirstDashIs
    <3>2. FirstDash(line) = k + 1 /\ IsDash(line[k + 1])
      <4>1. FirstDash(line) \in 0 .. Len(line) /\ IsDash(line[FirstDash(line)]) /\ Heed(line) = FirstDash(line) - 1
        BY <1>0, <3>1, FirstDashIs
      <4>2. FirstDash(line) = k + 1
        BY <2>1, <4>1
      <4> QED
        BY <4>1, <4>2
    <3> QED
      BY <2>1, <3>2
  <2>2. CASE k # Heed(line)
    <3>1. k \in 0 .. Heed(line) - 1 /\ k + 1 \in 1 .. Heed(line)
      BY <1>0, <2>2
    <3>2. ~IsDash(line[k + 1])
      BY <1>0, <3>1, FirstDashIs
    <3> QED
      BY <3>1, <3>2
  <2> QED
    BY <2>1, <2>2
<1>12. Word = b[1]
  BY <1>1, <1>7 DEF Word
<1> QED
  BY <1>3, <1>5, <1>9, <1>10, <1>11, <1>12

\* What was kept, what was set and what is left of a line are sequences.
LEMMA KeptType ==
  ASSUME NEW l \in RegularLines, NEW p, NEW k \in 0 .. Len(l)
  PROVE  Kept(l, p, k) \in Seq(AllWords(l)) /\ Upto(l, k) \in Seq(AllSets(l)) /\ Rest(l, k) \in Seq(AllWords(l))
<1>0. Len(l) \in Nat
  BY LineFacts
<1>1. << >> \in Seq(AllWords(l)) /\ << >> \in Seq(AllSets(l))
  OBVIOUS
<1>2. Kept(l, p, k) \in Seq(AllWords(l)) /\ Upto(l, k) \in Seq(AllSets(l))
  <2>1. CASE k = 0
    BY <1>1, <2>1, Ends0
  <2>2. CASE k # 0
    <3>1. PICK j \in 0 .. Len(l) - 1 : k = j + 1
      <4>1. k - 1 \in 0 .. Len(l) - 1 /\ k = k - 1 + 1
        BY <1>0, <2>2
      <4> QED
        BY <4>1
    <3>2. /\ Keep(p, l[j + 1]) \in Seq(AllWords(l)) /\ Kept(l, p, j) \in Seq(AllWords(l))
          /\ Kept(l, p, j + 1) = Kept(l, p, j) \o Keep(p, l[j + 1])
      BY KeptNext
    <3>3. /\ Sets(l[j + 1]) \in Seq(AllSets(l)) /\ Upto(l, j) \in Seq(AllSets(l))
          /\ Upto(l, j + 1) = Upto(l, j) \o Sets(l[j + 1])
      BY UptoNext
    <3>4. Kept(l, p, k) \in Seq(AllWords(l))
      BY <3>1, <3>2, ConcatFacts
    <3>5. Upto(l, k) \in Seq(AllSets(l))
      BY <3>1, <3>3, ConcatFacts
    <3> QED
      BY <3>4, <3>5
  <2> QED
    BY <2>1, <2>2
<1>3. Rest(l, k) \in Seq(AllWords(l))
  <2>1. CASE k = Len(l)
    <3>1. Rest(l, k) = << >>
      BY <1>0, <2>1, Ends0
    <3> QED
      BY <1>1, <3>1
  <2>2. CASE k # Len(l)
    <3>1. k \in 0 .. Len(l) - 1
      BY <1>0, <2>2
    <3> QED
      BY <3>1, RestNext
  <2> QED
    BY <2>1, <2>2
<1> QED
  BY <1>2, <1>3

\* Taking out the one word of an item.
LEMMA TakeOut ==
  ASSUME line \in RegularLines, NEW k \in 0 .. Len(line) - 1, Between(k), Len(Words(line[k + 1])) = 1
  PROVE  SubSeq(argv, 1, i - 1) \o SubSeq(argv, i + 1, Len(argv))
           = Kept(line, permit, k) \o Rest(line, k + 1)
<1>0. Len(line) \in Nat /\ k + 1 \in 1 .. Len(line) /\ k + 1 \in 0 .. Len(line) /\ k \in 0 .. Len(line)
  BY LineFacts
<1>1. /\ argv = Kept(line, permit, k) \o Rest(line, k) /\ i = Len(Kept(line, permit, k)) + 1
      /\ Rest(line, k) = Words(line[k + 1]) \o Rest(line, k + 1)
  BY RestNext DEF Between
<1>2. /\ Kept(line, permit, k) \in Seq(AllWords(line)) /\ Rest(line, k + 1) \in Seq(AllWords(line))
      /\ Words(line[k + 1]) \in Seq(AllWords(line)) /\ Words(line[k + 1]) # << >>
  <2>1. PICK m \in 1 .. Len(line) : m = k + 1
    BY <1>0
  <2>2. Words(line[m]) \in Seq(AllWords(line))
    BY WordsType
  <2>3. ASSUME NEW q, Len(q) = 1 PROVE q # << >>
    BY <2>3
  <2>4. Rest(line, k + 1) \in Seq(AllWords(line))
    BY <1>0, KeptType
  <2>5. Kept(line, permit, k) \in Seq(AllWords(line))
    BY <1>0, KeptType
  <2> QED
    BY <2>1, <2>2, <2>3, <2>4, <2>5, Zenon
<1> DEFINE W == AllWords(line)
<1> HIDE DEF W
<1>3. /\ Kept(line, permit, k) \in Seq(W) /\ Rest(line, k + 1) \in Seq(W)
      /\ Words(line[k + 1]) \in Seq(W)
  BY <1>2, Zenon DEF W
<1>4. PICK s : s = argv
  OBVIOUS
<1>5. PICK a \in Seq(W), b \in Seq(W), c \in Seq(W) :
        /\ a = Kept(line, permit, k) /\ b = Words(line[k + 1]) /\ c = Rest(line, k + 1)
  BY <1>3, Zenon
<1>6. b # << >> /\ s = a \o (b \o c) /\ Len(b) = 1 /\ i = Len(a) + 1
  BY <1>1, <1>2, <1>4, <1>5, Zenon
<1>7. SubSeq(s, 1, Len(a)) \o SubSeq(s, Len(a) + 1 + Len(b), Len(s)) = a \o c
  <2>1. HasMiddle(s, a, b, c, W)
    BY <1>6, Middle, Zenon
  <2> QED
    BY <2>1, Zenon DEF HasMiddle
<1>8. i - 1 = Len(a) /\ i + 1 = Len(a) + 1 + Len(b)
  BY <1>6
<1> QED
  BY <1>4, <1>5, <1>7, <1>8, Zenon

\* An item that was passed: its words leave argv or stay, and i is at the next.
LEMMA MoveOn ==
  ASSUME CmdInv, NEW k \in 0 .. Heed(line) - 1, Between(k), NEW e, e = line[k + 1],
         \/ e.form # "word" /\ SkipOrSwallow(Len(Words(e)))
         \/ e.form = "word" /\ i' = i + 1 /\ argv' = argv
  PROVE  /\ argv' = Kept(line, permit, k + 1) \o Rest(line, k + 1)
         /\ i' = Len(Kept(line, permit, k + 1)) + 1
         /\ ~permit.swallow => argv' = argv
<1> DEFINE W == AllWords(line)
<1>0. line \in RegularLines /\ Len(line) \in Nat /\ Heed(line) \in 0 .. Len(line) /\ permit.swallow \in BOOLEAN
  BY LineFacts, FirstDashIs, CmdlineAssumption DEF CmdInv
<1>1. k \in 0 .. Len(line) - 1 /\ k + 1 \in 1 .. Len(line)
  BY <1>0
<1>2. PICK a \in Seq(W) : a = Kept(line, permit, k)
  <2>1. Kept(line, permit, k) \in Seq(W)
    BY <1>0, <1>1, KeptNext
  <2> HIDE DEF W
  <2> QED
    BY <2>1
<1>3. PICK b \in Seq(W) : b = Words(e) /\ Len(b) = Len(Words(e)) /\ b # << >>
                         /\ (e.form = "word" => Len(b) = 1)
  <2>1. PICK m \in 1 .. Len(line) : m = k + 1
    BY <1>1
  <2>2. Words(line[m]) \in Seq(W)
        /\ Len(Words(line[m])) = IF line[m].form \in {"separate", "letter"} THEN 2 ELSE 1
    BY <1>0, WordsType
  <2>3. Words(e) \in Seq(W) /\ Words(e) # << >> /\ (e.form = "word" => Len(Words(e)) = 1)
    BY <2>1, <2>2
  <2> HIDE DEF W
  <2> QED
    BY <2>3, Zenon
<1>4. PICK c \in Seq(W) : c = Rest(line, k + 1) /\ Rest(line, k) = b \o c
  <2>1. Rest(line, k) = Words(line[k + 1]) \o Rest(line, k + 1)
    BY <1>0, <1>1, RestNext
  <2>2. Rest(line, k + 1) \in Seq(W)
    <3>1. CASE k + 1 = Len(line)
      <4>1. Rest(line, k + 1) = << >> /\ << >> \in Seq(W)
        BY <1>0, <1>1, <3>1, Ends0
      <4> QED
        BY <4>1
    <3>2. CASE k + 1 # Len(line)
      <4>1. PICK m \in 0 .. Len(line) - 1 : m = k + 1
        BY <1>0, <1>1, <3>2
      <4>2. Rest(line, m) \in Seq(W)
        BY <1>0, RestNext
      <4> QED
        BY <4>1, <4>2
    <3> QED
      BY <3>1, <3>2
  <2> HIDE DEF W
  <2> QED
    BY <1>3, <2>1, <2>2, Zenon
<1>5. argv = a \o (b \o c) /\ i = Len(a) + 1
  BY <1>2, <1>4, Zenon DEF Between
<1> HIDE DEF W
<1>6. /\ Len(argv) = Len(a) + Len(b) + Len(c) /\ argv = (a \o b) \o c
      /\ SubSeq(argv, 1, Len(a)) \o SubSeq(argv, Len(a) + 1 + Len(b), Len(argv)) = a \o c
  <2>1. PICK s : s = argv
    OBVIOUS
  <2>2. b # << >> /\ s = a \o (b \o c)
    BY <1>3, <1>5, <2>1
  <2>3. /\ s \in Seq(W) /\ Len(s) = Len(a) + Len(b) + Len(c)
        /\ s[Len(a) + 1] = b[1]
        /\ Len(b) = 2 => s[Len(a) + 1 + 1] = b[2]
        /\ s = (a \o b) \o c
        /\ SubSeq(s, 1, Len(a)) \o SubSeq(s, Len(a) + 1 + Len(b), Len(s)) = a \o c
    <3>1. HasMiddle(s, a, b, c, W)
      BY <2>2, Middle, Zenon
    <3> QED
      BY <3>1, Zenon DEF HasMiddle
  <2> QED
    BY <2>1, <2>3, Zenon
<1>7. Kept(line, permit, k + 1) = a \o Keep(permit, e)
  BY <1>0, <1>1, <1>2, KeptNext
<1>8. Len(a) \in Nat /\ Len(b) \in Nat /\ a \o << >> = a /\ Len(a \o b) = Len(a) + Len(b)
  <2>1. Len(a \o b) = Len(a) + Len(b)
    BY ConcatFacts
  <2>2. a \o << >> = a
    BY ConcatEmpty
  <2> QED
    BY <2>1, <2>2
<1>9. CASE e.form = "word"
  <2>1. Keep(permit, e) = b
    BY <1>3, <1>9 DEF Keep
  <2>2. i' = i + 1 /\ argv' = argv /\ Len(b) = 1
    BY <1>3, <1>9
  <2>3. Kept(line, permit, k + 1) = a \o b
    BY <1>7, <2>1
  <2>4. i' = Len(a \o b) + 1
    BY <1>5, <1>8, <2>2
  <2> QED
    BY <1>4, <1>6, <2>2, <2>3, <2>4, Zenon
<1>10. CASE e.form # "word" /\ permit.swallow
  <2>1. Keep(permit, e) = << >>
    BY <1>10 DEF Keep
  <2>2. /\ argv' = SubSeq(argv, 1, i - 1) \o SubSeq(argv, i + Len(Words(e)), Len(argv))
        /\ i' = i
    BY <1>10, Zenon DEF SkipOrSwallow
  <2>3. i - 1 = Len(a) /\ i + Len(Words(e)) = Len(a) + 1 + Len(b)
    BY <1>3, <1>5, <1>8
  <2>4. argv' = a \o c
    BY <1>6, <2>2, <2>3, Zenon
  <2>5. Kept(line, permit, k + 1) = a
    BY <1>7, <1>8, <2>1
  <2> QED
    BY <1>4, <1>5, <1>10, <2>2, <2>4, <2>5, Zenon
<1>11. CASE e.form # "word" /\ ~permit.swallow
  <2>1. Keep(permit, e) = b
    BY <1>3, <1>11 DEF Keep
  <2>2. argv' = argv /\ i' = i + Len(Words(e))
    BY <1>11, Zenon DEF SkipOrSwallow
  <2>3. Kept(line, permit, k + 1) = a \o b
    BY <1>7, <2>1
  <2>4. i' = Len(a \o b) + 1
    BY <1>3, <1>5, <1>8, <2>2
  <2> QED
    BY <1>4, <1>6, <2>2, <2>3, <2>4, Zenon
<1> QED
  BY <1>9, <1>10, <1>11

\* The loop goes on after item k + 1.
LEMMA GoOn ==
  ASSUME CmdInv, outcome = "processing", NEW k \in 0 .. Heed(line) - 1, Between(k),
         NEW e, e = line[k + 1], UNCHANGED <<line, permit, outcome>>,
         \/ e.form # "word" /\ SkipOrSwallow(Len(Words(e)))
         \/ e.form = "word" /\ i' = i + 1 /\ argv' = argv,
         Permitted(permit, e),
         used' = used \cup OptionsIn(Sets(e)),
         Done(settings') = HandleAll(Result(line, k), Sets(e))
  PROVE  CmdInv'
<1>0. line \in RegularLines /\ Len(line) \in Nat /\ Heed(line) \in 0 .. Len(line)
  BY LineFacts, FirstDashIs DEF CmdInv
<1>1. k \in 0 .. Len(line) - 1 /\ k + 1 \in 0 .. Heed(line)
  BY <1>0
<1>2. /\ argv' = Kept(line, permit, k + 1) \o Rest(line, k + 1)
      /\ i' = Len(Kept(line, permit, k + 1)) + 1
      /\ ~permit.swallow => argv' = argv
  BY MoveOn
<1>3. used' = OptionsIn(Upto(line, k + 1))
  BY <1>0, <1>1, OptionsNext DEF Between, Passed
<1>4. Done(settings') = Result(line, k + 1)
  BY <1>0, <1>1, ResultNext
<1>5. \A j \in 1 .. k + 1 : Permitted(permit, line[j])
  BY <1>1 DEF Between, Passed
<1>6. Between(k + 1)'
  BY <1>2, <1>3, <1>4, <1>5 DEF Between, Passed
<1>7. \E j \in 0 .. Heed(line') : Between(j)'
  BY <1>1, <1>6
<1>8. ~permit.swallow => argv' = Rest(line, 0)
  BY <1>2 DEF CmdInv
<1> QED
  BY <1>7, <1>8 DEF CmdInv

\* The program is refused or ends at item k + 1.
LEMMA GiveUp ==
  ASSUME CmdInv, NEW how, how \notin {"processing", "checking", "accepted"}, Ends(how),
         how = "refused" => ~WantedOf(line, permit)
  PROVE  CmdInv'
  BY DEF CmdInv, Ends

\* A word that is not permitted, or an option that fails, is not wanted.
LEMMA NotWanted ==
  ASSUME CmdInv, NEW k \in 0 .. Heed(line) - 1,
         \/ ~Permitted(permit, line[k + 1])
         \/ Result(line, k + 1).outcome # "processing"
  PROVE  ~WantedOf(line, permit)
<1>0. line \in RegularLines /\ Len(line) \in Nat /\ Heed(line) \in 0 .. Len(line)
  BY LineFacts, FirstDashIs DEF CmdInv
<1>1. k + 1 \in 1 .. Heed(line) /\ k + 1 \in 0 .. Len(line) /\ Heed(line) \in k + 1 .. Len(line)
  BY <1>0
<1>2. CASE ~Permitted(permit, line[k + 1])
  BY <1>1, <1>2 DEF WantedOf
<1>3. CASE Result(line, k + 1).outcome # "processing"
  <2>1. PICK m \in 0 .. Len(line) : m = k + 1
    BY <1>1
  <2>2. Heed(line) \in m .. Len(line)
    BY <1>1, <2>1
  <2>3. Result(line, Heed(line)) = Result(line, m)
    BY <1>0, <1>3, <2>1, <2>2, ResultStuck
  <2> QED
    BY <1>3, <2>1, <2>3 DEF WantedOf
<1> QED
  BY <1>2, <1>3

\* One option is one Step.
LEMMA HandleOne == ASSUME NEW x, NEW d PROVE HandleAll(d, <<x>>) = Step(d, x)
<1>1. << >> \in Seq({x}) /\ x \in {x} /\ Append(<< >>, x) = <<x>>
  OBVIOUS
<1>2. HandleAll(d, Append(<< >>, x)) = Step(HandleAll(d, << >>), x)
  BY <1>1, HandleAppend
<1> QED
  BY <1>1, <1>2, HandleNone

\* Item k + 1 is an option, or several, of which the functions returned done.
LEMMA OptionsStep ==
  ASSUME CmdInv, outcome = "processing", NEW k \in 0 .. Heed(line) - 1, Between(k),
         NEW e, e = line[k + 1], e.form # "word",
         NEW done, done = HandleAll(Done(settings), Sets(e)), IsResult(done),
         IF done.outcome # "processing" THEN Ends(done.outcome)
         ELSE /\ settings' = done.settings
              /\ used' = used \cup OptionsIn(Sets(e))
              /\ SkipOrSwallow(Len(Words(e)))
              /\ UNCHANGED <<line, permit, outcome>>
  PROVE  CmdInv'
<1>0. line \in RegularLines /\ Len(line) \in Nat /\ Heed(line) \in 0 .. Len(line)
  BY LineFacts, FirstDashIs DEF CmdInv
<1>1. k \in 0 .. Len(line) - 1
  BY <1>0
<1>2. Done(settings) = Result(line, k)
  BY DEF Between, Passed
<1>3. done = HandleAll(Result(line, k), Sets(e)) /\ done = Result(line, k + 1)
  BY <1>0, <1>1, <1>2, ResultNext
<1>4. CASE done.outcome # "processing"
  <2>1. ~WantedOf(line, permit)
    BY <1>3, <1>4, NotWanted
  <2>2. Ends(done.outcome) /\ done.outcome \notin {"processing", "checking", "accepted"}
    BY <1>4, Zenon DEF IsResult
  <2> QED
    BY <2>1, <2>2, GiveUp, Zenon
<1>5. CASE done.outcome = "processing"
  <2>1. Done(done.settings) = done
    BY <1>5 DEF IsResult, Done, Ended
  <2>2. /\ settings' = done.settings /\ used' = used \cup OptionsIn(Sets(e))
        /\ SkipOrSwallow(Len(Words(e))) /\ UNCHANGED <<line, permit, outcome>>
    BY <1>5, Zenon
  <2>3. Permitted(permit, e)
    BY DEF Permitted
  <2>4. Done(settings') = HandleAll(Result(line, k), Sets(e))
    BY <1>3, <2>1, <2>2, Zenon
  <2> QED
    BY <2>2, <2>3, <2>4, GoOn, Zenon
<1> QED
  BY <1>4, <1>5

\* Item k + 1 is one option.
LEMMA UseStep ==
  ASSUME CmdInv, outcome = "processing", NEW k \in 0 .. Heed(line) - 1, Between(k),
         NEW e, e = line[k + 1], e.form # "word",
         NEW o \in Options, NEW v, NEW n, n = Len(Words(e)), Use(o, v, n),
         Sets(e) = <<[option |-> o, value |-> v]>>
  PROVE  CmdInv'
<1> DEFINE x == [option |-> o, value |-> v]
           done == Handle(settings, o, v)
<1>1. x.option = o /\ x.value = v
  OBVIOUS
<1>2. Done(settings).outcome = "processing" /\ Done(settings).settings = settings
  BY DEF Done
<1>3. HandleAll(Done(settings), Sets(e)) = done
  <2>1. HandleAll(Done(settings), <<x>>) = Step(Done(settings), x)
    BY HandleOne
  <2>2. Step(Done(settings), x) = Handle(settings, o, v)
    BY <1>1, <1>2, Zenon DEF Step
  <2> QED
    BY <2>1, <2>2, Zenon
<1>4. OptionsIn(Sets(e)) = {o}
  <2>1. ToSet(<<x>>) = {x}
    BY DEF ToSet
  <2>2. OptionsIn(<<x>>) = {o}
    BY <2>1, <1>1 DEF OptionsIn
  <2> QED
    BY <2>2
<1>5. IsResult(done)
  BY HandleEnds
<1>6. IF done.outcome # "processing" THEN Ends(done.outcome)
      ELSE /\ settings' = done.settings
           /\ used' = used \cup {o}
           /\ SkipOrSwallow(n)
           /\ UNCHANGED <<line, permit, outcome>>
  BY Zenon DEF Use
<1> HIDE DEF done
<1>7. PICK d : d = done
  OBVIOUS
<1>8. IF d.outcome # "processing" THEN Ends(d.outcome)
      ELSE /\ settings' = d.settings
           /\ used' = used \cup OptionsIn(Sets(e))
           /\ SkipOrSwallow(Len(Words(e)))
           /\ UNCHANGED <<line, permit, outcome>>
  BY <1>4, <1>6, <1>7, Zenon
<1>9. d = HandleAll(Done(settings), Sets(e)) /\ IsResult(d)
  BY <1>3, <1>5, <1>7, Zenon
<1> QED
  BY <1>8, <1>9, OptionsStep, Zenon

\* Item k + 1 is a word that is permitted.
LEMMA WordStep ==
  ASSUME CmdInv, outcome = "processing", NEW k \in 0 .. Heed(line) - 1, Between(k),
         NEW e, e = line[k + 1], e.form = "word", Permitted(permit, e),
         i' = i + 1, argv' = argv, used' = used, settings' = settings,
         UNCHANGED <<line, permit, outcome>>
  PROVE  CmdInv'
<1>1. Sets(e) = << >>
  BY OneWord
<1>2. OptionsIn(<< >>) = {}
  BY DEF OptionsIn, ToSet
<1>3. used' = used \cup OptionsIn(Sets(e))
  BY <1>1, <1>2
<1>4. Done(settings') = HandleAll(Result(line, k), Sets(e))
  <2>1. Done(settings) = Result(line, k)
    BY DEF Between, Passed
  <2> QED
    BY <1>1, <2>1, HandleNone, Zenon
<1> QED
  BY <1>3, <1>4, GoOn, Zenon

\* While the loop runs, it is at an item, of which w is the first word.
AtWord(k, e, w) ==
  /\ k \in 0 .. Len(line) - 1 /\ k \in 0 .. Heed(line) /\ Between(k)
  /\ e = line[k + 1] /\ w = Words(e)[1] /\ Word = w
  /\ Len(Words(e)) = 2 => i # Len(argv) /\ argv[i + 1] = Words(e)[2]
  /\ Len(Words(e)) = 1 /\ k + 1 = Len(line) => i = Len(argv)
  /\ Len(Words(e)) = IF e.form \in {"separate", "letter"} THEN 2 ELSE 1
  /\ IF IsDash(e) THEN k = Heed(line) /\ FirstDash(line) = k + 1 ELSE k \in 0 .. Heed(line) - 1
  /\ k + 1 \in 1 .. Len(line)

\* There is such an item whenever a step of the loop can be taken.
LEMMA WordOfItem ==
  ASSUME CmdInv, Processing
  PROVE  \E k, e, w : AtWord(k, e, w)
<1>0. line \in RegularLines /\ outcome = "processing" /\ i <= Len(argv) /\ Len(line) \in Nat
  BY LineFacts DEF CmdInv, Processing
<1>1. PICK k \in 0 .. Heed(line) : Between(k)
  BY <1>0 DEF CmdInv
<1>2. PICK e : e = line[k + 1]
  OBVIOUS
<1>3. /\ k \in 0 .. Len(line) - 1
      /\ Word = Words(e)[1]
      /\ Len(Words(e)) = 2 => i # Len(argv) /\ argv[i + 1] = Words(e)[2]
      /\ Len(Words(e)) = 1 /\ k + 1 = Len(line) => i = Len(argv)
      /\ IF IsDash(e) THEN k = Heed(line) /\ FirstDash(line) = k + 1 ELSE k \in 0 .. Heed(line) - 1
  BY <1>0, <1>1, <1>2, AtItem, Zenon
<1>4. k + 1 \in 1 .. Len(line)
  BY <1>0, <1>3
<1>5. Len(Words(e)) = IF e.form \in {"separate", "letter"} THEN 2 ELSE 1
  BY <1>0, <1>2, <1>4, WordsType
<1>6. AtWord(k, e, Word)
  BY <1>1, <1>2, <1>3, <1>4, <1>5, Zenon DEF AtWord
<1> QED
  BY <1>6

\* A long option that the program does not have keeps the invariant.
LEMMA UnknownStep == ASSUME CmdInv, Unknown PROVE CmdInv'
<1>0. line \in RegularLines /\ Processing /\ outcome = "processing"
  BY Zenon DEF CmdInv, Unknown, Processing
<1>1. PICK k, e, w : AtWord(k, e, w)
  BY <1>0, WordOfItem
<1>2. w.kind = "long" /\ w.name \notin Options
  BY <1>1, Zenon DEF Unknown, AtWord
<1>3. e.form = "word" /\ w = e.word
  <2>1. line \in RegularLines /\ k + 1 \in 1 .. Len(line) /\ e = line[k + 1] /\ w = Words(e)[1]
    BY <1>0, <1>1, Zenon DEF AtWord
  <2>2. ToldByLong(line, k + 1, e, w)
    BY <1>2, <2>1, LongTells, Zenon
  <2> QED
    BY <1>2, <2>2, Zenon DEF ToldByLong
<1>4. k \in 0 .. Heed(line) - 1 /\ Between(k) /\ e = line[k + 1]
  <2>1. ~IsDash(e)
    BY <1>2, <1>3, Kinds DEF IsDash
  <2> QED
    BY <1>1, <2>1, Zenon DEF AtWord
<1>5. e.word.kind # "text"
  BY <1>2, <1>3
<1>6. CASE permit.unknown
  <2>1. i' = i + 1 /\ argv' = argv /\ used' = used /\ settings' = settings
        /\ UNCHANGED <<line, permit, outcome>>
    BY <1>6, Zenon DEF Unknown
  <2>2. Permitted(permit, e)
    BY <1>2, <1>3, <1>6, Zenon DEF Permitted
  <2> QED
    BY <1>0, <1>3, <1>4, <2>1, <2>2, WordStep, Zenon
<1>7. CASE ~permit.unknown
  <2>1. ~Permitted(permit, e)
    BY <1>3, <1>5, <1>7, Zenon DEF Permitted
  <2>2. ~WantedOf(line, permit)
    BY <1>4, <2>1, NotWanted, Zenon
  <2>3. PICK how : how \in {"exit 1", "refused"} /\ Ends(how)
    BY <1>7, Zenon DEF Unknown
  <2>4. how \notin {"processing", "checking", "accepted"}
    BY <2>3, Zenon
  <2> QED
    BY <2>2, <2>3, <2>4, GiveUp, Zenon
<1> QED
  BY <1>6, <1>7, Zenon

\* So does an argument,
LEMMA ArgumentStep == ASSUME CmdInv, Argument PROVE CmdInv'
<1>0. line \in RegularLines /\ Processing /\ outcome = "processing"
  BY Zenon DEF CmdInv, Argument, Processing
<1>1. PICK k, e, w : AtWord(k, e, w)
  BY <1>0, WordOfItem
<1>2. w.kind = "text"
  BY <1>1, Zenon DEF Argument, AtWord
<1>3. e.form = "word" /\ w = e.word
  BY <1>0, <1>1, <1>2, OtherTells, Zenon DEF AtWord
<1>4. k \in 0 .. Heed(line) - 1 /\ Between(k) /\ e = line[k + 1]
  <2>1. ~IsDash(e)
    BY <1>2, <1>3, Kinds DEF IsDash
  <2> QED
    BY <1>1, <2>1, Zenon DEF AtWord
<1>5. e.word.kind # "long"
  BY <1>2, <1>3
<1>6. CASE permit.extra
  <2>1. i' = i + 1 /\ argv' = argv /\ used' = used /\ settings' = settings
        /\ UNCHANGED <<line, permit, outcome>>
    BY <1>6, Zenon DEF Argument
  <2>2. Permitted(permit, e)
    BY <1>2, <1>3, <1>6, Zenon DEF Permitted
  <2> QED
    BY <1>0, <1>3, <1>4, <2>1, <2>2, WordStep, Zenon
<1>7. CASE ~permit.extra
  <2>1. ~Permitted(permit, e)
    BY <1>3, <1>5, <1>7, Zenon DEF Permitted
  <2>2. ~WantedOf(line, permit)
    BY <1>4, <2>1, NotWanted, Zenon
  <2>3. Ends("refused")
    BY <1>7, Zenon DEF Argument
  <2> QED
    BY <2>2, <2>3, GiveUp
<1> QED
  BY <1>6, <1>7, Zenon

\* A word that is never permitted is refused.
LEMMA RefusedWord ==
  ASSUME CmdInv, NEW k, NEW e, NEW w, AtWord(k, e, w), e.form = "word", w = e.word,
         w.kind = "letters" \/ (w.kind = "long" /\ w.name \in Options), Ends("refused")
  PROVE  CmdInv'
<1>1. w.kind # "text" /\ w.kind # "dash" /\ (w.kind = "long" => w.name \in Options)
  OBVIOUS
<1>2. ~IsDash(e)
  BY <1>1, Kinds DEF IsDash
<1>3. k \in 0 .. Heed(line) - 1 /\ e = line[k + 1]
  BY <1>2, Zenon DEF AtWord
<1>4. ~Permitted(permit, e)
  BY <1>1, Zenon DEF Permitted
<1>5. ~WantedOf(line, permit)
  BY <1>3, <1>4, NotWanted, Zenon
<1> QED
  BY <1>5, GiveUp

\* a long option in each of its forms,
LEMMA LongOptionStep == ASSUME CmdInv, LongOption PROVE CmdInv'
<1>0. line \in RegularLines /\ Processing /\ outcome = "processing"
  BY Zenon DEF CmdInv, LongOption, Processing
<1>1. PICK k, e, w : AtWord(k, e, w)
  BY <1>0, WordOfItem
<1>2. w.kind = "long" /\ w.name \in Options /\ Word = w
  BY <1>1, Zenon DEF LongOption, AtWord
<1>3. /\ w.value = NoValue /\ ValueFollows(w.name) =>
           \/ e.form = "separate" /\ e.option = w.name
           \/ e.form = "word" /\ w = e.word /\ k + 1 = Len(line)
      /\ w.value = NoValue /\ ~ValueFollows(w.name) => e.form = "alone" /\ e.option = w.name
      /\ w.value # NoValue /\ Table[w.name].takes =>
           e.form = "joined" /\ e.option = w.name /\ e.value = w.value
      /\ w.value # NoValue /\ ~Table[w.name].takes => e.form = "word" /\ w = e.word
  <2>1. line \in RegularLines /\ k + 1 \in 1 .. Len(line) /\ e = line[k + 1] /\ w = Words(e)[1]
    BY <1>0, <1>1, Zenon DEF AtWord
  <2>2. ToldByLong(line, k + 1, e, w)
    BY <1>2, <2>1, LongTells, Zenon
  <2> QED
    BY <1>2, <2>2, Zenon DEF ToldByLong
<1>4. /\ e = line[k + 1] /\ Between(k)
      /\ e.form # "word" => k \in 0 .. Heed(line) - 1
      /\ Len(Words(e)) = 2 => i # Len(argv) /\ argv[i + 1] = Words(e)[2]
      /\ Len(Words(e)) = 1 /\ k + 1 = Len(line) => i = Len(argv)
      /\ Len(Words(e)) = IF e.form \in {"separate", "letter"} THEN 2 ELSE 1
  BY <1>1, Zenon DEF AtWord, IsDash
<1>5. CASE w.value = NoValue /\ ValueFollows(w.name) /\ e.form = "separate" /\ e.option = w.name
  <2>1. Len(Words(e)) = 2 /\ e.form # "word"
    BY <1>4, <1>5
  <2>2. Words(e) = <<Long(e.option, NoValue), e.value>> /\ Sets(e) = <<[option |-> w.name, value |-> e.value]>>
    BY <1>5, TwoWords, Zenon
  <2>3. Words(e)[2] = e.value
    BY <2>2
  <2>4. Use(w.name, e.value, 2)
    BY <1>2, <1>4, <1>5, <2>1, <2>3, Zenon DEF LongOption
  <2> QED
    BY <1>0, <1>2, <1>4, <2>1, <2>2, <2>4, UseStep, Zenon
<1>6. CASE w.value = NoValue /\ ValueFollows(w.name) /\ e.form = "word" /\ w = e.word /\ k + 1 = Len(line)
  <2>1. i = Len(argv)
    BY <1>4, <1>6
  <2>2. Ends("refused")
    BY <1>2, <1>6, <2>1, Zenon DEF LongOption
  <2> QED
    BY <1>1, <1>2, <1>6, <2>2, RefusedWord, Zenon
<1>7. CASE w.value = NoValue /\ ~ValueFollows(w.name)
  <2>1. e.form = "alone" /\ e.option = w.name
    BY <1>3, <1>7
  <2>2. Len(Words(e)) = 1 /\ e.form # "word"
    BY <1>4, <2>1
  <2>3. Sets(e) = <<[option |-> w.name, value |-> NoValue]>>
    BY <2>1, OneWord, Zenon
  <2>4. Use(w.name, NoValue, 1)
    BY <1>2, <1>7, Zenon DEF LongOption
  <2> QED
    BY <1>0, <1>2, <1>4, <2>2, <2>3, <2>4, UseStep, Zenon
<1>8. CASE w.value # NoValue /\ Table[w.name].takes
  <2>1. e.form = "joined" /\ e.option = w.name /\ e.value = w.value
    BY <1>3, <1>8
  <2>2. Len(Words(e)) = 1 /\ e.form # "word"
    BY <1>4, <2>1
  <2>3. Sets(e) = <<[option |-> w.name, value |-> w.value]>>
    BY <2>1, OneWord, Zenon
  <2>4. Use(w.name, w.value, 1)
    BY <1>2, <1>8, Zenon DEF LongOption
  <2> QED
    BY <1>0, <1>2, <1>4, <2>2, <2>3, <2>4, UseStep, Zenon
<1>9. CASE w.value # NoValue /\ ~Table[w.name].takes
  <2>1. e.form = "word" /\ w = e.word
    BY <1>3, <1>9
  <2>2. Ends("refused")
    BY <1>2, <1>9, Zenon DEF LongOption
  <2> QED
    BY <1>1, <1>2, <2>1, <2>2, RefusedWord, Zenon
<1> QED
  BY <1>3, <1>5, <1>6, <1>7, <1>8, <1>9, Zenon

\* a letter by itself, with or without a value,
LEMMA ShortOptionStep == ASSUME CmdInv, ShortOption PROVE CmdInv'
<1>0. line \in RegularLines /\ Processing /\ outcome = "processing"
  BY Zenon DEF CmdInv, ShortOption, Processing
<1>1. PICK k, e, w : AtWord(k, e, w)
  BY <1>0, WordOfItem
<1>2. w.kind = "letters" /\ Len(w.letters) = 1 /\ Word = w
  BY <1>1, Zenon DEF ShortOption, AtWord
<1>3. PICK c : c = w.letters[1]
  OBVIOUS
<1>4. /\ c \notin DOMAIN Shortcut => e.form = "word" /\ w = e.word
      /\ c \in DOMAIN Shortcut /\ ~Table[Shortcut[c]].takes => e.form = "letters" /\ e.letters = w.letters
      /\ c \in DOMAIN Shortcut /\ Table[Shortcut[c]].takes =>
           \/ e.form = "letter" /\ e.letter = c
           \/ e.form = "word" /\ w = e.word /\ k + 1 = Len(line)
  <2>1. line \in RegularLines /\ k + 1 \in 1 .. Len(line) /\ e = line[k + 1] /\ w = Words(e)[1]
    BY <1>0, <1>1, Zenon DEF AtWord
  <2>2. ToldByLetters(line, k + 1, e, w)
    BY <1>2, <2>1, LettersTell, Zenon
  <2> QED
    BY <1>2, <1>3, <2>2, Zenon DEF ToldByLetters
<1>5. /\ e = line[k + 1] /\ Between(k)
      /\ e.form # "word" => k \in 0 .. Heed(line) - 1
      /\ Len(Words(e)) = 2 => i # Len(argv) /\ argv[i + 1] = Words(e)[2]
      /\ Len(Words(e)) = 1 /\ k + 1 = Len(line) => i = Len(argv)
      /\ Len(Words(e)) = IF e.form \in {"separate", "letter"} THEN 2 ELSE 1
      /\ k + 1 \in 1 .. Len(line)
  BY <1>1, Zenon DEF AtWord, IsDash
<1>6. c \in DOMAIN Shortcut => Shortcut[c] \in Options
  BY CmdlineAssumption
<1>7. CASE c \notin DOMAIN Shortcut
  <2>1. Ends("refused")
    BY <1>2, <1>3, <1>7, Zenon DEF ShortOption
  <2> QED
    BY <1>1, <1>2, <1>4, <1>7, <2>1, RefusedWord, Zenon
<1>8. CASE c \in DOMAIN Shortcut /\ ~Table[Shortcut[c]].takes
  <2>1. e.form = "letters" /\ e.letters = w.letters
    BY <1>4, <1>8
  <2>2. Len(Words(e)) = 1 /\ e.form # "word"
    BY <1>5, <2>1
  <2>3. Sets(e) = <<[option |-> Shortcut[c], value |-> NoValue]>>
    <3>1. Sets(e) = [m \in DOMAIN e.letters |-> [option |-> Shortcut[e.letters[m]], value |-> NoValue]]
      BY <2>1, OneWord, Zenon
    <3>2. e.letters \in Seq(DOMAIN Shortcut) /\ Len(e.letters) = 1 /\ e.letters[1] = c
      BY <1>0, <1>2, <1>3, <1>5, <2>1, FormOf
    <3> QED
      BY <3>1, <3>2
  <2>4. Use(Shortcut[c], NoValue, 1)
    BY <1>2, <1>3, <1>8, Zenon DEF ShortOption
  <2> QED
    BY <1>0, <1>5, <1>6, <1>8, <2>2, <2>3, <2>4, UseStep, Zenon
<1>9. CASE c \in DOMAIN Shortcut /\ Table[Shortcut[c]].takes /\ e.form = "letter" /\ e.letter = c
  <2>1. Len(Words(e)) = 2 /\ e.form # "word"
    BY <1>5, <1>9
  <2>2. Words(e) = <<Letters(<<c>>), e.value>> /\ Sets(e) = <<[option |-> Shortcut[c], value |-> e.value]>>
    BY <1>9, TwoWords, Zenon
  <2>3. Words(e)[2] = e.value
    BY <2>2
  <2>4. Use(Shortcut[c], e.value, 2)
    BY <1>2, <1>3, <1>5, <1>9, <2>1, <2>3, Zenon DEF ShortOption
  <2> QED
    BY <1>0, <1>5, <1>6, <1>9, <2>1, <2>2, <2>4, UseStep, Zenon
<1>10. CASE /\ c \in DOMAIN Shortcut /\ Table[Shortcut[c]].takes
            /\ e.form = "word" /\ w = e.word /\ k + 1 = Len(line)
  <2>1. i = Len(argv)
    BY <1>5, <1>10
  <2>2. Ends("refused")
    BY <1>2, <1>3, <1>10, <2>1, Zenon DEF ShortOption
  <2> QED
    BY <1>1, <1>2, <1>10, <2>2, RefusedWord, Zenon
<1> QED
  BY <1>4, <1>7, <1>8, <1>9, <1>10, Zenon

\* letters together, of which each has to be an option without a value,
LEMMA ShortOptionsStep == ASSUME CmdInv, ShortOptions PROVE CmdInv'
<1>0. line \in RegularLines /\ Processing /\ outcome = "processing"
  BY Zenon DEF CmdInv, ShortOptions, Processing
<1>1. PICK k, e, w : AtWord(k, e, w)
  BY <1>0, WordOfItem
<1>2. w.kind = "letters" /\ Len(w.letters) > 1 /\ Word = w
  BY <1>1, Zenon DEF ShortOptions, AtWord
<1>3. /\ (\E c \in ToSet(w.letters) : Unusable(c)) => e.form = "word" /\ w = e.word
      /\ ~(\E c \in ToSet(w.letters) : Unusable(c)) => e.form = "letters" /\ e.letters = w.letters
  <2>1. line \in RegularLines /\ k + 1 \in 1 .. Len(line) /\ e = line[k + 1] /\ w = Words(e)[1]
    BY <1>0, <1>1, Zenon DEF AtWord
  <2>2. ToldByLetters(line, k + 1, e, w)
    BY <1>2, <2>1, LettersTell, Zenon
  <2> QED
    BY <1>2, <2>2, Zenon DEF ToldByLetters
<1>4. /\ e = line[k + 1] /\ Between(k)
      /\ e.form # "word" => k \in 0 .. Heed(line) - 1
      /\ Len(Words(e)) = IF e.form \in {"separate", "letter"} THEN 2 ELSE 1
      /\ k + 1 \in 1 .. Len(line)
  BY <1>1, Zenon DEF AtWord, IsDash
<1>5. CASE \E c \in ToSet(w.letters) : Unusable(c)
  <2>1. \E c \in ToSet(w.letters) : c \notin DOMAIN Shortcut \/ Table[Shortcut[c]].takes
    BY <1>5, Zenon DEF Unusable
  <2>2. Ends("refused")
    BY <1>2, <2>1, Zenon DEF ShortOptions
  <2> QED
    BY <1>1, <1>2, <1>3, <1>5, <2>2, RefusedWord, Zenon
<1>6. CASE ~(\E c \in ToSet(w.letters) : Unusable(c))
  <2>1. e.form = "letters" /\ e.letters = w.letters
    BY <1>3, <1>6
  <2>2. ~(\E c \in ToSet(e.letters) : c \notin DOMAIN Shortcut \/ Table[Shortcut[c]].takes)
    BY <1>6, <2>1, Zenon DEF Unusable
  <2>3. e.letters \in Seq(DOMAIN Shortcut) /\ e.form # "word" /\ Len(Words(e)) = 1
    BY <1>0, <1>4, <2>1, FormOf
  <2>4. Sets(e) = [m \in DOMAIN e.letters |-> [option |-> Shortcut[e.letters[m]], value |-> NoValue]]
    BY <2>1, OneWord, Zenon
  <2> DEFINE S == [option : Options, value : {NoValue}]
  <2>5. Sets(e) \in Seq(S)
    <3>1. DOMAIN e.letters = 1 .. Len(e.letters) /\ Len(e.letters) \in Nat
          /\ \A m \in DOMAIN e.letters : e.letters[m] \in DOMAIN Shortcut
      BY <2>3
    <3>2. \A m \in DOMAIN e.letters : Shortcut[e.letters[m]] \in Options
      BY <3>1, CmdlineAssumption
    <3>3. Sets(e) \in [1 .. Len(e.letters) -> S]
      BY <2>4, <3>1, <3>2
    <3> HIDE DEF S
    <3> QED
      BY <3>1, <3>3
  <2>6. OptionsIn(Sets(e)) = {Shortcut[c] : c \in ToSet(e.letters)}
    <3>1. DOMAIN Sets(e) = DOMAIN e.letters
          /\ \A m \in DOMAIN e.letters : Sets(e)[m].option = Shortcut[e.letters[m]]
      BY <2>4
    <3> QED
      BY <3>1 DEF OptionsIn, ToSet
  <2>7. PICK done : done = HandleAll(Done(settings), Sets(e))
    OBVIOUS
  <2>8. IsResult(done)
    BY <2>5, <2>7, ResultForms, HandleAllEnds
  <2>9. IF done.outcome # "processing" THEN Ends(done.outcome)
        ELSE /\ settings' = done.settings
             /\ used' = used \cup {Shortcut[c] : c \in ToSet(e.letters)}
             /\ SkipOrSwallow(1)
             /\ UNCHANGED <<line, permit, outcome>>
    <3>1. IF \E c \in ToSet(w.letters) : c \notin DOMAIN Shortcut \/ Table[Shortcut[c]].takes
            THEN Ends("refused")
          ELSE LET d == HandleAll(Done(settings), [m \in DOMAIN w.letters |->
                          [option |-> Shortcut[w.letters[m]], value |-> NoValue]]) IN
               IF d.outcome # "processing" THEN Ends(d.outcome)
               ELSE /\ settings' = d.settings
                    /\ used' = used \cup {Shortcut[c] : c \in ToSet(w.letters)}
                    /\ SkipOrSwallow(1)
                    /\ UNCHANGED <<line, permit, outcome>>
      BY <1>2, Zenon DEF ShortOptions
    <3> QED
      BY <2>1, <2>2, <2>4, <2>7, <3>1, Zenon
  <2>10. IF done.outcome # "processing" THEN Ends(done.outcome)
         ELSE /\ settings' = done.settings
              /\ used' = used \cup OptionsIn(Sets(e))
              /\ SkipOrSwallow(Len(Words(e)))
              /\ UNCHANGED <<line, permit, outcome>>
    BY <2>3, <2>6, <2>9, Zenon
  <2> QED
    BY <1>0, <1>4, <2>3, <2>7, <2>8, <2>10, OptionsStep, Zenon
<1> QED
  BY <1>5, <1>6

\* a dash, behind which nothing is looked at,
LEMMA LoneDashStep == ASSUME CmdInv, LoneDash PROVE CmdInv'
<1>0. line \in RegularLines /\ Processing /\ outcome = "processing" /\ Len(line) \in Nat /\ Heed(line) \in 0 .. Len(line)
  BY LineFacts, FirstDashIs, Zenon DEF CmdInv, LoneDash, Processing
<1>1. PICK k, e, w : AtWord(k, e, w)
  BY <1>0, WordOfItem
<1>2. w.kind = "dash" /\ Word = w
  BY <1>1, Zenon DEF LoneDash, AtWord
<1>3. IsDash(e)
  BY <1>0, <1>1, <1>2, OtherTells, Zenon DEF AtWord
<1>4. /\ k = Heed(line) /\ FirstDash(line) = k + 1 /\ e = line[k + 1] /\ Between(k)
      /\ k \in 0 .. Len(line) - 1 /\ k + 1 \in 1 .. Len(line) /\ Len(Words(e)) = 1
  <2>1. e.form = "word"
    BY <1>3 DEF IsDash
  <2>2. Len(Words(e)) = 1
    BY <1>1, <2>1 DEF AtWord
  <2> QED
    BY <1>1, <1>3, <2>2, Zenon DEF AtWord
<1>5. CASE permit.extra
  <2>1. SkipOrSwallow(1) /\ outcome' = "checking" /\ UNCHANGED <<line, permit, used, settings>>
    BY <1>5, Zenon DEF LoneDash
  <2>2. permit.swallow \in BOOLEAN
    BY CmdlineAssumption DEF CmdInv
  <2>3. argv' = Left(line, permit)
    <3>1. CASE ~permit.swallow
      <4>1. argv' = argv /\ argv = Rest(line, 0)
        BY <2>1, <3>1 DEF SkipOrSwallow, CmdInv
      <4> QED
        BY <3>1, <4>1 DEF Left
    <3>2. CASE permit.swallow
      <4>1. Left(line, permit) = Kept(line, permit, k) \o Rest(line, k + 1)
        <5>1. FirstDash(line) # 0
          BY <1>0, <1>4
        <5>2. Left(line, permit) = Kept(line, permit, Heed(line)) \o Rest(line, FirstDash(line))
          BY <1>0, <3>2, <5>1, LeftIs
        <5> QED
          BY <1>4, <5>2, Zenon
      <4>2. SubSeq(argv, 1, i - 1) \o SubSeq(argv, i + 1, Len(argv))
              = Kept(line, permit, k) \o Rest(line, k + 1)
        BY <1>0, <1>4, TakeOut
      <4>3. argv' = SubSeq(argv, 1, i - 1) \o SubSeq(argv, i + 1, Len(argv))
        BY <2>1, <3>2 DEF SkipOrSwallow
      <4> QED
        BY <4>1, <4>2, <4>3
    <3> QED
      BY <3>1, <3>2
  <2>4. Passed(Heed(line))'
    BY <1>4, <2>1 DEF Between, Passed
  <2>5. ~permit.swallow => argv' = Rest(line, 0)
    BY <2>1 DEF SkipOrSwallow, CmdInv
  <2> QED
    BY <1>5, <2>1, <2>3, <2>4, <2>5 DEF CmdInv
<1>6. CASE ~permit.extra
  <2>1. Ends("refused")
    BY <1>6, Zenon DEF LoneDash
  <2>2. FirstDash(line) # 0
    BY <1>0, <1>4
  <2>3. ~WantedOf(line, permit)
    BY <1>6, <2>2 DEF WantedOf
  <2> QED
    BY <2>1, <2>3, GiveUp
<1> QED
  BY <1>5, <1>6

\* At the end of the words, all items were passed and argv is what is left.
LEMMA AtEnd ==
  ASSUME CmdInv, outcome = "checking" \/ (outcome = "processing" /\ i > Len(argv))
  PROVE  /\ Passed(Heed(line)) /\ argv = Left(line, permit)
         /\ FirstDash(line) # 0 => permit.extra
<1>0. line \in RegularLines /\ Len(line) \in Nat /\ Heed(line) \in 0 .. Len(line)
  BY LineFacts, FirstDashIs DEF CmdInv
<1>1. CASE outcome = "checking"
  BY <1>1 DEF CmdInv
<1>2. CASE outcome = "processing" /\ i > Len(argv)
  <2>1. PICK k \in 0 .. Heed(line) : Between(k)
    BY <1>2 DEF CmdInv
  <2> DEFINE W == AllWords(line)
  <2>2. PICK a \in Seq(W) : a = Kept(line, permit, k)
    <3>1. k \in 0 .. Len(line)
      BY <1>0
    <3>2. Kept(line, permit, k) \in Seq(W)
      BY <1>0, <3>1, KeptType
    <3> HIDE DEF W
    <3> QED
      BY <3>2
  <2>3. k = Len(line)
    <3> SUFFICES ASSUME k # Len(line) PROVE FALSE
      OBVIOUS
    <3>1. k \in 0 .. Len(line) - 1 /\ k + 1 \in 1 .. Len(line) /\ k + 1 \in 0 .. Len(line)
      BY <1>0
    <3>2. PICK m \in 1 .. Len(line) : m = k + 1
      BY <3>1
    <3>3. Words(line[m]) \in Seq(W)
          /\ (Len(Words(line[m])) = 1 \/ Len(Words(line[m])) = 2)
      BY <1>0, WordsType
    <3>4. Rest(line, k) = Words(line[m]) \o Rest(line, k + 1) /\ Rest(line, k + 1) \in Seq(W)
      <4>1. Rest(line, k) = Words(line[k + 1]) \o Rest(line, k + 1)
        BY <1>0, <3>1, RestNext
      <4>2. Rest(line, k + 1) \in Seq(W)
        BY <1>0, <3>1, KeptType
      <4> QED
        BY <3>2, <4>1, <4>2, Zenon
    <3> HIDE DEF W
    <3>5. PICK b \in Seq(W) : b = Words(line[m])
      BY <3>3
    <3>6. PICK c \in Seq(W) : c = Rest(line, k + 1)
      BY <3>4
    <3>7. PICK d \in Seq(W) : d = b \o c /\ Len(d) = Len(b) + Len(c)
      <4>1. b \o c \in Seq(W) /\ Len(b \o c) = Len(b) + Len(c)
        BY ConcatFacts
      <4> QED
        BY <4>1
    <3>8. argv = a \o d /\ i = Len(a) + 1
      BY <2>1, <2>2, <3>4, <3>5, <3>6, <3>7, Zenon DEF Between
    <3>9. Len(argv) = Len(a) + Len(d)
      BY <3>8, ConcatFacts
    <3>10. Len(a) \in Nat /\ Len(c) \in Nat
      OBVIOUS
    <3>11. Len(b) = 1 \/ Len(b) = 2
      BY <3>3, <3>5, Zenon
    <3>12. Len(d) = Len(b) + Len(c) /\ i = Len(a) + 1 /\ i > Len(argv)
      BY <1>2, <3>7, <3>8, Zenon
    <3>13. ASSUME NEW x \in Nat, NEW y, NEW z \in Nat, y = 1 \/ y = 2
           PROVE  ~(x + 1 > x + (y + z))
      BY <3>13
    <3> QED
      BY <3>9, <3>10, <3>11, <3>12, <3>13, Zenon
  <2>4. k = Heed(line) /\ FirstDash(line) = 0
    BY <1>0, <2>3, FirstDashIs
  <2>5. argv = a
    <3>1. Rest(line, k) = << >>
      BY <1>0, <2>3, Ends0
    <3> QED
      BY <2>1, <2>2, <3>1, ConcatEmpty DEF Between
  <2>6. argv = Left(line, permit)
    <3>1. CASE ~permit.swallow
      BY <3>1 DEF CmdInv, Left
    <3>2. CASE permit.swallow
      BY <1>0, <2>2, <2>3, <2>4, <2>5, <3>2, LeftIs
    <3> QED
      BY <3>1, <3>2
  <2> QED
    BY <2>1, <2>4, <2>6 DEF Between
<1> QED
  BY <1>1, <1>2

\* What check_mandatory_args_recursive and check_mutually_exclusive_args find.
Apart(opts) ==
  \/ \E o \in Options : Table[o].mandatory /\ o \notin opts
  \/ \E x \in Exclusions :
       \/ Cardinality(x.options \cap opts) > 1
       \/ x.one_required /\ x.options \cap opts = {}

\* They find something if and only if the options do not go together.
LEMMA ApartOrTogether ==
  ASSUME NEW opts, IsFiniteSet(opts) PROVE Apart(opts) <=> ~Together(opts)
<1>1. ASSUME NEW x \in Exclusions
      PROVE  (Cardinality(x.options \cap opts) > 1 \/ (x.one_required /\ x.options \cap opts = {}))
               <=> ~(LET n == Cardinality(x.options \cap opts) IN n <= 1 /\ (x.one_required => n = 1))
  <2> DEFINE both == x.options \cap opts
  <2>1. IsFiniteSet(both)
    <3>1. both \subseteq opts
      OBVIOUS
    <3> QED
      BY <3>1, FS_Subset
  <2>2. PICK n \in Nat : n = Cardinality(both)
    <3>1. Cardinality(both) \in Nat
      BY <2>1, FS_CardinalityType
    <3> QED
      BY <3>1
  <2>3. n = 0 <=> both = {}
    BY <2>1, <2>2, FS_EmptySet
  <2>4. x.one_required \in BOOLEAN
    BY CmdlineAssumption
  <2> HIDE DEF both
  <2>5. (n > 1 \/ (x.one_required /\ both = {})) <=> ~(n <= 1 /\ (x.one_required => n = 1))
    BY <2>3, <2>4
  <2> QED
    BY <2>2, <2>5, Zenon DEF both
<1> QED
  BY <1>1, Zenon DEF Apart, Together

\* and the checks at the end.
LEMMA CheckStep == ASSUME CmdInv, Check PROVE CmdInv'
<1>0. line \in RegularLines /\ Len(line) \in Nat /\ Heed(line) \in 0 .. Len(line)
      /\ (outcome = "checking" \/ (outcome = "processing" /\ i > Len(argv)))
  BY LineFacts, FirstDashIs DEF CmdInv, Check
<1>1. /\ Passed(Heed(line)) /\ argv = Left(line, permit)
      /\ FirstDash(line) # 0 => permit.extra
  BY <1>0, AtEnd, Zenon
<1>2. IsFiniteSet(used)
  <2>1. Upto(line, Heed(line)) \in Seq(AllSets(line))
    BY <1>0, KeptType
  <2>2. used = OptionsIn(Upto(line, Heed(line)))
    BY <1>1 DEF Passed
  <2> QED
    BY <2>1, <2>2, OptionsFinite
<1>3. WantedOf(line, permit) <=> Together(used)
  <2>1. Result(line, Heed(line)).outcome = "processing"
    BY <1>1 DEF Passed, Done
  <2> QED
    BY <1>1, <2>1, Zenon DEF Passed, WantedOf
<1>4. /\ Apart(used) => Ends("refused")
      /\ ~Apart(used) => Ends("accepted")
  BY Zenon DEF Check, Apart
<1>5. Apart(used) <=> ~Together(used)
  BY <1>2, ApartOrTogether
<1>6. CASE Apart(used)
  <2>1. Ends("refused") /\ ~WantedOf(line, permit)
    BY <1>3, <1>4, <1>5, <1>6, Zenon
  <2> QED
    BY <2>1, GiveUp
<1>7. CASE ~Apart(used)
  <2>1. outcome' = "accepted" /\ UNCHANGED <<line, permit, argv, i, used, settings>>
    BY <1>4, <1>7, Zenon DEF Ends
  <2>2. WantedOf(line, permit)
    BY <1>3, <1>5, <1>7, Zenon
  <2>3. Passed(Heed(line))' /\ WantedOf(line, permit)'
    BY <1>1, <2>1, <2>2 DEF Passed
  <2> QED
    BY <1>1, <2>1, <2>3 DEF CmdInv
<1> QED
  BY <1>6, <1>7, Zenon

-----------------------------------------------------------------------------
(* The same in the words of YcCmdline.                                     *)

\* All words.
LEMMA GivenIs == ASSUME line \in RegularLines PROVE Given = Rest(line, 0)
<1>1. Len(line) \in Nat /\ DOMAIN line = 1 .. Len(line)
  BY LineFacts
<1>2. [k \in DOMAIN line |-> Words(line[k])] = [j \in 1 .. Len(line) - 0 |-> Words(line[j + 0])]
  BY <1>1
<1> QED
  BY <1>2, Zenon DEF Given, Rest

\* The items before the dash.
LEMMA HeededIs ==
  ASSUME line \in RegularLines
  PROVE  /\ DashAt = FirstDash(line)
         /\ DOMAIN Heeded = 1 .. Heed(line) /\ \A k \in 1 .. Heed(line) : Heeded[k] = line[k]
<1>0. /\ line \in Seq(ToSet(line)) /\ Len(line) \in Nat /\ Heed(line) \in 0 .. Len(line)
      /\ FirstDash(line) # 0 => Heed(line) = FirstDash(line) - 1
      /\ FirstDash(line) = 0 => Heed(line) = Len(line)
  BY LineFacts, FirstDashIs
<1>1. DashAt = FirstDash(line)
  BY Zenon DEF DashAt, FirstDash, SelectInSeq, IsDash
<1>2. CASE FirstDash(line) = 0
  BY <1>0, <1>1, <1>2, LineFacts DEF Heeded
<1>3. CASE FirstDash(line) # 0
  <2>1. Heeded = SubSeq(line, 1, Heed(line))
    BY <1>0, <1>1, <1>3 DEF Heeded
  <2>2. DOMAIN Heeded = 1 .. Heed(line) /\ \A k \in 1 .. Heed(line) : Heeded[k] = line[k]
    BY <1>0, <2>1
  <2> QED
    BY <1>1, <2>2
<1> QED
  BY <1>2, <1>3

\* What these set, and what it comes to.
LEMMA MeantIs ==
  ASSUME line \in RegularLines
  PROVE  /\ MeantOptions = OptionsIn(Upto(line, Heed(line)))
         /\ Meant = Result(line, Heed(line)) /\ AllSet = Upto(line, Heed(line))
<1>1. [k \in DOMAIN Heeded |-> Sets(Heeded[k])] = [j \in 1 .. Heed(line) |-> Sets(line[j])]
  BY HeededIs
<1>2. AllSet = Upto(line, Heed(line))
  BY <1>1, Zenon DEF AllSet, Upto
<1> QED
  BY <1>2, Zenon DEF MeantOptions, Meant, OptionsIn, Result

\* Every number that they set is in range.
LEMMA AllFit ==
  ASSUME line \in RegularLines
  PROVE  \A set \in ToSet(AllSet) : Fits(set)
<1>1. Len(line) \in Nat /\ Heed(line) \in 0 .. Len(line)
  BY LineFacts, FirstDashIs
<1>2. AllSet \in Seq(AllSets(line))
  BY <1>1, MeantIs, KeptType
<1>3. \A set \in AllSets(line) : Fits(set)
  BY LineFacts DEF AllSets
<1> QED
  BY <1>2, <1>3 DEF ToSet

\* What swallowing leaves, item by item.
Remaining ==
  [k \in DOMAIN line |->
     IF \/ DashAt # 0 /\ k > DashAt
        \/ line[k].form = "word" /\ line[k].word # Dash
       THEN Words(line[k]) ELSE <<>>]

LEMMA LeftBehind ==
  ASSUME line \in RegularLines
  PROVE  Remaining = Leaving(line)
<1>0. /\ Len(line) \in Nat /\ DOMAIN line = 1 .. Len(line) /\ FirstDash(line) \in 0 .. Len(line)
      /\ FirstDash(line) # 0 => Heed(line) = FirstDash(line) - 1
      /\ FirstDash(line) = 0 => Heed(line) = Len(line)
      /\ DashAt = FirstDash(line)
  BY LineFacts, FirstDashIs, HeededIs
<1>1. ASSUME NEW k \in 1 .. Len(line)
      PROVE  (DashAt # 0 /\ k > DashAt) <=> k > Heed(line) + 1
  BY <1>0
<1> QED
  BY <1>0, <1>1 DEF Remaining, Leaving

\* What makes a line right.
LEMMA WantedIs == ASSUME line \in RegularLines PROVE Wanted <=> WantedOf(line, permit)
<1>0. /\ MeantOptions = OptionsIn(Upto(line, Heed(line))) /\ Meant = Result(line, Heed(line))
      /\ DashAt = FirstDash(line)
  BY MeantIs, HeededIs
<1>1. ToSet(Heeded) = {line[k] : k \in 1 .. Heed(line)}
  BY HeededIs DEF ToSet
<1>2. (\A item \in ToSet(Heeded) :
         item.form = "word" =>
           \/ item.word.kind = "text" /\ permit.extra
           \/ item.word.kind = "long" /\ item.word.name \notin Options /\ permit.unknown)
        <=> \A k \in 1 .. Heed(line) : Permitted(permit, line[k])
  BY <1>1, Zenon DEF Permitted
<1>3. \A set \in ToSet(AllSet) : Fits(set)
  BY AllFit
<1> QED
  BY <1>0, <1>2, <1>3, Zenon DEF Wanted, WantedOf, Together

-----------------------------------------------------------------------------
(* Always.                                                                 *)

\* At first no item was passed.
LEMMA CmdInit == ASSUME Init, Regular(line) PROVE CmdInv
<1>0. line \in RegularLines /\ Len(line) \in Nat /\ Heed(line) \in 0 .. Len(line) /\ permit \in Modes
  BY LineFacts, FirstDashIs DEF Init, RegularLines
<1>1. argv = Given /\ i = 1 /\ used = {} /\ settings = Default /\ outcome = "processing"
  BY Zenon DEF Init
<1>2. Given = Rest(line, 0)
  BY <1>0, GivenIs
<1>3. Kept(line, permit, 0) = << >> /\ Upto(line, 0) = << >>
  BY <1>0, Ends0
<1>4. argv = Kept(line, permit, 0) \o Rest(line, 0)
  <2>1. 0 \in 0 .. Len(line)
    BY <1>0
  <2>2. Rest(line, 0) \in Seq(AllWords(line))
    BY <1>0, <2>1, KeptType
  <2> QED
    BY <1>1, <1>2, <1>3, <2>2, ConcatEmpty
<1>5. i = Len(Kept(line, permit, 0)) + 1
  BY <1>1, <1>3
<1>6. used = OptionsIn(Upto(line, 0))
  BY <1>1, <1>3 DEF OptionsIn, ToSet
<1>7. Done(settings) = Result(line, 0)
  BY <1>1, <1>3, HandleNone, Zenon DEF Result
<1>8. \A j \in 1 .. 0 : Permitted(permit, line[j])
  OBVIOUS
<1>9. Between(0)
  BY <1>4, <1>5, <1>6, <1>7, <1>8 DEF Between, Passed
<1>10. 0 \in 0 .. Heed(line)
  BY <1>0
<1> QED
  BY <1>0, <1>1, <1>2, <1>9, <1>10 DEF CmdInv

\* Every step keeps the invariant.
LEMMA CmdNext == ASSUME CmdInv, [Next]_vars PROVE CmdInv'
<1>1. CASE Unknown
  BY <1>1, UnknownStep
<1>2. CASE LongOption
  BY <1>2, LongOptionStep
<1>3. CASE LoneDash
  BY <1>3, LoneDashStep
<1>4. CASE ShortOption
  BY <1>4, ShortOptionStep
<1>5. CASE ShortOptions
  BY <1>5, ShortOptionsStep
<1>6. CASE Argument
  BY <1>6, ArgumentStep
<1>7. CASE Check
  BY <1>7, CheckStep
<1>8. CASE UNCHANGED vars
  <2>1. UNCHANGED <<line, permit, argv, i, used, settings, outcome>>
    BY <1>8 DEF vars
  <2>2. \A k : Passed(k)' = Passed(k) /\ Between(k)' = Between(k)
    BY <2>1 DEF Between, Passed
  <2>3. Passed(Heed(line))' <=> Passed(Heed(line))
    BY <2>1 DEF Passed
  <2>4. (\E k \in 0 .. Heed(line) : Between(k))' <=> \E k \in 0 .. Heed(line) : Between(k)
    BY <2>1 DEF Between, Passed
  <2> QED
    BY <2>1, <2>3, <2>4 DEF CmdInv
<1> QED
  BY <1>1, <1>2, <1>3, <1>4, <1>5, <1>6, <1>7, <1>8, Zenon DEF Next

\* What the user wrote stays as it is.
LEMMA LineStays == ASSUME [Next]_vars PROVE line' = line
<1> USE DEF Ends, Use
<1>1. CASE Unknown
  BY <1>1, Zenon DEF Unknown
<1>2. CASE LongOption
  BY <1>2, Zenon DEF LongOption
<1>3. CASE LoneDash
  BY <1>3, Zenon DEF LoneDash
<1>4. CASE ShortOption
  BY <1>4, Zenon DEF ShortOption
<1>5. CASE ShortOptions
  BY <1>5, Zenon DEF ShortOptions
<1>6. CASE Argument
  BY <1>6, Zenon DEF Argument
<1>7. CASE Check
  BY <1>7, Zenon DEF Check
<1>8. CASE UNCHANGED vars
  BY <1>8 DEF vars
<1> QED
  BY <1>1, <1>2, <1>3, <1>4, <1>5, <1>6, <1>7, <1>8, Zenon DEF Next

\* The loop is always between two items of what the user wrote, has done what
\* the items before it mean, and keeps in argv the words that it is to keep.
THEOREM CmdlineAlways == Spec => [](Regular(line) => CmdInv)
<1>1. Init => (Regular(line) => CmdInv)
  BY CmdInit
<1>2. (Regular(line) => CmdInv) /\ [Next]_vars => (Regular(line) => CmdInv)'
  <2> SUFFICES ASSUME Regular(line) => CmdInv, [Next]_vars, Regular(line)' PROVE CmdInv'
    OBVIOUS
  <2>1. Regular(line)
    BY LineStays DEF Regular
  <2> QED
    BY <2>1, CmdNext
<1> QED
  BY <1>1, <1>2, PTL DEF Spec

\* Whatever the table and the order, each option that was written, and no other, is
\* used, and the settings are those of the items one by one
\* (yc_cmdline_try_process_args), on every line but those that are not regular: with a
\* letter by itself where a value is optional, or a number beyond an unsigned.
THEOREM AlwaysUnderstood == Spec => [](Regular(line) => Understood)
<1>1. CmdInv => Understood
  <2> SUFFICES ASSUME CmdInv, outcome = "accepted"
               PROVE  used = MeantOptions /\ settings = Meant.settings
    BY DEF Understood
  <2>1. line \in RegularLines /\ Passed(Heed(line))
    BY DEF CmdInv
  <2>2. MeantOptions = OptionsIn(Upto(line, Heed(line))) /\ Meant = Result(line, Heed(line))
    BY <2>1, MeantIs
  <2>3. Done(settings).settings = settings
    BY DEF Done
  <2> QED
    BY <2>1, <2>2, <2>3, Zenon DEF Passed
<1> QED
  BY <1>1, CmdlineAlways, PTL

\* What is no option and no value stays in argv, in its order, and nothing else
\* does; with YC_CMDLINE_DO_NOT_MODIFY_ARGV, every word does.
THEOREM AlwaysRemains == Spec => [](Regular(line) => Remains)
<1>1. CmdInv => Remains
  <2> SUFFICES ASSUME CmdInv, outcome = "accepted" PROVE Remains
    BY DEF Remains
  <2>1. line \in RegularLines /\ argv = Left(line, permit)
    BY DEF CmdInv
  <2>2. Given = Rest(line, 0)
    BY <2>1, GivenIs
  <2>3. CASE ~permit.swallow
    BY <2>1, <2>2, <2>3, Zenon DEF Left, Remains
  <2>4. CASE permit.swallow
    BY <2>1, <2>4, LeftBehind, Zenon DEF Left, Remains, Remaining
  <2> QED
    BY <2>3, <2>4
<1> QED
  BY <1>1, CmdlineAlways, PTL

\* A command line is accepted only if every item of it is right and the options
\* go together, and refused only if it is not.  The regular lines are all those for
\* which the code does what the documents call right: with the others (LoneLines and
\* RangeLines of MC_YcCmdline) AcceptedIfRight fails.
THEOREM AcceptedAlwaysIfRight == Spec => [](Regular(line) => AcceptedIfRight)
<1>1. CmdInv => AcceptedIfRight
  <2> SUFFICES ASSUME CmdInv PROVE AcceptedIfRight
    OBVIOUS
  <2>1. line \in RegularLines
    BY DEF CmdInv
  <2>2. Wanted <=> WantedOf(line, permit)
    BY <2>1, WantedIs
  <2> QED
    BY <2>2, Zenon DEF CmdInv, AcceptedIfRight
<1> QED
  BY <1>1, CmdlineAlways, PTL

=============================================================================

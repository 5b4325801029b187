---------------------------- MODULE SequenceFacts ----------------------------
(***************************************************************************)
(* Induction over the natural numbers and over sequences, stated for a     *)
(* set, and what it gives about functions that are defined by recursion    *)
(* along a sequence, among them FlattenSeq of the community modules.       *)
(***************************************************************************)
EXTENDS SequencesExt, WellFoundedInduction, SequenceTheorems, TLAPS

\* Every set of natural numbers that is not empty has a least element.
LEMMA LeastElement ==
  ASSUME NEW S \in SUBSET Nat, S # {}
  PROVE  \E n \in S : \A m \in S : n <= m
<1> DEFINE R == OpToRel(<, Nat)
<1>1. IsWellFoundedOn(R, Nat)
  BY NatLessThanWellFounded
<1>2. R = {p \in Nat \X Nat : p[1] < p[2]}
  BY DEF OpToRel
<1> HIDE DEF R
<1>3. PICK n \in S : \A m \in S : ~ (<<m, n>> \in R)
  BY <1>1, WFMin
<1>4. ASSUME NEW m \in S PROVE n <= m
  <2>1. n \in Nat /\ m \in Nat
    OBVIOUS
  <2>2. m < n => <<m, n>> \in R
    BY <2>1, <1>2
  <2> QED
    BY <2>1, <2>2, <1>3
<1> QED
  BY <1>4

\* A set of natural numbers that has 0, and with a number the next one, has all.
LEMMA SetInduction ==
  ASSUME NEW T \in SUBSET Nat, 0 \in T, \A n \in T : n + 1 \in T
  PROVE  T = Nat
<1> SUFFICES ASSUME T # Nat PROVE FALSE
  OBVIOUS
<1>1. PICK n \in Nat \ T : \A m \in Nat \ T : n <= m
  BY LeastElement
<1>2. n # 0 /\ n - 1 \in Nat
  BY <1>1
<1>3. n - 1 \in T
  BY <1>1, <1>2
<1> QED
  BY <1>1, <1>3

-----------------------------------------------------------------------------
(* Recursion over the natural numbers.                                     *)

\* f starts with a and goes on as step says.
Iterates(f, a, step) ==
  f[0] = a /\ \A n \in Nat : f[n + 1] = step[<<n, f[n]>>]

\* How to go on from each number defines a function.
LEMMA RecursionExists ==
  ASSUME NEW A, NEW a \in A, NEW step \in [Nat \X A -> A]
  PROVE  \E f \in [Nat -> A] : Iterates(f, a, step)
<1> DEFINE Upto(k, f) == f[0] = a /\ \A n \in 0 .. k - 1 : f[n + 1] = step[<<n, f[n]>>]
           T == {k \in Nat : \E f \in [0 .. k -> A] : Upto(k, f)}
<1>1. 0 \in T
  <2>1. [n \in 0 .. 0 |-> a] \in [0 .. 0 -> A] /\ Upto(0, [n \in 0 .. 0 |-> a])
    OBVIOUS
  <2> QED
    BY <2>1
<1>2. ASSUME NEW k \in T PROVE k + 1 \in T
  <2>1. k \in Nat
    OBVIOUS
  <2>2. PICK f \in [0 .. k -> A] : Upto(k, f)
    OBVIOUS
  <2> DEFINE next == step[<<k, f[k]>>]
             g == [n \in 0 .. k + 1 |-> IF n <= k THEN f[n] ELSE next]
  <2>3. next \in A
    BY <2>1
  <2>4. g \in [0 .. k + 1 -> A] /\ (\A n \in 0 .. k : g[n] = f[n]) /\ g[k + 1] = next
    BY <2>1, <2>3
  <2> HIDE DEF g
  <2>5. ASSUME NEW n \in 0 .. (k + 1) - 1 PROVE g[n + 1] = step[<<n, g[n]>>]
    <3>1. CASE n = k
      <4>1. g[k] = f[k]
        BY <2>1, <2>4
      <4>2. g[k + 1] = step[<<k, g[k]>>]
        BY <4>1, <2>4
      <4> HIDE DEF next
      <4> QED
        BY <4>2, <3>1
    <3>2. CASE n # k
      <4>1. n \in 0 .. k - 1 /\ n + 1 \in 0 .. k /\ n \in 0 .. k
        BY <3>2, <2>1
      <4> QED
        BY <4>1, <2>2, <2>4
    <3> QED
      BY <3>1, <3>2
  <2>6. Upto(k + 1, g)
    BY <2>1, <2>2, <2>4, <2>5
  <2> QED
    BY <2>1, <2>4, <2>6
<1>3. T = Nat
  <2> HIDE DEF T
  <2>1. T \in SUBSET Nat
    BY DEF T
  <2> QED
    BY <2>1, <1>1, <1>2, SetInduction
\* The finite ones agree with each other.
<1>4. ASSUME NEW k \in Nat, NEW l \in Nat, k <= l,
             NEW f \in [0 .. k -> A], Upto(k, f), NEW g \in [0 .. l -> A], Upto(l, g)
      PROVE  f[k] = g[k]
  <2> DEFINE U == {n \in Nat : n <= k => f[n] = g[n]}
  <2>1. 0 \in U
    BY <1>4
  <2>2. ASSUME NEW n \in U PROVE n + 1 \in U
    <3> SUFFICES ASSUME n + 1 <= k PROVE f[n + 1] = g[n + 1]
      OBVIOUS
    <3>1. n \in 0 .. k - 1 /\ n \in 0 .. l - 1 /\ f[n] = g[n]
      BY <1>4
    <3>2. f[n + 1] = step[<<n, f[n]>>] /\ g[n + 1] = step[<<n, g[n]>>]
      BY <3>1, <1>4
    <3> QED
      BY <3>1, <3>2
  <2>3. U = Nat
    <3> HIDE DEF U
    <3>1. U \in SUBSET Nat
      BY DEF U
    <3> QED
      BY <3>1, <2>1, <2>2, SetInduction
  <2> QED
    BY <2>3
<1> DEFINE F(k) == CHOOSE f \in [0 .. k -> A] : Upto(k, f)
           h == [k \in Nat |-> F(k)[k]]
<1>5. ASSUME NEW k \in Nat PROVE F(k) \in [0 .. k -> A] /\ Upto(k, F(k))
  <2>1. \E f \in [0 .. k -> A] : Upto(k, f)
    BY <1>3
  <2> QED
    BY <2>1
<1> HIDE DEF F
<1>6. h \in [Nat -> A]
  BY <1>5
<1>7. h[0] = a
  BY <1>5
<1>8. ASSUME NEW n \in Nat PROVE h[n + 1] = step[<<n, h[n]>>]
  <2>1. F(n)[n] = F(n + 1)[n]
    <3>1. /\ n + 1 \in Nat /\ n <= n + 1
          /\ F(n) \in [0 .. n -> A] /\ Upto(n, F(n))
          /\ F(n + 1) \in [0 .. n + 1 -> A] /\ Upto(n + 1, F(n + 1))
      BY <1>5
    <3> QED
      BY <3>1, <1>4
  <2>2. F(n + 1)[n + 1] = step[<<n, F(n + 1)[n]>>]
    BY <1>5
  <2> QED
    BY <2>1, <2>2
<1> HIDE DEF h
<1> QED
  BY <1>6, <1>7, <1>8 DEF Iterates

-----------------------------------------------------------------------------
(* Recursion and induction along a sequence.                               *)

\* f starts with a and takes the elements of q one by one.
Folds(f, q, a, step) ==
  f[0] = a /\ \A i \in 1 .. Len(q) : f[i] = step[<<f[i - 1], q[i]>>]

\* How to take an element defines such a function.
LEMMA FoldExists ==
  ASSUME NEW A, NEW S, NEW a \in A, NEW step \in [A \X S -> A], NEW q \in Seq(S)
  PROVE  \E f \in [0 .. Len(q) -> A] : Folds(f, q, a, step)
<1> DEFINE next == [p \in Nat \X A |->
                      IF p[1] + 1 \in 1 .. Len(q) THEN step[<<p[2], q[p[1] + 1]>>] ELSE p[2]]
<1>1. next \in [Nat \X A -> A]
  <2>1. ASSUME NEW p \in Nat \X A, p[1] + 1 \in 1 .. Len(q)
        PROVE  step[<<p[2], q[p[1] + 1]>>] \in A
    <3>1. q[p[1] + 1] \in S /\ p[2] \in A
      BY <2>1
    <3> QED
      BY <3>1
  <2> QED
    BY <2>1
<1>2. \A n \in Nat, x \in A :
        n + 1 \in 1 .. Len(q) => next[<<n, x>>] = step[<<x, q[n + 1]>>]
  OBVIOUS
<1> HIDE DEF next
<1>a. \E f \in [Nat -> A] : Iterates(f, a, next)
  BY <1>1, RecursionExists
<1>3. PICK f \in [Nat -> A] : f[0] = a /\ \A n \in Nat : f[n + 1] = next[<<n, f[n]>>]
  BY <1>a DEF Iterates
<1> DEFINE g == [i \in 0 .. Len(q) |-> f[i]]
<1>4. g \in [0 .. Len(q) -> A] /\ g[0] = a
  BY <1>3
<1>5. ASSUME NEW i \in 1 .. Len(q) PROVE g[i] = step[<<g[i - 1], q[i]>>]
  <2>1. i - 1 \in Nat /\ (i - 1) + 1 = i /\ i - 1 \in 0 .. Len(q)
    OBVIOUS
  <2>2. f[i] = next[<<i - 1, f[i - 1]>>] /\ f[i - 1] \in A
    BY <2>1, <1>3
  <2>3. next[<<i - 1, f[i - 1]>>] = step[<<f[i - 1], q[(i - 1) + 1]>>]
    BY <2>1, <2>2, <1>2
  <2>4. g[i] = f[i] /\ g[i - 1] = f[i - 1]
    BY <2>1
  <2> HIDE DEF g
  <2> QED
    BY <2>1, <2>2, <2>3, <2>4
<1> QED
  BY <1>4, <1>5 DEF Folds

\* Two such functions agree as far as the sequences do.
LEMMA FoldsAgree ==
  ASSUME NEW a, NEW step, NEW q, NEW r, NEW f, NEW g,
         Folds(f, q, a, step), Folds(g, r, a, step),
         NEW k \in Nat, k <= Len(q), k <= Len(r), Len(q) \in Nat, Len(r) \in Nat,
         \A i \in 1 .. k : q[i] = r[i]
  PROVE  f[k] = g[k]
<1> DEFINE T == {n \in Nat : n <= k => f[n] = g[n]}
<1>1. 0 \in T
  BY DEF Folds
<1>2. ASSUME NEW n \in T PROVE n + 1 \in T
  <2> SUFFICES ASSUME n + 1 <= k PROVE f[n + 1] = g[n + 1]
    OBVIOUS
  <2>1. n + 1 \in 1 .. Len(q) /\ n + 1 \in 1 .. Len(r) /\ n + 1 \in 1 .. k /\ (n + 1) - 1 = n
    OBVIOUS
  <2>2. f[n + 1] = step[<<f[n], q[n + 1]>>] /\ g[n + 1] = step[<<g[n], r[n + 1]>>]
    BY <2>1 DEF Folds
  <2>3. f[n] = g[n]
    OBVIOUS
  <2> QED
    BY <2>1, <2>2, <2>3
<1>3. T = Nat
  <2> HIDE DEF T
  <2>1. T \in SUBSET Nat
    BY DEF T
  <2> QED
    BY <2>1, <1>1, <1>2, SetInduction
<1> QED
  BY <1>3

\* A sequence is what comes before its last element, and that.
LEMMA SplitLast ==
  ASSUME NEW S, NEW n \in Nat, NEW s \in Seq(S), Len(s) = n + 1,
         NEW t \in Seq(S), Len(t) = n, \A i \in 1 .. n : t[i] = s[i]
  PROVE  s = Append(t, s[n + 1])
<1> DEFINE u == Append(t, s[n + 1])
<1>1. s[n + 1] \in S
  OBVIOUS
<1>2. u \in Seq(S) /\ Len(u) = n + 1 /\ u[n + 1] = s[n + 1] /\ \A i \in 1 .. n : u[i] = t[i]
  BY <1>1
<1> HIDE DEF u
<1>3. \A i \in 1 .. n + 1 : u[i] = s[i]
  BY <1>2
<1>4. \A a, b \in Seq(S) : Len(a) = Len(b) /\ (\A i \in 1 .. Len(a) : a[i] = b[i]) => a = b
  OBVIOUS
<1>5. u = s
  BY <1>2, <1>3, <1>4
<1> QED
  BY <1>5 DEF u

\* A set of sequences that has the empty one, and every one that is longer by an
\* element than one of its own, has all.
LEMMA SeqInduction ==
  ASSUME NEW S, NEW T \in SUBSET Seq(S), << >> \in T,
         \A s \in T : \A e \in S : Append(s, e) \in T
  PROVE  T = Seq(S)
<1> DEFINE U == {n \in Nat : \A s \in Seq(S) : Len(s) = n => s \in T}
<1>1. 0 \in U
  <2>1. \A s \in Seq(S) : Len(s) = 0 => s = << >>
    OBVIOUS
  <2> QED
    BY <2>1
<1>2. ASSUME NEW n \in U PROVE n + 1 \in U
  <2> SUFFICES ASSUME NEW s \in Seq(S), Len(s) = n + 1 PROVE s \in T
    OBVIOUS
  <2> DEFINE t == SubSeq(s, 1, n)
  <2>1. n \in Nat /\ n + 1 \in 1 .. Len(s) /\ s[n + 1] \in S
    OBVIOUS
  <2>2. t \in Seq(S) /\ Len(t) = n /\ \A i \in 1 .. n : t[i] = s[i]
    <3>1. \A i \in 1 .. n : i \in 1 .. Len(s)
      BY <2>1
    <3>2. \A i \in 1 .. Len(s) : s[i] \in S
      OBVIOUS
    <3>3. \A i \in 1 .. n : s[i] \in S
      BY <3>1, <3>2
    <3> QED
      BY <2>1, <3>3, SubSeqProperties
  <2>3. t \in T
    BY <2>2
  <2> HIDE DEF t
  <2>4. s = Append(t, s[n + 1])
    BY <2>1, <2>2, SplitLast
  <2> QED
    BY <2>1, <2>3, <2>4
<1>3. U = Nat
  <2> HIDE DEF U
  <2>1. U \in SUBSET Nat
    BY DEF U
  <2> QED
    BY <2>1, <1>1, <1>2, SetInduction
<1>4. \A s \in Seq(S) : s \in T
  <2>1. \A s \in Seq(S) : Len(s) \in Nat
    OBVIOUS
  <2> QED
    BY <1>3, <2>1
<1> QED
  BY <1>4

-----------------------------------------------------------------------------
(* FlattenSeq.                                                             *)

\* f says what the beginnings of q are when they are flattened.
Flattens(f, q) ==
  f[0] = <<>> /\ \A i \in 1 .. Len(q) : f[i] = f[i - 1] \o q[i]

\* The sequence of the partial concatenations of q exists.
LEMMA FlatteningExists ==
  ASSUME NEW S, NEW q \in Seq(Seq(S))
  PROVE  \E f \in [0 .. Len(q) -> Seq(S)] : Flattens(f, q)
<1> DEFINE step == [p \in Nat \X Seq(S) |->
                      IF p[1] + 1 \in 1 .. Len(q) THEN p[2] \o q[p[1] + 1] ELSE p[2]]
<1>1. step \in [Nat \X Seq(S) -> Seq(S)]
  OBVIOUS
<1>2. << >> \in Seq(S)
  OBVIOUS
<1> HIDE DEF step
<1> DEFINE A == Seq(S)
<1>3. \E f \in [Nat -> A] : Iterates(f, << >>, step)
  <2>1. step \in [Nat \X A -> A] /\ << >> \in A
    BY <1>1, <1>2
  <2> HIDE DEF A
  <2> QED
    BY <2>1, RecursionExists
<1>9. PICK f \in [Nat -> A] : f[0] = << >> /\ \A n \in Nat : f[n + 1] = step[<<n, f[n]>>]
  BY <1>3 DEF Iterates
<1> DEFINE g == [i \in 0 .. Len(q) |-> f[i]]
<1>4. g \in [0 .. Len(q) -> Seq(S)]
  OBVIOUS
<1>5. ASSUME NEW i \in 1 .. Len(q) PROVE g[i] = g[i - 1] \o q[i]
  <2>1. i - 1 \in Nat /\ (i - 1) + 1 = i /\ i - 1 \in 0 .. Len(q)
    OBVIOUS
  <2>2. f[i] = step[<<i - 1, f[i - 1]>>]
    BY <2>1, <1>9
  <2>3. step[<<i - 1, f[i - 1]>>] = f[i - 1] \o q[i]
    BY <2>1 DEF step
  <2>4. g[i] = f[i] /\ g[i - 1] = f[i - 1]
    BY <2>1
  <2> HIDE DEF g
  <2> QED
    BY <2>2, <2>3, <2>4
<1>6. g[0] = << >>
  BY <1>9
<1> QED
  BY <1>4, <1>5, <1>6 DEF Flattens

\* Two such functions agree as far as the sequences do.
LEMMA FlatteningsAgree ==
  ASSUME NEW q, NEW r, NEW f, NEW g, Flattens(f, q), Flattens(g, r),
         NEW k \in Nat, k <= Len(q), k <= Len(r), Len(q) \in Nat, Len(r) \in Nat,
         \A i \in 1 .. k : q[i] = r[i]
  PROVE  f[k] = g[k]
<1> DEFINE T == {n \in Nat : n <= k => f[n] = g[n]}
<1>1. 0 \in T
  BY DEF Flattens
<1>2. ASSUME NEW n \in T PROVE n + 1 \in T
  <2> SUFFICES ASSUME n + 1 <= k PROVE f[n + 1] = g[n + 1]
    OBVIOUS
  <2>1. n + 1 \in 1 .. Len(q) /\ n + 1 \in 1 .. Len(r) /\ n + 1 \in 1 .. k /\ (n + 1) - 1 = n
    OBVIOUS
  <2>2. f[n + 1] = f[n] \o q[n + 1] /\ g[n + 1] = g[n] \o r[n + 1]
    BY <2>1 DEF Flattens
  <2>3. f[n] = g[n]
    OBVIOUS
  <2> QED
    BY <2>1, <2>2, <2>3
<1>3. T = Nat
  <2> HIDE DEF T
  <2>1. T \in SUBSET Nat
    BY DEF T
  <2> QED
    BY <2>1, <1>1, <1>2, SetInduction
<1> QED
  BY <1>3

\* FlattenSeq, which the library defines by recursion on a set of functions, is the
\* last of the partial concatenations.
LEMMA FlattenIs ==
  ASSUME NEW S, NEW q \in Seq(Seq(S)), NEW f, Flattens(f, q)
  PROVE  FlattenSeq(q) = f[Len(q)]
<1>0. Len(q) \in Nat /\ \A i \in 1 .. Len(q) : q[i] \in Seq(S)
  OBVIOUS
<1>1. CASE Len(q) = 0
  <2>1. q = << >>
    BY <1>1
  <2> QED
    BY <1>1, <2>1 DEF FlattenSeq, Flattens
<1>2. CASE Len(q) # 0
  <2> DEFINE G(g) == g = [i \in 1 .. Len(q) |-> IF i = 1 THEN q[i] ELSE g[i - 1] \o q[i]]
             F == CHOOSE g : G(g)
  <2>1. FlattenSeq(q) = F[Len(q)]
    BY <1>2 DEF FlattenSeq
  <2>2. PICK h \in [0 .. Len(q) -> Seq(S)] : Flattens(h, q)
    BY FlatteningExists
  <2> DEFINE g == [i \in 1 .. Len(q) |-> h[i]]
  <2>3. ASSUME NEW i \in 1 .. Len(q)
        PROVE  h[i] = IF i = 1 THEN q[i] ELSE g[i - 1] \o q[i]
    <3>1. h[i] = h[i - 1] \o q[i] /\ h[0] = << >>
      BY <2>2 DEF Flattens
    <3>2. CASE i = 1
      <4>1. << >> \o q[i] = q[i]
        BY <1>0
      <4>2. h[i - 1] = << >>
        BY <3>1, <3>2
      <4> QED
        BY <3>1, <3>2, <4>1, <4>2
    <3>3. CASE i # 1
      <4>1. i - 1 \in 1 .. Len(q)
        BY <3>3, <1>0
      <4>2. g[i - 1] = h[i - 1]
        BY <4>1
      <4> QED
        BY <3>1, <3>3, <4>2
    <3> QED
      BY <3>2, <3>3
  <2>4. G(g)
    BY <2>3
  <2>5. G(F)
    BY <2>4
  <2>6. ASSUME NEW i \in 1 .. Len(q) PROVE F[i] = IF i = 1 THEN q[i] ELSE F[i - 1] \o q[i]
    <3> HIDE DEF F
    <3> QED
      BY <2>5
  <2> HIDE DEF F, G
  <2> DEFINE k == [i \in 0 .. Len(q) |-> IF i = 0 THEN << >> ELSE F[i]]
  <2>7. k[0] = << >> /\ \A i \in 1 .. Len(q) : k[i] = F[i]
    BY <1>0
  <2> HIDE DEF k
  <2>8. ASSUME NEW i \in 1 .. Len(q) PROVE k[i] = k[i - 1] \o q[i]
    <3>1. F[i] = IF i = 1 THEN q[i] ELSE F[i - 1] \o q[i]
      BY <2>6
    <3>2. CASE i = 1
      <4>1. << >> \o q[i] = q[i]
        BY <1>0
      <4>2. k[i - 1] = << >>
        BY <2>7, <3>2
      <4> QED
        BY <2>7, <3>1, <3>2, <4>1, <4>2
    <3>3. CASE i # 1
      <4>1. i - 1 \in 1 .. Len(q)
        BY <3>3, <1>0
      <4>2. k[i - 1] = F[i - 1]
        BY <4>1, <2>7
      <4> QED
        BY <2>7, <3>1, <3>3, <4>2
    <3> QED
      BY <3>2, <3>3
  <2>9. Flattens(k, q)
    BY <2>7, <2>8 DEF Flattens
  <2>10. f[Len(q)] = k[Len(q)]
    BY <1>0, <2>9, FlatteningsAgree
  <2>11. k[Len(q)] = F[Len(q)]
    BY <1>0, <1>2, <2>7
  <2> QED
    BY <2>1, <2>10, <2>11
<1> QED
  BY <1>1, <1>2

\* What is put together from sequences over S is a sequence over S.
LEMMA FlattenType ==
  ASSUME NEW S, NEW q \in Seq(Seq(S))
  PROVE  FlattenSeq(q) \in Seq(S)
<1>1. PICK f \in [0 .. Len(q) -> Seq(S)] : Flattens(f, q)
  BY FlatteningExists
<1> QED
  BY <1>1, FlattenIs

\* Nothing put together is nothing.
LEMMA FlattenEmpty == FlattenSeq(<< >>) = << >>
  BY DEF FlattenSeq

\* One more sequence comes after what is there.
LEMMA FlattenAppend ==
  ASSUME NEW S, NEW q \in Seq(Seq(S)), NEW e \in Seq(S)
  PROVE  FlattenSeq(Append(q, e)) = FlattenSeq(q) \o e
<1> DEFINE r == Append(q, e)
<1>1. r \in Seq(Seq(S)) /\ Len(r) = Len(q) + 1 /\ r[Len(q) + 1] = e
      /\ \A i \in 1 .. Len(q) : r[i] = q[i]
  OBVIOUS
<1> HIDE DEF r
<1>2. PICK f \in [0 .. Len(q) -> Seq(S)] : Flattens(f, q)
  BY FlatteningExists
<1>3. PICK g \in [0 .. Len(r) -> Seq(S)] : Flattens(g, r)
  BY <1>1, FlatteningExists
<1>0. Len(q) \in Nat /\ Len(r) \in Nat
  BY <1>1
<1>4. f[Len(q)] = g[Len(q)]
  <2>1. Len(q) <= Len(q) /\ Len(q) <= Len(r) /\ \A i \in 1 .. Len(q) : q[i] = r[i]
    BY <1>0, <1>1
  <2> QED
    BY <2>1, <1>0, <1>2, <1>3, FlatteningsAgree
<1>5. g[Len(r)] = g[Len(q)] \o e
  <2>1. Len(r) \in 1 .. Len(r) /\ Len(r) - 1 = Len(q)
    BY <1>0, <1>1
  <2>2. g[Len(r)] = g[Len(r) - 1] \o r[Len(r)]
    BY <2>1, <1>3 DEF Flattens
  <2> QED
    BY <2>1, <2>2, <1>1
<1>6. FlattenSeq(r) = g[Len(r)] /\ FlattenSeq(q) = f[Len(q)]
  BY <1>1, <1>2, <1>3, FlattenIs
<1> QED
  BY <1>4, <1>5, <1>6 DEF r

\* Putting together two sequences of sequences, one after the other.
LEMMA FlattenConcat ==
  ASSUME NEW S, NEW p \in Seq(Seq(S)), NEW q \in Seq(Seq(S))
  PROVE  FlattenSeq(p \o q) = FlattenSeq(p) \o FlattenSeq(q)
<1> DEFINE T == {n \in Nat : \A r \in Seq(Seq(S)) :
                   Len(r) = n => FlattenSeq(p \o r) = FlattenSeq(p) \o FlattenSeq(r)}
<1>0. FlattenSeq(p) \in Seq(S)
  BY FlattenType
<1>1. 0 \in T
  <2> SUFFICES ASSUME NEW r \in Seq(Seq(S)), Len(r) = 0
               PROVE  FlattenSeq(p \o r) = FlattenSeq(p) \o FlattenSeq(r)
    OBVIOUS
  <2>1. r = << >> /\ p \o r = p
    OBVIOUS
  <2> QED
    BY <1>0, <2>1, FlattenEmpty
<1>2. ASSUME NEW n \in T PROVE n + 1 \in T
  <2> SUFFICES ASSUME NEW r \in Seq(Seq(S)), Len(r) = n + 1
               PROVE  FlattenSeq(p \o r) = FlattenSeq(p) \o FlattenSeq(r)
    OBVIOUS
  <2> DEFINE s == SubSeq(r, 1, n)
             e == r[n + 1]
  <2>1. s \in Seq(Seq(S)) /\ Len(s) = n /\ e \in Seq(S) /\ r = Append(s, e)
    OBVIOUS
  <2> HIDE DEF s, e
  <2>2. p \o r = Append(p \o s, e)
    BY <2>1
  <2>3. FlattenSeq(p \o s) = FlattenSeq(p) \o FlattenSeq(s)
    BY <2>1
  <2>4. FlattenSeq(r) = FlattenSeq(s) \o e
    BY <2>1, FlattenAppend
  <2>5. p \o s \in Seq(Seq(S))
    BY <2>1
  <2>6. FlattenSeq(p \o r) = FlattenSeq(p \o s) \o e
    BY <2>1, <2>2, <2>5, FlattenAppend
  <2>7. FlattenSeq(s) \in Seq(S)
    BY <2>1, FlattenType
  <2> HIDE DEF T
  <2>8. \A a, b, c \in Seq(S) : (a \o b) \o c = a \o (b \o c)
    BY SMTT(20)
  <2>9. (FlattenSeq(p) \o FlattenSeq(s)) \o e = FlattenSeq(p) \o (FlattenSeq(s) \o e)
    BY <2>1, <2>7, <2>8, <1>0
  <2> QED
    BY <2>3, <2>4, <2>6, <2>9
<1>3. T = Nat
  <2> HIDE DEF T
  <2>1. T \in SUBSET Nat
    BY DEF T
  <2> QED
    BY <2>1, <1>1, <1>2, SetInduction
<1>4. Len(q) \in T
  <2> HIDE DEF T
  <2> QED
    BY <1>3
<1> QED
  BY <1>4

-----------------------------------------------------------------------------
(* Sequences.                                                              *)

LEMMA AppendFacts ==
  ASSUME NEW S, NEW s \in Seq(S), NEW e \in S
  PROVE  /\ Append(s, e) \in Seq(S) /\ Len(Append(s, e)) = Len(s) + 1
         /\ \A i \in 1 .. Len(s) : Append(s, e)[i] = s[i]
         /\ Append(s, e)[Len(s) + 1] = e
  OBVIOUS

\* Length and entries of a concatenation.
LEMMA ConcatFacts ==
  ASSUME NEW S, NEW s \in Seq(S), NEW t \in Seq(S)
  PROVE  /\ s \o t \in Seq(S) /\ Len(s \o t) = Len(s) + Len(t)
         /\ \A i \in 1 .. Len(s) + Len(t) :
              (s \o t)[i] = IF i <= Len(s) THEN s[i] ELSE t[i - Len(s)]
  OBVIOUS

\* An entry at the end of the second part is one at the end of the whole.
LEMMA ConcatAppend ==
  ASSUME NEW S, NEW s \in Seq(S), NEW t \in Seq(S), NEW e \in S
  PROVE  s \o Append(t, e) = Append(s \o t, e)
<1> DEFINE r == Append(t, e)
           a == s \o r
           b == Append(s \o t, e)
<1>1. /\ r \in Seq(S) /\ Len(r) = Len(t) + 1
      /\ \A i \in 1 .. Len(t) : r[i] = t[i]
      /\ r[Len(t) + 1] = e
  BY AppendFacts
<1>5. Len(s) \in Nat /\ Len(t) \in Nat
  OBVIOUS
<1> HIDE DEF r
<1>2. /\ s \o t \in Seq(S) /\ Len(s \o t) = Len(s) + Len(t)
      /\ \A i \in 1 .. Len(s) + Len(t) :
           (s \o t)[i] = IF i <= Len(s) THEN s[i] ELSE t[i - Len(s)]
  BY ConcatFacts
<1>3. /\ a \in Seq(S) /\ Len(a) = Len(s) + Len(t) + 1
      /\ \A i \in 1 .. Len(s) + Len(t) + 1 :
           a[i] = IF i <= Len(s) THEN s[i] ELSE r[i - Len(s)]
  <2>1. /\ a \in Seq(S) /\ Len(a) = Len(s) + Len(r)
        /\ \A i \in 1 .. Len(s) + Len(r) :
             a[i] = IF i <= Len(s) THEN s[i] ELSE r[i - Len(s)]
    BY <1>1, ConcatFacts
  <2> HIDE DEF a
  <2>2. Len(s) + Len(r) = Len(s) + Len(t) + 1
    BY <1>1, <1>5
  <2> QED
    BY <2>1, <2>2
<1>4. /\ b \in Seq(S) /\ Len(b) = Len(s) + Len(t) + 1
      /\ (\A i \in 1 .. Len(s) + Len(t) : b[i] = (s \o t)[i])
      /\ b[Len(s) + Len(t) + 1] = e
  BY <1>2, AppendFacts
<1> HIDE DEF a, b
<1>6. ASSUME NEW i \in 1 .. Len(s) + Len(t) + 1 PROVE a[i] = b[i]
  <2>1. CASE i = Len(s) + Len(t) + 1
    <3>1. ~ (i <= Len(s)) /\ i - Len(s) = Len(t) + 1
      BY <1>5, <2>1
    <3> QED
      BY <1>1, <1>3, <1>4, <2>1, <3>1
  <2>2. CASE i # Len(s) + Len(t) + 1
    <3>1. i \in 1 .. Len(s) + Len(t) /\ (~ (i <= Len(s)) => i - Len(s) \in 1 .. Len(t))
      BY <1>5, <2>2
    <3> QED
      BY <1>1, <1>2, <1>3, <1>4, <3>1
  <2> QED
    BY <2>1, <2>2
<1>7. a = b
  BY <1>3, <1>4, <1>6, SeqEqual
<1> QED
  BY <1>7 DEF a, b, r

\* The same of sequences of lines.
LEMMA ConcatAppendLine ==
  ASSUME NEW S, NEW s \in Seq(Seq(S)), NEW t \in Seq(Seq(S)), NEW l \in Seq(S)
  PROVE  s \o Append(t, l) = Append(s \o t, l)
<1>1. PICK U : U = Seq(S)
  OBVIOUS
<1>2. \A a, b \in Seq(U), e \in U : a \o Append(b, e) = Append(a \o b, e)
  BY ConcatAppend
<1> QED
  BY <1>1, <1>2

\* The empty sequence is neutral.
LEMMA ConcatEmpty ==
  ASSUME NEW S, NEW s \in Seq(S) PROVE s \o << >> = s /\ << >> \o s = s
  OBVIOUS

\* Concatenation is associative.  The name keeps the provers from using it as a rewriting.
Associates(s, t, u) == (s \o t) \o u = s \o (t \o u)

LEMMA ConcatAssociates ==
  ASSUME NEW S, NEW s \in Seq(S), NEW t \in Seq(S), NEW u \in Seq(S)
  PROVE  Associates(s, t, u)
<1> DEFINE T == {v \in Seq(S) : (s \o t) \o v = s \o (t \o v)}
<1>1. << >> \in T
  BY ConcatFacts, ConcatEmpty
<1>2. ASSUME NEW v \in T, NEW e \in S PROVE Append(v, e) \in T
  <2>1. v \in Seq(S) /\ Append(v, e) \in Seq(S) /\ s \o t \in Seq(S) /\ t \o v \in Seq(S)
    BY AppendFacts, ConcatFacts
  <2>2. PICK st \in Seq(S), tv \in Seq(S) : st = s \o t /\ tv = t \o v
    BY <2>1
  <2>3. st \o Append(v, e) = Append(st \o v, e)
    BY <2>1, ConcatAppend
  <2>4. t \o Append(v, e) = Append(tv, e)
    BY <2>1, <2>2, ConcatAppend
  <2>5. s \o Append(tv, e) = Append(s \o tv, e)
    BY <2>1, ConcatAppend
  <2>6. st \o v = s \o tv
    BY <2>2
  <2> QED
    BY <2>1, <2>2, <2>3, <2>4, <2>5, <2>6
<1>3. T = Seq(S)
  <2> HIDE DEF T
  <2>1. T \in SUBSET Seq(S)
    BY DEF T
  <2> QED
    BY <1>1, <1>2, <2>1, SeqInduction
<1> QED
  BY <1>3 DEF Associates

LEMMA ConcatAssoc ==
  ASSUME NEW S, NEW s \in Seq(S), NEW t \in Seq(S), NEW u \in Seq(S)
  PROVE  (s \o t) \o u = s \o (t \o u)
<1>1. Associates(s, t, u)
  BY ConcatAssociates
<1> QED
  BY <1>1 DEF Associates

\* The elements of a sequence before the last one.
LEMMA FrontFacts ==
  ASSUME NEW S, NEW s \in Seq(S), s # << >>
  PROVE  /\ Front(s) \in Seq(S) /\ Len(Front(s)) = Len(s) - 1
         /\ \A i \in 1 .. Len(s) - 1 : Front(s)[i] = s[i]
         /\ Last(s) \in S /\ s = Append(Front(s), Last(s))
<1>1. Len(s) \in Nat \ {0}
  OBVIOUS
<1>2. PICK n \in Nat : Len(s) = n + 1
  <2>1. Len(s) - 1 \in Nat /\ Len(s) = (Len(s) - 1) + 1
    BY <1>1
  <2> QED
    BY <2>1
<1>3. /\ SubSeq(s, 1, n) \in Seq(S) /\ Len(SubSeq(s, 1, n)) = n
      /\ \A i \in 1 .. n : SubSeq(s, 1, n)[i] = s[i]
  <2>1. \A i \in 1 .. n : s[i] \in S
    BY <1>2
  <2> QED
    BY <1>2, <2>1, SubSeqProperties
<1>4. Front(s) = SubSeq(s, 1, n) /\ Last(s) = s[n + 1] /\ s[n + 1] \in S
  BY <1>2 DEF Front, Last
<1>5. s = Append(SubSeq(s, 1, n), s[n + 1])
  BY <1>2, <1>3, SplitLast
<1> QED
  BY <1>2, <1>3, <1>4, <1>5

\* What is left without the last entry, and the last entry, of a sequence that was
\* appended to.
LEMMA AppendFront ==
  ASSUME NEW S, NEW s \in Seq(S), NEW e \in S
  PROVE  Append(s, e) # << >> /\ Front(Append(s, e)) = s /\ Last(Append(s, e)) = e
<1> DEFINE a == Append(s, e)
<1>1. a \in Seq(S) /\ Len(a) = Len(s) + 1 /\ (\A i \in 1 .. Len(s) : a[i] = s[i]) /\ a[Len(s) + 1] = e
      /\ Len(s) \in Nat
  BY AppendFacts
<1> HIDE DEF a
<1>2. a # << >>
  BY <1>1
<1>3. /\ Front(a) \in Seq(S) /\ Len(Front(a)) = Len(s)
      /\ \A i \in 1 .. Len(s) : Front(a)[i] = a[i]
  BY <1>1, <1>2, FrontFacts
<1>4. Front(a) = s
  BY <1>1, <1>3, SeqEqual
<1> QED
  BY <1>1, <1>2, <1>4 DEF a, Last

\* A stretch of a sequence.
LEMMA SubSeqFacts ==
  ASSUME NEW S, NEW s \in Seq(S), NEW i \in 1 .. Len(s) + 1, NEW j \in i - 1 .. Len(s)
  PROVE  /\ SubSeq(s, i, j) \in Seq(S) /\ Len(SubSeq(s, i, j)) = j - i + 1
         /\ \A k \in 1 .. j - i + 1 : SubSeq(s, i, j)[k] = s[i + k - 1]
  OBVIOUS

\* A stretch of a stretch.
LEMMA StretchOfStretch ==
  ASSUME NEW S, NEW s \in Seq(S), NEW i \in 1 .. Len(s) + 1, NEW j \in i - 1 .. Len(s),
         NEW a \in 1 .. j - i + 2, NEW b \in a - 1 .. j - i + 1
  PROVE  SubSeq(SubSeq(s, i, j), a, b) = SubSeq(s, i + a - 1, i + b - 1)
  OBVIOUS

\* The beginnings of a sequence.
LEMMA PrefixFacts ==
  ASSUME NEW S, NEW s \in Seq(S), NEW n \in Nat, n <= Len(s)
  PROVE  /\ SubSeq(s, 1, n) \in Seq(S) /\ Len(SubSeq(s, 1, n)) = n
         /\ \A i \in 1 .. n : SubSeq(s, 1, n)[i] = s[i]
<1>1. \A i \in 1 .. n : s[i] \in S
  OBVIOUS
<1> QED
  BY <1>1, SubSeqProperties

\* The prefix of full length is the sequence.
LEMMA PrefixAll ==
  ASSUME NEW S, NEW s \in Seq(S) PROVE SubSeq(s, 1, Len(s)) = s
<1>1. PICK n \in Nat : n = Len(s)
  OBVIOUS
<1>2. /\ SubSeq(s, 1, n) \in Seq(S) /\ Len(SubSeq(s, 1, n)) = n
      /\ \A i \in 1 .. n : SubSeq(s, 1, n)[i] = s[i]
  BY <1>1, PrefixFacts
<1>3. SubSeq(s, 1, n) = s
  BY <1>1, <1>2, SeqEqual
<1> QED
  BY <1>1, <1>3

\* The prefixes of a sequence are those of any continuation.
LEMMA PrefixAppend ==
  ASSUME NEW S, NEW s \in Seq(S), NEW e \in S, NEW n \in Nat, n <= Len(s)
  PROVE  SubSeq(Append(s, e), 1, n) = SubSeq(s, 1, n)
<1>1. PICK r \in Seq(S) : r = Append(s, e)
  BY AppendFacts
<1>2. Len(r) = Len(s) + 1 /\ Len(s) \in Nat /\ \A i \in 1 .. Len(s) : r[i] = s[i]
  BY <1>1, AppendFacts
<1>3. n <= Len(r)
  BY <1>2
<1>4. /\ SubSeq(r, 1, n) \in Seq(S) /\ Len(SubSeq(r, 1, n)) = n
      /\ \A i \in 1 .. n : SubSeq(r, 1, n)[i] = r[i]
  BY <1>3, PrefixFacts
<1>5. /\ SubSeq(s, 1, n) \in Seq(S) /\ Len(SubSeq(s, 1, n)) = n
      /\ \A i \in 1 .. n : SubSeq(s, 1, n)[i] = s[i]
  BY PrefixFacts
<1>6. PICK a \in Seq(S), b \in Seq(S) : a = SubSeq(r, 1, n) /\ b = SubSeq(s, 1, n)
  BY <1>4, <1>5
<1>7. Len(a) = Len(b) /\ \A i \in 1 .. Len(a) : a[i] = b[i]
  BY <1>2, <1>4, <1>5, <1>6
<1>8. a = b
  BY <1>7, SeqEqual
<1> QED
  BY <1>1, <1>6, <1>8

\* A beginning, and what comes after it, make a longer one.
LEMMA PrefixGrows ==
  ASSUME NEW S, NEW s \in Seq(S), NEW n \in Nat, NEW k \in Nat, n + k <= Len(s)
  PROVE  /\ SubSeq(s, n + 1, n + k) \in Seq(S) /\ Len(SubSeq(s, n + 1, n + k)) = k
         /\ SubSeq(s, 1, n + k) = SubSeq(s, 1, n) \o SubSeq(s, n + 1, n + k)
<1>0. Len(s) \in Nat /\ n <= Len(s) /\ n + k \in Nat
  OBVIOUS
<1>1. /\ SubSeq(s, 1, n) \in Seq(S) /\ Len(SubSeq(s, 1, n)) = n
      /\ \A i \in 1 .. n : SubSeq(s, 1, n)[i] = s[i]
  BY <1>0, PrefixFacts
<1>2. /\ SubSeq(s, n + 1, n + k) \in Seq(S) /\ Len(SubSeq(s, n + 1, n + k)) = k
      /\ \A i \in 1 .. k : SubSeq(s, n + 1, n + k)[i] = s[n + i]
  <2>1. \A i \in n + 1 .. n + k : s[i] \in S
    BY <1>0
  <2>2. n + 1 \in Int /\ n + k \in Int
    OBVIOUS
  <2>3. SubSeq(s, n + 1, n + k) = [i \in 1 .. (n + k) - (n + 1) + 1 |-> s[i + (n + 1) - 1]]
    BY <2>2
  <2>4. (n + k) - (n + 1) + 1 = k /\ \A i \in 1 .. k : i + (n + 1) - 1 = n + i /\ n + i \in n + 1 .. n + k
    OBVIOUS
  <2>5. SubSeq(s, n + 1, n + k) = [i \in 1 .. k |-> s[n + i]]
    BY <2>3, <2>4
  <2> QED
    BY <2>1, <2>4, <2>5
<1>3. /\ SubSeq(s, 1, n + k) \in Seq(S) /\ Len(SubSeq(s, 1, n + k)) = n + k
      /\ \A i \in 1 .. n + k : SubSeq(s, 1, n + k)[i] = s[i]
  BY <1>0, PrefixFacts
<1>4. PICK a \in Seq(S), b \in Seq(S), c \in Seq(S) :
        a = SubSeq(s, 1, n) /\ b = SubSeq(s, n + 1, n + k) /\ c = SubSeq(s, 1, n + k)
  BY <1>1, <1>2, <1>3
<1>5. /\ a \o b \in Seq(S) /\ Len(a \o b) = Len(a) + Len(b)
      /\ \A i \in 1 .. Len(a) + Len(b) :
           (a \o b)[i] = IF i <= Len(a) THEN a[i] ELSE b[i - Len(a)]
  BY ConcatFacts
<1>6. PICK d \in Seq(S) : d = a \o b
  BY <1>5
<1>7. /\ Len(d) = n + k
      /\ \A i \in 1 .. n + k : d[i] = IF i <= n THEN a[i] ELSE b[i - n]
  BY <1>1, <1>2, <1>4, <1>5, <1>6
<1>8. ASSUME NEW i \in 1 .. n + k PROVE d[i] = c[i]
  <2>1. CASE i <= n
    <3>1. i \in 1 .. n
      BY <2>1
    <3> QED
      BY <1>1, <1>3, <1>4, <1>7, <2>1, <3>1
  <2>2. CASE ~ (i <= n)
    <3>1. i - n \in 1 .. k /\ n + (i - n) = i
      BY <2>2
    <3> QED
      BY <1>2, <1>3, <1>4, <1>7, <2>2, <3>1
  <2> QED
    BY <2>1, <2>2
<1>9. d = c
  BY <1>3, <1>4, <1>7, <1>8, SeqEqual
<1> QED
  BY <1>2, <1>4, <1>6, <1>9

\* A sequence is a beginning of one that goes on.
LEMMA PrefixOfConcat ==
  ASSUME NEW S, NEW s \in Seq(S), NEW t \in Seq(S)
  PROVE  IsPrefix(s, s \o t) /\ IsPrefix(s \o t, s \o t)
<1>1. PICK u \in Seq(S) : u = s \o t
  BY ConcatFacts
<1>2. /\ Len(u) = Len(s) + Len(t) /\ Len(s) \in Nat /\ Len(t) \in Nat
      /\ \A i \in 1 .. Len(s) : u[i] = s[i]
  <2>1. /\ Len(u) = Len(s) + Len(t)
        /\ \A i \in 1 .. Len(s) + Len(t) : u[i] = IF i <= Len(s) THEN s[i] ELSE t[i - Len(s)]
    BY <1>1, ConcatFacts
  <2> QED
    BY <2>1
<1>3. PICK n \in Nat : n = Len(s)
  BY <1>2
<1>4. n <= Len(u) /\ n <= Len(s)
  BY <1>2, <1>3
<1>5. /\ SubSeq(u, 1, n) \in Seq(S) /\ Len(SubSeq(u, 1, n)) = n
      /\ \A i \in 1 .. n : SubSeq(u, 1, n)[i] = u[i]
  BY <1>4, PrefixFacts
<1>6. PICK v \in Seq(S) : v = SubSeq(u, 1, n)
  BY <1>5
<1>7. v = s
  BY <1>2, <1>3, <1>5, <1>6, SeqEqual
<1>8. SubSeq(s, 1, n) = s
  BY <1>3, PrefixAll
<1>9. IsPrefix(s, u)
  BY <1>3, <1>4, <1>6, <1>7, <1>8 DEF IsPrefix
<1>10. IsPrefix(u, u)
  BY <1>2 DEF IsPrefix
<1> QED
  BY <1>1, <1>9, <1>10

=============================================================================

--------------------------- MODULE SequenceLemmas ---------------------------
(***************************************************************************)
(* Facts about numbers, sets and sequences that the proofs of several      *)
(* modules rest on: induction, folds, sequences joined, sets put in order. *)
(***************************************************************************)
EXTENDS Integers, SequencesExt, FiniteSetsExt, FunctionTheorems,
        SequenceTheorems, FiniteSetTheorems, WellFoundedInduction, TLAPS

-----------------------------------------------------------------------------
(***************************************************************************)
(* Numbers and functions of them.                                          *)
(***************************************************************************)
(* Induction, on a set of numbers.                                         *)
LEMMA StepByStep ==
  ASSUME NEW n \in Nat, NEW B, 0 \in B, \A i \in 1 .. n : i - 1 \in B => i \in B
  PROVE  0 .. n \subseteq B
<1> DEFINE Bad == {i \in 0 .. n : i \notin B}
<1>1. SUFFICES ASSUME Bad # {} PROVE FALSE
  OBVIOUS
<1>2. PICK m \in Bad : \A y \in Bad : ~(<<y, m>> \in OpToRel(<, Nat))
  <2>1. Bad \subseteq Nat
    OBVIOUS
  <2> HIDE DEF Bad
  <2> QED BY <1>1, <2>1, NatLessThanWellFounded, WFMin
<1>3. \A y \in Bad : ~(y < m)
  <2>1. Bad \subseteq Nat
    OBVIOUS
  <2> HIDE DEF Bad
  <2> QED BY <1>2, <2>1 DEF OpToRel
<1>4. m \in 1 .. n /\ m \notin B
  <2>1. m \in 0 .. n /\ m \notin B
    OBVIOUS
  <2> QED BY <2>1
<1>5. m - 1 \in 0 .. n /\ m - 1 < m
  BY <1>4
<1>6. m - 1 \in B
  BY <1>3, <1>5
<1> QED BY <1>4, <1>6

(* Two functions that go on in the same way from the same value.           *)
LEMMA SameByStep ==
  ASSUME NEW n \in Nat, NEW P, NEW Q, P[0] = Q[0],
         \A i \in 1 .. n : P[i - 1] = Q[i - 1] => P[i] = Q[i]
  PROVE  P[n] = Q[n]
<1> DEFINE B == {i \in 0 .. n : P[i] = Q[i]}
<1>1. 0 \in B /\ \A i \in 1 .. n : i - 1 \in B => i \in B
  OBVIOUS
<1>2. 0 .. n \subseteq B
  <2> HIDE DEF B
  <2> QED BY <1>1, StepByStep
<1> QED BY <1>2

(* A function on 1 .. n is a sequence of length n.                         *)
LEMMA FunctionLen ==
  ASSUME NEW n \in Nat, NEW S, NEW F \in [1 .. n -> S]
  PROVE  F \in Seq(S) /\ Len(F) = n
<1>1. F \in Seq(S)
  BY SeqDef
<1>2. DOMAIN F = 1 .. n
  OBVIOUS
<1>3. Len(F) \in Nat /\ DOMAIN F = 1 .. Len(F)
  BY <1>1, LenProperties
<1>4. Len(F) = n
  BY <1>2, <1>3
<1> QED BY <1>1, <1>4

LEMMA SeqOfIsSeq ==
  ASSUME NEW S, NEW n \in Nat, NEW f \in SeqOf(S, n)
  PROVE  f \in Seq(S) /\ Len(f) \in 0 .. n
<1>1. PICK m \in 0 .. n : f \in [1 .. m -> S]
  BY DEF SeqOf
<1> QED BY <1>1, FunctionLen

(* The greatest of the numbers up to m, when m is one of them.             *)
LEMMA MaxIs ==
  ASSUME NEW s, s \subseteq Int, NEW m \in s, \A y \in s : m >= y
  PROVE  Max(s) = m
<1>1. \A x \in s : (\A y \in s : x >= y) => x = m
  OBVIOUS
<1>2. Max(s) \in s /\ \A y \in s : Max(s) >= y
  BY DEF Max
<1> QED BY <1>1, <1>2

(* The least.                                                              *)
LEMMA MinIs ==
  ASSUME NEW s, s \subseteq Int, NEW m \in s, \A y \in s : m <= y
  PROVE  Min(s) = m
<1>1. \E x \in s : \A y \in s : x <= y
  OBVIOUS
<1>2. Min(s) \in s /\ \A y \in s : Min(s) <= y
  BY <1>1 DEF Min
<1>3. PICK x \in Int, y \in Int : x = Min(s) /\ y = m
  BY <1>2
<1>4. x <= y /\ y <= x
  BY <1>2, <1>3
<1> QED BY <1>3, <1>4

(* A set of natural numbers has a least one.                               *)
LEMMA LeastOf ==
  ASSUME NEW s, s \subseteq Nat, s # {}
  PROVE  \E m \in s : \A y \in s : m <= y
<1>1. PICK m \in s : \A y \in s : ~(<<y, m>> \in OpToRel(<, Nat))
  BY NatLessThanWellFounded, WFMin
<1>2. \A y \in s : ~(y < m)
  BY <1>1 DEF OpToRel
<1> QED BY <1>2

(* A set of the first natural numbers has a greatest one.                  *)
LEMMA MaxOfSome ==
  ASSUME NEW n \in Nat, NEW s \in SUBSET (1 .. n), s # {}
  PROVE  Max(s) \in s /\ Max(s) \in 1 .. n /\ \A y \in s : y <= Max(s)
<1> DEFINE T == {k \in Nat : \A y \in s : y <= k}
<1>1. T \subseteq Nat /\ n \in T
  OBVIOUS
<1>2. PICK m \in T : \A k \in T : m <= k
  <2> HIDE DEF T
  <2> QED BY <1>1, LeastOf
<1>3. m \in Nat /\ \A y \in s : y <= m
  OBVIOUS
<1>4. m \in s
  <2>1. SUFFICES ASSUME m \notin s PROVE FALSE
    OBVIOUS
  <2>2. \A y \in s : y <= m - 1 /\ 1 <= y
    BY <1>3, <2>1
  <2>4. m - 1 \in Nat
    <3>1. PICK y : y \in s
      OBVIOUS
    <3>3. y \in Nat /\ y <= m - 1 /\ 1 <= y
      BY <2>2, <3>1
    <3> QED BY <1>3, <3>3
  <2>3. m - 1 \in T
    BY <2>2, <2>4
  <2> QED BY <1>2, <1>3, <2>3
<1>5. Max(s) = m
  <2>1. s \subseteq Int /\ \A y \in s : m >= y
    BY <1>3
  <2> QED BY <1>4, <2>1, MaxIs
<1> QED BY <1>3, <1>4, <1>5

-----------------------------------------------------------------------------
(***************************************************************************)
(* Sequences joined.                                                       *)
(***************************************************************************)
FlattenSteps(g, parts) ==
  [i \in 1 .. Len(parts) |-> IF i = 1 THEN parts[i] ELSE g[i - 1] \o parts[i]]

(* The recursive function of FlattenSeq is defined.                        *)
LEMMA FlattenExists ==
  ASSUME NEW S, NEW parts \in Seq(Seq(S)), parts # <<>>
  PROVE  \E g : g = FlattenSteps(g, parts)
<1> DEFINE n == Len(parts)
           Upto(g, m) == [i \in 1 .. m |-> IF i = 1 THEN parts[i] ELSE g[i - 1] \o parts[i]]
           B == {m \in 0 .. n : \E g : g = Upto(g, m)}
<1>1. n \in Nat
  OBVIOUS
<1>2. 0 \in B
  <2> DEFINE g == [i \in 1 .. 0 |-> 0]
  <2>1. g = Upto(g, 0)
    OBVIOUS
  <2>2. \E f : f = Upto(f, 0)
    BY <2>1
  <2> HIDE DEF Upto
  <2> QED BY <1>1, <2>2
<1>3. ASSUME NEW m \in 1 .. n, m - 1 \in B PROVE m \in B
  <2>1. PICK g : g = Upto(g, m - 1)
    BY <1>3
  <2> DEFINE h == [i \in 1 .. m |-> IF i = 1 THEN parts[i] ELSE g[i - 1] \o parts[i]]
  <2>2. \A i \in 1 .. (m - 1) : g[i] = IF i = 1 THEN parts[i] ELSE g[i - 1] \o parts[i]
    BY <2>1
  <2>3. \A i \in 1 .. (m - 1) : h[i] = g[i]
    BY <2>2
  <2>4. ASSUME NEW i \in 1 .. m PROVE h[i] = IF i = 1 THEN parts[i] ELSE h[i - 1] \o parts[i]
    <3>1. CASE i = 1
      BY <3>1
    <3>2. CASE i # 1
      <4>1. i - 1 \in 1 .. (m - 1)
        BY <3>2
      <4>2. h[i - 1] = g[i - 1]
        BY <2>3, <4>1
      <4>3. h[i] = g[i - 1] \o parts[i]
        BY <3>2
      <4> HIDE DEF h
      <4> QED BY <3>2, <4>2, <4>3
    <3> QED BY <3>1, <3>2
  <2>5. h = [i \in 1 .. m |-> h[i]]
    OBVIOUS
  <2>6. h = Upto(h, m)
    <3> HIDE DEF h
    <3> QED BY <2>4, <2>5
  <2>7. \E f : f = Upto(f, m)
    BY <2>6
  <2> HIDE DEF Upto
  <2> QED BY <2>7
<1>4. n \in B
  <2>1. 0 .. n \subseteq B
    <3> HIDE DEF B, n
    <3> QED BY <1>1, <1>2, <1>3, StepByStep
  <2> HIDE DEF B
  <2> QED BY <1>1, <2>1
<1>5. \E g : g = Upto(g, n)
  <2> HIDE DEF Upto
  <2> QED BY <1>4
<1> QED BY <1>5 DEF FlattenSteps

(* The parts are joined from the first to the last.                        *)
LEMMA FlattenPrefixes ==
  ASSUME NEW S, NEW parts \in Seq(Seq(S))
  PROVE  \E P \in [0 .. Len(parts) -> Seq(S)] :
           /\ P[0] = <<>>
           /\ \A i \in 1 .. Len(parts) : P[i] = P[i - 1] \o parts[i]
           /\ FlattenSeq(parts) = P[Len(parts)]
<1> DEFINE n == Len(parts)
<1>1. n \in Nat /\ \A i \in 1 .. n : parts[i] \in Seq(S)
  OBVIOUS
<1>2. CASE parts = <<>>
  <2> DEFINE P == [i \in 0 .. n |-> <<>>]
  <2>1. n = 0 /\ FlattenSeq(parts) = <<>>
    BY <1>2 DEF FlattenSeq
  <2>2. P \in [0 .. n -> Seq(S)] /\ P[0] = <<>> /\ P[n] = <<>>
    <3>1. <<>> \in Seq(S)
      OBVIOUS
    <3> QED BY <1>1, <3>1
  <2> HIDE DEF P
  <2> QED BY <2>1, <2>2
<1>3. CASE parts # <<>>
  <2> DEFINE g == CHOOSE h : h = FlattenSteps(h, parts)
             P == [i \in 0 .. n |-> IF i = 0 THEN <<>> ELSE g[i]]
  <2>0. n # 0
    BY <1>3, EmptySeq
  <2>1. FlattenSeq(parts) = g[n]
    BY <2>0 DEF FlattenSeq, FlattenSteps
  <2>2. g = FlattenSteps(g, parts)
    BY <1>3, FlattenExists
  <2> HIDE DEF g
  <2>3. \A i \in 1 .. n : g[i] = IF i = 1 THEN parts[i] ELSE g[i - 1] \o parts[i]
    BY <2>2 DEF FlattenSteps
  <2>4. P[0] = <<>>
    BY <1>1
  <2>5. \A i \in 1 .. n : P[i] = P[i - 1] \o parts[i]
    <3> TAKE i \in 1 .. n
    <3>1. CASE i = 1
      <4>1. P[i] = parts[i] /\ P[i - 1] = <<>>
        BY <1>1, <2>3, <3>1
      <4>2. <<>> \o parts[i] = parts[i]
        BY <1>1, ConcatEmptySeq
      <4> HIDE DEF P
      <4> QED BY <4>1, <4>2
    <3>2. CASE i # 1
      <4>1. P[i] = g[i] /\ P[i - 1] = g[i - 1]
        BY <1>1, <3>2
      <4> HIDE DEF P
      <4> QED BY <2>3, <3>2, <4>1
    <3> QED BY <3>1, <3>2
  <2>6. P \in [0 .. n -> Seq(S)]
    <3> DEFINE B == {i \in 0 .. n : P[i] \in Seq(S)}
    <3>1. 0 \in B
      <4>1. <<>> \in Seq(S) /\ 0 \in 0 .. n
        BY <1>1
      <4> HIDE DEF P
      <4> QED BY <2>4, <4>1
    <3>2. \A i \in 1 .. n : i - 1 \in B => i \in B
      <4> SUFFICES ASSUME NEW i \in 1 .. n, P[i - 1] \in Seq(S) PROVE i \in 0 .. n /\ P[i] \in Seq(S)
        OBVIOUS
      <4> HIDE DEF P, n
      <4>1. P[i] = P[i - 1] \o parts[i] /\ parts[i] \in Seq(S)
        BY <1>1, <2>5
      <4>2. P[i - 1] \o parts[i] \in Seq(S)
        BY <4>1
      <4> QED BY <1>1, <4>1, <4>2
    <3>3. 0 .. n \subseteq B
      <4> HIDE DEF B, n
      <4> QED BY <1>1, <3>1, <3>2, StepByStep
    <3>4. \A i \in 0 .. n : P[i] \in Seq(S)
      <4> HIDE DEF P
      <4> QED BY <3>3
    <3> QED BY <3>4
  <2>7. P[n] = g[n]
    BY <1>1, <2>0
  <2> HIDE DEF P
  <2> QED BY <2>1, <2>4, <2>5, <2>6, <2>7
<1> QED BY <1>2, <1>3

(* Two sequences of parts that differ in the last part alone.              *)
LEMMA FlattenFront ==
  ASSUME NEW S, NEW a \in Seq(Seq(S)), NEW b \in Seq(Seq(S)), NEW k \in Nat,
         k <= Len(a), Len(b) = k + 1, \A i \in 1 .. k : b[i] = a[i]
  PROVE  /\ FlattenSeq(a) \in Seq(S) /\ FlattenSeq(b) \in Seq(S)
         /\ Len(a) = k => FlattenSeq(b) = FlattenSeq(a) \o b[k + 1]
         /\ \A x \in Seq(S) : Len(a) = k + 1 /\ b[k + 1] = a[k + 1] \o x =>
              FlattenSeq(b) = FlattenSeq(a) \o x
<1>1. PICK P \in [0 .. Len(a) -> Seq(S)] :
           /\ P[0] = <<>>
           /\ \A i \in 1 .. Len(a) : P[i] = P[i - 1] \o a[i]
           /\ FlattenSeq(a) = P[Len(a)]
  BY FlattenPrefixes
<1>2. PICK Q \in [0 .. Len(b) -> Seq(S)] :
           /\ Q[0] = <<>>
           /\ \A i \in 1 .. Len(b) : Q[i] = Q[i - 1] \o b[i]
           /\ FlattenSeq(b) = Q[Len(b)]
  BY FlattenPrefixes
<1>3. Len(a) \in Nat /\ Len(b) \in Nat
  OBVIOUS
<1>4. ASSUME NEW i \in 1 .. k, P[i - 1] = Q[i - 1] PROVE P[i] = Q[i]
  <2>1. i \in 1 .. Len(a) /\ i \in 1 .. Len(b)
    BY <1>3
  <2>2. P[i] = P[i - 1] \o a[i] /\ Q[i] = Q[i - 1] \o b[i] /\ b[i] = a[i]
    BY <1>1, <1>2, <2>1
  <2> QED BY <1>4, <2>2
<1>5. P[k] = Q[k]
  <2>1. P[0] = Q[0]
    BY <1>1, <1>2
  <2> QED BY <1>4, <2>1, SameByStep
<1>6. Q[k + 1] = Q[k] \o b[k + 1]
  <2>1. k + 1 \in 1 .. Len(b) /\ (k + 1) - 1 = k
    BY <1>3
  <2> QED BY <1>2, <2>1
<1>7. P[Len(a)] \in Seq(S) /\ Q[Len(b)] \in Seq(S) /\ P[k] \in Seq(S)
  <2>1. Len(a) \in 0 .. Len(a) /\ Len(b) \in 0 .. Len(b) /\ k \in 0 .. Len(a)
    BY <1>3
  <2> QED BY <2>1
<1>8. Len(a) = k => FlattenSeq(b) = FlattenSeq(a) \o b[k + 1]
  BY <1>1, <1>2, <1>5, <1>6
<1>9. ASSUME NEW x \in Seq(S), Len(a) = k + 1, b[k + 1] = a[k + 1] \o x
      PROVE  FlattenSeq(b) = FlattenSeq(a) \o x
  <2>1. k + 1 \in 1 .. Len(a) /\ (k + 1) - 1 = k
    BY <1>3, <1>9
  <2>2. P[k + 1] = P[k] \o a[k + 1] /\ a[k + 1] \in Seq(S)
    <3>1. a[k + 1] \in Seq(S)
      BY <2>1
    <3> QED BY <1>1, <2>1, <3>1
  <2>3. P[k] \o (a[k + 1] \o x) = (P[k] \o a[k + 1]) \o x
    <3>1. P[k] \in Seq(S)
      BY <1>7
    <3>2. PICK u, v : u = P[k] /\ v = a[k + 1]
      OBVIOUS
    <3>3. u \in Seq(S) /\ v \in Seq(S) /\ x \in Seq(S)
      BY <2>2, <3>1, <3>2
    <3>4. (u \o v) \o x = u \o (v \o x)
      BY ONLY <3>3, ConcatAssociative, SMTT(30)
    <3> QED BY <3>2, <3>4
  <2>4. Q[k + 1] = P[k + 1] \o x
    BY <1>5, <1>6, <1>9, <2>2, <2>3
  <2> QED BY <1>1, <1>2, <1>9, <2>4
<1> QED BY <1>1, <1>2, <1>7, <1>8, <1>9

(* Where the parts of a sequence begin.                                    *)
PartStarts(parts, L) ==
  /\ L \in [0 .. Len(parts) -> Nat] /\ L[0] = 0
  /\ \A i \in 1 .. Len(parts) : L[i] = L[i - 1] + Len(parts[i])

(* Each part is found at its place.                                        *)
LEMMA FlattenSegments ==
  ASSUME NEW S, NEW parts \in Seq(Seq(S))
  PROVE  \E L : /\ PartStarts(parts, L) /\ Len(FlattenSeq(parts)) = L[Len(parts)]
                /\ \A i \in 1 .. Len(parts) :
                     /\ L[i] <= L[Len(parts)]
                     /\ \A j \in 1 .. Len(parts[i]) :
                          FlattenSeq(parts)[L[i - 1] + j] = parts[i][j]
<1>1. PICK n \in Nat : n = Len(parts)
  OBVIOUS
<1>2. PICK P \in [0 .. n -> Seq(S)] :
           /\ P[0] = <<>>
           /\ \A i \in 1 .. n : P[i] = P[i - 1] \o parts[i]
           /\ FlattenSeq(parts) = P[n]
  BY <1>1, FlattenPrefixes
<1>3. \A i \in 1 .. n : parts[i] \in Seq(S)
  BY <1>1, ElementOfSeq
<1> DEFINE L == [i \in 0 .. n |-> Len(P[i])]
<1>4. ASSUME NEW i \in 1 .. n
      PROVE  /\ L[i - 1] \in Nat /\ L[i] = L[i - 1] + Len(parts[i]) /\ Len(parts[i]) \in Nat
             /\ \A x \in 1 .. L[i - 1] : P[i][x] = P[i - 1][x]
             /\ \A j \in 1 .. Len(parts[i]) : P[i][L[i - 1] + j] = parts[i][j]
  <2>1. i - 1 \in 0 .. n /\ i \in 0 .. n
    OBVIOUS
  <2>2. PICK a \in Seq(S), b \in Seq(S) : a = P[i - 1] /\ b = parts[i]
    BY <1>3, <2>1
  <2>3. P[i] = a \o b /\ L[i - 1] = Len(a) /\ L[i] = Len(a \o b)
    BY <1>2, <2>1, <2>2
  <2>4. /\ Len(a \o b) = Len(a) + Len(b) /\ Len(a) \in Nat /\ Len(b) \in Nat
        /\ \A x \in 1 .. Len(a) + Len(b) : (a \o b)[x] = IF x <= Len(a) THEN a[x] ELSE b[x - Len(a)]
    BY ConcatProperties, LenProperties
  <2> HIDE DEF L
  <2>5. PICK c : c = a \o b
    OBVIOUS
  <2>10. PICK p \in Nat, q \in Nat : p = Len(a) /\ q = Len(b)
    OBVIOUS
  <2>6. \A x \in 1 .. p + q : c[x] = IF x <= p THEN a[x] ELSE b[x - p]
    BY <2>4, <2>5, <2>10
  <2>7. \A x \in 1 .. p : c[x] = a[x]
    BY <2>6
  <2>8. ASSUME NEW j \in 1 .. q PROVE c[p + j] = b[j]
    <3>1. p + j \in 1 .. p + q /\ ~(p + j <= p) /\ (p + j) - p = j
      OBVIOUS
    <3> QED BY <2>6, <3>1
  <2> QED BY <2>2, <2>3, <2>4, <2>5, <2>7, <2>8, <2>10
<1>5. L \in [0 .. n -> Nat] /\ L[0] = 0 /\ L[n] = Len(FlattenSeq(parts))
  <2>1. \A i \in 0 .. n : Len(P[i]) \in Nat
    BY LenProperties
  <2>2. 0 \in 0 .. n /\ n \in 0 .. n
    OBVIOUS
  <2>3. Len(<<>>) = 0
    OBVIOUS
  <2> QED BY <1>2, <2>1, <2>2, <2>3
<1> HIDE DEF L
<1>6. ASSUME NEW i \in 1 .. n
      PROVE  L[i] <= L[n] /\ \A x \in 1 .. L[i] : P[n][x] = P[i][x]
  <2> DEFINE B == {d \in 0 .. n - i :
                     L[i] <= L[i + d] /\ \A x \in 1 .. L[i] : P[i + d][x] = P[i][x]}
  <2>1. n - i \in Nat
    OBVIOUS
  <2>2. 0 \in B
    <3>1. i + 0 = i /\ L[i] \in Nat
      BY <1>5
    <3> QED BY <2>1, <3>1
  <2>3. ASSUME NEW d \in 1 .. n - i, d - 1 \in B PROVE d \in B
    <3>1. PICK k \in 1 .. n : k = i + d /\ k - 1 = i + (d - 1)
      OBVIOUS
    <3>2. L[i] <= L[k - 1] /\ \A x \in 1 .. L[i] : P[k - 1][x] = P[i][x]
      BY <2>3, <3>1
    <3>3. /\ L[k - 1] \in Nat /\ L[k] = L[k - 1] + Len(parts[k]) /\ Len(parts[k]) \in Nat
          /\ \A x \in 1 .. L[k - 1] : P[k][x] = P[k - 1][x]
      BY <1>4
    <3>4. L[i] \in Nat
      BY <1>5
    <3>5. PICK a \in Nat, b \in Nat, e \in Nat : a = L[i] /\ b = L[k - 1] /\ e = Len(parts[k])
      BY <3>3, <3>4
    <3>6. a <= b
      BY <3>2, <3>5
    <3>7. L[i] <= L[k]
      <4>1. L[k] = b + e
        BY <3>3, <3>5
      <4>2. a <= b + e
        BY <3>6
      <4> QED BY ONLY <3>5, <4>1, <4>2
    <3>8. ASSUME NEW x \in 1 .. a PROVE P[k][x] = P[i][x]
      <4>1. x \in 1 .. b
        BY <3>6
      <4> QED BY ONLY <3>2, <3>3, <3>5, <4>1, x \in 1 .. a
    <3> QED BY <3>1, <3>5, <3>7, <3>8
  <2>4. 0 .. n - i \subseteq B
    <3> HIDE DEF B
    <3> QED BY <2>1, <2>2, <2>3, StepByStep
  <2>5. n - i \in 0 .. n - i /\ i + (n - i) = n
    BY <2>1
  <2> QED BY <2>4, <2>5
<1>7. ASSUME NEW i \in 1 .. n, NEW j \in 1 .. Len(parts[i])
      PROVE  P[n][L[i - 1] + j] = parts[i][j]
  <2>1. /\ L[i - 1] \in Nat /\ L[i] = L[i - 1] + Len(parts[i]) /\ Len(parts[i]) \in Nat
        /\ P[i][L[i - 1] + j] = parts[i][j]
    BY <1>4
  <2>2. L[i - 1] + j \in 1 .. L[i]
    <3>1. PICK a \in Nat, b \in Nat : a = L[i - 1] /\ b = Len(parts[i]) /\ L[i] = a + b
      BY <2>1
    <3>2. j \in 1 .. b
      BY <3>1
    <3>3. a + j \in 1 .. (a + b)
      BY ONLY a \in Nat, b \in Nat, <3>2
    <3> QED BY <3>1, <3>3
  <2> QED BY <1>6, <2>1, <2>2
<1>8. PartStarts(parts, L)
  BY <1>1, <1>4, <1>5 DEF PartStarts
<1>9. \A i \in 1 .. n : /\ L[i] <= L[n]
                        /\ \A j \in 1 .. Len(parts[i]) :
                             FlattenSeq(parts)[L[i - 1] + j] = parts[i][j]
  BY <1>2, <1>6, <1>7
<1>10. L[n] = Len(FlattenSeq(parts))
  BY <1>5
<1> QED BY ONLY <1>1, <1>8, <1>9, <1>10

LEMMA StartsAgree ==
  ASSUME NEW a, NEW b, NEW L, NEW M, PartStarts(a, L), PartStarts(b, M),
         NEW k \in Nat, k <= Len(a), k <= Len(b), Len(a) \in Nat, Len(b) \in Nat,
         \A i \in 1 .. k : Len(a[i]) = Len(b[i])
  PROVE  L[k] = M[k]
<1>1. ASSUME NEW i \in 1 .. k, L[i - 1] = M[i - 1] PROVE L[i] = M[i]
  <2>1. i \in 1 .. Len(a) /\ i \in 1 .. Len(b)
    OBVIOUS
  <2>2. L[i] = L[i - 1] + Len(a[i]) /\ M[i] = M[i - 1] + Len(b[i])
    BY <2>1 DEF PartStarts
  <2> QED BY <1>1, <2>2
<1>2. L[0] = M[0]
  BY DEF PartStarts
<1> QED BY <1>1, <1>2, SameByStep

(* A sequence whose cells are known, part by part.                         *)
LEMMA StartsMonotone ==
  ASSUME NEW parts, NEW L, PartStarts(parts, L), Len(parts) \in Nat,
         \A i \in 1 .. Len(parts) : Len(parts[i]) \in Nat,
         NEW i \in 1 .. Len(parts)
  PROVE  L[i - 1] \in Nat /\ L[i] \in Nat /\ L[i] = L[i - 1] + Len(parts[i])
BY DEF PartStarts

-----------------------------------------------------------------------------
(***************************************************************************)
(* Sets put in order: the place of an element is the number of those       *)
(* before it.  An order is a set of pairs.                                 *)
(***************************************************************************)
StrictlyOrders(R, S) ==
  /\ \A x \in S : <<x, x>> \notin R
  /\ \A x \in S, y \in S, z \in S : <<x, y>> \in R /\ <<y, z>> \in R => <<x, z>> \in R
  /\ \A x \in S, y \in S : x = y \/ <<x, y>> \in R \/ <<y, x>> \in R

Places(S, R) == [x \in S |-> Cardinality({y \in S : <<y, x>> \in R})]

PlacedBy(S, rank) == [i \in 1 .. Cardinality(S) |-> CHOOSE x \in S : rank[x] = i - 1]

ByPlace(S, R) == PlacedBy(S, Places(S, R))

(* The elements of a finite set, each once, from the first to the last.    *)
LEMMA OrderedByPlace ==
  ASSUME NEW S, IsFiniteSet(S), NEW R, StrictlyOrders(R, S)
  PROVE  /\ Cardinality(S) \in Nat
         /\ ByPlace(S, R) \in [1 .. Cardinality(S) -> S]
         /\ \A i \in 1 .. Cardinality(S), j \in 1 .. Cardinality(S) :
              i < j => <<ByPlace(S, R)[i], ByPlace(S, R)[j]>> \in R
         /\ \A x \in S : \E i \in 1 .. Cardinality(S) : ByPlace(S, R)[i] = x
<1> DEFINE P == Places(S, R)
           Below(x) == {y \in S : <<y, x>> \in R}
<1>1. PICK n \in Nat : n = Cardinality(S)
  BY FS_CardinalityType
<1>2. ASSUME NEW x \in S PROVE P[x] = Cardinality(Below(x)) /\ P[x] \in 0 .. n - 1
  <2>1. Below(x) \in SUBSET (S \ {x})
    BY DEF StrictlyOrders
  <2>2. IsFiniteSet(S \ {x}) /\ Cardinality(S \ {x}) = n - 1
    BY <1>1, FS_RemoveElement
  <2>3. Cardinality(Below(x)) \in Nat /\ Cardinality(Below(x)) <= n - 1
    <3> HIDE DEF Below
    <3> QED BY <2>1, <2>2, FS_Subset, FS_CardinalityType
  <2>4. P[x] = Cardinality(Below(x))
    BY DEF Places
  <2> HIDE DEF P, Below
  <2>5. PICK k \in Nat : k = P[x] /\ k <= n - 1
    BY <2>3, <2>4
  <2> QED BY <2>4, <2>5
<1>3. ASSUME NEW x \in S, NEW y \in S, <<x, y>> \in R PROVE P[x] < P[y]
  <2> DEFINE T == Below(y)
             U == Below(x)
  <2>1. U \subseteq T \ {x} /\ x \in T /\ T \subseteq S
    BY <1>3 DEF StrictlyOrders
  <2>2. P[x] = Cardinality(U) /\ P[y] = Cardinality(T)
    BY <1>2
  <2> HIDE DEF P, T, U
  <2>3. IsFiniteSet(T)
    BY <2>1, FS_Subset
  <2>4. /\ Cardinality(T) \in Nat /\ IsFiniteSet(T \ {x})
        /\ Cardinality(T \ {x}) = Cardinality(T) - 1
    BY <2>1, <2>3, FS_RemoveElement, FS_CardinalityType
  <2>5. IsFiniteSet(U) /\ Cardinality(U) \in Nat /\ Cardinality(U) <= Cardinality(T \ {x})
    <3>1. U \in SUBSET (T \ {x})
      BY <2>1
    <3> QED BY <2>4, <3>1, FS_Subset, FS_CardinalityType
  <2> QED BY <2>2, <2>4, <2>5
<1>4. ASSUME NEW x \in S, NEW y \in S, P[x] = P[y] PROVE x = y
  <2>1. P[x] \in Nat /\ P[y] \in Nat
    <3>1. P[x] \in 0 .. n - 1 /\ P[y] \in 0 .. n - 1
      BY <1>2
    <3> HIDE DEF P
    <3> QED BY <3>1
  <2> HIDE DEF P
  <2>2. ~(P[x] < P[y]) /\ ~(P[y] < P[x])
    BY <1>4, <2>1
  <2> QED BY <1>3, <2>2 DEF StrictlyOrders
<1>5. \A k \in 0 .. n - 1 : \E x \in S : P[x] = k
  <2> DEFINE T == 0 .. n - 1
  <2>1. P \in [S -> T]
    <3>1. \A x \in S : P[x] \in T
      BY <1>2
    <3>2. P = [x \in S |-> P[x]]
      BY DEF Places
    <3> HIDE DEF P, T
    <3> QED BY <3>1, <3>2
  <2>2. IsFiniteSet(T) /\ Cardinality(T) = n
    <3>1. 0 \in Int /\ n - 1 \in Int
      OBVIOUS
    <3>2. IsFiniteSet(0 .. n - 1)
          /\ Cardinality(0 .. n - 1) = IF 0 > n - 1 THEN 0 ELSE (n - 1) - 0 + 1
      BY <3>1, FS_Interval
    <3> QED BY <3>2
  <2> HIDE DEF P, T
  <2>3. P \in Injection(S, T)
    BY <1>4, <2>1, Fun_IsInj
  <2>4. P \in Surjection(S, T)
    BY <1>1, <2>2, <2>3, FS_Injection
  <2>5. \A t \in T : \E x \in S : P[x] = t
    BY <2>4, Fun_SurjectionProperties
  <2> QED BY <2>5 DEF T
<1>6. ASSUME NEW i \in 1 .. n PROVE ByPlace(S, R)[i] \in S /\ P[ByPlace(S, R)[i]] = i - 1
  <2>1. i - 1 \in 0 .. n - 1
    OBVIOUS
  <2>2. \E x \in S : P[x] = i - 1
    BY <1>5, <2>1
  <2>3. ByPlace(S, R)[i] = CHOOSE x \in S : P[x] = i - 1
    BY <1>1 DEF ByPlace, PlacedBy
  <2> HIDE DEF P
  <2> QED BY <2>2, <2>3
<1>7. ByPlace(S, R) \in [1 .. n -> S]
  <2>1. ByPlace(S, R) = [i \in 1 .. n |-> ByPlace(S, R)[i]]
    BY <1>1 DEF ByPlace, PlacedBy
  <2> QED BY <1>6, <2>1
<1>8. ASSUME NEW i \in 1 .. n, NEW j \in 1 .. n, i < j
      PROVE  <<ByPlace(S, R)[i], ByPlace(S, R)[j]>> \in R
  <2>1. PICK x \in S, y \in S : /\ x = ByPlace(S, R)[i] /\ y = ByPlace(S, R)[j]
                                /\ P[x] = i - 1 /\ P[y] = j - 1
    BY <1>6
  <2> HIDE DEF P
  <2>2. ~(P[y] < P[x]) /\ x # y
    BY <1>8, <2>1
  <2> QED BY <1>3, <2>1, <2>2 DEF StrictlyOrders
<1>9. ASSUME NEW x \in S PROVE \E i \in 1 .. n : ByPlace(S, R)[i] = x
  <2>1. P[x] \in 0 .. n - 1
    BY <1>2
  <2> HIDE DEF P
  <2>2. PICK i \in 1 .. n : i = P[x] + 1
    BY <2>1
  <2>3. P[ByPlace(S, R)[i]] = P[x] /\ ByPlace(S, R)[i] \in S
    <3>1. i - 1 = P[x]
      BY <2>1, <2>2
    <3> QED BY <1>6, <3>1
  <2> QED BY <1>4, <2>3
<1> QED BY <1>1, <1>7, <1>8, <1>9

-----------------------------------------------------------------------------
(***************************************************************************)
(* Folds from the left: the greatest index is taken away from the set of   *)
(* indices, again and again.                                               *)
(***************************************************************************)
FoldSteps(h, n, base, next) ==
  [s \in SUBSET (1 .. n) |-> IF s = {} THEN base ELSE next[h[s \ {Max(s)}], Max(s)]]

FoldsInto(n, V, base, next) == base \in V /\ next \in [V \X (1 .. n) -> V]

HasFold(n, V, base, next) ==
  \E h \in [SUBSET (1 .. n) -> V] : h = FoldSteps(h, n, base, next)

(* The fold is defined, and its values are of one set.                     *)
LEMMA FoldExists ==
  ASSUME NEW n \in Nat, NEW V, NEW base, NEW next, FoldsInto(n, V, base, next)
  PROVE  HasFold(n, V, base, next)
<1>0. base \in V /\ next \in [V \X (1 .. n) -> V]
  BY DEF FoldsInto
<1> DEFINE Step(h, m) ==
             [s \in SUBSET (1 .. m) |-> IF s = {} THEN base ELSE next[h[s \ {Max(s)}], Max(s)]]
           B == {m \in 0 .. n : \E h \in [SUBSET (1 .. m) -> V] : h = Step(h, m)}
<1>1. 0 \in B
  <2> DEFINE g == [s \in SUBSET (1 .. 0) |-> base]
  <2>1. \A s \in SUBSET (1 .. 0) : s = {}
    OBVIOUS
  <2>2. g = Step(g, 0) /\ g \in [SUBSET (1 .. 0) -> V]
    BY <1>0, <2>1
  <2>3. \E h \in [SUBSET (1 .. 0) -> V] : h = Step(h, 0)
    BY <2>2
  <2>4. 0 \in 0 .. n
    OBVIOUS
  <2> HIDE DEF Step
  <2> QED BY <2>3, <2>4
<1>2. ASSUME NEW m \in 1 .. n, m - 1 \in B PROVE m \in B
  <2> DEFINE D == 1 .. (m - 1)
             E == 1 .. m
  <2>1. PICK g \in [SUBSET D -> V] : g = Step(g, m - 1)
    BY <1>2
  <2>2. \A s \in SUBSET D : g[s] = IF s = {} THEN base ELSE next[g[s \ {Max(s)}], Max(s)]
    BY <2>1
  <2> DEFINE h == [s \in SUBSET E |-> IF m \in s THEN next[g[s \ {m}], m] ELSE g[s]]
             k == [s \in SUBSET E |-> IF s = {} THEN base ELSE next[h[s \ {Max(s)}], Max(s)]]
  <2>3. ASSUME NEW s \in SUBSET E PROVE h[s] = k[s] /\ h[s] \in V
    <3>1. CASE m \in s
      <4>1. Max(s) = m
        <5>1. s \subseteq Int /\ \A y \in s : m >= y
          OBVIOUS
        <5> QED BY <3>1, <5>1, MaxIs
      <4>2. s \ {m} \in SUBSET E /\ m \notin s \ {m} /\ s \ {m} \in SUBSET D
        OBVIOUS
      <4>3. h[s \ {m}] = g[s \ {m}] /\ h[s] = next[g[s \ {m}], m]
        BY <3>1, <4>2
      <4>4. k[s] = next[h[s \ {Max(s)}], Max(s)]
        BY <3>1
      <4>5. <<g[s \ {m}], m>> \in V \X (1 .. n)
        BY <4>2
      <4> HIDE DEF h, k
      <4> QED BY <1>0, <4>1, <4>3, <4>4, <4>5
    <3>2. CASE m \notin s
      <4>1. s \in SUBSET D
        BY <3>2
      <4>2. s \ {Max(s)} \in SUBSET E /\ m \notin s \ {Max(s)}
        BY <3>2
      <4>3. h[s] = g[s] /\ h[s \ {Max(s)}] = g[s \ {Max(s)}]
        BY <3>2, <4>2
      <4>4. k[s] = IF s = {} THEN base ELSE next[h[s \ {Max(s)}], Max(s)]
        OBVIOUS
      <4> HIDE DEF h, k
      <4> QED BY <2>2, <4>1, <4>3, <4>4
    <3> QED BY <3>1, <3>2
  <2>4. h = k /\ h \in [SUBSET E -> V]
    <3>1. h = [s \in SUBSET E |-> h[s]] /\ k = [s \in SUBSET E |-> k[s]]
      OBVIOUS
    <3> HIDE DEF h, k
    <3> QED BY <2>3, <3>1
  <2>5. h = Step(h, m)
    BY <2>4
  <2>6. \E f \in [SUBSET (1 .. m) -> V] : f = Step(f, m)
    <3> HIDE DEF h, Step
    <3> QED BY <2>4, <2>5
  <2> HIDE DEF Step
  <2> QED BY <2>6
<1>3. 0 .. n \subseteq B
  <2> HIDE DEF B
  <2> QED BY <1>1, <1>2, StepByStep
<1>4. n \in B
  <2> HIDE DEF B
  <2> QED BY <1>3
<1>5. \E h \in [SUBSET (1 .. n) -> V] : h = Step(h, n)
  <2> HIDE DEF Step
  <2> QED BY <1>4
<1> QED BY <1>5 DEF FoldSteps, HasFold

(* The same, where what is put together from the first m indices is of the *)
(* m-th of a growing series of sets.                                       *)
FoldsUpTo(n, V, base, next) ==
  /\ base \in V[0]
  /\ \A m \in 1 .. n : /\ V[m - 1] \subseteq V[m]
                       /\ \A v \in V[m - 1] : next[v, m] \in V[m]

HasFoldUpTo(n, V, base, next) ==
  \E h : /\ h = FoldSteps(h, n, base, next)
         /\ \A m \in 0 .. n, s \in SUBSET (1 .. n) : s \subseteq 1 .. m => h[s] \in V[m]

LEMMA FoldExistsUpTo ==
  ASSUME NEW n \in Nat, NEW V, NEW base, NEW next, FoldsUpTo(n, V, base, next)
  PROVE  HasFoldUpTo(n, V, base, next)
<1> DEFINE Step(h, m) ==
             [s \in SUBSET (1 .. m) |-> IF s = {} THEN base ELSE next[h[s \ {Max(s)}], Max(s)]]
           Typed(h, m) == \A k \in 0 .. m, s \in SUBSET (1 .. m) : s \subseteq 1 .. k => h[s] \in V[k]
           B == {m \in 0 .. n : \E h : h = Step(h, m) /\ Typed(h, m)}
<1>0. /\ base \in V[0]
      /\ \A m \in 1 .. n : V[m - 1] \subseteq V[m] /\ \A v \in V[m - 1] : next[v, m] \in V[m]
  BY DEF FoldsUpTo
<1>1. 0 \in B
  <2> DEFINE g == [s \in SUBSET (1 .. 0) |-> base]
  <2>1. \A s \in SUBSET (1 .. 0) : s = {}
    OBVIOUS
  <2>2. g = Step(g, 0)
    BY <2>1
  <2>3. Typed(g, 0)
    <3>1. \A k \in 0 .. 0 : k = 0
      OBVIOUS
    <3> QED BY <1>0, <3>1
  <2>4. 0 \in 0 .. n
    OBVIOUS
  <2> HIDE DEF Step, Typed, g
  <2> QED BY <2>2, <2>3, <2>4
<1>2. ASSUME NEW m \in 1 .. n, m - 1 \in B PROVE m \in B
  <2> DEFINE D == 1 .. (m - 1)
             E == 1 .. m
  <2>1. PICK g : g = Step(g, m - 1) /\ Typed(g, m - 1)
    BY <1>2
  <2>2. \A s \in SUBSET D : g[s] = IF s = {} THEN base ELSE next[g[s \ {Max(s)}], Max(s)]
    BY <2>1
  <2>12. \A k \in 0 .. m - 1, s \in SUBSET D : s \subseteq 1 .. k => g[s] \in V[k]
    BY <2>1
  <2> DEFINE h == [s \in SUBSET E |-> IF m \in s THEN next[g[s \ {m}], m] ELSE g[s]]
             k == [s \in SUBSET E |-> IF s = {} THEN base ELSE next[h[s \ {Max(s)}], Max(s)]]
  <2>3. ASSUME NEW s \in SUBSET E PROVE h[s] = k[s]
    <3>1. CASE m \in s
      <4>1. Max(s) = m
        <5>1. s \subseteq Int /\ \A y \in s : m >= y
          OBVIOUS
        <5> QED BY <3>1, <5>1, MaxIs
      <4>2. s \ {m} \in SUBSET E /\ m \notin s \ {m}
        OBVIOUS
      <4>3. h[s \ {m}] = g[s \ {m}] /\ h[s] = next[g[s \ {m}], m]
        BY <3>1, <4>2
      <4>4. k[s] = next[h[s \ {Max(s)}], Max(s)]
        BY <3>1
      <4> HIDE DEF h, k
      <4> QED BY <4>1, <4>3, <4>4
    <3>2. CASE m \notin s
      <4>1. s \in SUBSET D
        BY <3>2
      <4>2. s \ {Max(s)} \in SUBSET E /\ m \notin s \ {Max(s)}
        BY <3>2
      <4>3. h[s] = g[s] /\ h[s \ {Max(s)}] = g[s \ {Max(s)}]
        BY <3>2, <4>2
      <4>4. k[s] = IF s = {} THEN base ELSE next[h[s \ {Max(s)}], Max(s)]
        OBVIOUS
      <4> HIDE DEF h, k
      <4> QED BY <2>2, <4>1, <4>3, <4>4
    <3> QED BY <3>1, <3>2
  <2>4. h = k
    <3>1. h = [s \in SUBSET E |-> h[s]] /\ k = [s \in SUBSET E |-> k[s]]
      OBVIOUS
    <3> HIDE DEF h, k
    <3> QED BY <2>3, <3>1
  <2>5. h = Step(h, m)
    BY <2>4
  <2>6. ASSUME NEW j \in 0 .. m, NEW s \in SUBSET E, s \subseteq 1 .. j PROVE h[s] \in V[j]
    <3>1. CASE m \in s
      <4>1. j = m /\ s \ {m} \in SUBSET D /\ s \ {m} \subseteq 1 .. (m - 1) /\ m - 1 \in 0 .. m - 1
        BY <2>6, <3>1
      <4>2. g[s \ {m}] \in V[m - 1]
        BY <2>12, <4>1
      <4>3. h[s] = next[g[s \ {m}], m]
        BY <3>1
      <4> HIDE DEF h
      <4> QED BY <1>0, <4>1, <4>2, <4>3
    <3>2. CASE m \notin s /\ j # m
      <4>1. j \in 0 .. m - 1 /\ s \in SUBSET D
        BY <2>6, <3>2
      <4>2. h[s] = g[s]
        BY <3>2
      <4> HIDE DEF h
      <4> QED BY <2>6, <2>12, <4>1, <4>2
    <3>3. CASE m \notin s /\ j = m
      <4>1. s \in SUBSET D /\ m - 1 \in 0 .. m - 1
        BY <3>3
      <4>2. h[s] = g[s]
        BY <3>3
      <4>3. g[s] \in V[m - 1]
        BY <2>12, <4>1
      <4> HIDE DEF h
      <4> QED BY <1>0, <3>3, <4>2, <4>3
    <3> QED BY <3>1, <3>2, <3>3
  <2>7. Typed(h, m)
    <3> HIDE DEF h
    <3> QED BY <2>6
  <2>8. \E f : f = Step(f, m) /\ Typed(f, m)
    <3> HIDE DEF h, Step, Typed
    <3> QED BY <2>5, <2>7
  <2> HIDE DEF Step, Typed
  <2> QED BY <2>8
<1>3. 0 .. n \subseteq B
  <2> HIDE DEF B
  <2> QED BY <1>1, <1>2, StepByStep
<1>4. n \in B
  <2> HIDE DEF B
  <2> QED BY <1>3
<1>5. \E h : h = Step(h, n) /\ Typed(h, n)
  <2> HIDE DEF Step, Typed
  <2> QED BY <1>4
<1> QED BY <1>5 DEF FoldSteps, HasFoldUpTo

(* What a fold takes away from the first indices is the last of them.      *)
LEMMA FirstIndices ==
  ASSUME NEW i \in Nat \ {0}
  PROVE  Max(1 .. i) = i /\ (1 .. i) \ {i} = 1 .. (i - 1) /\ 1 .. i # {}
<1> DEFINE s == 1 .. i
<1>1. s \subseteq Int /\ i \in s /\ \A y \in s : i >= y
  OBVIOUS
<1>2. s \ {i} = 1 .. (i - 1)
  OBVIOUS
<1> HIDE DEF s
<1>3. Max(s) = i /\ s # {}
  BY <1>1, MaxIs
<1> QED BY <1>2, <1>3 DEF s

LoopGives(g, n, V, base, next) ==
  \E P \in [0 .. n -> V] :
    /\ P[0] = base
    /\ \A i \in 1 .. n : P[i] = next[P[i - 1], i]
    /\ \A i \in 0 .. n : P[i] = g[1 .. i]

FoldsOn(g, n, V, base, next) ==
  /\ g[{}] = base
  /\ \A i \in 1 .. n : \A v \in V : g[1 .. (i - 1)] = v => g[1 .. i] = next[v, i]

(* Its values on the first indices are those of a loop.                    *)
LEMMA FoldValues ==
  ASSUME NEW n \in Nat, NEW V, NEW base, NEW next, FoldsInto(n, V, base, next),
         NEW g, FoldsOn(g, n, V, base, next)
  PROVE  LoopGives(g, n, V, base, next)
<1>0. base \in V /\ next \in [V \X (1 .. n) -> V]
  BY DEF FoldsInto
<1> DEFINE P == [i \in 0 .. n |-> g[1 .. i]]
           B == {i \in 0 .. n : P[i] \in V}
<1>1. P[0] = base
  <2>1. 1 .. 0 = {} /\ 0 \in 0 .. n
    OBVIOUS
  <2> QED BY <2>1 DEF FoldsOn
<1>2. ASSUME NEW i \in 1 .. n PROVE P[i - 1] \in V => P[i] = next[P[i - 1], i] /\ P[i] \in V
  <2>1. P[i - 1] = g[1 .. (i - 1)] /\ P[i] = g[1 .. i]
    OBVIOUS
  <2> HIDE DEF P
  <2>2. P[i - 1] \in V => P[i] = next[P[i - 1], i]
    BY <2>1 DEF FoldsOn
  <2> QED BY <1>0, <2>2
<1>3. 0 \in B /\ \A i \in 1 .. n : i - 1 \in B => i \in B
  <2>1. 0 \in 0 .. n /\ \A i \in 1 .. n : i \in 0 .. n
    OBVIOUS
  <2> HIDE DEF P
  <2> QED BY <1>0, <1>1, <1>2, <2>1
<1>4. 0 .. n \subseteq B
  <2> HIDE DEF B
  <2> QED BY <1>3, StepByStep
<1>5. \A i \in 0 .. n : P[i] \in V
  <2> HIDE DEF P
  <2> QED BY <1>4
<1>6. P \in [0 .. n -> V] /\ \A i \in 0 .. n : P[i] = g[1 .. i]
  BY <1>5
<1>7. \A i \in 1 .. n : P[i] = next[P[i - 1], i]
  <2>1. \A i \in 1 .. n : i - 1 \in 0 .. n
    OBVIOUS
  <2> HIDE DEF P
  <2> QED BY <1>2, <1>5, <2>1
<1> HIDE DEF P
<1> QED BY <1>1, <1>6, <1>7 DEF LoopGives

(* A part of a sequence.                                                   *)
LEMMA FirstPart ==
  ASSUME NEW S, NEW f \in Seq(S), NEW k \in 0 .. Len(f)
  PROVE  /\ SubSeq(f, 1, k) \in Seq(S) /\ Len(SubSeq(f, 1, k)) = k
         /\ \A i \in 1 .. k : SubSeq(f, 1, k)[i] = f[i]
BY SubSeqProperties

-----------------------------------------------------------------------------
(***************************************************************************)
(* Remainders, and tables that are searched from a slot on.                *)
(***************************************************************************)
LEMMA ModIs ==
  ASSUME NEW m \in Nat \ {0}, NEW q \in Int, NEW r \in 0 .. m - 1
  PROVE  (m * q + r) % m = r
<1>1. PICK x \in Int, s \in 0 .. m - 1 : x = (m * q + r) \div m /\ s = (m * q + r) % m /\ m * q + r = m * x + s
  <2>1. m * q + r \in Int
    OBVIOUS
  <2> QED BY <2>1
<1>2. m * (q - x) = s - r
  BY <1>1
<1>3. CASE q - x >= 1
  <2>1. m * (q - x) >= m
    BY <1>3
  <2> QED BY <1>2, <2>1
<1>4. CASE q - x <= -1
  <2>1. m * (q - x) <= -m
    BY <1>4
  <2> QED BY <1>2, <2>1
<1>5. CASE q - x = 0
  <2> QED BY <1>1, <1>2, <1>5
<1> QED BY <1>1, <1>3, <1>4, <1>5

LEMMA ModSum ==
  ASSUME NEW a \in Int, NEW d \in Int, NEW m \in Nat \ {0}
  PROVE  ((a % m) + d) % m = (a + d) % m
<1>1. PICK q \in Int, r \in 0 .. m - 1 : q = a \div m /\ r = a % m /\ a = m * q + r
  OBVIOUS
<1>2. PICK x \in Int, s \in 0 .. m - 1 : s = (r + d) % m /\ r + d = m * x + s
  OBVIOUS
<1>3. a + d = m * (q + x) + s
  BY <1>1, <1>2
<1>4. (a + d) % m = s
  <2>1. PICK y \in Int : y = q + x
    OBVIOUS
  <2>2. (m * y + s) % m = s
    BY ModIs
  <2> QED BY <1>3, <2>1, <2>2
<1> QED BY <1>1, <1>2, <1>4

(* Going round from a slot one comes to every slot.                        *)
LEMMA ComesRound ==
  ASSUME NEW m \in Nat \ {0}, NEW h \in 0 .. m - 1, NEW t \in 0 .. m - 1
  PROVE  \E d \in 0 .. m - 1 : (h + d) % m = t
<1>1. CASE h <= t
  <2>1. t - h \in 0 .. m - 1 /\ h + (t - h) = m * 0 + t /\ 0 \in Int
    BY <1>1
  <2>2. (m * 0 + t) % m = t
    BY <2>1, ModIs
  <2> QED BY <2>1, <2>2
<1>2. CASE ~(h <= t)
  <2>1. m + t - h \in 0 .. m - 1 /\ h + (m + t - h) = m * 1 + t /\ 1 \in Int
    BY <1>2
  <2>2. (m * 1 + t) % m = t
    BY <2>1, ModIs
  <2> QED BY <2>1, <2>2
<1> QED BY <1>1, <1>2

(* A set of the first numbers that leaves none out.                        *)
LEMMA DownwardClosed ==
  ASSUME NEW n \in Nat, NEW T \in SUBSET (1 .. n),
         \A k \in T, j \in 1 .. n : j < k => j \in T
  PROVE  Cardinality(T) \in 0 .. n /\ T = 1 .. Cardinality(T)
<1>1. CASE T = {}
  <2>1. Cardinality(T) = 0 /\ 1 .. 0 = {}
    BY <1>1, FS_EmptySet
  <2> QED BY <1>1, <2>1
<1>2. CASE T # {}
  <2>1. PICK m \in 1 .. n : m \in T /\ \A y \in T : y <= m
    BY <1>2, MaxOfSome
  <2>2. T = 1 .. m
    <3>1. \A j \in 1 .. m : j \in 1 .. n /\ (j = m \/ j < m)
      BY <2>1
    <3>2. \A y \in T : y \in 1 .. m
      BY <2>1
    <3> QED BY <2>1, <3>1, <3>2
  <2>3. Cardinality(1 .. m) = m
    <3>1. 1 \in Int /\ m \in Int
      OBVIOUS
    <3>2. Cardinality(1 .. m) = IF 1 > m THEN 0 ELSE m - 1 + 1
      BY <3>1, FS_Interval
    <3> QED BY <3>2
  <2> QED BY <2>2, <2>3
<1> QED BY <1>1, <1>2
=============================================================================

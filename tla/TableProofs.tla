----------------------------- MODULE TableProofs -----------------------------
(***************************************************************************)
(* Proofs about the tables of a PDB.  The theorems hold for tables of      *)
(* every size; those that are named for an invariant of MCTables apply     *)
(* them to the inputs of its behaviours.                                   *)
(*                                                                         *)
(* First come the tables of numbers: the buckets of a name table, the      *)
(* bytes of the substreams, the contributions of sections.  Then strings   *)
(* in buffers and hash tables of them: the named streams, and the Names    *)
(* stream with its rebuild.                                                *)
(***************************************************************************)
EXTENDS MCTables, SequenceLemmas

-----------------------------------------------------------------------------
(***************************************************************************)
(* Sets of numbers in order.                                               *)
(***************************************************************************)
NumberOrder(S) == {p \in S \X S : p[1] < p[2]}

LEMMA SortedByPlace ==
  ASSUME NEW S, IsFiniteSet(S), S \subseteq Int
  PROVE  SortedSeq(S, <) = ByPlace(S, NumberOrder(S)) /\ StrictlyOrders(NumberOrder(S), S)
<1> DEFINE r == [x \in S |-> Cardinality({y \in S : y < x})]
<1>1. r = Places(S, NumberOrder(S))
  <2>1. ASSUME NEW x \in S PROVE {y \in S : y < x} = {y \in S : <<y, x>> \in NumberOrder(S)}
    BY DEF NumberOrder
  <2> QED BY <2>1 DEF Places
<1>2. SortedSeq(S, <) = ByPlace(S, NumberOrder(S))
  <2>1. SortedSeq(S, <) = ByRank(S, r)
    BY DEF SortedSeq
  <2> HIDE DEF r
  <2>2. ByRank(S, r) = PlacedBy(S, r)
    BY DEF ByRank, PlacedBy
  <2> QED BY <1>1, <2>1, <2>2 DEF ByPlace
<1>3. StrictlyOrders(NumberOrder(S), S)
  <2>1. ASSUME NEW x \in S, NEW y \in S PROVE <<x, y>> \in NumberOrder(S) <=> x < y
    BY DEF NumberOrder
  <2>2. \A x \in S, y \in S, z \in S : x < y /\ y < z => x < z
    <3>1. \A x \in Int, y \in Int, z \in Int : x < y /\ y < z => x < z
      OBVIOUS
    <3> QED BY <3>1
  <2>3. \A x \in S, y \in S : ~(x < x) /\ (x = y \/ x < y \/ y < x)
    OBVIOUS
  <2> QED BY <2>1, <2>2, <2>3 DEF StrictlyOrders
<1> QED BY <1>2, <1>3

(* The numbers of a set, from the least to the greatest.                   *)
LEMMA SortedNumbers ==
  ASSUME NEW S, IsFiniteSet(S), S \subseteq Int
  PROVE  /\ Cardinality(S) \in Nat
         /\ SortedSeq(S, <) \in [1 .. Cardinality(S) -> S]
         /\ Len(SortedSeq(S, <)) = Cardinality(S)
         /\ \A i \in 1 .. Cardinality(S), j \in 1 .. Cardinality(S) :
              i < j => SortedSeq(S, <)[i] < SortedSeq(S, <)[j]
         /\ \A x \in S : \E i \in 1 .. Cardinality(S) : SortedSeq(S, <)[i] = x
<1>1. PICK f : f = SortedSeq(S, <) /\ f = ByPlace(S, NumberOrder(S))
  BY SortedByPlace
<1>2. PICK n : n = Cardinality(S)
  OBVIOUS
<1>3. /\ n \in Nat /\ f \in [1 .. n -> S]
      /\ \A i \in 1 .. n, j \in 1 .. n : i < j => <<f[i], f[j]>> \in NumberOrder(S)
      /\ \A x \in S : \E i \in 1 .. n : f[i] = x
  <2>1. StrictlyOrders(NumberOrder(S), S)
    BY SortedByPlace
  <2> DEFINE R == NumberOrder(S)
  <2> HIDE DEF R
  <2>2. /\ Cardinality(S) \in Nat
        /\ ByPlace(S, R) \in [1 .. Cardinality(S) -> S]
        /\ \A i \in 1 .. Cardinality(S), j \in 1 .. Cardinality(S) :
             i < j => <<ByPlace(S, R)[i], ByPlace(S, R)[j]>> \in R
        /\ \A x \in S : \E i \in 1 .. Cardinality(S) : ByPlace(S, R)[i] = x
    BY <2>1, OrderedByPlace DEF R
  <2> QED BY <1>1, <1>2, <2>2 DEF R
<1>4. Len(f) = n
  BY <1>3, FunctionLen
<1>5. \A i \in 1 .. n, j \in 1 .. n : i < j => f[i] < f[j]
  BY <1>3 DEF NumberOrder
<1> QED BY <1>1, <1>2, <1>3, <1>4, <1>5

-----------------------------------------------------------------------------
(***************************************************************************)
(* The buckets of a name table.                                            *)
(***************************************************************************)
(* Pointers that pass the checks are in order, not neighbours alone.       *)
LEMMA PointersAscend ==
  ASSUME NEW pointers, NEW used \in Nat, NEW numRecords \in Nat,
         \A i \in 1 .. used : pointers[i] \in Int, PointersValid(pointers, used, numRecords),
         NEW i \in 1 .. used, NEW j \in 1 .. used, i <= j
  PROVE  pointers[i] <= pointers[j]
<1> DEFINE B == {d \in 0 .. j - i : pointers[i] <= pointers[i + d]}
<1>1. j - i \in Nat
  OBVIOUS
<1>2. 0 \in B
  <2>1. i + 0 = i /\ pointers[i] \in Int
    OBVIOUS
  <2> QED BY <1>1, <2>1
<1>3. ASSUME NEW d \in 1 .. j - i, d - 1 \in B PROVE d \in B
  <2>1. PICK k \in 1 .. used : k = i + d /\ k - 1 = i + (d - 1) /\ k # 1 /\ k - 1 \in 1 .. used
    OBVIOUS
  <2>2. pointers[k] >= pointers[k - 1] /\ pointers[k - 1] >= pointers[i]
    BY <1>3, <2>1 DEF PointersValid
  <2>3. pointers[i] <= pointers[k]
    BY <2>1, <2>2
  <2> QED BY <2>1, <2>3
<1>4. 0 .. j - i \subseteq B
  <2> HIDE DEF B
  <2> QED BY <1>1, <1>2, <1>3, StepByStep
<1>5. j - i \in 0 .. j - i /\ i + (j - i) = j
  BY <1>1
<1> QED BY <1>4, <1>5

(* expand_buckets, for every bitmap, pointers and numbers of buckets and   *)
(* of records: what is not refused has its buckets in order and within the *)
(* records, and together they are all of them.                             *)
THEOREM BucketsAlwaysCover ==
  ASSUME NEW bitmap \in SUBSET Nat, IsFiniteSet(bitmap), NEW pointers \in Seq(Int),
         NEW numBuckets \in Nat, NEW numRecords \in Nat
  PROVE  BucketsCoverRecords(bitmap, pointers, numBuckets, numRecords)
<1> DEFINE S == bitmap \cap 0 .. numBuckets - 1
           U == SortedSeq(S, <)
           From(b) == {i \in DOMAIN U : U[i] >= b}
           F == [b \in 0 .. numBuckets |->
                   IF From(b) = {} THEN numRecords
                   ELSE pointers[Min(From(b))] \div HashRecordCalcLen]
<1>1. SUFFICES ASSUME ExpandBuckets(bitmap, pointers, numBuckets, numRecords) # Err
               PROVE  /\ \A b \in 0 .. numBuckets - 1 : F[b] <= F[b + 1]
                      /\ F[numBuckets] = numRecords
                      /\ F[0] = IF S = {} THEN numRecords ELSE 0
  <2>1. ExpandBuckets(bitmap, pointers, numBuckets, numRecords) # Err =>
          ExpandBuckets(bitmap, pointers, numBuckets, numRecords)[1] = F
    BY DEF ExpandBuckets
  <2> HIDE DEF F, S
  <2> QED BY <2>1 DEF BucketsCoverRecords, S
<1>2. /\ ~(Len(pointers) < Min({Cardinality(bitmap), numBuckets}))
      /\ PointersValid(pointers, Len(U), numRecords)
  BY <1>1 DEF ExpandBuckets
<1>3. IsFiniteSet(S) /\ S \subseteq Int
  <2>1. S \in SUBSET bitmap
    OBVIOUS
  <2> QED BY <2>1, FS_Subset
<1>4. PICK n \in Nat : /\ n = Cardinality(S) /\ n = Len(U) /\ U \in [1 .. n -> S]
                       /\ \A x \in S : \E i \in 1 .. n : U[i] = x
  <2> HIDE DEF S
  <2> QED BY <1>3, SortedNumbers
<1>5. n <= Len(pointers)
  <2>1. Cardinality(S) <= Cardinality(bitmap) /\ Cardinality(bitmap) \in Nat
    <3>1. S \in SUBSET bitmap
      OBVIOUS
    <3> HIDE DEF S
    <3> QED BY <3>1, FS_Subset, FS_CardinalityType
  <2>2. Cardinality(S) <= numBuckets
    <3>1. S \in SUBSET (0 .. numBuckets - 1)
      OBVIOUS
    <3>2. IsFiniteSet(0 .. numBuckets - 1) /\ Cardinality(0 .. numBuckets - 1) = numBuckets
      <4>1. 0 \in Int /\ numBuckets - 1 \in Int
        OBVIOUS
      <4>2. /\ IsFiniteSet(0 .. numBuckets - 1)
            /\ Cardinality(0 .. numBuckets - 1)
                 = IF 0 > numBuckets - 1 THEN 0 ELSE (numBuckets - 1) - 0 + 1
        BY <4>1, FS_Interval
      <4> QED BY <4>2
    <3> HIDE DEF S
    <3> QED BY <3>1, <3>2, FS_Subset
  <2>3. PICK c \in Nat : c = Cardinality(bitmap)
    BY <2>1
  <2>4. n <= Min({c, numBuckets})
    <3>1. CASE c <= numBuckets
      <4>1. Min({c, numBuckets}) = c
        <5> DEFINE T == {c, numBuckets}
        <5>1. T \subseteq Int /\ c \in T /\ \A y \in T : c <= y
          BY <3>1
        <5> HIDE DEF T
        <5>2. Min(T) = c
          BY <5>1, MinIs
        <5> QED BY <5>2 DEF T
      <4> QED BY <1>4, <2>1, <2>3, <4>1
    <3>2. CASE ~(c <= numBuckets)
      <4>1. Min({c, numBuckets}) = numBuckets
        <5> DEFINE T == {c, numBuckets}
        <5>1. T \subseteq Int /\ numBuckets \in T /\ \A y \in T : numBuckets <= y
          BY <3>2
        <5> HIDE DEF T
        <5>2. Min(T) = numBuckets
          BY <5>1, MinIs
        <5> QED BY <5>2 DEF T
      <4> QED BY <1>4, <2>2, <4>1
    <3> QED BY <3>1, <3>2
  <2>5. Min({c, numBuckets}) \in Nat
    <3> DEFINE T == {c, numBuckets}
    <3>1. T \subseteq Int /\ \E m \in T : \A y \in T : m <= y
      OBVIOUS
    <3>2. Min(T) \in T
      <4> HIDE DEF T
      <4>1. PICK m \in T : \A y \in T : m <= y
        BY <3>1
      <4>2. Min(T) = m
        BY <3>1, <4>1, MinIs
      <4> QED BY <4>2
    <3> QED BY <3>2
  <2>6. PICK l \in Nat, k \in Nat : l = Len(pointers) /\ k = Min({c, numBuckets})
    BY <2>5
  <2>7. ~(l < k)
    BY <1>2, <2>3, <2>6
  <2> QED BY <2>4, <2>6, <2>7
<1>6. \A i \in 1 .. n : pointers[i] \in Int
  BY <1>5
<1>7. \A i \in 1 .. n, j \in 1 .. n : i <= j => pointers[i] <= pointers[j]
  BY <1>2, <1>4, <1>6, PointersAscend
<1> HIDE DEF S, U
<1>13. \A b \in 0 .. numBuckets : From(b) = {i \in 1 .. n : U[i] >= b}
  BY <1>4
<1> HIDE DEF From
<1>8. ASSUME NEW b \in 0 .. numBuckets, From(b) # {}
      PROVE  /\ Min(From(b)) \in From(b) /\ Min(From(b)) \in 1 .. n
             /\ \A i \in From(b) : Min(From(b)) <= i
  <2> DEFINE T == From(b)
  <2>1. T \subseteq 1 .. n /\ T # {}
    BY <1>8, <1>13
  <2> HIDE DEF T
  <2>2. T \subseteq Nat /\ T \subseteq Int
    BY <2>1
  <2>3. PICK m \in T : \A y \in T : m <= y
    BY <2>1, <2>2, LeastOf
  <2>4. Min(T) = m
    BY <2>2, <2>3, MinIs
  <2>5. Min(T) \in T /\ Min(T) \in 1 .. n /\ \A i \in T : Min(T) <= i
    BY <2>1, <2>3, <2>4
  <2> QED BY <2>5 DEF T
<1>9. HashRecordCalcLen = 12
  BY DEF HashRecordCalcLen
<1>14. \A i \in 1 .. n : U[i] \in S /\ U[i] \in Int /\ U[i] >= 0 /\ U[i] < numBuckets
  <2>1. S \subseteq 0 .. numBuckets - 1 /\ \A i \in 1 .. n : U[i] \in S
    BY <1>4 DEF S
  <2>2. ASSUME NEW i \in 1 .. n PROVE U[i] \in Int /\ U[i] >= 0 /\ U[i] < numBuckets
    <3>1. U[i] \in 0 .. numBuckets - 1
      BY <2>1
    <3> QED BY <3>1
  <2> QED BY <2>1, <2>2
<1>10. ASSUME NEW b \in 0 .. numBuckets - 1 PROVE F[b] <= F[b + 1]
  <2>1. From(b + 1) \subseteq From(b)
    <3>1. b \in 0 .. numBuckets /\ b + 1 \in 0 .. numBuckets
      OBVIOUS
    <3>2. \A i \in 1 .. n : U[i] >= b + 1 => U[i] >= b
      BY <1>14
    <3> QED BY <1>13, <3>1, <3>2
  <2>2. b \in 0 .. numBuckets /\ b + 1 \in 0 .. numBuckets
    OBVIOUS
  <2>3. CASE From(b) = {}
    BY <2>1, <2>2, <2>3
  <2>4. CASE From(b) # {} /\ From(b + 1) = {}
    <3> DEFINE i == Min(From(b))
    <3>1. i \in 1 .. n
      BY <1>8, <2>2, <2>4
    <3>2. F[b] = pointers[i] \div 12 /\ F[b + 1] = numRecords
      BY <1>9, <2>2, <2>4
    <3> HIDE DEF i, F
    <3>3. pointers[i] \div 12 < numRecords /\ pointers[i] \in Int
      BY <1>2, <1>4, <1>6, <1>9, <3>1 DEF PointersValid
    <3> QED BY <3>2, <3>3
  <2>5. CASE From(b) # {} /\ From(b + 1) # {}
    <3> DEFINE i == Min(From(b))
               j == Min(From(b + 1))
    <3>1. i \in 1 .. n /\ j \in 1 .. n /\ i <= j
      BY <1>8, <2>1, <2>2, <2>5
    <3>2. F[b] = pointers[i] \div 12 /\ F[b + 1] = pointers[j] \div 12
      BY <1>9, <2>2, <2>5
    <3> HIDE DEF i, j, F
    <3>3. PICK x \in Int, y \in Int : x = pointers[i] /\ y = pointers[j] /\ x <= y
      BY <1>6, <1>7, <3>1
    <3>4. x \div 12 <= y \div 12
      BY <3>3
    <3> QED BY <3>2, <3>3, <3>4
  <2> QED BY <2>3, <2>4, <2>5
<1>11. F[numBuckets] = numRecords
  <2>1. From(numBuckets) = {}
    <3>1. \A i \in 1 .. n : ~(U[i] >= numBuckets)
      BY <1>14
    <3> QED BY <1>13, <3>1
  <2> QED BY <2>1
<1>12. F[0] = IF S = {} THEN numRecords ELSE 0
  <2>1. CASE S = {}
    <3>1. From(0) = {}
      <4>1. \A i \in 1 .. n : FALSE
        BY <1>4, <2>1
      <4> QED BY <1>13, <4>1
    <3> QED BY <2>1, <3>1
  <2>2. CASE S # {}
    <3>1. From(0) = 1 .. n /\ 1 \in 1 .. n
      <4>1. \E i \in 1 .. n : TRUE
        BY <1>4, <2>2
      <4>2. 1 \in 1 .. n
        BY <4>1
      <4>3. From(0) = {i \in 1 .. n : U[i] >= 0}
        BY <1>13
      <4> QED BY <1>14, <4>2, <4>3
    <3>2. Min(From(0)) = 1
      <4>1. From(0) \subseteq Int /\ 1 \in From(0) /\ \A y \in From(0) : 1 <= y
        BY <3>1
      <4> QED BY <4>1, MinIs
    <3>3. F[0] = pointers[1] \div 12
      <4>1. From(0) # {} /\ 0 \in 0 .. numBuckets
        <5>1. 0 \in 0 .. numBuckets
          OBVIOUS
        <5> QED BY <3>1, <5>1
      <4> QED BY <1>9, <3>2, <4>1
    <3>4. pointers[1] = 0
      BY <1>2, <1>4, <3>1 DEF PointersValid
    <3> HIDE DEF F
    <3> QED BY <2>2, <3>3, <3>4
  <2> QED BY <2>1, <2>2
<1> QED BY <1>10, <1>11, <1>12

-----------------------------------------------------------------------------
(***************************************************************************)
(* The substreams of the DBI stream.                                       *)
(***************************************************************************)
SumOf(sizes, t) == FoldLeft(LAMBDA sum, name : sum + sizes[name], 0, t)

SizeSteps(h, sizes, t) ==
  [s \in SUBSET (DOMAIN t) |-> IF s = {} THEN 0 ELSE h[s \ {Max(s)}] + sizes[t[Max(s)]]]

(* Sizes are summed up from the first substream on.                        *)
LEMMA SizesSum ==
  ASSUME NEW N, NEW sizes \in [N -> Int], NEW t \in Seq(N)
  PROVE  \E P \in [0 .. Len(t) -> Int] :
           /\ P[0] = 0
           /\ \A i \in 1 .. Len(t) : P[i] = P[i - 1] + sizes[t[i]]
           /\ SumOf(sizes, t) = P[Len(t)]
<1>1. PICK n \in Nat : n = Len(t) /\ DOMAIN t = 1 .. n /\ \A i \in 1 .. n : sizes[t[i]] \in Int
  BY LenProperties
<1> DEFINE next == [p \in Int \X (1 .. n) |-> p[1] + sizes[t[p[2]]]]
           g == CHOOSE h : h = SizeSteps(h, sizes, t)
<1>2. next \in [Int \X (1 .. n) -> Int]
      /\ \A v \in Int, i \in 1 .. n : next[v, i] = v + sizes[t[i]]
  <2>1. \A p \in Int \X (1 .. n) : p[1] \in Int /\ p[2] \in 1 .. n
    OBVIOUS
  <2>2. \A p \in Int \X (1 .. n) : p[1] + sizes[t[p[2]]] \in Int
    BY <1>1, <2>1
  <2> QED BY <2>2
<1>3. SumOf(sizes, t) = g[1 .. n]
  BY <1>1 DEF SumOf, FoldLeft, MapThenFoldSet, SizeSteps
<1> HIDE DEF next
<1>5. n \in Nat /\ FoldsInto(n, Int, 0, next)
  <2>1. n \in Nat /\ 0 \in Int
    OBVIOUS
  <2> QED BY <1>2, <2>1, Zenon DEF FoldsInto
<1>4. g = SizeSteps(g, sizes, t)
  <2>1. PICK h \in [SUBSET (1 .. n) -> Int] : h = FoldSteps(h, n, 0, next)
    <3>1. HasFold(n, Int, 0, next)
      BY <1>5, FoldExists, Zenon
    <3> QED BY <3>1, Zenon DEF HasFold
  <2>2. ASSUME NEW s \in SUBSET (1 .. n), s # {} PROVE Max(s) \in 1 .. n /\ s \ {Max(s)} \in SUBSET (1 .. n)
    BY <2>2, MaxOfSome
  <2>3. h = [s \in SUBSET (1 .. n) |-> IF s = {} THEN 0 ELSE next[h[s \ {Max(s)}], Max(s)]]
    BY <2>1 DEF FoldSteps
  <2>4. ASSUME NEW s \in SUBSET (1 .. n), s # {}
        PROVE  next[h[s \ {Max(s)}], Max(s)] = h[s \ {Max(s)}] + sizes[t[Max(s)]]
    BY <1>2, <2>2, <2>4
  <2>5. h = SizeSteps(h, sizes, t)
    BY <1>1, <2>3, <2>4 DEF SizeSteps
  <2> QED BY <2>5
<1> HIDE DEF g
<1>10. \A s \in SUBSET (1 .. n) : g[s] = IF s = {} THEN 0 ELSE g[s \ {Max(s)}] + sizes[t[Max(s)]]
  BY <1>1, <1>4 DEF SizeSteps
<1>6. FoldsOn(g, n, Int, 0, next)
  <2>1. g[{}] = 0
    BY <1>10
  <2>2. ASSUME NEW i \in 1 .. n, NEW v \in Int, g[1 .. (i - 1)] = v PROVE g[1 .. i] = next[v, i]
    <3>1. 1 .. i \in SUBSET (1 .. n) /\ i \in Nat \ {0}
      OBVIOUS
    <3>2. g[1 .. i] = g[1 .. (i - 1)] + sizes[t[i]]
      BY <1>10, <3>1, FirstIndices
    <3> QED BY <1>2, <2>2, <3>2
  <2> QED BY <2>1, <2>2 DEF FoldsOn
<1>7. PICK P \in [0 .. n -> Int] : /\ P[0] = 0
                                   /\ \A i \in 1 .. n : P[i] = next[P[i - 1], i]
                                   /\ \A i \in 0 .. n : P[i] = g[1 .. i]
  <2>1. LoopGives(g, n, Int, 0, next)
    BY <1>5, <1>6, FoldValues, Zenon
  <2> QED BY <2>1, Zenon DEF LoopGives
<1>8. \A i \in 1 .. n : P[i] = P[i - 1] + sizes[t[i]]
  <2>1. \A i \in 1 .. n : P[i - 1] \in Int
    OBVIOUS
  <2> QED BY <1>2, <1>7, <2>1
<1>9. P[n] = g[1 .. n]
  <2>1. n \in 0 .. n
    OBVIOUS
  <2> QED BY <1>7, <2>1
<1> QED BY <1>1, <1>3, <1>7, <1>8, <1>9

LEMMA SubstreamNames ==
  /\ Substreams \in Seq(ToSet(Substreams)) /\ Len(Substreams) = 7
  /\ DOMAIN Substreams = 1 .. 7
  /\ \A i \in 1 .. 7, j \in 1 .. 7 : Substreams[i] = Substreams[j] => i = j
  /\ \A name \in ToSet(Substreams) : \E i \in 1 .. 7 : Substreams[i] = name
  /\ Substreams[1] = "mod_info" /\ Substreams[2] = "section_contribution"
  /\ Substreams[3] = "section_map" /\ Substreams[4] = "source_info"
<1>1. Len(Substreams) = 7 /\ DOMAIN Substreams = 1 .. 7
  BY DEF Substreams
<1>2. \A i \in 1 .. 7 : Substreams[i] \in ToSet(Substreams)
  BY <1>1 DEF ToSet
<1>3. Substreams \in Seq(ToSet(Substreams))
  <2>1. Substreams \in Seq({"mod_info", "section_contribution", "section_map", "source_info",
                            "type_server_map", "edit_and_continue", "optional_dbg_header"})
    BY DEF Substreams
  <2>2. Substreams \in [1 .. 7 -> ToSet(Substreams)]
    <3>1. Substreams = [i \in 1 .. 7 |-> Substreams[i]]
      BY <1>1, <2>1, LenProperties
    <3> QED BY <1>2, <3>1
  <2> QED BY <2>2, FunctionLen
<1>4. /\ Substreams[1] = "mod_info" /\ Substreams[2] = "section_contribution"
      /\ Substreams[3] = "section_map" /\ Substreams[4] = "source_info"
      /\ Substreams[5] = "type_server_map" /\ Substreams[6] = "edit_and_continue"
      /\ Substreams[7] = "optional_dbg_header"
  BY DEF Substreams
<1>5. ASSUME NEW i \in 1 .. 7, NEW j \in 1 .. 7, Substreams[i] = Substreams[j] PROVE i = j
  BY <1>4, <1>5
<1>6. \A name \in ToSet(Substreams) : \E i \in 1 .. 7 : Substreams[i] = name
  BY <1>1 DEF ToSet
<1> QED BY <1>1, <1>3, <1>4, <1>5, <1>6

(* Where each substream begins.                                            *)
LEMMA SizeBeforeNext ==
  ASSUME NEW sizes \in [ToSet(Substreams) -> Int]
  PROVE  /\ SizeBefore(sizes, 1) = 0
         /\ \A i \in 1 .. 7 : /\ SizeBefore(sizes, i) \in Int
                              /\ sizes[Substreams[i]] \in Int
                              /\ SizeBefore(sizes, i + 1) = SizeBefore(sizes, i) + sizes[Substreams[i]]
<1>1. ASSUME NEW k \in 0 .. 7
      PROVE  \E P \in [0 .. k -> Int] :
               /\ P[0] = 0
               /\ \A i \in 1 .. k : P[i] = P[i - 1] + sizes[Substreams[i]]
               /\ SizeBefore(sizes, k + 1) = P[k]
  <2> DEFINE t == Take(Substreams, k)
  <2>1. t \in Seq(ToSet(Substreams)) /\ Len(t) = k /\ \A i \in 1 .. k : t[i] = Substreams[i]
    <3>1. PICK f, S : f = Substreams /\ S = ToSet(Substreams)
      OBVIOUS
    <3>2. f \in Seq(S) /\ k \in 0 .. Len(f)
      BY <3>1, SubstreamNames
    <3>3. /\ SubSeq(f, 1, k) \in Seq(S) /\ Len(SubSeq(f, 1, k)) = k
          /\ \A i \in 1 .. k : SubSeq(f, 1, k)[i] = f[i]
      BY <3>2, FirstPart
    <3> QED BY <3>1, <3>3 DEF Take
  <2>2. SizeBefore(sizes, k + 1) = SumOf(sizes, t)
    <3>1. (k + 1) - 1 = k
      OBVIOUS
    <3>2. SizeBefore(sizes, k + 1) = SumOf(sizes, Take(Substreams, (k + 1) - 1))
      BY DEF SizeBefore, SumOf
    <3> QED BY <3>1, <3>2
  <2> HIDE DEF t
  <2>3. PICK P \in [0 .. Len(t) -> Int] :
           /\ P[0] = 0
           /\ \A i \in 1 .. Len(t) : P[i] = P[i - 1] + sizes[t[i]]
           /\ SumOf(sizes, t) = P[Len(t)]
    BY <2>1, SizesSum
  <2> QED BY <2>1, <2>2, <2>3
<1>2. SizeBefore(sizes, 1) = 0
  <2>1. PICK P : P[0] = 0 /\ SizeBefore(sizes, 0 + 1) = P[0]
    <3>1. 0 \in 0 .. 7
      OBVIOUS
    <3> QED BY <1>1, <3>1
  <2> QED BY <2>1
<1>3. ASSUME NEW i \in 1 .. 7
      PROVE  /\ SizeBefore(sizes, i) \in Int
             /\ sizes[Substreams[i]] \in Int
             /\ SizeBefore(sizes, i + 1) = SizeBefore(sizes, i) + sizes[Substreams[i]]
  <2>1. i \in 0 .. 7 /\ i - 1 \in 0 .. 7 /\ (i - 1) + 1 = i
    OBVIOUS
  <2>2. PICK P \in [0 .. i -> Int] :
               /\ P[0] = 0
               /\ \A j \in 1 .. i : P[j] = P[j - 1] + sizes[Substreams[j]]
               /\ SizeBefore(sizes, i + 1) = P[i]
    BY <1>1, <2>1
  <2>3. PICK Q \in [0 .. i - 1 -> Int] :
               /\ Q[0] = 0
               /\ \A j \in 1 .. i - 1 : Q[j] = Q[j - 1] + sizes[Substreams[j]]
               /\ SizeBefore(sizes, i) = Q[i - 1]
    BY <1>1, <2>1
  <2>4. P[i - 1] = Q[i - 1]
    <3>1. i - 1 \in Nat /\ P[0] = Q[0] /\ \A j \in 1 .. i - 1 : j \in 1 .. i
      BY <2>2, <2>3
    <3>2. \A j \in 1 .. i - 1 : P[j - 1] = Q[j - 1] => P[j] = Q[j]
      BY <2>2, <2>3, <3>1
    <3> QED BY <3>1, <3>2, SameByStep
  <2>5. P[i] = P[i - 1] + sizes[Substreams[i]] /\ Q[i - 1] \in Int
    <3>1. i \in 1 .. i /\ i - 1 \in 0 .. i - 1
      OBVIOUS
    <3> QED BY <2>2, <3>1
  <2>6. sizes[Substreams[i]] \in Int
    <3>1. Substreams[i] \in ToSet(Substreams)
      BY SubstreamNames DEF ToSet
    <3> QED BY <3>1
  <2> QED BY <2>2, <2>3, <2>4, <2>5, <2>6
<1> QED BY <1>2, <1>3

(* DbiSubstreamRanges::from_sizes, for any sizes, negative ones too, and   *)
(* any length of the stream: the substreams are refused, or lie one behind *)
(* the other within the stream; and they are refused for no other reason.  *)
THEOREM SubstreamsAlwaysTile ==
  ASSUME NEW sizes \in [ToSet(Substreams) -> Int], NEW streamLen \in Nat
  PROVE  SubstreamsTile(sizes, streamLen)
<1> DEFINE c(i) == SizeBefore(sizes, i)
           s(i) == sizes[Substreams[i]]
           G == [name \in ToSet(Substreams) |->
                   LET i == CHOOSE j \in DOMAIN Substreams : Substreams[j] = name
                       Start == HeaderLen + SizeBefore(sizes, i)
                   IN [start |-> Start, end |-> Start + sizes[name]]]
           Accepted == streamLen >= 64 /\ \A i \in 1 .. 7 : s(i) \in 0 .. streamLen - 64 - c(i)
           Ranges == FromSizes(sizes, streamLen)
<1>1. /\ c(1) = 0
      /\ \A i \in 1 .. 7 : c(i) \in Int /\ s(i) \in Int /\ c(i + 1) = c(i) + s(i)
  BY SizeBeforeNext
<1>2. HeaderLen = 64
  BY DEF HeaderLen
<1>3. DOMAIN Substreams = 1 .. 7 /\ Len(Substreams) = 7
  BY SubstreamNames
<1>4. Ranges = IF Accepted THEN <<G>> ELSE Err
  BY <1>2, <1>3 DEF FromSizes, Fits
<1>5. TotalLen(sizes) = IF \E i \in 1 .. 7 : s(i) < 0 THEN Err ELSE <<c(8)>>
  <2>1. 7 + 1 = 8
    OBVIOUS
  <2> QED BY <1>3, <2>1 DEF TotalLen
<1>6. ASSUME NEW i \in 1 .. 7
      PROVE  G[Substreams[i]] = [start |-> 64 + c(i), end |-> 64 + c(i) + s(i)]
  <2>1. Substreams[i] \in ToSet(Substreams)
    BY <1>3 DEF ToSet
  <2>2. (CHOOSE j \in DOMAIN Substreams : Substreams[j] = Substreams[i]) = i
    BY <1>3, SubstreamNames
  <2> QED BY <1>2, <2>1, <2>2
<1>7. Err = <<>> /\ <<G>> # Err /\ <<c(8)>> # Err /\ <<G>>[1] = G /\ <<c(8)>>[1] = c(8)
  BY DEF Err
<1> HIDE DEF G, c, s, Ranges
<1>8. ASSUME \A i \in 1 .. 7 : s(i) >= 0
      PROVE  \A i \in 1 .. 7 : 0 <= c(i) /\ c(i + 1) <= c(8)
  <2> DEFINE B == {i \in 0 .. 6 : 0 <= c(i + 1)}
             C == {i \in 0 .. 6 : c((7 - i) + 1) <= c(8)}
  <2>0. c(8) \in Int /\ 7 + 1 = 8
    <3>1. 7 \in 1 .. 7 /\ 7 + 1 = 8
      OBVIOUS
    <3> QED BY <1>1, <3>1
  <2>1. 0 \in B /\ \A i \in 1 .. 6 : i - 1 \in B => i \in B
    <3>1. 0 \in B
      <4>1. 0 + 1 = 1 /\ 0 \in 0 .. 6 /\ 0 <= 0
        OBVIOUS
      <4> QED BY <1>1, <4>1
    <3>2. ASSUME NEW i \in 1 .. 6, 0 <= c((i - 1) + 1) PROVE 0 <= c(i + 1)
      <4>1. (i - 1) + 1 = i /\ i \in 1 .. 7
        OBVIOUS
      <4> QED BY <1>1, <1>8, <3>2, <4>1
    <3> QED BY <3>1, <3>2
  <2>2. 0 \in C /\ \A i \in 1 .. 6 : i - 1 \in C => i \in C
    <3>1. 0 \in C
      <4>1. (7 - 0) + 1 = 8 /\ 0 \in 0 .. 6
        OBVIOUS
      <4> QED BY <2>0, <4>1
    <3>2. ASSUME NEW i \in 1 .. 6, c((7 - (i - 1)) + 1) <= c(8) PROVE c((7 - i) + 1) <= c(8)
      <4>1. PICK k \in 1 .. 7 : k = (7 - i) + 1 /\ k + 1 = (7 - (i - 1)) + 1
        OBVIOUS
      <4>2. c(k + 1) <= c(8) /\ c(k + 1) = c(k) + s(k) /\ s(k) >= 0 /\ c(k) \in Int /\ s(k) \in Int
        BY <1>1, <1>8, <3>2, <4>1
      <4>3. c(k) <= c(8)
        BY <2>0, <4>2
      <4> QED BY <4>1, <4>3
    <3> QED BY <3>1, <3>2
  <2>3. 0 .. 6 \subseteq B /\ 0 .. 6 \subseteq C
    <3>1. 6 \in Nat
      OBVIOUS
    <3> HIDE DEF B, C
    <3> QED BY <2>1, <2>2, <3>1, StepByStep
  <2>4. ASSUME NEW i \in 1 .. 7 PROVE 0 <= c(i) /\ c(i + 1) <= c(8)
    <3>1. PICK j \in 0 .. 6, k \in 0 .. 6 : j + 1 = i /\ (7 - k) + 1 = i + 1
      <4>1. i - 1 \in 0 .. 6 /\ 7 - i \in 0 .. 6 /\ (i - 1) + 1 = i /\ (7 - (7 - i)) + 1 = i + 1
        OBVIOUS
      <4> QED BY <4>1
    <3>2. j \in B /\ k \in C
      BY <2>3
    <3> QED BY <3>1, <3>2
  <2> QED BY <2>4
<1>9. ASSUME Accepted
      PROVE  \A i \in 1 .. 7 : /\ s(i) >= 0 /\ c(i) >= 0
                               /\ 64 + c(i) + s(i) <= streamLen
  <2>1. \A i \in 1 .. 7 : s(i) \in Int /\ c(i) \in Int /\ s(i) >= 0 /\ s(i) <= streamLen - 64 - c(i)
    BY <1>1, <1>9
  <2> QED BY <1>8, <2>1
<1>10. ASSUME Accepted
       PROVE  /\ \A i \in DOMAIN Substreams :
                   LET R == Ranges[1][Substreams[i]]
                   IN /\ HeaderLen <= R.start /\ R.start <= R.end /\ R.end <= streamLen
                      /\ i > 1 => R.start = Ranges[1][Substreams[i - 1]].end
              /\ Ranges[1].mod_info = ModulesRange(sizes)
              /\ Ranges[1].source_info = SourcesRange(sizes)
  <2>1. Ranges[1] = G
    BY <1>4, <1>7, <1>10
  <2>2. ASSUME NEW i \in 1 .. 7
        PROVE  /\ 64 <= G[Substreams[i]].start
               /\ G[Substreams[i]].start <= G[Substreams[i]].end
               /\ G[Substreams[i]].end <= streamLen
               /\ i > 1 => G[Substreams[i]].start = G[Substreams[i - 1]].end
    <3>1. PICK a \in Int, b \in Int : a = c(i) /\ b = s(i) /\ a >= 0 /\ b >= 0 /\ 64 + a + b <= streamLen
      BY <1>1, <1>9, <1>10
    <3>2. G[Substreams[i]] = [start |-> 64 + a, end |-> 64 + a + b]
      BY <1>6, <3>1
    <3>3. ASSUME i > 1 PROVE G[Substreams[i]].start = G[Substreams[i - 1]].end
      <4>1. i - 1 \in 1 .. 7 /\ (i - 1) + 1 = i
        BY <3>3
      <4>2. PICK d \in Int, e \in Int : d = c(i - 1) /\ e = s(i - 1) /\ a = d + e
        BY <1>1, <3>1, <4>1
      <4>3. G[Substreams[i - 1]] = [start |-> 64 + d, end |-> 64 + d + e]
        BY <1>6, <4>1, <4>2
      <4> QED BY <3>2, <4>2, <4>3
    <3> QED BY <3>1, <3>2, <3>3
  <2>3. G.mod_info = ModulesRange(sizes)
    <3>1. 1 \in 1 .. 7 /\ s(1) = sizes.mod_info
      BY SubstreamNames DEF s
    <3>2. G["mod_info"] = [start |-> 64 + c(1), end |-> 64 + c(1) + s(1)]
      BY <1>6, <3>1, SubstreamNames
    <3>3. c(1) = 0 /\ s(1) \in Int
      BY <1>1, <3>1
    <3> QED BY <1>2, <3>1, <3>2, <3>3 DEF ModulesRange
  <2>4. G.source_info = SourcesRange(sizes)
    <3>1. /\ 1 \in 1 .. 7 /\ 2 \in 1 .. 7 /\ 3 \in 1 .. 7 /\ 4 \in 1 .. 7
          /\ 1 + 1 = 2 /\ 2 + 1 = 3 /\ 3 + 1 = 4
      OBVIOUS
    <3>2. /\ s(1) = sizes.mod_info /\ s(2) = sizes.section_contribution
          /\ s(3) = sizes.section_map /\ s(4) = sizes.source_info
      BY SubstreamNames DEF s
    <3>3. G["source_info"] = [start |-> 64 + c(4), end |-> 64 + c(4) + s(4)]
      BY <1>6, <3>1, SubstreamNames
    <3>4. PICK w \in Int, x \in Int, y \in Int, z \in Int :
            w = s(1) /\ x = s(2) /\ y = s(3) /\ z = s(4)
      BY <1>1, <3>1
    <3>5. c(4) = w + x + y
      BY <1>1, <3>1, <3>4
    <3>6. SourcesRange(sizes) = [start |-> 64 + w + x + y, end |-> 64 + w + x + y + z]
      BY <1>2, <3>2, <3>4 DEF SourcesRange
    <3>7. 64 + c(4) = 64 + w + x + y
      BY <3>4, <3>5
    <3> QED BY <3>3, <3>4, <3>6, <3>7
  <2> QED BY <1>2, <1>3, <2>1, <2>2, <2>3, <2>4
<1>11. Ranges # Err <=> /\ streamLen >= HeaderLen
                        /\ TotalLen(sizes) # Err
                        /\ HeaderLen + TotalLen(sizes)[1] <= streamLen
  <2>1. Ranges # Err <=> Accepted
    BY <1>4, <1>7
  <2>6. (\E i \in 1 .. 7 : s(i) < 0) <=> ~(\A i \in 1 .. 7 : s(i) >= 0)
    BY <1>1
  <2>2. TotalLen(sizes) # Err <=> \A i \in 1 .. 7 : s(i) >= 0
    BY <1>5, <1>7, <2>6
  <2>3. 7 \in 1 .. 7 /\ 7 + 1 = 8
    OBVIOUS
  <2>4. ASSUME Accepted
        PROVE  /\ streamLen >= HeaderLen
               /\ TotalLen(sizes) # Err /\ HeaderLen + TotalLen(sizes)[1] <= streamLen
    <3>1. /\ TotalLen(sizes) # Err /\ TotalLen(sizes) = <<c(8)>>
      BY <1>5, <1>7, <1>9, <2>2, <2>4
    <3>2. 64 + c(8) <= streamLen
      <4>1. c(8) = c(7) + s(7) /\ c(7) \in Int /\ s(7) \in Int /\ 64 + c(7) + s(7) <= streamLen
        BY <1>1, <1>9, <2>3, <2>4
      <4> QED BY <4>1
    <3> QED BY <1>2, <1>7, <2>4, <3>1, <3>2
  <2>5. ASSUME streamLen >= HeaderLen, TotalLen(sizes) # Err,
               HeaderLen + TotalLen(sizes)[1] <= streamLen
        PROVE  Accepted
    <3>1. \A i \in 1 .. 7 : s(i) >= 0
      BY <2>2, <2>5
    <3>2. TotalLen(sizes)[1] = c(8)
      BY <1>5, <1>7, <2>6, <3>1
    <3>3. 64 + c(8) <= streamLen /\ streamLen >= 64
      BY <1>2, <2>5, <3>2
    <3>4. c(8) \in Int
      <4>1. c(8) = c(7) + s(7) /\ c(7) \in Int /\ s(7) \in Int
        BY <1>1, <2>3
      <4> QED BY <4>1
    <3>5. ASSUME NEW i \in 1 .. 7 PROVE s(i) \in 0 .. streamLen - 64 - c(i)
      <4>1. c(i) + s(i) <= c(8) /\ s(i) >= 0 /\ c(i) \in Int /\ s(i) \in Int
        BY <1>1, <1>8, <3>1
      <4> QED BY <3>3, <3>4, <4>1
    <3> QED BY <3>3, <3>5
  <2> QED BY <2>1, <2>4, <2>5
<1>12. Ranges # Err => Accepted
  BY <1>4, <1>7
<1> QED BY <1>10, <1>11, <1>12 DEF SubstreamsTile, Ranges

-----------------------------------------------------------------------------
(***************************************************************************)
(* The section contributions.                                              *)
(***************************************************************************)
ContribEntries == [section : Int, offset : Int, size : Nat \ {0}, module : Int]

(* The table as linkers write it: sorted by address, without overlaps.     *)
InAddressOrder(contribs) ==
  \A i \in DOMAIN contribs, j \in DOMAIN contribs :
    i < j =>
      /\ ContribBefore(contribs[i], contribs[j].section, contribs[j].offset)
      /\ contribs[i].section = contribs[j].section =>
           contribs[i].offset + contribs[i].size <= contribs[j].offset

(* find_index, for every table in order and every address: where the       *)
(* linear search finds an entry the binary one finds the same, and what it *)
(* finds holds the offset.  Where the linear one finds none, what it finds *)
(* may be of another section (the run contrib_section).                    *)
THEOREM ContribsAlwaysFound ==
  ASSUME NEW contribs \in Seq(ContribEntries), InAddressOrder(contribs),
         NEW queries \in SUBSET (Int \X Int)
  PROVE  ContribsFound(contribs, queries)
<1>1. PICK n \in Nat : n = Len(contribs) /\ DOMAIN contribs = 1 .. n
  BY LenProperties
<1>2. ASSUME NEW k \in 1 .. n
      PROVE  /\ contribs[k].section \in Int /\ contribs[k].offset \in Int
             /\ contribs[k].size \in Nat \ {0}
  <2>1. contribs[k] \in ContribEntries
    BY <1>1
  <2> QED BY <2>1 DEF ContribEntries
<1> SUFFICES ASSUME NEW q \in queries
             PROVE  LET Answer == FindIndex(contribs, q[1], q[2])
                        Right == FindIndexBrute(contribs, q[1], q[2])
                    IN /\ Right # <<>> => Answer = Right
                       /\ Answer # <<>> => ContainsOffset(contribs[Answer[1] + 1], q[2])
  BY DEF ContribsFound
<1>3. PICK x \in Int, y \in Int : x = q[1] /\ y = q[2]
  OBVIOUS
<1> DEFINE T == {k \in 1 .. n : ContribBefore(contribs[k], x, y)}
           i == Cardinality(T)
           Here(k) == k \in 1 .. n /\ ContainsOffset(contribs[k], y)
           Found == {k \in 1 .. n : contribs[k].section = x /\ ContainsOffset(contribs[k], y)}
           Exact == i < n /\ contribs[i + 1].section = x /\ contribs[i + 1].offset = y
           Answer == FindIndex(contribs, x, y)
           Right == FindIndexBrute(contribs, x, y)
<1>4. Answer = IF Exact THEN <<i>>
               ELSE IF Here(i) THEN <<i - 1>>
               ELSE IF Here(i + 2) THEN <<i + 1>>
               ELSE <<>>
  BY <1>1 DEF FindIndex
<1>5. Right = IF Found = {} THEN <<>> ELSE <<Min(Found) - 1>>
  BY <1>1 DEF FindIndexBrute
<1>6. i \in 0 .. n /\ T = 1 .. i
  <2>1. T \in SUBSET (1 .. n)
    OBVIOUS
  <2>2. ASSUME NEW k \in T, NEW j \in 1 .. n, j < k PROVE j \in T
    <3>1. ContribBefore(contribs[j], contribs[k].section, contribs[k].offset)
      BY <1>1, <2>2 DEF InAddressOrder
    <3>2. ContribBefore(contribs[k], x, y) /\ k \in 1 .. n
      OBVIOUS
    <3>3. PICK a \in Int, b \in Int, c \in Int, d \in Int :
            /\ a = contribs[j].section /\ b = contribs[j].offset
            /\ c = contribs[k].section /\ d = contribs[k].offset
      BY <1>2, <3>2
    <3>4. (a < c \/ (a = c /\ b < d)) /\ (c < x \/ (c = x /\ d < y))
      BY <3>1, <3>2, <3>3 DEF ContribBefore
    <3>5. a < x \/ (a = x /\ b < y)
      BY <3>4
    <3> QED BY <3>3, <3>5 DEF ContribBefore
  <2> HIDE DEF T
  <2> QED BY <2>1, <2>2, DownwardClosed
<1>7. \A k \in 1 .. n : k <= i <=> ContribBefore(contribs[k], x, y)
  <2>1. \A k \in 1 .. n : k \in 1 .. i <=> k <= i
    BY <1>6
  <2> HIDE DEF i
  <2> QED BY <1>6, <2>1
<1> HIDE DEF T, i
<1>8. ASSUME Answer # <<>> PROVE ContainsOffset(contribs[Answer[1] + 1], y)
  <2>1. CASE Exact
    <3>1. Answer[1] = i /\ i + 1 \in 1 .. n /\ contribs[i + 1].offset = y
      BY <1>4, <1>6, <2>1
    <3>2. contribs[i + 1].size \in Nat \ {0}
      BY <1>2, <3>1
    <3> QED BY <3>1, <3>2 DEF ContainsOffset
  <2>2. CASE ~Exact /\ Here(i)
    <3>1. Answer[1] = i - 1 /\ (i - 1) + 1 = i
      BY <1>4, <1>6, <2>2
    <3> QED BY <2>2, <3>1
  <2>3. CASE ~Exact /\ ~Here(i) /\ Here(i + 2)
    <3>1. Answer[1] = i + 1 /\ (i + 1) + 1 = i + 2
      BY <1>4, <1>6, <2>3
    <3> QED BY <2>3, <3>1
  <2>4. CASE ~Exact /\ ~Here(i) /\ ~Here(i + 2)
    BY <1>4, <1>8, <2>4
  <2> QED BY <2>1, <2>2, <2>3, <2>4
<1>9. ASSUME NEW k \in Found PROVE Answer = <<k - 1>>
  <2>1. /\ k \in 1 .. n /\ contribs[k].section = x
        /\ y >= contribs[k].offset /\ y - contribs[k].offset < contribs[k].size
    BY DEF ContainsOffset
  <2>2. PICK b \in Int, s \in Int : /\ b = contribs[k].offset /\ s = contribs[k].size
                                    /\ b <= y /\ y < b + s
    BY <1>2, <2>1
  <2>3. ASSUME NEW j \in 1 .. n, j > k PROVE ~ContribBefore(contribs[j], x, y)
    <3>1. /\ ContribBefore(contribs[k], contribs[j].section, contribs[j].offset)
          /\ contribs[k].section = contribs[j].section => b + s <= contribs[j].offset
      BY <1>1, <2>1, <2>2, <2>3 DEF InAddressOrder
    <3>2. PICK c \in Int, d \in Int : c = contribs[j].section /\ d = contribs[j].offset
      BY <1>2
    <3>3. (x < c \/ (x = c /\ b < d)) /\ (x = c => b + s <= d)
      BY <2>1, <2>2, <3>1, <3>2 DEF ContribBefore
    <3>4. ~(c < x \/ (c = x /\ d < y))
      <4>1. x \in Int /\ y \in Int /\ y < b + s
        BY <2>2
      <4> QED BY ONLY <3>3, <4>1, b \in Int, s \in Int, c \in Int, d \in Int
    <3> QED BY <3>2, <3>4 DEF ContribBefore
  <2>4. CASE b = y
    <3>1. ~ContribBefore(contribs[k], x, y)
      BY <2>1, <2>2, <2>4 DEF ContribBefore
    <3>2. ASSUME NEW j \in 1 .. n, j < k PROVE ContribBefore(contribs[j], x, y)
      <4>1. ContribBefore(contribs[j], contribs[k].section, contribs[k].offset)
        BY <1>1, <2>1, <3>2 DEF InAddressOrder
      <4> QED BY <2>1, <2>2, <2>4, <4>1
    <3>3. i = k - 1
      <4>1. ~(k <= i)
        BY <1>7, <2>1, <3>1
      <4>2. k - 1 <= i
        <5>1. CASE k = 1
          BY <1>6, <5>1
        <5>2. CASE k # 1
          <6>1. k - 1 \in 1 .. n /\ k - 1 < k
            BY <2>1, <5>2
          <6> QED BY <1>7, <3>2, <6>1
        <5> QED BY <5>1, <5>2
      <4> QED BY <1>6, <2>1, <4>1, <4>2
    <3>4. Exact
      <4>1. i < n /\ i + 1 = k
        BY <2>1, <3>3
      <4> QED BY <2>1, <2>2, <2>4, <4>1
    <3> QED BY <1>4, <3>3, <3>4
  <2>5. CASE b # y
    <3>1. ContribBefore(contribs[k], x, y)
      <4>1. b < y
        BY <2>2, <2>5
      <4> QED BY <2>1, <2>2, <4>1 DEF ContribBefore
    <3>2. i = k
      <4>1. k <= i
        BY <1>7, <2>1, <3>1
      <4>2. ~(k < i)
        <5>1. SUFFICES ASSUME k < i PROVE FALSE
          OBVIOUS
        <5>2. i \in 1 .. n /\ i > k /\ i <= i
          BY <1>6, <2>1, <5>1
        <5> QED BY <1>7, <2>3, <5>2
      <4> QED BY <1>6, <2>1, <4>1, <4>2
    <3>3. ~Exact
      <4>1. SUFFICES ASSUME Exact PROVE FALSE
        OBVIOUS
      <4>2. k + 1 \in 1 .. n /\ k + 1 > k /\ contribs[k + 1].section = x /\ contribs[k + 1].offset = y
        BY <2>1, <3>2, <4>1
      <4>3. contribs[k].offset + contribs[k].size <= contribs[k + 1].offset
        BY <1>1, <2>1, <4>2 DEF InAddressOrder
      <4> QED BY <2>2, <4>2, <4>3
    <3>4. Here(k)
      OBVIOUS
    <3> QED BY <1>4, <3>2, <3>3, <3>4
  <2> QED BY <2>4, <2>5
<1>10. ASSUME Right # <<>> PROVE Answer = Right
  <2>1. Found # {} /\ Found \subseteq Nat /\ Found \subseteq Int
    BY <1>5, <1>10
  <2>2. PICK k \in Found : \A j \in Found : k <= j
    <3> HIDE DEF Found
    <3> QED BY <2>1, LeastOf
  <2>3. Min(Found) = k
    <3> HIDE DEF Found
    <3> QED BY <2>1, <2>2, MinIs
  <2> QED BY <1>5, <1>9, <1>10, <2>3
<1> QED BY <1>3, <1>8, <1>10

-----------------------------------------------------------------------------
(***************************************************************************)
(* The behaviours of MCTables: what is checked is an input of its table.   *)
(***************************************************************************)
InputInv ==
  /\ table \in Tables \cup {"none"}
  /\ input # <<>> => table # "none" /\ \E x \in InputsOf(table) : input = <<x>>

LEMMA InputInvariant == Spec => []InputInv
<1>1. Init => InputInv
  BY DEF Init, InputInv
<1>2. InputInv /\ [Next]_vars => InputInv'
  <2> SUFFICES ASSUME InputInv, [Next]_vars PROVE InputInv'
    OBVIOUS
  <2>1. CASE Open
    <3>1. input = <<>>
      BY <2>1 DEF Open, InputInv
    <3> QED BY <2>1, <3>1 DEF Open, InputInv
  <2>2. CASE Give
    <3>1. PICK x \in InputsOf(table) : input' = <<x>>
      BY <2>2 DEF Give
    <3>2. table # "none" /\ table' = table
      BY <2>2 DEF Give
    <3> QED BY <3>1, <3>2 DEF InputInv
  <2>3. CASE Close
    BY <2>3 DEF Close, InputInv
  <2>4. CASE UNCHANGED vars
    BY <2>4 DEF vars, InputInv
  <2> QED BY <2>1, <2>2, <2>3, <2>4 DEF Next
<1> QED BY <1>1, <1>2, PTL DEF Spec

(* globals/name_table.rs: of the inputs that are checked, a table of       *)
(* buckets that is accepted has ranges that lie within the records.        *)
THEOREM BucketsStayInRange == Spec => []BucketsInRange
<1>1. InputInv => BucketsInRange
  <2> SUFFICES ASSUME InputInv, table = "buckets", input # <<>>,
                      NEW x, x = input[1]
               PROVE  BucketsCoverRecords(x.bitmap, x.pointers, x.buckets, x.records)
    BY DEF BucketsInRange
  <2>1. x \in BucketInputs
    BY DEF InputInv, InputsOf
  <2>2. /\ x.bitmap \in SUBSET (0 .. 3) /\ x.pointers \in Seq(Int)
        /\ x.buckets \in Nat /\ x.records \in Nat
    BY <2>1, SeqOfIsSeq DEF BucketInputs
  <2>3. x.bitmap \in SUBSET Nat /\ IsFiniteSet(x.bitmap)
    <3>1. IsFiniteSet(0 .. 3)
      <4>1. 0 \in Int /\ 3 \in Int
        OBVIOUS
      <4> QED BY ONLY <4>1, FS_Interval
    <3> QED BY <2>2, <3>1, FS_Subset
  <2> QED BY <2>2, <2>3, BucketsAlwaysCover
<1> QED BY <1>1, InputInvariant, PTL

-----------------------------------------------------------------------------
(***************************************************************************)
(* Strings: their order, and buffers of them.                              *)
(***************************************************************************)
(* Place i is the first at which t is greater than s, or goes on.          *)
LessAt(s, t, i) ==
  /\ i <= Len(t) /\ i <= Len(s) + 1
  /\ \A j \in 1 .. i - 1 : s[j] = t[j]
  /\ i <= Len(s) => s[i] < t[i]

(* The order of byte strings, place by place.                              *)
LEMMA BeforeMeans ==
  ASSUME NEW s \in Seq(Nat), NEW t \in Seq(Nat)
  PROVE  Before(s, t) <=> \E i \in Nat \ {0} : LessAt(s, t, i)
<1>1. PICK m \in Nat, n \in Nat : m = Len(s) /\ n = Len(t) /\ DOMAIN s = 1 .. m /\ DOMAIN t = 1 .. n
  BY LenProperties
<1>2. ASSUME NEW k \in Nat, k <= m, k <= n
      PROVE  SubSeq(s, 1, k) = SubSeq(t, 1, k) <=> \A j \in 1 .. k : s[j] = t[j]
  <2>1. PICK a, b : a = SubSeq(s, 1, k) /\ b = SubSeq(t, 1, k)
    OBVIOUS
  <2>2. /\ a \in Seq(Nat) /\ Len(a) = k /\ \A j \in 1 .. k : a[j] = s[j]
        /\ b \in Seq(Nat) /\ Len(b) = k /\ \A j \in 1 .. k : b[j] = t[j]
    BY <1>1, <1>2, <2>1, FirstPart
  <2>3. (\A j \in 1 .. k : s[j] = t[j]) => a = b
    BY <2>2, SeqEqual
  <2> QED BY <2>1, <2>2, <2>3
<1>3. IsStrictPrefix(s, t) <=> m < n /\ \A j \in 1 .. m : s[j] = t[j]
  <2>1. ASSUME m <= n PROVE SubSeq(s, 1, m) = SubSeq(t, 1, m) <=> \A j \in 1 .. m : s[j] = t[j]
    <3>1. m <= m
      OBVIOUS
    <3> QED BY <1>2, <2>1, <3>1
  <2>2. m = n /\ (\A j \in 1 .. m : s[j] = t[j]) => s = t
    BY <1>1, SeqEqual
  <2>3. IsStrictPrefix(s, t) <=> m <= n /\ SubSeq(s, 1, m) = SubSeq(t, 1, m) /\ s # t
    BY <1>1 DEF IsStrictPrefix, IsPrefix
  <2>4. m < n => s # t
    BY <1>1
  <2> QED BY <2>1, <2>2, <2>3, <2>4
<1>4. ASSUME NEW i \in 1 .. m, i \in 1 .. n
      PROVE  Take(s, i - 1) = Take(t, i - 1) <=> \A j \in 1 .. i - 1 : s[j] = t[j]
  <2>1. i - 1 \in Nat /\ i - 1 <= m /\ i - 1 <= n
    BY <1>4
  <2> QED BY <1>2, <2>1 DEF Take
<1>5. ASSUME Before(s, t) PROVE \E i \in Nat \ {0} : LessAt(s, t, i)
  <2>1. CASE IsStrictPrefix(s, t)
    <3>1. m + 1 \in Nat \ {0} /\ (m + 1) - 1 = m /\ m + 1 <= n
      BY <1>3, <2>1
    <3>2. LessAt(s, t, m + 1)
      BY <1>1, <1>3, <2>1, <3>1 DEF LessAt
    <3> QED BY <3>1, <3>2
  <2>2. CASE ~IsStrictPrefix(s, t)
    <3>1. PICK i \in 1 .. m : /\ i \in 1 .. n /\ s[i] < t[i] /\ Take(s, i - 1) = Take(t, i - 1)
      BY <1>1, <1>5, <2>2 DEF Before
    <3>2. \A j \in 1 .. i - 1 : s[j] = t[j]
      BY <1>4, <3>1
    <3>3. i \in Nat \ {0} /\ i <= n /\ i <= m + 1
      BY <3>1
    <3>4. LessAt(s, t, i)
      BY <1>1, <3>1, <3>2, <3>3 DEF LessAt
    <3> QED BY <3>3, <3>4
  <2> QED BY <2>1, <2>2
<1>6. ASSUME NEW i \in Nat \ {0}, LessAt(s, t, i) PROVE Before(s, t)
  <2>1. i <= n /\ i <= m + 1 /\ (\A j \in 1 .. i - 1 : s[j] = t[j]) /\ (i <= m => s[i] < t[i])
    BY <1>1, <1>6 DEF LessAt
  <2>2. CASE i <= m
    <3>1. i \in 1 .. m /\ i \in 1 .. n
      BY <2>1, <2>2
    <3>2. Take(s, i - 1) = Take(t, i - 1)
      BY <1>4, <2>1, <3>1
    <3> QED BY <1>1, <2>1, <2>2, <3>1, <3>2 DEF Before
  <2>3. CASE ~(i <= m)
    <3>1. i = m + 1 /\ i - 1 = m /\ m < n
      BY <2>1, <2>3
    <3> QED BY <1>3, <2>1, <3>1 DEF Before
  <2> QED BY <2>2, <2>3
<1> QED BY <1>5, <1>6

ByteOrder(S) == {p \in S \X S : Before(p[1], p[2])}

LEMMA BytesOrdered ==
  ASSUME NEW S \in SUBSET Seq(Nat)
  PROVE  StrictlyOrders(ByteOrder(S), S)
<1>1. \A s \in S, t \in S : <<s, t>> \in ByteOrder(S) <=> Before(s, t)
  BY DEF ByteOrder
<1>2. ASSUME NEW s \in S PROVE ~Before(s, s)
  <2>1. PICK n \in Nat : n = Len(s) /\ \A i \in 1 .. n : s[i] \in Nat
    BY LenProperties
  <2>2. ASSUME NEW i \in Nat \ {0}, LessAt(s, s, i) PROVE FALSE
    <3>1. i <= n /\ s[i] < s[i]
      BY <2>1, <2>2 DEF LessAt
    <3>2. i \in 1 .. n
      BY <3>1
    <3> QED BY <2>1, <3>1, <3>2
  <2> QED BY <2>2, BeforeMeans
<1>3. ASSUME NEW s \in S, NEW t \in S, NEW u \in S, Before(s, t), Before(t, u)
      PROVE  Before(s, u)
  <2>1. PICK i \in Nat \ {0} : LessAt(s, t, i)
    BY <1>3, BeforeMeans
  <2>2. PICK k \in Nat \ {0} : LessAt(t, u, k)
    BY <1>3, BeforeMeans
  <2>3. PICK l \in Nat, m \in Nat, n \in Nat :
          /\ l = Len(s) /\ m = Len(t) /\ n = Len(u)
          /\ \A j \in 1 .. l : s[j] \in Nat
          /\ \A j \in 1 .. m : t[j] \in Nat
          /\ \A j \in 1 .. n : u[j] \in Nat
    BY LenProperties
  <2>4. /\ i <= m /\ i <= l + 1 /\ (\A j \in 1 .. i - 1 : s[j] = t[j]) /\ (i <= l => s[i] < t[i])
        /\ k <= n /\ k <= m + 1 /\ (\A j \in 1 .. k - 1 : t[j] = u[j]) /\ (k <= m => t[k] < u[k])
    BY <2>1, <2>2, <2>3 DEF LessAt
  <2>5. CASE i < k
    <3>1. i <= n /\ i <= l + 1 /\ \A j \in 1 .. i - 1 : s[j] = u[j]
      BY <2>4, <2>5
    <3>2. t[i] = u[i]
      BY <2>4, <2>5
    <3> QED BY <2>3, <2>4, <3>1, <3>2, BeforeMeans DEF LessAt
  <2>6. CASE k < i
    <3>1. k <= n /\ k <= l + 1 /\ \A j \in 1 .. k - 1 : s[j] = u[j]
      BY <2>4, <2>6
    <3>2. s[k] = t[k] /\ t[k] < u[k]
      BY <2>4, <2>6
    <3> QED BY <2>3, <2>4, <3>1, <3>2, BeforeMeans DEF LessAt
  <2>7. CASE i = k
    <3>1. i <= n /\ i <= l + 1 /\ \A j \in 1 .. i - 1 : s[j] = u[j]
      BY <2>4, <2>7
    <3>2. ASSUME i <= l PROVE s[i] < u[i]
      <4>1. s[i] \in Nat /\ t[i] \in Nat /\ u[i] \in Nat
        BY <2>3, <2>4, <3>1, <3>2
      <4> QED BY <2>4, <2>7, <3>2, <4>1
    <3> QED BY <2>3, <3>1, <3>2, BeforeMeans DEF LessAt
  <2> QED BY <2>5, <2>6, <2>7
<1>4. ASSUME NEW s \in S, NEW t \in S, s # t PROVE Before(s, t) \/ Before(t, s)
  <2>1. PICK m \in Nat, n \in Nat :
          /\ m = Len(s) /\ n = Len(t)
          /\ \A j \in 1 .. m : s[j] \in Nat
          /\ \A j \in 1 .. n : t[j] \in Nat
    BY LenProperties
  <2> DEFINE D == {i \in Nat \ {0} : i = m + 1 \/ i = n + 1 \/ s[i] # t[i]}
  <2>2. PICK i \in D : \A j \in D : i <= j
    <3>1. m + 1 \in D
      OBVIOUS
    <3>2. D \subseteq Nat /\ D # {}
      BY <3>1
    <3> HIDE DEF D
    <3> QED BY <3>2, LeastOf
  <2>3. i \in Nat \ {0} /\ i <= m + 1 /\ i <= n + 1
    <3>1. m + 1 \in D /\ n + 1 \in D
      OBVIOUS
    <3> QED BY <2>2, <3>1
  <2>4. \A j \in 1 .. i - 1 : s[j] = t[j]
    <3>1. ASSUME NEW j \in 1 .. i - 1, s[j] # t[j] PROVE FALSE
      <4>1. j \in D /\ ~(i <= j)
        BY <2>3, <3>1
      <4> QED BY <2>2, <4>1
    <3> QED BY <3>1
  <2>5. CASE i <= m /\ i <= n
    <3>1. s[i] # t[i] /\ s[i] \in Nat /\ t[i] \in Nat
      BY <2>1, <2>3, <2>5
    <3>2. s[i] < t[i] \/ t[i] < s[i]
      BY <3>1
    <3>3. s[i] < t[i] => LessAt(s, t, i)
      BY <2>1, <2>3, <2>4, <2>5 DEF LessAt
    <3>4. t[i] < s[i] => LessAt(t, s, i)
      BY <2>1, <2>3, <2>4, <2>5 DEF LessAt
    <3> QED BY <2>3, <3>2, <3>3, <3>4, BeforeMeans
  <2>6. CASE i <= m /\ ~(i <= n)
    <3>1. LessAt(t, s, i)
      BY <2>1, <2>3, <2>4, <2>6 DEF LessAt
    <3> QED BY <2>3, <3>1, BeforeMeans
  <2>7. CASE ~(i <= m) /\ i <= n
    <3>1. LessAt(s, t, i)
      BY <2>1, <2>3, <2>4, <2>7 DEF LessAt
    <3> QED BY <2>3, <3>1, BeforeMeans
  <2>8. CASE ~(i <= m) /\ ~(i <= n)
    <3>1. i = m + 1 /\ m = n /\ i - 1 = m
      BY <2>3, <2>8
    <3>2. s = t
      BY <2>1, <2>4, <3>1, SeqEqual
    <3> QED BY <1>4, <3>2
  <2> QED BY <2>5, <2>6, <2>7, <2>8
<1> QED BY <1>1, <1>2, <1>3, <1>4 DEF StrictlyOrders

(* The strings of a set in order, each once.                               *)
LEMMA SortedStrings ==
  ASSUME NEW S \in SUBSET Seq(Nat), IsFiniteSet(S)
  PROVE  /\ Cardinality(S) \in Nat
         /\ SortedSeq(S, Before) \in [1 .. Cardinality(S) -> S]
         /\ Len(SortedSeq(S, Before)) = Cardinality(S)
         /\ \A i \in 1 .. Cardinality(S), j \in 1 .. Cardinality(S) :
              SortedSeq(S, Before)[i] = SortedSeq(S, Before)[j] => i = j
         /\ \A x \in S : \E i \in 1 .. Cardinality(S) : SortedSeq(S, Before)[i] = x
<1> DEFINE r == [x \in S |-> Cardinality({y \in S : Before(y, x)})]
           R == ByteOrder(S)
<1>1. r = Places(S, R)
  <2>1. ASSUME NEW x \in S PROVE {y \in S : Before(y, x)} = {y \in S : <<y, x>> \in R}
    BY DEF ByteOrder
  <2> QED BY <2>1 DEF Places
<1>2. SortedSeq(S, Before) = ByPlace(S, R)
  <2>1. SortedSeq(S, Before) = ByRank(S, r)
    BY DEF SortedSeq
  <2> HIDE DEF r, R
  <2>2. ByRank(S, r) = PlacedBy(S, r)
    BY DEF ByRank, PlacedBy
  <2> QED BY <1>1, <2>1, <2>2 DEF ByPlace
<1>3. StrictlyOrders(R, S)
  BY BytesOrdered
<1> HIDE DEF R
<1>4. PICK f, n : f = ByPlace(S, R) /\ n = Cardinality(S)
  OBVIOUS
<1>5. /\ n \in Nat /\ f \in [1 .. n -> S]
      /\ \A i \in 1 .. n, j \in 1 .. n : i < j => <<f[i], f[j]>> \in R
      /\ \A x \in S : \E i \in 1 .. n : f[i] = x
  <2>1. /\ Cardinality(S) \in Nat
        /\ ByPlace(S, R) \in [1 .. Cardinality(S) -> S]
        /\ \A i \in 1 .. Cardinality(S), j \in 1 .. Cardinality(S) :
             i < j => <<ByPlace(S, R)[i], ByPlace(S, R)[j]>> \in R
        /\ \A x \in S : \E i \in 1 .. Cardinality(S) : ByPlace(S, R)[i] = x
    BY <1>3, OrderedByPlace
  <2> QED BY <1>4, <2>1
<1>6. Len(f) = n
  BY <1>5, FunctionLen
<1>7. ASSUME NEW i \in 1 .. n, NEW j \in 1 .. n, f[i] = f[j] PROVE i = j
  <2>1. i < j \/ j < i \/ i = j
    OBVIOUS
  <2>2. <<f[i], f[i]>> \notin R
    BY <1>3, <1>5 DEF StrictlyOrders
  <2> QED BY <1>5, <1>7, <2>1, <2>2
<1> QED BY <1>2, <1>4, <1>5, <1>6, <1>7

Texts0 == Seq(Nat \ {0})

(* A string ends at its NUL.                                               *)
LEMMA StrzAt ==
  ASSUME NEW b \in Seq(Nat), NEW at \in Nat, NEW name \in Texts0,
         at + Len(name) + 1 <= Len(b),
         \A j \in 1 .. Len(name) : b[at + j] = name[j],
         b[at + Len(name) + 1] = 0
  PROVE  /\ at <= Len(b) /\ TakeStrz(Drop(b, at)) # Err
         /\ TakeStrz(Drop(b, at))[1] = name
<1>1. PICK n \in Nat, k \in Nat : /\ n = Len(b) /\ k = Len(name) /\ at + k + 1 <= n
                                  /\ \A j \in 1 .. k : b[at + j] = name[j] /\ name[j] \in Nat \ {0}
                                  /\ b[at + k + 1] = 0
  BY LenProperties DEF Texts0
<1>2. PICK d : d = Drop(b, at)
  OBVIOUS
<1>3. d \in Seq(Nat) /\ Len(d) = n - at /\ DOMAIN d = 1 .. n - at /\ \A j \in 1 .. n - at : d[j] = b[at + j]
  <2>1. \A i \in at + 1 .. n : b[i] \in Nat
    BY <1>1
  <2>2. at + 1 \in Int /\ n \in Int /\ at + 1 <= n
    BY <1>1
  <2>3. /\ SubSeq(b, at + 1, n) \in Seq(Nat)
        /\ Len(SubSeq(b, at + 1, n)) = n - (at + 1) + 1
        /\ \A i \in 1 .. n - (at + 1) + 1 : SubSeq(b, at + 1, n)[i] = b[at + 1 + i - 1]
    BY <2>1, <2>2, SubSeqProperties
  <2>4. n - (at + 1) + 1 = n - at /\ \A i \in Int : at + 1 + i - 1 = at + i
    BY <1>1
  <2>5. d = SubSeq(b, at + 1, n)
    BY <1>1, <1>2 DEF Drop
  <2>6. d \in Seq(Nat) /\ Len(d) = n - at /\ \A j \in 1 .. n - at : d[j] = b[at + j]
    BY <2>3, <2>4, <2>5
  <2> QED BY <2>6, LenProperties
<1> DEFINE Ends == {i \in DOMAIN d : d[i] = 0}
<1>4. Min(Ends) = k + 1 /\ Ends # {}
  <2>1. k + 1 \in Ends
    <3>1. k + 1 \in 1 .. n - at /\ at + (k + 1) = at + k + 1
      BY <1>1
    <3>2. d[k + 1] = 0
      BY <1>1, <1>3, <3>1
    <3> QED BY <1>3, <3>1, <3>2
  <2>2. ASSUME NEW i \in Ends PROVE k + 1 <= i /\ i \in Int
    <3>1. i \in 1 .. n - at /\ b[at + i] = 0
      BY <1>3
    <3>2. ~(i \in 1 .. k)
      BY <1>1, <3>1
    <3> QED BY <3>1, <3>2
  <2> HIDE DEF Ends
  <2>3. Ends \subseteq Int /\ \A i \in Ends : k + 1 <= i
    BY <2>2
  <2>4. Min(Ends) = k + 1
    BY <2>1, <2>3, MinIs
  <2> QED BY <2>1, <2>4
<1>5. TakeStrz(d) = <<Take(d, k), Drop(d, k + 1)>>
  <2>1. TakeStrz(d) = IF Ends = {} THEN Err ELSE <<Take(d, Min(Ends) - 1), Drop(d, Min(Ends))>>
    BY DEF TakeStrz
  <2>2. (k + 1) - 1 = k
    OBVIOUS
  <2> HIDE DEF Ends
  <2> QED BY <1>4, <2>1, <2>2
<1>6. Take(d, k) = name
  <2>1. k \in 0 .. Len(d)
    BY <1>1, <1>3
  <2>2. PICK e : e = SubSeq(d, 1, k)
    OBVIOUS
  <2>3. e \in Seq(Nat) /\ Len(e) = k /\ \A j \in 1 .. k : e[j] = d[j]
    BY <1>3, <2>1, <2>2, FirstPart
  <2>4. \A j \in 1 .. k : e[j] = name[j]
    <3>1. \A j \in 1 .. k : j \in 1 .. n - at
      BY <1>1
    <3> QED BY <1>1, <1>3, <2>3, <3>1
  <2>5. name \in Seq(Nat)
    BY SeqMonotonic DEF Texts0
  <2>6. e = name
    BY <1>1, <2>3, <2>4, <2>5, SeqEqual
  <2> QED BY <2>2, <2>6 DEF Take
<1> QED BY <1>1, <1>2, <1>5, <1>6 DEF Err

StringsOfAll(names) == FlattenSeq([i \in DOMAIN names |-> PutStrz(names[i])])

LenBefore(names, i) == Len(FlattenSeq([j \in 1 .. i - 1 |-> PutStrz(names[j])]))

(* Where each string of a buffer begins and ends.                          *)
StringPlaces(names, L) ==
  /\ L \in [0 .. Len(names) -> Nat] /\ L[0] = 0
  /\ Len(StringsOfAll(names)) = L[Len(names)]
  /\ \A i \in 1 .. Len(names) :
       /\ L[i] = L[i - 1] + Len(names[i]) + 1 /\ L[i] <= L[Len(names)]
       /\ LenBefore(names, i) = L[i - 1]
       /\ StringsOfAll(names)[L[i]] = 0
       /\ \A j \in 1 .. Len(names[i]) : StringsOfAll(names)[L[i - 1] + j] = names[i][j]

LEMMA StringsPlaced ==
  ASSUME NEW names \in Seq(Texts0)
  PROVE  StringsOfAll(names) \in Seq(Nat) /\ \E L : StringPlaces(names, L)
<1>1. PICK n \in Nat : n = Len(names) /\ DOMAIN names = 1 .. n /\ \A i \in 1 .. n : names[i] \in Texts0
  BY LenProperties
<1> DEFINE parts == [i \in 1 .. n |-> PutStrz(names[i])]
           front(k) == [i \in 1 .. k |-> PutStrz(names[i])]
<1>2. ASSUME NEW i \in 1 .. n
      PROVE  /\ PutStrz(names[i]) \in Seq(Nat) /\ Len(PutStrz(names[i])) = Len(names[i]) + 1
             /\ Len(names[i]) \in Nat
             /\ PutStrz(names[i])[Len(names[i]) + 1] = 0
             /\ \A j \in 1 .. Len(names[i]) : PutStrz(names[i])[j] = names[i][j]
  <2>1. PICK s \in Seq(Nat) : s = names[i]
    <3>1. names[i] \in Seq(Nat)
      BY <1>1, SeqMonotonic DEF Texts0
    <3> QED BY <3>1
  <2>2. Append(s, 0) \in Seq(Nat) /\ Len(Append(s, 0)) = Len(s) + 1 /\ Len(s) \in Nat
        /\ Append(s, 0)[Len(s) + 1] = 0 /\ \A j \in 1 .. Len(s) : Append(s, 0)[j] = s[j]
    OBVIOUS
  <2> QED BY <2>1, <2>2 DEF PutStrz
<1>3. ASSUME NEW k \in 0 .. n
      PROVE  /\ front(k) \in Seq(Seq(Nat)) /\ Len(front(k)) = k
             /\ \A i \in 1 .. k : front(k)[i] = PutStrz(names[i])
  <2>1. \A i \in 1 .. k : PutStrz(names[i]) \in Seq(Nat)
    BY <1>2
  <2>2. front(k) \in [1 .. k -> Seq(Nat)]
    BY <2>1
  <2>3. front(k) \in Seq(Seq(Nat)) /\ Len(front(k)) = k
    <3> HIDE DEF front
    <3> QED BY <2>2, FunctionLen
  <2> QED BY <2>3
<1>4. parts = front(n) /\ n \in 0 .. n
  OBVIOUS
<1>5. StringsOfAll(names) = FlattenSeq(parts)
  BY <1>1 DEF StringsOfAll
<1> HIDE DEF parts, front
<1>6. parts \in Seq(Seq(Nat)) /\ Len(parts) = n /\ \A i \in 1 .. n : parts[i] = PutStrz(names[i])
  BY <1>3, <1>4
<1>7. PICK L : /\ PartStarts(parts, L) /\ Len(FlattenSeq(parts)) = L[Len(parts)]
               /\ \A i \in 1 .. Len(parts) :
                     /\ L[i] <= L[Len(parts)]
                     /\ \A j \in 1 .. Len(parts[i]) :
                          FlattenSeq(parts)[L[i - 1] + j] = parts[i][j]
  BY <1>6, FlattenSegments
<1>8. L \in [0 .. n -> Nat] /\ L[0] = 0 /\ \A i \in 1 .. n : L[i] = L[i - 1] + Len(parts[i])
  BY <1>6, <1>7 DEF PartStarts
<1>9. ASSUME NEW i \in 1 .. n PROVE LenBefore(names, i) = L[i - 1]
  <2>1. PICK k \in 0 .. n : k = i - 1
    OBVIOUS
  <2>2. LenBefore(names, i) = Len(FlattenSeq(front(k)))
    BY <2>1 DEF LenBefore, front
  <2>3. PICK M : PartStarts(front(k), M) /\ Len(FlattenSeq(front(k))) = M[Len(front(k))]
    BY <1>3, FlattenSegments
  <2>4. L[k] = M[k]
    <3>1. \A j \in 1 .. k : Len(parts[j]) = Len(front(k)[j])
      BY <1>3, <1>6
    <3>2. k \in Nat /\ k <= Len(parts) /\ k <= Len(front(k)) /\ Len(parts) \in Nat /\ Len(front(k)) \in Nat
      BY <1>3, <1>6
    <3> QED BY <1>7, <2>3, <3>1, <3>2, StartsAgree
  <2> QED BY <1>3, <2>1, <2>2, <2>3, <2>4
<1>10. ASSUME NEW i \in 1 .. n
       PROVE  /\ L[i] = L[i - 1] + Len(names[i]) + 1 /\ L[i] <= L[n]
              /\ StringsOfAll(names)[L[i]] = 0
              /\ \A j \in 1 .. Len(names[i]) : StringsOfAll(names)[L[i - 1] + j] = names[i][j]
  <2>1. PICK a \in Nat, k \in Nat : a = L[i - 1] /\ k = Len(names[i])
    <3>1. L[i - 1] \in Nat /\ Len(names[i]) \in Nat
      BY <1>2, <1>8
    <3> QED BY <3>1
  <2>2. L[i] = a + (k + 1) /\ L[i] <= L[n] /\ Len(parts[i]) = k + 1
    BY <1>2, <1>6, <1>7, <1>8, <2>1
  <2>3. \A j \in 1 .. k + 1 : StringsOfAll(names)[a + j] = PutStrz(names[i])[j]
    BY <1>5, <1>6, <1>7, <2>1, <2>2
  <2>4. k + 1 \in 1 .. k + 1 /\ \A j \in 1 .. k : j \in 1 .. k + 1
    OBVIOUS
  <2>5. a + (k + 1) = a + k + 1
    OBVIOUS
  <2> QED BY <1>2, <2>1, <2>2, <2>3, <2>4, <2>5
<1>11. StringsOfAll(names) \in Seq(Nat)
  <2>1. FlattenSeq(parts) \in Seq(Nat)
    <3>1. PICK P \in [0 .. Len(parts) -> Seq(Nat)] : FlattenSeq(parts) = P[Len(parts)]
      BY <1>6, FlattenPrefixes
    <3> QED BY <1>6, <3>1
  <2> QED BY <1>5, <2>1
<1>12. StringPlaces(names, L)
  BY <1>1, <1>5, <1>6, <1>7, <1>8, <1>9, <1>10 DEF StringPlaces
<1> QED BY <1>11, <1>12

StringsLieAt(b, at, names, L) ==
  /\ at + L[Len(names)] <= Len(b)
  /\ \A j \in 1 .. L[Len(names)] : b[at + j] = StringsOfAll(names)[j]

(* Each string of a buffer is read back from its place, with something in  *)
(* front of the buffer or behind it.                                       *)
LEMMA StringsRead ==
  ASSUME NEW names \in Seq(Texts0), NEW L, StringPlaces(names, L),
         NEW b \in Seq(Nat), NEW at \in Nat, StringsLieAt(b, at, names, L),
         NEW i \in 1 .. Len(names)
  PROVE  /\ at + L[i - 1] \in Nat /\ at + L[i - 1] <= Len(b)
         /\ TakeStrz(Drop(b, at + L[i - 1])) # Err
         /\ TakeStrz(Drop(b, at + L[i - 1]))[1] = names[i]
<1>1. PICK n \in Nat : n = Len(names) /\ names[i] \in Texts0
  BY LenProperties
<1>2. PICK p \in Nat, q \in Nat, z \in Nat, k \in Nat :
        /\ p = L[i - 1] /\ q = L[i] /\ z = L[n] /\ k = Len(names[i])
        /\ q = p + k + 1 /\ q <= z
  <2>1. L[i - 1] \in Nat /\ L[i] \in Nat /\ L[n] \in Nat
    <3>1. i - 1 \in 0 .. n /\ i \in 0 .. n /\ n \in 0 .. n
      BY <1>1
    <3> QED BY <1>1, <3>1 DEF StringPlaces
  <2>2. Len(names[i]) \in Nat
    BY <1>1, LenProperties DEF Texts0
  <2> QED BY <1>1, <2>1, <2>2 DEF StringPlaces
<1>8. q = p + k + 1 /\ q <= z
  BY <1>2
<1>3. \A j \in 1 .. z : b[at + j] = StringsOfAll(names)[j]
  BY <1>1, <1>2 DEF StringsLieAt
<1>4. ASSUME NEW j \in 1 .. k PROVE b[(at + p) + j] = names[i][j]
  <2>1. p + j \in 1 .. z /\ at + (p + j) = (at + p) + j
    BY ONLY <1>8, p \in Nat, k \in Nat, z \in Nat, q \in Nat, at \in Nat, j \in 1 .. k
  <2>2. StringsOfAll(names)[p + j] = names[i][j]
    BY <1>1, <1>2 DEF StringPlaces
  <2> QED BY <1>3, <2>1, <2>2
<1>5. b[(at + p) + k + 1] = 0
  <2>1. q \in 1 .. z /\ at + q = (at + p) + k + 1
    BY ONLY <1>8, p \in Nat, k \in Nat, z \in Nat, q \in Nat, at \in Nat
  <2>2. StringsOfAll(names)[q] = 0
    BY <1>1, <1>2 DEF StringPlaces
  <2> QED BY <1>3, <2>1, <2>2
<1>6. at + p \in Nat /\ (at + p) + k + 1 <= Len(b)
  <2>1. PICK m \in Nat : m = Len(b) /\ at + z <= m
    BY <1>1, <1>2, LenProperties DEF StringsLieAt
  <2>2. at + p \in Nat /\ (at + p) + k + 1 <= m
    BY ONLY <1>8, <2>1, p \in Nat, k \in Nat, z \in Nat, q \in Nat, at \in Nat, m \in Nat
  <2> QED BY <2>1, <2>2
<1>7. /\ at + p <= Len(b) /\ TakeStrz(Drop(b, at + p)) # Err
      /\ TakeStrz(Drop(b, at + p))[1] = names[i]
  BY <1>1, <1>2, <1>4, <1>5, <1>6, StrzAt
<1> QED BY <1>2, <1>6, <1>7

-----------------------------------------------------------------------------
(***************************************************************************)
(* Linear probing.                                                         *)
(***************************************************************************)
LEMMA FreeSlotIs ==
  ASSUME NEW size \in Nat, NEW used \in SUBSET (0 .. size - 1), Cardinality(used) < size,
         NEW home \in 0 .. size - 1
  PROVE  /\ FreeSlot(used, size, home) \in 0 .. size - 1
         /\ FreeSlot(used, size, home) \notin used
         /\ \E d \in 0 .. size - 1 :
              /\ FreeSlot(used, size, home) = (home + d) % size
              /\ \A e \in 0 .. d - 1 : (home + e) % size \in used
<1> DEFINE D == {d \in 0 .. size - 1 : (home + d) % size \notin used}
<1>1. size \in Nat \ {0}
  OBVIOUS
<1>2. D # {}
  <2>1. PICK t \in 0 .. size - 1 : t \notin used
    <3>1. ASSUME 0 .. size - 1 \subseteq used PROVE FALSE
      <4>1. used = 0 .. size - 1
        BY <3>1
      <4>2. 0 \in Int /\ size - 1 \in Int
        OBVIOUS
      <4>3. Cardinality(0 .. size - 1) = IF 0 > size - 1 THEN 0 ELSE (size - 1) - 0 + 1
        BY <4>2, FS_Interval
      <4> QED BY <1>1, <4>1, <4>3
    <3> QED BY <3>1
  <2>2. PICK d \in 0 .. size - 1 : (home + d) % size = t
    BY <1>1, ComesRound
  <2> QED BY <2>1, <2>2
<1>3. PICK m \in D : \A y \in D : m <= y
  <2>1. D \subseteq Nat
    OBVIOUS
  <2> HIDE DEF D
  <2> QED BY <1>2, <2>1, LeastOf
<1>4. \E d \in 0 .. size - 1 : (home + d) % size \notin used
                               /\ \A e \in 0 .. d - 1 : ~((home + e) % size \notin used)
  <2>1. ASSUME NEW e \in 0 .. m - 1, (home + e) % size \notin used PROVE FALSE
    <3>1. e \in D /\ ~(m <= e)
      BY <2>1
    <3> QED BY <1>3, <3>1
  <2> QED BY <1>3, <2>1
<1> DEFINE s == CHOOSE d \in 0 .. size - 1 :
                  (home + d) % size \notin used /\ \A e \in 0 .. d - 1 : ~((home + e) % size \notin used)
<1>5. s \in 0 .. size - 1 /\ (home + s) % size \notin used
      /\ \A e \in 0 .. s - 1 : (home + e) % size \in used
  BY <1>4
<1>6. FreeSlot(used, size, home) = (home + s) % size
  BY DEF FreeSlot
<1> HIDE DEF s
<1>7. (home + s) % size \in 0 .. size - 1
  BY <1>1, <1>5
<1> QED BY <1>5, <1>6, <1>7

(* One after another takes the first free slot: T says which, U which are  *)
(* used after each.                                                        *)
ProbedInto(n, size, home, T, U) ==
  /\ U[0] = {}
  /\ \A i \in 1 .. n : T[i] = FreeSlot(U[i - 1], size, home[i]) /\ U[i] = U[i - 1] \cup {T[i]}

(* Every slot from the home of i up to its own is used in the end.         *)
Reaches(i, size, home, T, used) ==
  \E d \in 0 .. size - 1 :
    T[i] = (home[i] + d) % size /\ \A e \in 0 .. d : (home[i] + e) % size \in used

LEMMA Probed ==
  ASSUME NEW n \in Nat, NEW size \in Nat, n <= size, NEW home \in [1 .. n -> 0 .. size - 1],
         NEW T, NEW U, ProbedInto(n, size, home, T, U)
  PROVE  /\ \A i \in 0 .. n : /\ U[i] \in SUBSET (0 .. size - 1) /\ Cardinality(U[i]) = i
                              /\ IsFiniteSet(U[i])
         /\ \A i \in 1 .. n : T[i] \in U[n] /\ T[i] \notin U[i - 1]
         /\ \A i \in 1 .. n, j \in 1 .. n : T[i] = T[j] => i = j
         /\ \A t \in U[n] : \E i \in 1 .. n : T[i] = t
         /\ \A i \in 1 .. n : Reaches(i, size, home, T, U[n])
<1>1. U[0] = {} /\ \A i \in 1 .. n : T[i] = FreeSlot(U[i - 1], size, home[i]) /\ U[i] = U[i - 1] \cup {T[i]}
  BY DEF ProbedInto
<1> DEFINE B == {i \in 0 .. n : /\ U[i] \in SUBSET (0 .. size - 1) /\ Cardinality(U[i]) = i
                                /\ IsFiniteSet(U[i])
                                /\ \A t \in U[i] : \E j \in 1 .. i : T[j] = t
                                /\ \A j \in 0 .. i : U[j] \subseteq U[i]}
           Free(i) == /\ T[i] \in 0 .. size - 1 /\ T[i] \notin U[i - 1]
                      /\ \E d \in 0 .. size - 1 :
                           /\ T[i] = (home[i] + d) % size
                           /\ \A e \in 0 .. d - 1 : (home[i] + e) % size \in U[i - 1]
<1>2. 0 \in B
  <2>1. U[0] = {} /\ 0 \in 0 .. n
    BY <1>1
  <2>2. Cardinality({}) = 0 /\ IsFiniteSet({})
    BY FS_EmptySet
  <2>3. \A j \in 0 .. 0 : j = 0
    OBVIOUS
  <2> QED BY <2>1, <2>2, <2>3
<1>3. ASSUME NEW i \in 1 .. n, i - 1 \in B PROVE Free(i)
  <2>1. PICK u : u = U[i - 1]
    OBVIOUS
  <2>2. u \in SUBSET (0 .. size - 1) /\ Cardinality(u) = i - 1 /\ i - 1 < size
    BY <1>3, <2>1
  <2>3. home[i] \in 0 .. size - 1 /\ Cardinality(u) < size
    BY <2>2
  <2>4. /\ FreeSlot(u, size, home[i]) \in 0 .. size - 1
        /\ FreeSlot(u, size, home[i]) \notin u
        /\ \E d \in 0 .. size - 1 :
             /\ FreeSlot(u, size, home[i]) = (home[i] + d) % size
             /\ \A e \in 0 .. d - 1 : (home[i] + e) % size \in u
    BY <2>2, <2>3, FreeSlotIs
  <2> QED BY <1>1, <2>1, <2>4
<1>4. ASSUME NEW i \in 1 .. n, i - 1 \in B PROVE i \in B
  <2>1. Free(i) /\ U[i] = U[i - 1] \cup {T[i]}
    BY <1>1, <1>3, <1>4
  <2>2. /\ U[i - 1] \in SUBSET (0 .. size - 1) /\ Cardinality(U[i - 1]) = i - 1
        /\ IsFiniteSet(U[i - 1])
        /\ \A t \in U[i - 1] : \E j \in 1 .. i - 1 : T[j] = t
        /\ \A j \in 0 .. i - 1 : U[j] \subseteq U[i - 1]
    BY <1>4
  <2>3. PICK u, t : u = U[i - 1] /\ t = T[i] /\ t \notin u
    BY <2>1
  <2>4. IsFiniteSet(u \cup {t}) /\ Cardinality(u \cup {t}) = Cardinality(u) + 1
    <3>1. IsFiniteSet(u)
      BY <2>2, <2>3
    <3>2. IsFiniteSet(u \cup {t}) /\ (IF t \in u THEN Cardinality(u \cup {t}) = Cardinality(u)
                                        ELSE Cardinality(u \cup {t}) = Cardinality(u) + 1)
      BY <3>1, FS_AddElement
    <3> QED BY <2>3, <3>2
  <2>5. Cardinality(U[i]) = i /\ IsFiniteSet(U[i])
    <3>1. (i - 1) + 1 = i
      OBVIOUS
    <3> QED BY <2>1, <2>2, <2>3, <2>4, <3>1
  <2>6. U[i] \in SUBSET (0 .. size - 1)
    BY <2>1, <2>2
  <2>7. \A x \in U[i] : \E j \in 1 .. i : T[j] = x
    <3>1. i \in 1 .. i /\ \A j \in 1 .. i - 1 : j \in 1 .. i
      OBVIOUS
    <3> QED BY <2>1, <2>2, <3>1
  <2>8. \A j \in 0 .. i : U[j] \subseteq U[i]
    <3>1. \A j \in 0 .. i : j = i \/ j \in 0 .. i - 1
      OBVIOUS
    <3> QED BY <2>1, <2>2, <3>1
  <2>9. i \in 0 .. n
    OBVIOUS
  <2> QED BY <2>5, <2>6, <2>7, <2>8, <2>9
<1>5. 0 .. n \subseteq B
  <2> HIDE DEF B
  <2> QED BY <1>2, <1>4, StepByStep
<1>6. \A i \in 0 .. n : /\ U[i] \in SUBSET (0 .. size - 1) /\ Cardinality(U[i]) = i
                        /\ IsFiniteSet(U[i])
                        /\ \A t \in U[i] : \E j \in 1 .. i : T[j] = t
                        /\ \A j \in 0 .. i : U[j] \subseteq U[i]
  BY <1>5
<1>7. \A i \in 1 .. n : Free(i)
  <2>1. \A i \in 1 .. n : i - 1 \in 0 .. n
    OBVIOUS
  <2> HIDE DEF B, Free
  <2> QED BY <1>3, <1>5, <2>1
<1> HIDE DEF B
<1>8. n \in 0 .. n /\ \A i \in 1 .. n : i \in 0 .. n /\ i - 1 \in 0 .. n
  OBVIOUS
<1>9. \A i \in 0 .. n : U[i] \subseteq U[n]
  BY <1>6, <1>8
<1>10. \A i \in 1 .. n : T[i] \in U[i] /\ T[i] \notin U[i - 1] /\ T[i] \in U[n]
  <2>1. ASSUME NEW i \in 1 .. n PROVE T[i] \in U[i] /\ T[i] \notin U[i - 1] /\ T[i] \in U[n]
    <3>1. U[i] = U[i - 1] \cup {T[i]}
      BY <1>1
    <3>2. T[i] \notin U[i - 1]
      BY <1>7
    <3>3. U[i] \subseteq U[n]
      BY <1>8, <1>9
    <3> QED BY <3>1, <3>2, <3>3
  <2> QED BY <2>1
<1>11. ASSUME NEW i \in 1 .. n, NEW j \in 1 .. n, T[i] = T[j] PROVE i = j
  <2>1. ASSUME NEW a \in 1 .. n, NEW b \in 1 .. n, a < b PROVE T[a] # T[b]
    <3>1. a \in 0 .. b - 1 /\ b - 1 \in 0 .. n
      BY <2>1
    <3>2. T[a] \in U[b - 1]
      BY <1>6, <1>10, <3>1
    <3> QED BY <1>10, <3>2
  <2>2. i < j \/ j < i \/ i = j
    OBVIOUS
  <2> QED BY <1>11, <2>1, <2>2
<1>12. ASSUME NEW i \in 1 .. n PROVE Reaches(i, size, home, T, U[n])
  <2>1. PICK d \in 0 .. size - 1 :
           T[i] = (home[i] + d) % size /\ \A e \in 0 .. d - 1 : (home[i] + e) % size \in U[i - 1]
    BY <1>7
  <2>2. ASSUME NEW e \in 0 .. d PROVE (home[i] + e) % size \in U[n]
    <3>1. CASE e = d
      BY <1>10, <2>1, <3>1
    <3>2. CASE e # d
      <4>1. e \in 0 .. d - 1
        BY <3>2
      <4> QED BY <1>8, <1>9, <2>1, <4>1
    <3> QED BY <3>1, <3>2
  <2> QED BY <2>1, <2>2 DEF Reaches
<1>13. \A t \in U[n] : \E i \in 1 .. n : T[i] = t
  BY <1>6, <1>8
<1>14. \A i \in 0 .. n : /\ U[i] \in SUBSET (0 .. size - 1) /\ Cardinality(U[i]) = i
                         /\ IsFiniteSet(U[i])
  BY <1>6
<1> QED BY <1>10, <1>11, <1>12, <1>13, <1>14

-----------------------------------------------------------------------------
(***************************************************************************)
(* The table of named streams.                                             *)
(***************************************************************************)
PutSlot(slots, slot, item) ==
  [t \in DOMAIN slots \cup {slot} |-> IF t = slot THEN item ELSE slots[t]]

NameItem(names, map, i) == [key |-> NameOffsets(names)[i], value |-> map[names[i]]]

NameHome(names, hash, i) == hash[names[i]] % HashSize(Len(names))

PutName(slots, names, map, hash, i) ==
  PutSlot(slots, FreeSlot(DOMAIN slots, HashSize(Len(names)), NameHome(names, hash, i)),
          NameItem(names, map, i))

NameSteps(h, names, map, hash) ==
  [s \in SUBSET (DOMAIN [i \in DOMAIN names |-> i]) |->
     IF s = {} THEN <<>>
     ELSE PutName(h[s \ {Max(s)}], names, map, hash, [i \in DOMAIN names |-> i][Max(s)])]

NameFold(names, map, hash) == CHOOSE h : h = NameSteps(h, names, map, hash)

NameSlots(P, names, map, hash) ==
  /\ P[0] = <<>>
  /\ \A i \in 1 .. Len(names) : P[i] = PutName(P[i - 1], names, map, hash, i)

EncodedTable(names, slots) ==
  LET Used == SortedSeq(DOMAIN slots, <)
  IN [strings |-> StringsOfAll(names), count |-> Len(names), hashSize |-> HashSize(Len(names)),
      present |-> DOMAIN slots, deleted |-> {},
      items |-> [i \in DOMAIN Used |-> slots[Used[i]]], niMac |-> 0]

(* The names are placed one after another.                                 *)
LEMMA NamesEncoded ==
  ASSUME NEW map, NEW names \in Seq(DOMAIN map), names = SortedSeq(DOMAIN map, Before),
         NEW hash, \A name \in DOMAIN map : hash[name] \in Nat
  PROVE  \E P : /\ NameSlots(P, names, map, hash)
                /\ Encode(map, hash) = EncodedTable(names, P[Len(names)])
<1>1. PICK n \in Nat : n = Len(names) /\ DOMAIN names = 1 .. n
  BY LenProperties
<1>2. PICK size \in Nat : size = HashSize(n) /\ n < size
  <2>1. HashSize(n) \in Nat /\ n < HashSize(n)
    BY DEF HashSize
  <2> QED BY <2>1
<1> DEFINE Items == {NameItem(names, map, i) : i \in 1 .. n}
           Level(m) == {D \in SUBSET (0 .. size - 1) : Cardinality(D) <= m}
           V == [m \in 0 .. n |-> UNION {[D -> Items] : D \in Level(m)}]
           next == [p \in V[n] \X (1 .. n) |-> PutName(p[1], names, map, hash, p[2])]
           g == NameFold(names, map, hash)
<1>3. ASSUME NEW D \in SUBSET (0 .. size - 1)
      PROVE  IsFiniteSet(D) /\ Cardinality(D) \in Nat
  <2>1. 0 \in Int /\ size - 1 \in Int
    OBVIOUS
  <2>2. IsFiniteSet(0 .. size - 1)
    BY <2>1, FS_Interval
  <2> QED BY <2>2, FS_Subset, FS_CardinalityType
<1>4. <<>> \in V[0]
  <2>1. {} \in Level(0)
    BY FS_EmptySet
  <2>2. <<>> \in [{} -> Items]
    <3> HIDE DEF Items
    <3> QED OBVIOUS
  <2>3. 0 \in 0 .. n
    OBVIOUS
  <2> HIDE DEF Level, Items
  <2> QED BY <2>1, <2>2, <2>3
<1>5. ASSUME NEW m \in 1 .. n PROVE V[m - 1] \subseteq V[m] /\ V[m - 1] \subseteq V[n]
  <2>1. Level(m - 1) \subseteq Level(m) /\ Level(m - 1) \subseteq Level(n)
    BY <1>3
  <2>2. m - 1 \in 0 .. n /\ m \in 0 .. n /\ n \in 0 .. n
    OBVIOUS
  <2> HIDE DEF Level, Items
  <2> QED BY <2>1, <2>2
<1>6. ASSUME NEW m \in 1 .. n, NEW v \in V[m - 1]
      PROVE  PutName(v, names, map, hash, m) \in V[m]
  <2>1. PICK D \in Level(m - 1) : v \in [D -> Items]
    <3>1. m - 1 \in 0 .. n
      OBVIOUS
    <3> HIDE DEF Level, Items
    <3> QED BY <3>1
  <2>2. D \in SUBSET (0 .. size - 1) /\ Cardinality(D) < size /\ Cardinality(D) <= m - 1
        /\ IsFiniteSet(D) /\ Cardinality(D) \in Nat
    BY <1>2, <1>3, <2>1
  <2>3. NameHome(names, hash, m) \in 0 .. size - 1
    <3>1. names[m] \in DOMAIN map
      BY <1>1
    <3>2. PICK a \in Nat : a = hash[names[m]]
      BY <3>1
    <3>3. a % size \in 0 .. size - 1
      BY <1>2
    <3> QED BY <1>1, <1>2, <3>2, <3>3 DEF NameHome
  <2>4. PICK t : t = FreeSlot(D, size, NameHome(names, hash, m))
    OBVIOUS
  <2>5. t \in 0 .. size - 1 /\ t \notin D
    BY <2>2, <2>3, <2>4, FreeSlotIs
  <2>6. Cardinality(D \cup {t}) = Cardinality(D) + 1
    <3>1. Cardinality(D \cup {t}) = IF t \in D THEN Cardinality(D) ELSE Cardinality(D) + 1
      BY <2>2, FS_AddElement
    <3> QED BY <2>5, <3>1
  <2>7. D \cup {t} \in Level(m)
    BY <2>2, <2>5, <2>6
  <2>8. PutName(v, names, map, hash, m) \in [D \cup {t} -> Items]
    <3>1. PICK item \in Items : item = NameItem(names, map, m)
      OBVIOUS
    <3>2. PutName(v, names, map, hash, m) = PutSlot(v, t, item) /\ DOMAIN v = D
      BY <1>1, <1>2, <2>1, <2>4, <3>1 DEF PutName
    <3> HIDE DEF Items
    <3> QED BY <2>1, <3>1, <3>2 DEF PutSlot
  <2>9. m \in 0 .. n
    OBVIOUS
  <2> HIDE DEF Level, Items
  <2> QED BY <2>7, <2>8, <2>9
<1>7. ASSUME NEW m \in 1 .. n, NEW v \in V[m - 1]
      PROVE  next[v, m] = PutName(v, names, map, hash, m)
  <2>1. <<v, m>> \in V[n] \X (1 .. n)
    BY <1>5
  <2> HIDE DEF V
  <2> QED BY <2>1
<1> HIDE DEF V, next
<1>8. n \in Nat /\ FoldsUpTo(n, V, <<>>, next)
  <2>1. \A m \in 1 .. n : \A v \in V[m - 1] : next[v, m] \in V[m]
    BY <1>6, <1>7
  <2> QED BY <1>4, <1>5, <2>1, Zenon DEF FoldsUpTo
<1>9. g = NameSteps(g, names, map, hash)
  <2>1. PICK h : /\ h = FoldSteps(h, n, <<>>, next)
                 /\ \A m \in 0 .. n, s \in SUBSET (1 .. n) : s \subseteq 1 .. m => h[s] \in V[m]
    <3>1. HasFoldUpTo(n, V, <<>>, next)
      BY <1>8, FoldExistsUpTo, Zenon
    <3> QED BY <3>1, Zenon DEF HasFoldUpTo
  <2>2. ASSUME NEW s \in SUBSET (1 .. n), s # {}
        PROVE  /\ Max(s) \in 1 .. n
               /\ next[h[s \ {Max(s)}], Max(s)] = PutName(h[s \ {Max(s)}], names, map, hash, Max(s))
    <3>1. PICK m : m = Max(s) /\ m \in s /\ m \in 1 .. n /\ \A y \in s : y <= m
      BY <2>2, MaxOfSome
    <3>2. s \ {m} \in SUBSET (1 .. n) /\ s \ {m} \subseteq 1 .. (m - 1) /\ m - 1 \in 0 .. n
      <4>1. ASSUME NEW y \in s \ {m} PROVE y \in 1 .. (m - 1)
        <5>1. y \in 1 .. n /\ y <= m /\ y # m
          BY <3>1
        <5> QED BY <3>1, <5>1
      <4>2. m - 1 \in 0 .. n
        BY <3>1
      <4>3. s \ {m} \in SUBSET (1 .. n)
        OBVIOUS
      <4> QED BY <4>1, <4>2, <4>3
    <3>3. h[s \ {m}] \in V[m - 1]
      <4>1. PICK r \in SUBSET (1 .. n), k \in 0 .. n : r = s \ {m} /\ k = m - 1 /\ r \subseteq 1 .. k
        BY <3>2
      <4>2. h[r] \in V[k]
        BY <2>1, <4>1
      <4> QED BY <4>1, <4>2
    <3> QED BY <1>7, <3>1, <3>3
  <2>3. h = [s \in SUBSET (1 .. n) |-> IF s = {} THEN <<>> ELSE next[h[s \ {Max(s)}], Max(s)]]
    BY <2>1 DEF FoldSteps
  <2>4. h = [s \in SUBSET (1 .. n) |->
               IF s = {} THEN <<>> ELSE PutName(h[s \ {Max(s)}], names, map, hash, Max(s))]
    BY <2>2, <2>3
  <2>5. ASSUME NEW s \in SUBSET (1 .. n), s # {}
        PROVE  PutName(h[s \ {Max(s)}], names, map, hash, Max(s))
                 = PutName(h[s \ {Max(s)}], names, map, hash, [i \in DOMAIN names |-> i][Max(s)])
    <3>1. [i \in DOMAIN names |-> i][Max(s)] = Max(s)
      BY <1>1, <2>2, <2>5
    <3> QED BY <3>1
  <2>6. DOMAIN [i \in DOMAIN names |-> i] = 1 .. n
    BY <1>1
  <2>7. h = NameSteps(h, names, map, hash)
    BY <2>4, <2>5, <2>6 DEF NameSteps
  <2> QED BY <2>7 DEF NameFold
<1>10. /\ g[{}] = <<>>
       /\ \A s \in SUBSET (1 .. n) :
            s # {} => g[s] = PutName(g[s \ {Max(s)}], names, map, hash, [i \in DOMAIN names |-> i][Max(s)])
  <2> HIDE DEF g
  <2> QED BY <1>1, <1>9 DEF NameSteps
<1> DEFINE P == [i \in 0 .. n |-> g[1 .. i]]
<1>11. P[0] = <<>> /\ P[n] = g[1 .. n]
  <2>1. 1 .. 0 = {} /\ 0 \in 0 .. n /\ n \in 0 .. n
    OBVIOUS
  <2> HIDE DEF g
  <2> QED BY <1>10, <2>1
<1>12. ASSUME NEW i \in 1 .. n PROVE P[i] = PutName(P[i - 1], names, map, hash, i)
  <2>1. 1 .. i \in SUBSET (1 .. n) /\ i \in Nat \ {0} /\ i \in 0 .. n /\ i - 1 \in 0 .. n
        /\ [k \in DOMAIN names |-> k][i] = i
    BY <1>1
  <2>2. Max(1 .. i) = i /\ (1 .. i) \ {i} = 1 .. (i - 1) /\ 1 .. i # {}
    BY <2>1, FirstIndices
  <2> HIDE DEF g
  <2>3. g[1 .. i] = PutName(g[1 .. (i - 1)], names, map, hash, i)
    BY <1>10, <2>1, <2>2
  <2>4. P[i] = g[1 .. i] /\ P[i - 1] = g[1 .. (i - 1)]
    BY <2>1
  <2> QED BY <2>3, <2>4
<1>13. Encode(map, hash) = EncodedTable(names, g[DOMAIN [i \in DOMAIN names |-> i]])
  <2>1. Encode(map, hash) =
          EncodedTable(SortedSeq(DOMAIN map, Before),
                       NameFold(SortedSeq(DOMAIN map, Before), map, hash)
                         [DOMAIN [i \in DOMAIN SortedSeq(DOMAIN map, Before) |-> i]])
    BY DEF Encode, EncodedTable, FoldLeft, MapThenFoldSet, NameFold, NameSteps, PutName, PutSlot,
       NameHome, NameItem, StringsOfAll
  <2> QED BY <2>1
<1>14. DOMAIN [i \in DOMAIN names |-> i] = 1 .. n
  BY <1>1
<1> HIDE DEF P, g
<1> QED BY <1>1, <1>11, <1>12, <1>13, <1>14 DEF NameSlots

(* The slots of the names, and what is in them.                            *)
LieIn(n, size, home, T, slots, names, map) ==
  /\ DOMAIN slots \in SUBSET (0 .. size - 1) /\ Cardinality(DOMAIN slots) = n
  /\ IsFiniteSet(DOMAIN slots)
  /\ \A t \in DOMAIN slots : \E i \in 1 .. n : T[i] = t
  /\ \A i \in 1 .. n, j \in 1 .. n : T[i] = T[j] => i = j
  /\ \A i \in 1 .. n :
       /\ T[i] \in DOMAIN slots /\ slots[T[i]] = NameItem(names, map, i)
       /\ Reaches(i, size, home, T, DOMAIN slots)

NameHomes(names, hash) == [i \in 1 .. Len(names) |-> NameHome(names, hash, i)]

NamesLieIn(T, slots, names, map, hash) ==
  LieIn(Len(names), HashSize(Len(names)), NameHomes(names, hash), T, slots, names, map)

LEMMA NamesInSlots ==
  ASSUME NEW map, NEW names \in Seq(DOMAIN map), NEW hash,
         \A name \in DOMAIN map : hash[name] \in Nat,
         NEW P, NameSlots(P, names, map, hash)
  PROVE  \E T : NamesLieIn(T, P[Len(names)], names, map, hash)
<1>1. PICK n \in Nat : n = Len(names) /\ DOMAIN names = 1 .. n
  BY LenProperties
<1>2. PICK size \in Nat : size = HashSize(n) /\ n < size
  <2>1. HashSize(n) \in Nat /\ n < HashSize(n)
    BY DEF HashSize
  <2> QED BY <2>1
<1>3. PICK home : home = NameHomes(names, hash)
  OBVIOUS
<1>4. home \in [1 .. n -> 0 .. size - 1] /\ \A i \in 1 .. n : home[i] = NameHome(names, hash, i)
  <2>1. ASSUME NEW i \in 1 .. n PROVE NameHome(names, hash, i) \in 0 .. size - 1
    <3>1. names[i] \in DOMAIN map
      BY <1>1
    <3>2. PICK a \in Nat : a = hash[names[i]]
      BY <3>1
    <3>3. a % size \in 0 .. size - 1
      BY <1>2
    <3> QED BY <1>1, <1>2, <3>2, <3>3 DEF NameHome
  <2> QED BY <1>1, <1>3, <2>1 DEF NameHomes
<1> DEFINE T == [i \in 1 .. n |-> FreeSlot(DOMAIN P[i - 1], size, home[i])]
           U == [i \in 0 .. n |-> DOMAIN P[i]]
<1>5. ASSUME NEW i \in 1 .. n
      PROVE  P[i] = PutSlot(P[i - 1], T[i], NameItem(names, map, i))
  BY <1>1, <1>2, <1>4 DEF NameSlots, PutName
<1>6. \A i \in 0 .. n : U[i] = DOMAIN P[i]
  OBVIOUS
<1>7. \A i \in 1 .. n : T[i] = FreeSlot(U[i - 1], size, home[i])
  <2>1. \A i \in 1 .. n : i - 1 \in 0 .. n
    OBVIOUS
  <2> HIDE DEF U
  <2> QED BY <1>6, <2>1
<1> HIDE DEF T, U
<1>8. ProbedInto(n, size, home, T, U)
  <2>1. U[0] = {}
    <3>1. P[0] = <<>> /\ 0 \in 0 .. n
      BY DEF NameSlots
    <3> QED BY <1>6, <3>1
  <2>2. ASSUME NEW i \in 1 .. n PROVE U[i] = U[i - 1] \cup {T[i]}
    <3>1. i \in 0 .. n /\ i - 1 \in 0 .. n
      OBVIOUS
    <3> QED BY <1>5, <1>6, <3>1 DEF PutSlot
  <2> QED BY <1>7, <2>1, <2>2 DEF ProbedInto
<1>9. /\ \A i \in 0 .. n : /\ U[i] \in SUBSET (0 .. size - 1) /\ Cardinality(U[i]) = i
                           /\ IsFiniteSet(U[i])
      /\ \A i \in 1 .. n : T[i] \in U[n] /\ T[i] \notin U[i - 1]
      /\ \A i \in 1 .. n, j \in 1 .. n : T[i] = T[j] => i = j
      /\ \A t \in U[n] : \E i \in 1 .. n : T[i] = t
      /\ \A i \in 1 .. n : Reaches(i, size, home, T, U[n])
  <2>1. n <= size
    BY <1>2
  <2> QED BY <1>4, <1>8, <2>1, Probed
<1> DEFINE B == {k \in 0 .. n : \A i \in 1 .. k : T[i] \in U[k] /\ P[k][T[i]] = NameItem(names, map, i)}
<1>10. 0 \in B /\ \A k \in 1 .. n : k - 1 \in B => k \in B
  <2>1. 0 \in B
    OBVIOUS
  <2>2. ASSUME NEW k \in 1 .. n, k - 1 \in B PROVE k \in B
    <3>1. k \in 0 .. n /\ k - 1 \in 0 .. n /\ U[k] = U[k - 1] \cup {T[k]} /\ DOMAIN P[k - 1] = U[k - 1]
      <4>1. k \in 0 .. n /\ k - 1 \in 0 .. n
        OBVIOUS
      <4> QED BY <1>6, <1>8, <4>1 DEF ProbedInto
    <3>2. \A t \in U[k] : P[k][t] = IF t = T[k] THEN NameItem(names, map, k) ELSE P[k - 1][t]
      <4>1. PICK v, t, item : v = P[k - 1] /\ t = T[k] /\ item = NameItem(names, map, k)
        OBVIOUS
      <4>2. P[k] = PutSlot(v, t, item) /\ U[k] = DOMAIN v \cup {t}
        BY <1>5, <3>1, <4>1
      <4>3. P[k] = [x \in U[k] |-> IF x = t THEN item ELSE v[x]]
        BY <4>2 DEF PutSlot
      <4> QED BY <4>1, <4>3
    <3>3. ASSUME NEW i \in 1 .. k PROVE T[i] \in U[k] /\ P[k][T[i]] = NameItem(names, map, i)
      <4>1. CASE i = k
        BY <3>1, <3>2, <4>1
      <4>2. CASE i # k
        <5>1. i \in 1 .. k - 1 /\ i \in 1 .. n
          BY <4>2
        <5>2. T[i] \in U[k - 1] /\ P[k - 1][T[i]] = NameItem(names, map, i)
          BY <2>2, <5>1
        <5>3. T[i] # T[k]
          BY <1>9, <4>2, <5>1
        <5> QED BY <3>1, <3>2, <5>2, <5>3
      <4> QED BY <4>1, <4>2
    <3> QED BY <3>1, <3>3
  <2> QED BY <2>1, <2>2
<1>11. 0 .. n \subseteq B
  <2> HIDE DEF B
  <2> QED BY <1>10, StepByStep
<1>12. \A i \in 1 .. n : P[n][T[i]] = NameItem(names, map, i)
  <2>1. n \in B
    BY <1>11
  <2> QED BY <2>1
<1>13. U[n] = DOMAIN P[n] /\ n \in 0 .. n
  BY <1>6
<1>14. HashSize(Len(names)) = size
  BY <1>1, <1>2
<1> HIDE DEF B
<1>15. PICK u : u = U[n] /\ u = DOMAIN P[n]
  BY <1>13
<1>16. /\ u \in SUBSET (0 .. size - 1) /\ Cardinality(u) = n /\ IsFiniteSet(u)
       /\ \A t \in u : \E i \in 1 .. n : T[i] = t
       /\ \A i \in 1 .. n, j \in 1 .. n : T[i] = T[j] => i = j
       /\ \A i \in 1 .. n : T[i] \in u /\ P[n][T[i]] = NameItem(names, map, i)
                            /\ Reaches(i, size, home, T, u)
  <2>1. /\ u \in SUBSET (0 .. size - 1) /\ Cardinality(u) = n /\ IsFiniteSet(u)
        /\ \A i \in 1 .. n : T[i] \in u /\ Reaches(i, size, home, T, u)
    BY <1>9, <1>13, <1>15
  <2>2. /\ \A t \in u : \E i \in 1 .. n : T[i] = t
        /\ \A i \in 1 .. n, j \in 1 .. n : T[i] = T[j] => i = j
    BY <1>9, <1>15
  <2> QED BY <1>12, <2>1, <2>2
<1>17. NamesLieIn(T, P[n], names, map, hash)
  <2>1. PICK slots : slots = P[n] /\ u = DOMAIN slots
    BY <1>15
  <2>2. \A i \in 1 .. n : /\ T[i] \in DOMAIN slots /\ slots[T[i]] = NameItem(names, map, i)
                           /\ Reaches(i, size, home, T, DOMAIN slots)
    BY <1>16, <2>1
  <2>3. /\ DOMAIN slots \in SUBSET (0 .. size - 1) /\ Cardinality(DOMAIN slots) = n
        /\ IsFiniteSet(DOMAIN slots)
        /\ \A t \in DOMAIN slots : \E i \in 1 .. n : T[i] = t
        /\ \A i \in 1 .. n, j \in 1 .. n : T[i] = T[j] => i = j
    BY <1>16, <2>1
  <2>4. LieIn(n, size, home, T, slots, names, map)
    BY <2>2, <2>3, Zenon DEF LieIn
  <2> QED BY <1>1, <1>3, <1>14, <2>1, <2>4 DEF NamesLieIn
<1> QED BY <1>1, <1>17

(* The place of a number is how many there are up to it.                   *)
LEMMA RankInSorted ==
  ASSUME NEW S, IsFiniteSet(S), S \subseteq Int, NEW k \in 1 .. Cardinality(S)
  PROVE  Cardinality({p \in S : p <= SortedSeq(S, <)[k]}) = k
<1>1. PICK f, n : f = SortedSeq(S, <) /\ n = Cardinality(S)
  OBVIOUS
<1>2. /\ n \in Nat /\ f \in [1 .. n -> S]
      /\ \A i \in 1 .. n, j \in 1 .. n : i < j => f[i] < f[j]
      /\ \A x \in S : \E i \in 1 .. n : f[i] = x
  BY <1>1, SortedNumbers
<1> DEFINE Z == {p \in S : p <= f[k]}
           g == [i \in 1 .. k |-> f[i]]
<1>3. k \in 1 .. n /\ k \in Nat /\ n \in Nat
  <2>1. n = Cardinality(S) /\ n \in Nat
    BY <1>1, <1>2
  <2>2. k \in 1 .. n
    BY <2>1
  <2> QED BY <2>1, <2>2
<1>4. g \in Bijection(1 .. k, Z)
  <2>1. ASSUME NEW i \in 1 .. k PROVE f[i] \in Z
    <3>1. i \in 1 .. n /\ (i < k \/ i = k)
      BY <1>3
    <3>2. f[i] \in Int /\ f[k] \in Int
      BY <1>2, <1>3, <3>1
    <3>3. f[i] < f[k] \/ f[i] = f[k]
      BY <1>2, <1>3, <3>1
    <3> QED BY <1>2, <3>1, <3>2, <3>3
  <2>2. ASSUME NEW i \in 1 .. k, NEW j \in 1 .. k, f[i] = f[j] PROVE i = j
    <3>1. i \in 1 .. n /\ j \in 1 .. n /\ (i < j \/ j < i \/ i = j)
      BY <1>3
    <3>2. f[i] \in Int /\ f[j] \in Int
      BY <1>2, <3>1
    <3>3. ~(f[i] < f[j]) /\ ~(f[j] < f[i])
      BY <2>2, <3>2
    <3> QED BY <1>2, <3>1, <3>3
  <2>3. ASSUME NEW p \in Z PROVE \E i \in 1 .. k : f[i] = p
    <3>1. PICK i \in 1 .. n : f[i] = p
      BY <1>2
    <3>2. f[i] \in Int /\ f[k] \in Int /\ f[i] <= f[k]
      BY <1>2, <1>3, <3>1
    <3>3. ~(k < i)
      <4>1. k < i => f[k] < f[i]
        BY <1>2, <1>3
      <4> QED BY <3>2, <4>1
    <3>4. i \in 1 .. k
      BY <1>3, <3>3
    <3> QED BY <3>1, <3>4
  <2> HIDE DEF Z
  <2> QED BY <2>1, <2>2, <2>3 DEF Bijection, Injection, Surjection, IsInjective
<1> HIDE DEF Z, g
<1>5. ExistsBijection(1 .. k, Z)
  BY <1>4 DEF ExistsBijection
<1>6. IsFiniteSet(1 .. k) /\ Cardinality(1 .. k) = k
  <2>1. 1 \in Int /\ k \in Int
    BY <1>3
  <2> QED BY <1>3, <2>1, FS_Interval
<1>7. Cardinality(Z) = k
  BY <1>5, <1>6, FS_Bijection
<1> QED BY <1>1, <1>7 DEF Z

(* Which name each of the items is of: item k is that of name J[k].        *)
ItemsAre(J, n, T, used, slots) ==
  /\ J \in [1 .. n -> 1 .. n] /\ DOMAIN used = 1 .. n /\ Len(used) = n
  /\ \A k \in 1 .. n : used[k] = T[J[k]] /\ Cardinality({p \in slots : p <= T[J[k]]}) = k
  /\ \A i \in 1 .. n : \E k \in 1 .. n : J[k] = i
  /\ \A k \in 1 .. n, l \in 1 .. n : J[k] = J[l] => k = l

LEMMA ItemsInOrder ==
  ASSUME NEW n \in Nat, NEW size \in Nat, NEW home, NEW T, NEW slots, NEW names, NEW map,
         LieIn(n, size, home, T, slots, names, map)
  PROVE  \E J : ItemsAre(J, n, T, SortedSeq(DOMAIN slots, <), DOMAIN slots)
<1>1. PICK D, f : D = DOMAIN slots /\ f = SortedSeq(D, <)
  OBVIOUS
<1>2. /\ D \subseteq Int /\ IsFiniteSet(D) /\ Cardinality(D) = n
      /\ \A t \in D : \E i \in 1 .. n : T[i] = t
      /\ \A i \in 1 .. n, j \in 1 .. n : T[i] = T[j] => i = j
      /\ \A i \in 1 .. n : T[i] \in D
  <2>1. D \in SUBSET (0 .. size - 1)
    BY <1>1 DEF LieIn
  <2>2. D \subseteq Int
    BY <2>1
  <2> QED BY <1>1, <2>2 DEF LieIn
<1>3. /\ f \in [1 .. n -> D] /\ Len(f) = n
      /\ \A i \in 1 .. n, j \in 1 .. n : i < j => f[i] < f[j]
      /\ \A x \in D : \E i \in 1 .. n : f[i] = x
  <2>1. /\ SortedSeq(D, <) \in [1 .. Cardinality(D) -> D]
        /\ Len(SortedSeq(D, <)) = Cardinality(D)
        /\ \A i \in 1 .. Cardinality(D), j \in 1 .. Cardinality(D) :
             i < j => SortedSeq(D, <)[i] < SortedSeq(D, <)[j]
        /\ \A x \in D : \E i \in 1 .. Cardinality(D) : SortedSeq(D, <)[i] = x
    BY <1>2, SortedNumbers
  <2>2. SortedSeq(D, <) = f /\ Cardinality(D) = n
    BY <1>1, <1>2
  <2> QED BY <2>1, <2>2
<1>4. ASSUME NEW k \in 1 .. n PROVE Cardinality({p \in D : p <= f[k]}) = k
  <2>1. IsFiniteSet(D) /\ D \subseteq Int /\ k \in 1 .. Cardinality(D)
    BY <1>2
  <2>2. Cardinality({p \in D : p <= SortedSeq(D, <)[k]}) = k
    BY <2>1, RankInSorted
  <2> QED BY <1>1, <2>2
<1> DEFINE J == [k \in 1 .. n |-> CHOOSE i \in 1 .. n : T[i] = f[k]]
<1>5. ASSUME NEW k \in 1 .. n PROVE J[k] \in 1 .. n /\ T[J[k]] = f[k]
  BY <1>2, <1>3
<1>6. J \in [1 .. n -> 1 .. n]
  BY <1>5
<1> HIDE DEF J
<1>7. ASSUME NEW i \in 1 .. n PROVE \E k \in 1 .. n : J[k] = i
  <2>1. PICK k \in 1 .. n : f[k] = T[i]
    BY <1>2, <1>3
  <2>2. J[k] \in 1 .. n /\ T[J[k]] = T[i]
    BY <1>5, <2>1
  <2> QED BY <1>2, <2>2
<1>8. ASSUME NEW k \in 1 .. n, NEW l \in 1 .. n, J[k] = J[l] PROVE k = l
  <2>1. f[k] = f[l] /\ f[k] \in Int
    BY <1>2, <1>3, <1>5, <1>8
  <2>2. k < l \/ l < k \/ k = l
    OBVIOUS
  <2>3. ~(f[k] < f[l]) /\ ~(f[l] < f[k])
    BY <2>1
  <2> QED BY <1>3, <2>2, <2>3
<1>9. \A k \in 1 .. n : f[k] = T[J[k]] /\ Cardinality({p \in D : p <= T[J[k]]}) = k
  BY <1>4, <1>5
<1>10. DOMAIN f = 1 .. n
  BY <1>3
<1>11. ItemsAre(J, n, T, f, D)
  BY <1>3, <1>6, <1>7, <1>8, <1>9, <1>10 DEF ItemsAre
<1> QED BY <1>1, <1>11

NameRead(b, key) == IF key > Len(b) THEN Err ELSE TakeStrz(Drop(b, key))

(* Each name is read back at the key of its item.                          *)
LEMMA KeysRead ==
  ASSUME NEW names \in Seq(Texts0), NEW map, NEW i \in 1 .. Len(names)
  PROVE  /\ NameItem(names, map, i).key <= Len(StringsOfAll(names))
         /\ TakeStrz(Drop(StringsOfAll(names), NameItem(names, map, i).key))[1] = names[i]
         /\ NameRead(StringsOfAll(names), NameItem(names, map, i).key) # Err
         /\ NameRead(StringsOfAll(names), NameItem(names, map, i).key)[1] = names[i]
         /\ NameItem(names, map, i).value = map[names[i]]
<1>1. StringsOfAll(names) \in Seq(Nat) /\ \E L : StringPlaces(names, L)
  BY StringsPlaced
<1>2. PICK L : StringPlaces(names, L)
  BY <1>1
<1>3. PICK n \in Nat, b \in Seq(Nat), m \in Nat :
        n = Len(names) /\ b = StringsOfAll(names) /\ m = Len(b) /\ m = L[n] /\ DOMAIN names = 1 .. n
  BY <1>1, <1>2, LenProperties DEF StringPlaces
<1>4. StringsLieAt(b, 0, names, L)
  <2>1. 0 + m <= m
    OBVIOUS
  <2>2. \A j \in 1 .. m : 0 + j = j
    OBVIOUS
  <2> QED BY <1>3, <2>1, <2>2 DEF StringsLieAt
<1>5. 0 \in Nat /\ i \in 1 .. Len(names)
  OBVIOUS
<1>6. /\ 0 + L[i - 1] \in Nat /\ 0 + L[i - 1] <= Len(b)
      /\ TakeStrz(Drop(b, 0 + L[i - 1])) # Err
      /\ TakeStrz(Drop(b, 0 + L[i - 1]))[1] = names[i]
  BY ONLY <1>2, <1>4, <1>5, names \in Seq(Texts0), b \in Seq(Nat), i \in 1 .. Len(names), StringsRead
<1>7. PICK p \in Nat : p = L[i - 1] /\ 0 + L[i - 1] = p
  <2>1. i - 1 \in 0 .. n
    BY <1>3
  <2>2. L[i - 1] \in Nat
    BY <1>2, <1>3, <2>1 DEF StringPlaces
  <2> QED BY <2>2
<1>8. NameItem(names, map, i).key = p /\ NameItem(names, map, i).value = map[names[i]]
  <2>1. NameOffsets(names)[i] = LenBefore(names, i)
    BY <1>3 DEF NameOffsets, LenBefore
  <2>2. LenBefore(names, i) = p
    BY <1>2, <1>7 DEF StringPlaces
  <2> QED BY <2>1, <2>2 DEF NameItem
<1>9. p <= m /\ ~(p > m)
  BY <1>3, <1>6, <1>7
<1> QED BY <1>3, <1>6, <1>7, <1>8, <1>9 DEF NameRead

(* What the items of a table say, and in which order they stand.           *)
TableIs(n, size, home, present, items, names, map, T, J) ==
  /\ present \in SUBSET (0 .. size - 1) /\ Cardinality(present) = n
  /\ DOMAIN items = 1 .. n /\ Len(items) = n
  /\ J \in [1 .. n -> 1 .. n]
  /\ \A i \in 1 .. n : \E k \in 1 .. n : J[k] = i
  /\ \A k \in 1 .. n, l \in 1 .. n : J[k] = J[l] => k = l
  /\ \A k \in 1 .. n :
       /\ items[k] = NameItem(names, map, J[k])
       /\ T[J[k]] \in present /\ Cardinality({p \in present : p <= T[J[k]]}) = k
       /\ Reaches(J[k], size, home, T, present)

TableOf(t, names, map, hash, T, J) ==
  /\ t.strings = StringsOfAll(names) /\ t.count = Len(names)
  /\ t.hashSize = HashSize(Len(names))
  /\ TableIs(Len(names), HashSize(Len(names)), NameHomes(names, hash), t.present, t.items,
             names, map, T, J)

LEMMA TableEncoded ==
  ASSUME NEW map, NEW names \in Seq(DOMAIN map), names = SortedSeq(DOMAIN map, Before),
         NEW hash, \A name \in DOMAIN map : hash[name] \in Nat
  PROVE  \E T, J : TableOf(Encode(map, hash), names, map, hash, T, J)
<1>1. PICK n \in Nat, size \in Nat : n = Len(names) /\ size = HashSize(Len(names))
  <2>1. Len(names) \in Nat
    BY LenProperties
  <2>2. HashSize(Len(names)) \in Nat
    BY <2>1 DEF HashSize
  <2> QED BY <2>1, <2>2
<1>2. PICK P : NameSlots(P, names, map, hash) /\ Encode(map, hash) = EncodedTable(names, P[Len(names)])
  BY NamesEncoded
<1>3. PICK T : NamesLieIn(T, P[Len(names)], names, map, hash)
  BY <1>2, NamesInSlots
<1>4. PICK slots, home, D : slots = P[Len(names)] /\ home = NameHomes(names, hash) /\ D = DOMAIN slots
  OBVIOUS
<1>5. LieIn(n, size, home, T, slots, names, map)
  BY <1>1, <1>3, <1>4 DEF NamesLieIn
<1>6. PICK J : ItemsAre(J, n, T, SortedSeq(DOMAIN slots, <), DOMAIN slots)
  BY <1>5, ItemsInOrder
<1>7. PICK used : used = SortedSeq(DOMAIN slots, <)
  OBVIOUS
<1>8. PICK items : items = [i \in DOMAIN used |-> slots[used[i]]]
  OBVIOUS
<1>9. ItemsAre(J, n, T, used, D)
  BY <1>4, <1>6, <1>7
<1>10. PICK t : t = Encode(map, hash)
  OBVIOUS
<1>11. /\ t.strings = StringsOfAll(names) /\ t.count = n /\ t.hashSize = size /\ t.present = D
       /\ t.items = items
  <2>1. t = EncodedTable(names, slots)
    BY <1>2, <1>4, <1>10
  <2>2. t = [strings |-> StringsOfAll(names), count |-> Len(names), hashSize |-> HashSize(Len(names)),
             present |-> DOMAIN slots, deleted |-> {},
             items |-> [i \in DOMAIN SortedSeq(DOMAIN slots, <) |-> slots[SortedSeq(DOMAIN slots, <)[i]]],
             niMac |-> 0]
    BY <2>1 DEF EncodedTable
  <2>3. [i \in DOMAIN SortedSeq(DOMAIN slots, <) |-> slots[SortedSeq(DOMAIN slots, <)[i]]] = items
    BY <1>7, <1>8
  <2>4. /\ t.strings = StringsOfAll(names) /\ t.count = Len(names)
        /\ t.hashSize = HashSize(Len(names)) /\ t.present = DOMAIN slots
        /\ t.items = [i \in DOMAIN SortedSeq(DOMAIN slots, <) |-> slots[SortedSeq(DOMAIN slots, <)[i]]]
    BY <2>2
  <2> QED BY <1>1, <1>4, <2>3, <2>4
<1>12. D \in SUBSET (0 .. size - 1) /\ Cardinality(D) = n
  BY <1>4, <1>5 DEF LieIn
<1>13. ASSUME NEW i \in 1 .. n
       PROVE  T[i] \in D /\ slots[T[i]] = NameItem(names, map, i) /\ Reaches(i, size, home, T, D)
  BY <1>4, <1>5 DEF LieIn
<1>14. /\ J \in [1 .. n -> 1 .. n] /\ DOMAIN used = 1 .. n
       /\ \A k \in 1 .. n : used[k] = T[J[k]] /\ Cardinality({p \in D : p <= T[J[k]]}) = k
       /\ \A i \in 1 .. n : \E k \in 1 .. n : J[k] = i
       /\ \A k \in 1 .. n, l \in 1 .. n : J[k] = J[l] => k = l
  BY <1>9 DEF ItemsAre
<1>15. DOMAIN items = 1 .. n /\ \A k \in 1 .. n : items[k] = NameItem(names, map, J[k])
  BY <1>8, <1>13, <1>14
<1>16. Len(items) = n
  <2>1. items \in [1 .. n -> {items[k] : k \in 1 .. n}]
    BY <1>8, <1>15
  <2> DEFINE S == {items[k] : k \in 1 .. n}
  <2> HIDE DEF S
  <2>2. items \in [1 .. n -> S]
    BY <2>1 DEF S
  <2> QED BY <2>2, FunctionLen
<1>17. \A k \in 1 .. n : /\ items[k] = NameItem(names, map, J[k]) /\ T[J[k]] \in D
                         /\ Cardinality({p \in D : p <= T[J[k]]}) = k
                         /\ Reaches(J[k], size, home, T, D)
  BY <1>13, <1>14, <1>15
<1>18. TableOf(t, names, map, hash, T, J)
  <2>1. TableIs(n, size, home, D, items, names, map, T, J)
    BY <1>12, <1>14, <1>15, <1>16, <1>17, Zenon DEF TableIs
  <2> QED BY <1>1, <1>4, <1>11, <2>1 DEF TableOf
<1> QED BY <1>10, <1>18

(* The names of a map, each once, in a sequence.                           *)
NameSeq(map, names) ==
  /\ map = [name \in DOMAIN map |-> map[name]]
  /\ DOMAIN map \in SUBSET Texts0 /\ names \in Seq(DOMAIN map)
  /\ \A i \in 1 .. Len(names), j \in 1 .. Len(names) : names[i] = names[j] => i = j
  /\ \A name \in DOMAIN map : \E i \in 1 .. Len(names) : names[i] = name

LEMMA TableDecoded ==
  ASSUME NEW map, NEW names, NameSeq(map, names), NEW hash,
         NEW t, NEW T, NEW J, TableOf(t, names, map, hash, T, J)
  PROVE  Decode(t) = <<map>>
<1>1. PICK n \in Nat : n = Len(names) /\ DOMAIN names = 1 .. n /\ names \in Seq(Texts0)
  <2>1. names \in Seq(Texts0) /\ names \in Seq(DOMAIN map)
    BY SeqMonotonic DEF NameSeq
  <2> QED BY <2>1, LenProperties
<1>2. /\ Cardinality(t.present) = n /\ DOMAIN t.items = 1 .. n /\ Len(t.items) = n /\ t.count = n
      /\ J \in [1 .. n -> 1 .. n]
      /\ \A i \in 1 .. n : \E k \in 1 .. n : J[k] = i
      /\ \A k \in 1 .. n, l \in 1 .. n : J[k] = J[l] => k = l
      /\ \A k \in 1 .. n : t.items[k] = NameItem(names, map, J[k])
  BY <1>1 DEF TableOf, TableIs
<1> DEFINE Read(k) == NameRead(t.strings, t.items[k].key)
<1>3. ASSUME NEW k \in 1 .. n
      PROVE  Read(k) # Err /\ Read(k)[1] = names[J[k]] /\ t.items[k].value = map[names[J[k]]]
  <2>1. J[k] \in 1 .. Len(names)
    BY <1>1, <1>2
  <2>2. /\ NameRead(StringsOfAll(names), NameItem(names, map, J[k]).key) # Err
        /\ NameRead(StringsOfAll(names), NameItem(names, map, J[k]).key)[1] = names[J[k]]
        /\ NameItem(names, map, J[k]).value = map[names[J[k]]]
    BY <1>1, <2>1, KeysRead
  <2>3. t.strings = StringsOfAll(names) /\ t.items[k] = NameItem(names, map, J[k])
    BY <1>2 DEF TableOf
  <2> QED BY <2>2, <2>3
<1> DEFINE Of(name) == {k \in DOMAIN t.items : Read(k)[1] = name}
<1>4. Decode(t) =
        IF \/ Cardinality(t.present) # t.count \/ Len(t.items) < t.count
           \/ \E k \in DOMAIN t.items : Read(k) = Err
        THEN Err
        ELSE <<[name \in {Read(k)[1] : k \in DOMAIN t.items} |-> t.items[Min(Of(name))].value]>>
  BY DEF Decode, NameRead
<1>5. Decode(t) = <<[name \in {Read(k)[1] : k \in DOMAIN t.items} |-> t.items[Min(Of(name))].value]>>
  <2>1. ~(Cardinality(t.present) # t.count) /\ ~(Len(t.items) < t.count)
    BY <1>2
  <2>2. ~(\E k \in DOMAIN t.items : Read(k) = Err)
    <3> HIDE DEF Read
    <3> QED BY <1>2, <1>3
  <2> HIDE DEF Read, Of
  <2> QED BY <1>4, <2>1, <2>2
<1> HIDE DEF Read
<1>6. {Read(k)[1] : k \in DOMAIN t.items} = DOMAIN map
  <2>1. ASSUME NEW k \in DOMAIN t.items PROVE Read(k)[1] \in DOMAIN map
    <3>1. k \in 1 .. n /\ J[k] \in 1 .. n
      BY <1>2
    <3>2. names[J[k]] \in DOMAIN map
      BY <1>1, <3>1 DEF NameSeq
    <3> QED BY <1>3, <3>1, <3>2
  <2>2. ASSUME NEW name \in DOMAIN map PROVE \E k \in DOMAIN t.items : Read(k)[1] = name
    <3>1. PICK i \in 1 .. n : names[i] = name
      BY <1>1 DEF NameSeq
    <3>2. PICK k \in 1 .. n : J[k] = i
      BY <1>2
    <3> QED BY <1>2, <1>3, <3>1, <3>2
  <2> QED BY <2>1, <2>2
<1>7. ASSUME NEW name \in DOMAIN map PROVE t.items[Min(Of(name))].value = map[name]
  <2>1. PICK k \in 1 .. n : Read(k)[1] = name /\ names[J[k]] = name
    <3>1. PICK k \in DOMAIN t.items : Read(k)[1] = name
      BY <1>6
    <3> QED BY <1>2, <1>3, <3>1
  <2>2. ASSUME NEW l \in Of(name) PROVE l = k
    <3>1. l \in 1 .. n /\ names[J[l]] = name /\ J[l] \in 1 .. n /\ J[k] \in 1 .. n
      BY <1>2, <1>3
    <3>2. J[l] = J[k]
      BY <1>1, <2>1, <3>1 DEF NameSeq
    <3> QED BY <1>2, <3>1, <3>2
  <2>3. k \in Of(name)
    BY <1>2, <2>1
  <2>4. Min(Of(name)) = k
    <3>1. Of(name) \subseteq Int /\ \A l \in Of(name) : k <= l
      BY <2>2
    <3> HIDE DEF Of
    <3> QED BY <2>3, <3>1, MinIs
  <2> QED BY <1>3, <2>1, <2>4
<1> HIDE DEF Of
<1>8. [name \in {Read(k)[1] : k \in DOMAIN t.items} |-> t.items[Min(Of(name))].value] = map
  <2>1. map = [name \in DOMAIN map |-> map[name]]
    BY DEF NameSeq
  <2>2. [name \in DOMAIN map |-> t.items[Min(Of(name))].value] = [name \in DOMAIN map |-> map[name]]
    BY <1>7
  <2> QED BY <1>6, <2>1, <2>2
<1> QED BY <1>5, <1>8

LEMMA TableProbed ==
  ASSUME NEW map, NEW names, NameSeq(map, names),
         NEW hash, \A name \in DOMAIN map : hash[name] \in Nat,
         NEW t, NEW T, NEW J, TableOf(t, names, map, hash, T, J)
  PROVE  /\ \A name \in DOMAIN map : FoundByProbing(t, name, hash)
         /\ t.present # 0 .. t.hashSize - 1
<1>1. PICK n \in Nat : n = Len(names) /\ DOMAIN names = 1 .. n /\ names \in Seq(Texts0)
  <2>1. names \in Seq(Texts0) /\ names \in Seq(DOMAIN map)
    BY SeqMonotonic DEF NameSeq
  <2> QED BY <2>1, LenProperties
<1>2. PICK size \in Nat \ {0} : size = HashSize(n) /\ n < size
  <2>1. HashSize(n) \in Nat /\ n < HashSize(n)
    BY DEF HashSize
  <2> QED BY <2>1
<1>3. PICK home, D : home = NameHomes(names, hash) /\ D = t.present
  OBVIOUS
<1>4. /\ t.hashSize = size /\ t.strings = StringsOfAll(names)
      /\ TableIs(n, size, home, D, t.items, names, map, T, J)
  BY <1>1, <1>2, <1>3 DEF TableOf
<1>5. t.present # 0 .. t.hashSize - 1
  <2>1. 0 \in Int /\ size - 1 \in Int
    OBVIOUS
  <2>2. Cardinality(0 .. size - 1) = IF 0 > size - 1 THEN 0 ELSE (size - 1) - 0 + 1
    BY <2>1, FS_Interval
  <2>3. Cardinality(0 .. size - 1) = size /\ size # n
    BY <1>2, <2>2
  <2>4. Cardinality(D) = n
    BY <1>4 DEF TableIs
  <2> QED BY <1>3, <1>4, <2>3, <2>4
<1>6. ASSUME NEW name \in DOMAIN map PROVE FoundByProbing(t, name, hash)
  <2>1. PICK i \in 1 .. n : names[i] = name
    BY <1>1 DEF NameSeq
  <2>2. PICK k \in 1 .. n :
          /\ J[k] = i /\ t.items[k] = NameItem(names, map, i) /\ T[i] \in D
          /\ Cardinality({p \in D : p <= T[i]}) = k /\ Reaches(i, size, home, T, D)
    <3>1. PICK k \in 1 .. n : J[k] = i
      BY <1>4 DEF TableIs
    <3>2. /\ t.items[k] = NameItem(names, map, J[k]) /\ T[J[k]] \in D
          /\ Cardinality({p \in D : p <= T[J[k]]}) = k /\ Reaches(J[k], size, home, T, D)
      BY <1>4 DEF TableIs
    <3> QED BY <3>1, <3>2
  <2>3. PICK d \in 0 .. size - 1 :
          T[i] = (home[i] + d) % size /\ \A e \in 0 .. d : (home[i] + e) % size \in D
    BY <2>2 DEF Reaches
  <2>4. PICK a \in Nat : a = hash[name] /\ home[i] = a % size
    <3>1. home[i] = NameHome(names, hash, i)
      BY <1>1, <1>3 DEF NameHomes
    <3>2. home[i] = hash[name] % size
      BY <1>1, <1>2, <2>1, <3>1 DEF NameHome
    <3> QED BY <3>2
  <2>5. ASSUME NEW e \in 0 .. d PROVE (hash[name] + e) % t.hashSize = (home[i] + e) % size
    <3>1. e \in Int /\ a \in Int
      OBVIOUS
    <3>2. ((a % size) + e) % size = (a + e) % size
      BY <3>1, ModSum
    <3> QED BY <1>4, <2>4, <3>2
  <2>6. d \in 0 .. d /\ d \in 0 .. t.hashSize - 1
    BY <1>4
  <2>7. (hash[name] + d) % t.hashSize = T[i]
    BY <2>3, <2>5, <2>6
  <2>8. \A e \in 0 .. d : (hash[name] + e) % t.hashSize \in t.present
    BY <1>3, <2>3, <2>5
  <2>9. TakeStrz(Drop(t.strings, ItemOfSlot(t, T[i]).key))[1] = name
    <3>1. ItemOfSlot(t, T[i]) = NameItem(names, map, i)
      <4>1. ItemOfSlot(t, T[i]) = t.items[Cardinality({p \in t.present : p <= T[i]})]
        BY DEF ItemOfSlot
      <4>2. Cardinality({p \in t.present : p <= T[i]}) = k
        BY <1>3, <2>2
      <4> QED BY <2>2, <4>1, <4>2
    <3>2. TakeStrz(Drop(StringsOfAll(names), NameItem(names, map, i).key))[1] = names[i]
      <4>1. i \in 1 .. Len(names)
        BY <1>1
      <4> QED BY <1>1, <4>1, KeysRead
    <3> QED BY <1>4, <2>1, <3>1, <3>2
  <2> QED BY <2>6, <2>7, <2>8, <2>9 DEF FoundByProbing
<1> QED BY <1>5, <1>6

(* A map that is written is read back.                                     *)
LEMMA NamedMapRead ==
  ASSUME NEW map, map = [name \in DOMAIN map |-> map[name]],
         DOMAIN map \in SUBSET Texts0, IsFiniteSet(DOMAIN map),
         NEW hash, \A name \in DOMAIN map : hash[name] \in Nat
  PROVE  /\ Decode(Encode(map, hash)) = <<map>>
         /\ \A name \in DOMAIN map : FoundByProbing(Encode(map, hash), name, hash)
         /\ Encode(map, hash).present # 0 .. Encode(map, hash).hashSize - 1
<1>1. PICK S, names, n : S = DOMAIN map /\ names = SortedSeq(S, Before) /\ n = Cardinality(S)
  OBVIOUS
<1>2. S \in SUBSET Seq(Nat)
  <2>1. Texts0 \subseteq Seq(Nat)
    <3>1. Nat \ {0} \subseteq Nat
      OBVIOUS
    <3> QED BY <3>1, SeqMonotonic DEF Texts0
  <2> QED BY <1>1, <2>1
<1>3. /\ n \in Nat /\ names \in [1 .. n -> S] /\ Len(names) = n
      /\ \A i \in 1 .. n, j \in 1 .. n : names[i] = names[j] => i = j
      /\ \A x \in S : \E i \in 1 .. n : names[i] = x
  <2>1. /\ Cardinality(S) \in Nat
        /\ SortedSeq(S, Before) \in [1 .. Cardinality(S) -> S]
        /\ Len(SortedSeq(S, Before)) = Cardinality(S)
        /\ \A i \in 1 .. Cardinality(S), j \in 1 .. Cardinality(S) :
             SortedSeq(S, Before)[i] = SortedSeq(S, Before)[j] => i = j
        /\ \A x \in S : \E i \in 1 .. Cardinality(S) : SortedSeq(S, Before)[i] = x
    BY <1>1, <1>2, SortedStrings
  <2> QED BY <1>1, <2>1
<1>4. names \in Seq(DOMAIN map) /\ names = SortedSeq(DOMAIN map, Before)
  <2>1. names \in Seq(S)
    BY <1>3, FunctionLen
  <2> QED BY <1>1, <2>1
<1>5. NameSeq(map, names)
  BY <1>1, <1>3, <1>4 DEF NameSeq
<1>6. PICK T, J : TableOf(Encode(map, hash), names, map, hash, T, J)
  BY <1>4, TableEncoded
<1> QED BY <1>5, <1>6, TableDecoded, TableProbed

(* A finite map from strings without NUL, and a function that hashes them. *)
NamesToStreams(map) ==
  /\ map = [name \in DOMAIN map |-> map[name]]
  /\ DOMAIN map \in SUBSET Texts0 /\ IsFiniteSet(DOMAIN map)

HashesNames(hash, map) == \A name \in DOMAIN map : hash[name] \in Nat

(* pdbi.rs: whatever the map of named streams and the hash function, what  *)
(* is written is read back, and every name is met by probing from the slot *)
(* of its hash, before a slot that is absent; and some slot is absent.     *)
THEOREM NamedStreamsAlwaysRead ==
  ASSUME NEW version \in Int, NEW lastWithout \in Int, NEW signature, NEW age, NEW uniqueId,
         NEW features,
         NEW map, NamesToStreams(map), NEW hash, HashesNames(hash, map)
  PROVE  ReadsBack([version |-> version, signature |-> signature, age |-> age,
                    uniqueId |-> uniqueId, named |-> map, features |-> features],
                   lastWithout, hash)
<1>1. PICK s : s = [version |-> version, signature |-> signature, age |-> age,
                    uniqueId |-> uniqueId, named |-> map, features |-> features]
  OBVIOUS
<1>2. PICK t : /\ t = Encode(map, hash) /\ Decode(t) = <<map>>
               /\ \A name \in DOMAIN map : FoundByProbing(t, name, hash)
               /\ t.present # 0 .. t.hashSize - 1
  <2>1. /\ map = [name \in DOMAIN map |-> map[name]]
        /\ DOMAIN map \in SUBSET Texts0 /\ IsFiniteSet(DOMAIN map)
        /\ \A name \in DOMAIN map : hash[name] \in Nat
    BY DEF NamesToStreams, HashesNames
  <2> QED BY <2>1, NamedMapRead
<1>3. PICK id : id = IF HasUniqueId(version, lastWithout) THEN uniqueId ELSE <<>>
  OBVIOUS
<1>4. PICK r : r = [version |-> version, signature |-> signature, age |-> age,
                    uniqueId |-> id, table |-> t, features |-> features]
  OBVIOUS
<1>5. EncodeStream(s, lastWithout, hash) # Err => EncodeStream(s, lastWithout, hash) = <<r>>
  BY <1>1, <1>2, <1>3, <1>4 DEF EncodeStream
<1>6. DecodeStream(r) = <<[version |-> version, signature |-> signature, age |-> age,
                           uniqueId |-> id, named |-> map, features |-> features]>>
  <2>1. Decode(r.table) = <<map>> /\ Decode(r.table) # Err /\ Decode(r.table)[1] = map
    <3>1. <<map>> # Err /\ <<map>>[1] = map
      BY DEF Err
    <3>2. r.table = t
      BY <1>4
    <3> QED BY <1>2, <3>1, <3>2
  <2> QED BY <1>4, <2>1 DEF DecodeStream
<1>7. [s EXCEPT !.uniqueId = IF HasUniqueId(s.version, lastWithout) THEN @ ELSE <<>>]
        = [version |-> version, signature |-> signature, age |-> age,
           uniqueId |-> id, named |-> map, features |-> features]
  BY <1>1, <1>3
<1>8. r.table = t /\ s.named = map
  BY <1>1, <1>4
<1>9. ReadsBack(s, lastWithout, hash)
  <2>1. ASSUME EncodeStream(s, lastWithout, hash) # Err PROVE EncodeStream(s, lastWithout, hash)[1] = r
    BY <1>5, <2>1
  <2> QED BY <1>2, <1>6, <1>7, <1>8, <2>1 DEF ReadsBack
<1> QED BY <1>1, <1>9

-----------------------------------------------------------------------------
(***************************************************************************)
(* The hash is a number.                                                   *)
(***************************************************************************)
HashTerm(i, m) == IF i = 31 THEN (2 * (2 ^ 30 % m)) % m ELSE 2 ^ i % m

HashSteps(g, h, m) ==
  [s \in SUBSET h |->
     IF s = {} THEN 0
     ELSE HashTerm(CHOOSE x \in s : TRUE, m) + g[s \ {CHOOSE x \in s : TRUE}]]

HashFold(h, m) == CHOOSE g : g = HashSteps(g, h, m)

LEMMA RemainderIsLess ==
  ASSUME NEW h \in SUBSET Nat, IsFiniteSet(h), NEW m \in Nat \ {0}
  PROVE  Remainder(h, m) \in 0 .. m - 1
<1> DEFINE Some(s) == CHOOSE x \in s : TRUE
           D(k) == {s \in SUBSET h : Cardinality(s) <= k}
           Unfold(g, k) == [s \in D(k) |-> IF s = {} THEN 0 ELSE HashTerm(Some(s), m) + g[s \ {Some(s)}]]
           B == {k \in 0 .. Cardinality(h) : \E g \in [D(k) -> Int] : g = Unfold(g, k)}
<1>1. ASSUME NEW i \in Nat PROVE HashTerm(i, m) \in Int
  <2>1. PICK a \in Int, b \in Int : a = 2 ^ i /\ b = 2 ^ 30
    <3>1. 2 ^ i \in Int /\ 2 ^ 30 \in Int
      OBVIOUS
    <3> QED BY <3>1
  <2>2. a % m \in Int /\ (2 * (b % m)) % m \in Int
    OBVIOUS
  <2> QED BY <2>1, <2>2 DEF HashTerm
<1>2. Cardinality(h) \in Nat
  BY FS_CardinalityType
<1>3. ASSUME NEW s \in SUBSET h
      PROVE  /\ IsFiniteSet(s) /\ Cardinality(s) \in Nat /\ Cardinality(s) <= Cardinality(h)
             /\ Cardinality(s) = 0 <=> s = {}
  <2>1. IsFiniteSet(s) /\ Cardinality(s) <= Cardinality(h)
    BY FS_Subset
  <2> QED BY <2>1, FS_CardinalityType, FS_EmptySet
<1>4. ASSUME NEW s \in SUBSET h, s # {}
      PROVE  Some(s) \in s /\ Some(s) \in Nat /\ s \ {Some(s)} \in SUBSET h
             /\ Cardinality(s \ {Some(s)}) = Cardinality(s) - 1
  <2>1. Some(s) \in s
    BY <1>4
  <2> HIDE DEF Some
  <2>2. IsFiniteSet(s)
    BY <1>3
  <2>3. Cardinality(s \ {Some(s)}) = IF Some(s) \in s THEN Cardinality(s) - 1 ELSE Cardinality(s)
    BY <2>2, FS_RemoveElement
  <2> QED BY <2>1, <2>3
<1> HIDE DEF Some
<1>5. 0 \in B
  <2>1. ASSUME NEW s \in D(0) PROVE s = {}
    <3>1. s \in SUBSET h /\ Cardinality(s) <= 0
      OBVIOUS
    <3> QED BY <1>3, <3>1
  <2>2. 0 \in 0 .. Cardinality(h)
    BY <1>2
  <2> DEFINE z == [s \in D(0) |-> 0]
  <2>3. z \in [D(0) -> Int]
    OBVIOUS
  <2>4. z = Unfold(z, 0)
    <3> HIDE DEF D
    <3> QED BY <2>1
  <2> HIDE DEF D, Unfold, z
  <2> QED BY <2>2, <2>3, <2>4
<1>6. ASSUME NEW k \in 1 .. Cardinality(h), k - 1 \in B PROVE k \in B
  <2>1. PICK g \in [D(k - 1) -> Int] : g = Unfold(g, k - 1)
    BY <1>6
  <2>2. ASSUME NEW s \in D(k), s # {} PROVE s \ {Some(s)} \in D(k - 1) /\ Some(s) \in Nat
    <3>1. s \in SUBSET h /\ Cardinality(s) <= k /\ Cardinality(s) \in Nat
      BY <1>3
    <3>2. s \ {Some(s)} \in SUBSET h /\ Cardinality(s \ {Some(s)}) = Cardinality(s) - 1 /\ Some(s) \in Nat
      BY <1>4, <2>2, <3>1
    <3>3. Cardinality(s) - 1 <= k - 1
      BY <1>2, <3>1
    <3> QED BY <3>2, <3>3
  <2>3. ASSUME NEW s \in D(k - 1) PROVE s \in D(k)
    <3>1. s \in SUBSET h /\ Cardinality(s) <= k - 1 /\ Cardinality(s) \in Nat
      BY <1>3
    <3>2. Cardinality(s) <= k
      BY <1>2, <3>1
    <3> QED BY <3>1, <3>2
  <2> DEFINE G == [s \in D(k) |-> IF s = {} THEN 0 ELSE HashTerm(Some(s), m) + g[s \ {Some(s)}]]
  <2> HIDE DEF D
  <2>4. G \in [D(k) -> Int]
    <3>1. ASSUME NEW s \in D(k), s # {} PROVE HashTerm(Some(s), m) + g[s \ {Some(s)}] \in Int
      <4>1. PICK u \in Int, v \in Int : u = HashTerm(Some(s), m) /\ v = g[s \ {Some(s)}]
        <5>1. HashTerm(Some(s), m) \in Int
          BY <1>1, <2>2, <3>1
        <5>2. g[s \ {Some(s)}] \in Int
          BY <2>1, <2>2, <3>1
        <5> QED BY <5>1, <5>2
      <4> QED BY <4>1
    <3> QED BY <3>1
  <2>5. ASSUME NEW s \in D(k - 1) PROVE G[s] = g[s]
    <3>1. G[s] = IF s = {} THEN 0 ELSE HashTerm(Some(s), m) + g[s \ {Some(s)}]
      BY <2>3
    <3>2. g[s] = IF s = {} THEN 0 ELSE HashTerm(Some(s), m) + g[s \ {Some(s)}]
      BY <2>1
    <3> QED BY <3>1, <3>2
  <2>6. G = Unfold(G, k)
    <3>1. ASSUME NEW s \in D(k), s # {} PROVE G[s \ {Some(s)}] = g[s \ {Some(s)}]
      BY <2>2, <2>5, <3>1
    <3>2. ASSUME NEW s \in D(k)
          PROVE  (IF s = {} THEN 0 ELSE HashTerm(Some(s), m) + g[s \ {Some(s)}])
                   = (IF s = {} THEN 0 ELSE HashTerm(Some(s), m) + G[s \ {Some(s)}])
      <4> HIDE DEF G
      <4> QED BY <3>1
    <3>3. G = [s \in D(k) |-> IF s = {} THEN 0 ELSE HashTerm(Some(s), m) + g[s \ {Some(s)}]]
      OBVIOUS
    <3> HIDE DEF G
    <3> QED BY <3>2, <3>3
  <2>7. k \in 0 .. Cardinality(h)
    BY <1>2
  <2> HIDE DEF G, Step
  <2> QED BY <2>4, <2>6, <2>7
<1>7. 0 .. Cardinality(h) \subseteq B
  <2> HIDE DEF B
  <2> QED BY <1>2, <1>5, <1>6, StepByStep
<1>8. PICK g \in [SUBSET h -> Int] : g = HashSteps(g, h, m)
  <2>1. Cardinality(h) \in B
    <3>1. Cardinality(h) \in 0 .. Cardinality(h)
      BY <1>2
    <3> HIDE DEF B
    <3> QED BY <1>7, <3>1
  <2>2. D(Cardinality(h)) = SUBSET h
    BY <1>3
  <2>3. PICK g \in [D(Cardinality(h)) -> Int] : g = Unfold(g, Cardinality(h))
    BY <2>1
  <2> HIDE DEF D
  <2>4. g = HashSteps(g, h, m)
    BY <2>2, <2>3 DEF HashSteps, Some
  <2> QED BY <2>2, <2>3, <2>4
<1>9. HashFold(h, m) = HashSteps(HashFold(h, m), h, m)
  BY <1>8 DEF HashFold
<1>10. PICK F : F = HashFold(h, m) /\ F = HashSteps(F, h, m)
  BY <1>9
<1>11. \A s \in SUBSET h : F[s] = IF s = {} THEN 0 ELSE HashTerm(Some(s), m) + F[s \ {Some(s)}]
  BY <1>10 DEF HashSteps, Some
<1>18. F[{}] = 0
  BY <1>11
<1> DEFINE A == {k \in 0 .. Cardinality(h) : \A s \in D(k) : F[s] \in Int}
<1>12. 0 \in A /\ \A k \in 1 .. Cardinality(h) : k - 1 \in A => k \in A
  <2>1. 0 \in A
    <3>1. ASSUME NEW s \in D(0) PROVE F[s] \in Int
      <4>1. s \in SUBSET h /\ s = {}
        BY <1>3
      <4> QED BY <1>18, <4>1
    <3>2. 0 \in 0 .. Cardinality(h)
      BY <1>2
    <3> HIDE DEF D
    <3> QED BY <3>1, <3>2
  <2>2. ASSUME NEW k \in 1 .. Cardinality(h), k - 1 \in A PROVE k \in A
    <3>1. ASSUME NEW s \in D(k) PROVE F[s] \in Int
      <4>1. s \in SUBSET h /\ Cardinality(s) <= k /\ Cardinality(s) \in Nat
        BY <1>3
      <4>2. CASE s = {}
        BY <1>18, <4>2
      <4>3. CASE s # {}
        <5>1. /\ s \ {Some(s)} \in SUBSET h /\ Cardinality(s \ {Some(s)}) = Cardinality(s) - 1
              /\ Some(s) \in Nat
          BY <1>4, <4>1, <4>3
        <5>2. Cardinality(s) - 1 <= k - 1
          BY <1>2, <4>1
        <5>3. s \ {Some(s)} \in D(k - 1)
          BY <5>1, <5>2
        <5> HIDE DEF D
        <5>4. F[s \ {Some(s)}] \in Int
          BY <2>2, <5>3
        <5>5. HashTerm(Some(s), m) \in Int
          BY <1>1, <5>1
        <5>6. F[s] = HashTerm(Some(s), m) + F[s \ {Some(s)}]
          BY <1>11, <4>1, <4>3
        <5> QED BY <5>4, <5>5, <5>6
      <4> QED BY <4>2, <4>3
    <3>2. k \in 0 .. Cardinality(h)
      BY <1>2
    <3> HIDE DEF D
    <3> QED BY <3>1, <3>2
  <2> QED BY <2>1, <2>2
<1>13. 0 .. Cardinality(h) \subseteq A
  <2> HIDE DEF A
  <2> QED BY <1>2, <1>12, StepByStep
<1>14. F[h] \in Int
  <2>1. h \in D(Cardinality(h)) /\ Cardinality(h) \in A
    BY <1>2, <1>13
  <2> HIDE DEF D
  <2> QED BY <2>1
<1>15. Remainder(h, m) = HashFold(h, m)[h] % m
  BY DEF Remainder, MapThenSumSet, MapThenFoldSet, HashFold, HashSteps, HashTerm
<1>16. PICK a \in Int : a = HashFold(h, m)[h]
  BY <1>10, <1>14
<1>17. a % m \in 0 .. m - 1
  OBVIOUS
<1> QED BY <1>15, <1>16, <1>17

LEMMA HashU32Bits ==
  ASSUME NEW pb
  PROVE  HashU32(pb) \in SUBSET (0 .. 31)
<1>1. ASSUME NEW s \in SUBSET (0 .. 31), NEW n \in Nat PROVE ShiftedRight(s, n) \in SUBSET (0 .. 31)
  BY DEF ShiftedRight
<1>2. ASSUME NEW s \in SUBSET (0 .. 31), NEW t \in SUBSET (0 .. 31) PROVE SymDiff(s, t) \in SUBSET (0 .. 31)
  BY DEF SymDiff
<1>3. ASSUME NEW s \in SUBSET (0 .. 31) PROVE CaseFolded(s) \in SUBSET (0 .. 31)
  BY DEF CaseFolded
<1> DEFINE Read == {i \in 0 .. 31 :
                      Cardinality({k \in 0 .. Len(pb) - 1 :
                                     i \in BitsAt(pb[k + 1], Lane(pb, k))}) % 2 = 1}
           Mixed == SymDiff(CaseFolded(Read), ShiftedRight(CaseFolded(Read), 11))
<1>4. HashU32(pb) = SymDiff(Mixed, ShiftedRight(Mixed, 16))
  BY DEF HashU32
<1>5. Read \in SUBSET (0 .. 31)
  OBVIOUS
<1> HIDE DEF Read
<1>6. Mixed \in SUBSET (0 .. 31)
  BY <1>1, <1>2, <1>3, <1>5
<1> HIDE DEF Mixed
<1> QED BY <1>1, <1>2, <1>4, <1>6

LEMMA HashU16IsNat == \A pb : HashU16(pb) \in Nat
<1>1. ASSUME NEW pb PROVE HashU16(pb) \in Nat
  <2>1. PICK h : h = HashU32(pb) /\ h \in SUBSET (0 .. 31)
    BY HashU32Bits
  <2>2. h \in SUBSET Nat /\ IsFiniteSet(h)
    <3>1. 0 \in Int /\ 31 \in Int
      OBVIOUS
    <3>2. IsFiniteSet(0 .. 31)
      BY <3>1, FS_Interval
    <3>3. IsFiniteSet(h)
      BY <2>1, <3>2, FS_Subset
    <3> QED BY <2>1, <3>3
  <2>3. 65536 \in Nat \ {0}
    OBVIOUS
  <2>4. Remainder(h, 65536) \in Nat
    BY <2>2, <2>3, RemainderIsLess
  <2> QED BY <2>1, <2>4 DEF HashU16
<1> QED BY <1>1

(* pdbi.rs: of the inputs that are checked, every map of named streams is  *)
(* read back as it was written, and probing finds each of its names.       *)
THEOREM NamedStreamsStayRead == Spec => []NamedStreamsRead
<1>1. ASSUME InputInv PROVE NamedStreamsRead
  <2> SUFFICES ASSUME table = "named", input # <<>>,
                      NEW x, x = input[1]
               PROVE  ReadsBack([version |-> x.version, signature |-> 7, age |-> 1,
                                 uniqueId |-> x.uniqueId, named |-> x.named, features |-> <<3>>],
                                1, [s \in Words |-> HashOf(x.hash, s)])
    BY DEF NamedStreamsRead
  <2>1. x \in NamedInputs
    BY <1>1 DEF InputInv, InputsOf
  <2>2. Words \in SUBSET Texts0 /\ IsFiniteSet(Words)
    <3>1. <<>> \in Texts0 /\ <<1>> \in Texts0 /\ <<2>> \in Texts0 /\ <<1, 2>> \in Texts0 /\ <<2, 1>> \in Texts0
      BY DEF Texts0
    <3>2. IsFiniteSet(Words)
      <4>1. IsFiniteSet({<<>>})
        BY FS_Singleton
      <4>2. IsFiniteSet({<<>>} \cup {<<1>>})
        BY <4>1, FS_AddElement
      <4>3. IsFiniteSet(({<<>>} \cup {<<1>>}) \cup {<<2>>})
        BY <4>2, FS_AddElement
      <4>4. IsFiniteSet((({<<>>} \cup {<<1>>}) \cup {<<2>>}) \cup {<<1, 2>>})
        BY <4>3, FS_AddElement
      <4>5. IsFiniteSet(((({<<>>} \cup {<<1>>}) \cup {<<2>>}) \cup {<<1, 2>>}) \cup {<<2, 1>>})
        BY <4>4, FS_AddElement
      <4>6. Words = ((({<<>>} \cup {<<1>>}) \cup {<<2>>}) \cup {<<1, 2>>}) \cup {<<2, 1>>}
        BY Zenon DEF Words
      <4> QED BY <4>5, <4>6
    <3> QED BY <3>1, <3>2 DEF Words
  <2>3. /\ x.version \in Int /\ x.hash \in -1 .. 9
        /\ \E D \in SUBSET Words : x.named \in [D -> {1, 2}]
    <3>1. CASE x \in [named : UNION {[D -> {1, 2}] : D \in SUBSET Words}, hash : -1 .. 9,
                      version : {1}, uniqueId : {<<>>}]
      <4>1. x.version = 1 /\ x.hash \in -1 .. 9 /\ x.named \in UNION {[D -> {1, 2}] : D \in SUBSET Words}
        BY <3>1
      <4>2. PICK D \in SUBSET Words : x.named \in [D -> {1, 2}]
        BY <4>1
      <4>3. x.version \in Int
        BY <4>1
      <4> QED BY <4>1, <4>2, <4>3, Zenon
    <3>2. CASE x \in [named : [{<<1>>} -> {1}], hash : {0}, version : {0, 1},
                      uniqueId : {<<>>, <<9>>}]
      <4>1. x.version \in {0, 1} /\ x.hash = 0 /\ x.named \in [{<<1>>} -> {1}]
        BY <3>2
      <4>2. x.named \in [{<<1>>} -> {1, 2}] /\ {<<1>>} \in SUBSET Words
        BY <4>1 DEF Words
      <4> QED BY <4>1, <4>2
    <3> QED BY <2>1, <3>1, <3>2 DEF NamedInputs
  <2>4. PICK map : map = x.named /\ map = [name \in DOMAIN map |-> map[name]] /\ DOMAIN map \in SUBSET Words
    BY <2>3
  <2>5. DOMAIN map \in SUBSET Texts0 /\ IsFiniteSet(DOMAIN map)
    <3>1. IsFiniteSet(DOMAIN map)
      BY <2>2, <2>4, FS_Subset
    <3> QED BY <2>2, <2>4, <3>1
  <2>6. PICK hash : hash = [s \in Words |-> HashOf(x.hash, s)]
    OBVIOUS
  <2>7. \A name \in DOMAIN map : hash[name] \in Nat
    <3>1. ASSUME NEW s \in Words PROVE HashOf(x.hash, s) \in Nat
      <4>1. Len(s) \in Nat
        BY <2>2, LenProperties DEF Texts0
      <4>2. CASE x.hash < 0
        BY <4>2, HashU16IsNat DEF HashOf
      <4>3. CASE ~(x.hash < 0)
        <5>1. x.hash \in Nat
          BY <2>3, <4>3
        <5> QED BY <4>1, <4>3, <5>1 DEF HashOf
      <4> QED BY <4>2, <4>3
    <3> QED BY <2>4, <2>6, <3>1
  <2>8. x.version \in Int /\ 1 \in Int
    BY <2>3
  <2>9. ReadsBack([version |-> x.version, signature |-> 7, age |-> 1,
                   uniqueId |-> x.uniqueId, named |-> map, features |-> <<3>>], 1, hash)
    <3>1. NamesToStreams(map) /\ HashesNames(hash, map)
      BY <2>4, <2>5, <2>7 DEF NamesToStreams, HashesNames
    <3> QED BY <2>8, <3>1, NamedStreamsAlwaysRead
  <2> QED BY <2>4, <2>6, <2>9
<1>2. QED BY <1>1, InputInvariant, PTL

-----------------------------------------------------------------------------
(***************************************************************************)
(* The strings of a buffer.                                                *)
(***************************************************************************)
(* What lies from an offset up to the next NUL is a string.                *)
LEMMA StartHasString ==
  ASSUME NEW b \in Seq(Nat), NEW at \in Starts(b)
  PROVE  /\ at \in Nat /\ at < Len(b) /\ StringAt(b, at) \in Texts0
         /\ StringAt(b, at) = TakeStrz(Drop(b, at))[1]
<1>1. PICK n \in Nat : n = Len(b) /\ DOMAIN b = 1 .. n /\ \A i \in 1 .. n : b[i] \in Nat
  BY LenProperties
<1>2. PICK z \in Nat : at \in Nat /\ at < n /\ z \in at + 1 .. n /\ b[z] = 0
  <2>1. at \in 0 .. n - 1 /\ \E j \in at + 1 .. n : b[j] = 0
    BY <1>1 DEF Starts
  <2> QED BY <2>1
<1>3. PICK d : d = Drop(b, at)
  OBVIOUS
<1>4. d \in Seq(Nat) /\ Len(d) = n - at /\ DOMAIN d = 1 .. n - at /\ \A j \in 1 .. n - at : d[j] = b[at + j]
  <2>1. \A i \in at + 1 .. n : b[i] \in Nat
    BY <1>1, <1>2
  <2>2. at + 1 \in Int /\ n \in Int /\ at + 1 <= n
    BY <1>1, <1>2
  <2>3. /\ SubSeq(b, at + 1, n) \in Seq(Nat)
        /\ Len(SubSeq(b, at + 1, n)) = n - (at + 1) + 1
        /\ \A i \in 1 .. n - (at + 1) + 1 : SubSeq(b, at + 1, n)[i] = b[at + 1 + i - 1]
    BY <2>1, <2>2, SubSeqProperties
  <2>4. n - (at + 1) + 1 = n - at /\ \A i \in Int : at + 1 + i - 1 = at + i
    BY <1>1, <1>2
  <2>5. d = SubSeq(b, at + 1, n)
    BY <1>1, <1>3 DEF Drop
  <2>6. d \in Seq(Nat) /\ Len(d) = n - at /\ \A j \in 1 .. n - at : d[j] = b[at + j]
    BY <1>2, <2>3, <2>4, <2>5
  <2> QED BY <2>6, LenProperties
<1> DEFINE Ends == {i \in DOMAIN d : d[i] = 0}
<1>5. PICK m \in Ends : \A y \in Ends : m <= y
  <2>1. z - at \in Ends
    <3>1. z - at \in 1 .. n - at /\ at + (z - at) = z
      BY <1>2
    <3> QED BY <1>2, <1>4, <3>1
  <2>2. Ends \subseteq Nat
    BY <1>4
  <2> HIDE DEF Ends
  <2> QED BY <2>1, <2>2, LeastOf
<1>6. m \in 1 .. n - at /\ d[m] = 0 /\ Ends # {} /\ Min(Ends) = m
  <2>1. m \in 1 .. n - at /\ d[m] = 0 /\ Ends # {} /\ Ends \subseteq Int
    BY <1>4
  <2> HIDE DEF Ends
  <2>2. Min(Ends) = m
    BY <1>5, <2>1, MinIs
  <2> QED BY <2>1, <2>2
<1>7. TakeStrz(d) = <<Take(d, m - 1), Drop(d, m)>>
  <2>1. TakeStrz(d) = IF Ends = {} THEN Err ELSE <<Take(d, Min(Ends) - 1), Drop(d, Min(Ends))>>
    BY DEF TakeStrz
  <2> HIDE DEF Ends
  <2> QED BY <1>6, <2>1
<1>8. Take(d, m - 1) \in Texts0
  <2>1. PICK k \in 0 .. Len(d) : k = m - 1
    BY <1>4, <1>6
  <2>2. PICK e : e = SubSeq(d, 1, k)
    OBVIOUS
  <2>3. e \in Seq(Nat) /\ Len(e) = k /\ \A j \in 1 .. k : e[j] = d[j]
    BY <1>4, <2>1, <2>2, FirstPart
  <2>4. ASSUME NEW j \in 1 .. k PROVE e[j] \in Nat \ {0}
    <3>1. j \in 1 .. n - at /\ ~(m <= j)
      BY <1>2, <1>6, <2>1
    <3>2. d[j] \in Nat
      <4>1. at + j \in 1 .. n
        BY <1>2, <3>1
      <4> QED BY <1>1, <1>4, <3>1, <4>1
    <3>3. d[j] # 0
      <4>1. d[j] = 0 => j \in Ends
        BY <1>4, <3>1
      <4> HIDE DEF Ends
      <4> QED BY <1>5, <3>1, <4>1
    <3> QED BY <2>3, <3>2, <3>3
  <2>5. e = [j \in 1 .. k |-> e[j]] /\ k \in Nat
    <3>1. e \in Seq(Nat) /\ Len(e) = k
      BY <2>3
    <3>2. e = [j \in 1 .. Len(e) |-> e[j]] /\ Len(e) \in Nat
      BY <3>1, LenProperties
    <3> QED BY <3>1, <3>2
  <2>6. e \in [1 .. k -> Nat \ {0}]
    BY <2>4, <2>5
  <2>7. e \in Seq(Nat \ {0})
    BY <2>5, <2>6, FunctionLen
  <2> QED BY <2>1, <2>2, <2>7 DEF Take, Texts0
<1>9. TakeStrz(d) # Err /\ TakeStrz(d)[1] = Take(d, m - 1)
  BY <1>7 DEF Err
<1>10. StringAt(b, at) = TakeStrz(d)[1]
  <2>1. ~(at > n)
    BY <1>2
  <2> QED BY <1>1, <1>3, <1>9, <2>1 DEF StringAt, GetString
<1> QED BY <1>1, <1>2, <1>3, <1>8, <1>9, <1>10

(* From offset z on no string begins that is not empty.                    *)
Quiet(b, z) ==
  \A p \in z .. Len(b) - 1 : b[p + 1] = 0 \/ \A j \in p + 1 .. Len(b) : b[j] # 0

(* A buffer of the empty string and of some names.                         *)
BufferOf(b, names, L) ==
  /\ StringPlaces(names, L) /\ b[1] = 0 /\ 1 <= Len(b)
  /\ StringsLieAt(b, 1, names, L) /\ Quiet(b, 1 + L[Len(names)])

LEMMA BufferStrings ==
  ASSUME NEW names \in Seq(Texts0), NEW L, NEW b \in Seq(Nat), BufferOf(b, names, L)
  PROVE  /\ Named(b) = {1 + L[i - 1] : i \in {k \in 1 .. Len(names) : names[k] # <<>>}}
         /\ \A i \in 1 .. Len(names) : 1 + L[i - 1] \in Nat /\ StringAt(b, 1 + L[i - 1]) = names[i]
<1>1. PICK n \in Nat, m \in Nat : n = Len(names) /\ m = Len(b) /\ 1 <= m
  <2>1. Len(names) \in Nat /\ Len(b) \in Nat
    BY LenProperties
  <2> QED BY <2>1 DEF BufferOf
<1>2. /\ L \in [0 .. n -> Nat] /\ L[0] = 0 /\ b[1] = 0 /\ 1 + L[n] <= m
      /\ \A i \in 1 .. n : /\ L[i] = L[i - 1] + Len(names[i]) + 1 /\ L[i] <= L[n]
                           /\ StringsOfAll(names)[L[i]] = 0
                           /\ \A j \in 1 .. Len(names[i]) : StringsOfAll(names)[L[i - 1] + j] = names[i][j]
      /\ \A j \in 1 .. L[n] : b[1 + j] = StringsOfAll(names)[j]
  BY <1>1 DEF BufferOf, StringPlaces, StringsLieAt
<1>3. ASSUME NEW i \in 1 .. n
      PROVE  /\ names[i] \in Texts0 /\ Len(names[i]) \in Nat
             /\ L[i - 1] \in Nat /\ L[i] \in Nat /\ L[n] \in Nat
             /\ \A j \in 1 .. Len(names[i]) : names[i][j] \in Nat \ {0}
  <2>1. names[i] \in Texts0
    BY <1>1, LenProperties
  <2>2. i - 1 \in 0 .. n /\ i \in 0 .. n /\ n \in 0 .. n
    OBVIOUS
  <2> QED BY <1>2, <2>1, <2>2, LenProperties DEF Texts0
<1>4. ASSUME NEW i \in 1 .. n
      PROVE  /\ 1 + L[i - 1] \in Nat /\ 1 + L[i - 1] <= m
             /\ TakeStrz(Drop(b, 1 + L[i - 1])) # Err
             /\ TakeStrz(Drop(b, 1 + L[i - 1]))[1] = names[i]
  <2>1. StringPlaces(names, L) /\ StringsLieAt(b, 1, names, L) /\ 1 \in Nat /\ i \in 1 .. Len(names)
    BY <1>1 DEF BufferOf
  <2> QED BY <1>1, <2>1, StringsRead
<1>5. ASSUME NEW i \in 1 .. n PROVE StringAt(b, 1 + L[i - 1]) = names[i]
  <2>1. PICK p \in Nat : p = 1 + L[i - 1] /\ p <= m
    BY <1>4
  <2>2. ~(p > m)
    BY <2>1
  <2> QED BY <1>1, <1>4, <2>1, <2>2 DEF StringAt, GetString
<1>6. ASSUME NEW p \in Starts(b), b[p + 1] = 0 PROVE StringAt(b, p) = <<>>
  <2>1. p \in Nat /\ p < m /\ StringAt(b, p) = TakeStrz(Drop(b, p))[1]
    BY <1>1, StartHasString
  <2>2. <<>> \in Texts0 /\ Len(<<>>) = 0
    BY DEF Texts0
  <2>3. PICK e \in Texts0 : e = <<>> /\ Len(e) = 0
    BY <2>2
  <2>4. p + Len(e) + 1 <= Len(b) /\ (\A j \in 1 .. Len(e) : b[p + j] = e[j]) /\ b[p + Len(e) + 1] = 0
    <3>1. p + 0 + 1 = p + 1 /\ p + 1 <= m /\ 1 .. 0 = {}
      BY <2>1
    <3> QED BY <1>1, <1>6, <2>3, <3>1
  <2>5. TakeStrz(Drop(b, p))[1] = e
    BY <2>1, <2>4, StrzAt
  <2> QED BY <2>1, <2>3, <2>5
<1>7. ASSUME NEW i \in 1 .. n, names[i] # <<>> PROVE 1 + L[i - 1] \in Named(b)
  <2>1. PICK p \in Nat, q \in Nat, k \in Nat, z \in Nat :
          /\ p = L[i - 1] /\ q = L[i] /\ k = Len(names[i]) /\ z = L[n]
          /\ q = p + k + 1 /\ q <= z /\ 1 + z <= m
    <3>1. PICK p \in Nat, q \in Nat, k \in Nat, z \in Nat :
            p = L[i - 1] /\ q = L[i] /\ k = Len(names[i]) /\ z = L[n]
      BY <1>3
    <3>2. q = p + k + 1 /\ q <= z /\ 1 + z <= m
      BY <1>2, <3>1
    <3> QED BY <3>1, <3>2
  <2>2. 1 + p \in 0 .. m - 1 /\ 1 + q \in (1 + p) + 1 .. m /\ q \in 1 .. z
    <3>1. q = p + k + 1 /\ q <= z /\ 1 + z <= m
      BY <2>1
    <3>2. 1 + p \in Nat /\ 1 + p <= m - 1
      BY ONLY <3>1, p \in Nat, q \in Nat, k \in Nat, z \in Nat, m \in Nat
    <3>3. 1 + q \in Int /\ (1 + p) + 1 <= 1 + q /\ 1 + q <= m /\ 1 <= q
      BY ONLY <3>1, p \in Nat, q \in Nat, k \in Nat, z \in Nat, m \in Nat
    <3> QED BY <3>1, <3>2, <3>3
  <2>3. b[1 + q] = 0
    <3>1. b[1 + q] = StringsOfAll(names)[q]
      BY <1>2, <2>1, <2>2
    <3>2. StringsOfAll(names)[q] = 0
      BY <1>2, <2>1
    <3> QED BY <3>1, <3>2
  <2>4. b[1 + p] = 0
    <3>1. CASE i = 1
      <4>1. p = 0
        BY <1>2, <2>1, <3>1
      <4> QED BY <1>2, <4>1
    <3>2. CASE i # 1
      <4>1. PICK j \in 1 .. n : j = i - 1
        BY <3>2
      <4>2. L[j] = L[j - 1] + Len(names[j]) + 1 /\ L[j - 1] \in Nat /\ Len(names[j]) \in Nat
            /\ StringsOfAll(names)[L[j]] = 0 /\ L[j] = p
        BY <1>2, <1>3, <2>1, <4>1
      <4>3. p \in 1 .. z
        <5>1. PICK a \in Nat, c \in Nat : a = L[j - 1] /\ c = Len(names[j]) /\ p = a + c + 1
          BY <4>2
        <5>2. p >= 1
          BY ONLY <5>1, a \in Nat, c \in Nat, p \in Nat
        <5>3. p <= z
          <6>1. q = p + k + 1 /\ q <= z
            BY <2>1
          <6> QED BY ONLY <6>1, p \in Nat, q \in Nat, k \in Nat, z \in Nat
        <5> QED BY <5>2, <5>3
      <4> QED BY <1>2, <2>1, <4>2, <4>3
    <3> QED BY <3>1, <3>2
  <2>5. 1 + p \in Starts(b)
    BY <1>1, <2>2, <2>3, <2>4 DEF Starts
  <2> QED BY <1>5, <1>7, <2>1, <2>5 DEF Named
<1>8. ASSUME NEW p \in Named(b) PROVE \E i \in 1 .. n : names[i] # <<>> /\ p = 1 + L[i - 1]
  <2>1. p \in Starts(b) /\ StringAt(b, p) # <<>>
    BY DEF Named
  <2>2. p \in 0 .. m - 1 /\ (p = 0 \/ b[p] = 0) /\ \E j \in p + 1 .. m : b[j] = 0
    BY <1>1, <2>1 DEF Starts
  <2>3. b[p + 1] # 0 /\ p # 0
    <3>1. b[p + 1] # 0
      BY <1>6, <2>1
    <3>2. p = 0 => p + 1 = 1
      OBVIOUS
    <3> QED BY <1>2, <3>1, <3>2
  <2>4. PICK z \in Nat : z = L[n] /\ 1 + z <= m
    <3>1. n \in 0 .. n
      OBVIOUS
    <3>2. L[n] \in Nat
      BY <1>2, <3>1
    <3> QED BY <1>2, <3>2
  <2>5. ~(1 + z <= p)
    <3>1. 1 + z <= p => p \in 1 + z .. m - 1
      BY <2>2, <2>4
    <3>2. 1 + z <= p => b[p + 1] = 0 \/ \A j \in p + 1 .. m : b[j] # 0
      <4>1. Quiet(b, 1 + z)
        BY <1>1, <2>4 DEF BufferOf
      <4> QED BY <1>1, <3>1, <4>1 DEF Quiet
    <3> QED BY <2>2, <2>3, <3>2
  <2>6. PICK q \in Nat : q = p - 1 /\ p = 1 + q /\ q < z
    BY <2>2, <2>3, <2>4, <2>5
  <2> DEFINE I == {i \in Nat : i <= n /\ q < L[i]}
  <2>7. PICK i \in I : \A y \in I : i <= y
    <3>1. n \in I
      BY <2>4, <2>6
    <3>2. I \subseteq Nat /\ I # {}
      BY <3>1
    <3> HIDE DEF I
    <3> QED BY <3>2, LeastOf
  <2>8. i \in 1 .. n /\ q < L[i] /\ L[i - 1] <= q
    <3>1. i \in Nat /\ i <= n /\ q < L[i] /\ i # 0
      BY <1>2, <2>6
    <3>2. i \in 1 .. n
      BY <3>1
    <3>3. i - 1 \notin I
      <4> HIDE DEF I
      <4>1. ~(i <= i - 1)
        BY <3>2
      <4> QED BY <2>7, <4>1
    <3>4. i - 1 \in Nat /\ i - 1 <= n /\ L[i - 1] \in Nat
      BY <1>3, <3>2
    <3>5. ~(q < L[i - 1])
      BY <3>3, <3>4
    <3> QED BY <3>1, <3>2, <3>4, <3>5
  <2>9. L[i - 1] = q
    <3>1. PICK a \in Nat, k \in Nat : a = L[i - 1] /\ k = Len(names[i]) /\ q < a + k + 1 /\ a <= q
      <4>1. PICK a \in Nat, k \in Nat : a = L[i - 1] /\ k = Len(names[i])
        BY <1>3, <2>8
      <4>2. L[i] = a + k + 1
        BY <1>2, <2>8, <4>1
      <4> QED BY <2>8, <4>1, <4>2
    <3>2. ASSUME a # q PROVE FALSE
      <4>1. PICK j \in 1 .. k : q = a + j
        <5>1. q - a \in 1 .. k /\ q = a + (q - a)
          BY ONLY <3>1, <3>2, a \in Nat, k \in Nat, q \in Nat
        <5> QED BY <5>1
      <4>2. StringsOfAll(names)[q] = names[i][j] /\ names[i][j] # 0
        BY <1>2, <1>3, <2>8, <3>1, <4>1
      <4>3. q \in 1 .. z
        BY <2>6, <4>1
      <4>4. b[p] = names[i][j]
        BY <1>2, <2>4, <2>6, <4>2, <4>3
      <4> QED BY <2>2, <2>3, <4>2, <4>4
    <3> QED BY <3>1, <3>2
  <2>10. p = 1 + L[i - 1] /\ names[i] # <<>>
    BY <1>5, <2>1, <2>6, <2>8, <2>9
  <2> QED BY <2>8, <2>10
<1>9. Named(b) = {1 + L[i - 1] : i \in {k \in 1 .. n : names[k] # <<>>}}
  BY <1>7, <1>8
<1>10. \A i \in 1 .. n : 1 + L[i - 1] \in Nat /\ StringAt(b, 1 + L[i - 1]) = names[i]
  BY <1>4, <1>5
<1> QED BY <1>1, <1>9, <1>10

-----------------------------------------------------------------------------
(***************************************************************************)
(* The hash table of the Names stream.                                     *)
(***************************************************************************)
UsedIn(slots, size) == {s \in 0 .. size - 1 : slots[s + 1] # 0}

TextHome(sorted, hash, i) == hash[sorted[i]] % NumHashes(Len(sorted))

PutText(slots, sorted, hash, i) ==
  [slots EXCEPT ![FreeSlot(UsedIn(slots, NumHashes(Len(sorted))), NumHashes(Len(sorted)),
                           TextHome(sorted, hash, i)) + 1] = NewIndex(sorted, i)]

TextSteps(h, sorted, hash) ==
  [s \in SUBSET (DOMAIN [i \in DOMAIN sorted |-> i]) |->
     IF s = {} THEN Zeros(NumHashes(Len(sorted)))
     ELSE PutText(h[s \ {Max(s)}], sorted, hash, [i \in DOMAIN sorted |-> i][Max(s)])]

TextFold(sorted, hash) == CHOOSE h : h = TextSteps(h, sorted, hash)

TextTables(P, sorted, hash) ==
  /\ P \in [0 .. Len(sorted) -> [1 .. NumHashes(Len(sorted)) -> Nat]]
  /\ P[0] = Zeros(NumHashes(Len(sorted)))
  /\ \A i \in 1 .. Len(sorted) : P[i] = PutText(P[i - 1], sorted, hash, i)

LEMMA NewIndexIs ==
  ASSUME NEW sorted \in Seq(Texts0), NEW i \in 1 .. Len(sorted)
  PROVE  /\ NewIndex(sorted, i) = 1 + LenBefore(sorted, i)
         /\ NewIndex(sorted, i) \in Nat \ {0}
<1>1. NewIndex(sorted, i) = 1 + LenBefore(sorted, i)
  BY DEF NewIndex, LenBefore
<1>2. PICK L : StringPlaces(sorted, L)
  BY StringsPlaced
<1>3. PICK n \in Nat : n = Len(sorted)
  BY LenProperties
<1>4. L[i - 1] \in Nat /\ LenBefore(sorted, i) = L[i - 1]
  <2>1. i - 1 \in 0 .. n
    BY <1>3
  <2> QED BY <1>2, <1>3, <2>1 DEF StringPlaces
<1>5. PICK p \in Nat : p = LenBefore(sorted, i)
  BY <1>4
<1>6. 1 + p \in Nat \ {0}
  OBVIOUS
<1> QED BY <1>1, <1>5, <1>6

LEMMA NumHashesIs ==
  ASSUME NEW n \in Nat
  PROVE  NumHashes(n) \in Nat /\ n <= NumHashes(n)
<1>1. PICK q \in Int, r \in 0 .. 3 : q = (n * 6) \div 4 /\ n * 6 = 4 * q + r
  <2>1. n * 6 \in Int
    OBVIOUS
  <2>2. PICK a \in Int : a = n * 6
    BY <2>1
  <2>3. a \div 4 \in Int /\ a % 4 \in 0 .. 3 /\ a = 4 * (a \div 4) + (a % 4)
    OBVIOUS
  <2> QED BY <2>2, <2>3
<1>2. q \in Nat /\ n <= q
  BY <1>1
<1> QED BY <1>1, <1>2 DEF NumHashes

LEMMA TextsPlaced ==
  ASSUME NEW sorted \in Seq(Texts0), NEW hash
  PROVE  \E P : TextTables(P, sorted, hash) /\ HashTable(sorted, hash) = P[Len(sorted)]
<1>1. PICK n \in Nat : n = Len(sorted) /\ DOMAIN sorted = 1 .. n
  BY LenProperties
<1>2. PICK size \in Nat : size = NumHashes(n)
  BY NumHashesIs
<1> DEFINE V == [1 .. size -> Nat]
           base == Zeros(size)
           next == [p \in V \X (1 .. n) |-> PutText(p[1], sorted, hash, p[2])]
           g == TextFold(sorted, hash)
<1>3. base \in V
  BY DEF Zeros
<1>4. ASSUME NEW v \in V, NEW i \in 1 .. n
      PROVE  next[v, i] = PutText(v, sorted, hash, i) /\ PutText(v, sorted, hash, i) \in V
  <2>1. PICK x : x = FreeSlot(UsedIn(v, NumHashes(Len(sorted))), NumHashes(Len(sorted)),
                              TextHome(sorted, hash, i)) + 1
    OBVIOUS
  <2>2. PICK z \in Nat : z = NewIndex(sorted, i)
    <3>1. i \in 1 .. Len(sorted)
      BY <1>1
    <3> QED BY <3>1, NewIndexIs
  <2>3. PutText(v, sorted, hash, i) = [v EXCEPT ![x] = z]
    BY <2>1, <2>2 DEF PutText
  <2>4. [v EXCEPT ![x] = z] \in V
    OBVIOUS
  <2>5. next[v, i] = PutText(v, sorted, hash, i)
    <3> HIDE DEF V
    <3> QED OBVIOUS
  <2> QED BY <2>3, <2>4, <2>5
<1>5. next \in [V \X (1 .. n) -> V]
  <2>1. ASSUME NEW p \in V \X (1 .. n) PROVE PutText(p[1], sorted, hash, p[2]) \in V
    <3>1. p[1] \in V /\ p[2] \in 1 .. n
      OBVIOUS
    <3> HIDE DEF V
    <3> QED BY <1>4, <3>1
  <2> HIDE DEF V
  <2> QED BY <2>1
<1> HIDE DEF V, next, base
<1>6. n \in Nat /\ FoldsInto(n, V, base, next)
  BY <1>3, <1>5, Zenon DEF FoldsInto
<1>7. g = TextSteps(g, sorted, hash)
  <2>1. PICK h \in [SUBSET (1 .. n) -> V] : h = FoldSteps(h, n, base, next)
    <3>1. HasFold(n, V, base, next)
      BY <1>6, FoldExists, Zenon
    <3> QED BY <3>1, Zenon DEF HasFold
  <2>2. ASSUME NEW s \in SUBSET (1 .. n), s # {}
        PROVE  /\ Max(s) \in 1 .. n
               /\ next[h[s \ {Max(s)}], Max(s)] = PutText(h[s \ {Max(s)}], sorted, hash, Max(s))
    <3>1. Max(s) \in 1 .. n
      BY <2>2, MaxOfSome
    <3>2. h[s \ {Max(s)}] \in V
      BY <2>1
    <3> QED BY <1>4, <3>1, <3>2
  <2>3. h = [s \in SUBSET (1 .. n) |-> IF s = {} THEN base ELSE next[h[s \ {Max(s)}], Max(s)]]
    BY <2>1 DEF FoldSteps
  <2>4. h = [s \in SUBSET (1 .. n) |->
               IF s = {} THEN base ELSE PutText(h[s \ {Max(s)}], sorted, hash, Max(s))]
    BY <2>2, <2>3
  <2>5. ASSUME NEW s \in SUBSET (1 .. n), s # {}
        PROVE  PutText(h[s \ {Max(s)}], sorted, hash, Max(s))
                 = PutText(h[s \ {Max(s)}], sorted, hash, [i \in DOMAIN sorted |-> i][Max(s)])
    <3>1. [i \in DOMAIN sorted |-> i][Max(s)] = Max(s)
      BY <1>1, <2>2, <2>5
    <3> QED BY <3>1
  <2>6. DOMAIN [i \in DOMAIN sorted |-> i] = 1 .. n /\ base = Zeros(NumHashes(Len(sorted)))
    BY <1>1, <1>2 DEF base
  <2>7. h = TextSteps(h, sorted, hash)
    BY <2>4, <2>5, <2>6 DEF TextSteps
  <2> QED BY <2>7 DEF TextFold
<1> HIDE DEF g
<1>8. /\ g[{}] = base
      /\ \A s \in SUBSET (1 .. n) :
           s # {} => g[s] = PutText(g[s \ {Max(s)}], sorted, hash, [i \in DOMAIN sorted |-> i][Max(s)])
  BY <1>1, <1>2, <1>7 DEF TextSteps, base
<1>9. FoldsOn(g, n, V, base, next)
  <2>1. ASSUME NEW i \in 1 .. n, NEW v \in V, g[1 .. (i - 1)] = v PROVE g[1 .. i] = next[v, i]
    <3>1. 1 .. i \in SUBSET (1 .. n) /\ i \in Nat \ {0} /\ [k \in DOMAIN sorted |-> k][i] = i
      BY <1>1
    <3>2. Max(1 .. i) = i /\ (1 .. i) \ {i} = 1 .. (i - 1) /\ 1 .. i # {}
      BY <3>1, FirstIndices
    <3>3. g[1 .. i] = PutText(g[1 .. (i - 1)], sorted, hash, i)
      BY <1>8, <3>1, <3>2
    <3> QED BY <1>4, <2>1, <3>3
  <2> QED BY <1>8, <2>1 DEF FoldsOn
<1>10. PICK P \in [0 .. n -> V] : /\ P[0] = base
                                  /\ \A i \in 1 .. n : P[i] = next[P[i - 1], i]
                                  /\ \A i \in 0 .. n : P[i] = g[1 .. i]
  <2>1. LoopGives(g, n, V, base, next)
    BY <1>6, <1>9, FoldValues, Zenon
  <2> QED BY <2>1, Zenon DEF LoopGives
<1>11. \A i \in 1 .. n : P[i] = PutText(P[i - 1], sorted, hash, i)
  <2>1. ASSUME NEW i \in 1 .. n PROVE P[i - 1] \in V
    <3>1. i - 1 \in 0 .. n
      OBVIOUS
    <3> QED BY <3>1
  <2> QED BY <1>4, <1>10, <2>1
<1>12. P[n] = g[1 .. n]
  <2>1. n \in 0 .. n
    OBVIOUS
  <2> QED BY <1>10, <2>1
<1>13. HashTable(sorted, hash) = g[DOMAIN [i \in DOMAIN sorted |-> i]]
  <2>1. HashTable(sorted, hash) = TextFold(sorted, hash)[DOMAIN [i \in DOMAIN sorted |-> i]]
    BY DEF HashTable, FoldLeft, MapThenFoldSet, TextFold, TextSteps, PutText, UsedIn, TextHome
  <2> QED BY <2>1 DEF g
<1>14. DOMAIN [i \in DOMAIN sorted |-> i] = 1 .. n
  BY <1>1
<1>15. TextTables(P, sorted, hash)
  BY <1>1, <1>2, <1>10, <1>11 DEF TextTables, V, base
<1> QED BY <1>1, <1>12, <1>13, <1>14, <1>15

TextHomes(sorted, hash) == [i \in 1 .. Len(sorted) |-> TextHome(sorted, hash, i)]

HashedAt(slots, n, size, home, T, sorted) ==
  /\ slots \in [1 .. size -> Nat]
  /\ \A i \in 1 .. n : /\ T[i] \in 0 .. size - 1 /\ slots[T[i] + 1] = NewIndex(sorted, i)
                       /\ Reaches(i, size, home, T, UsedIn(slots, size))

LEMMA TextsHashed ==
  ASSUME NEW sorted \in Seq(Texts0), NEW hash, \A i \in 1 .. Len(sorted) : hash[sorted[i]] \in Nat
  PROVE  \E T : HashedAt(HashTable(sorted, hash), Len(sorted), NumHashes(Len(sorted)),
                         TextHomes(sorted, hash), T, sorted)
<1>1. PICK n \in Nat : n = Len(sorted) /\ DOMAIN sorted = 1 .. n
  BY LenProperties
<1>2. PICK size \in Nat : size = NumHashes(n) /\ n <= size
  BY NumHashesIs
<1>3. PICK P : TextTables(P, sorted, hash) /\ HashTable(sorted, hash) = P[Len(sorted)]
  BY TextsPlaced
<1>4. /\ P \in [0 .. n -> [1 .. size -> Nat]] /\ P[0] = Zeros(size)
      /\ \A i \in 1 .. n : P[i] = PutText(P[i - 1], sorted, hash, i)
  BY <1>1, <1>2, <1>3 DEF TextTables
<1>5. PICK home : home = TextHomes(sorted, hash)
  OBVIOUS
<1>6. home \in [1 .. n -> 0 .. size - 1] /\ \A i \in 1 .. n : home[i] = TextHome(sorted, hash, i)
  <2>1. ASSUME NEW i \in 1 .. n PROVE TextHome(sorted, hash, i) \in 0 .. size - 1
    <3>1. PICK a \in Nat : a = hash[sorted[i]]
      BY <1>1
    <3>2. size \in Nat \ {0}
      BY <1>2
    <3>3. a % size \in 0 .. size - 1
      BY <3>2
    <3> QED BY <1>1, <1>2, <3>1, <3>3 DEF TextHome
  <2> QED BY <1>1, <1>5, <2>1 DEF TextHomes
<1> DEFINE T == [i \in 1 .. n |-> FreeSlot(UsedIn(P[i - 1], size), size, home[i])]
           U == [i \in 0 .. n |-> UsedIn(P[i], size)]
<1>7. ASSUME NEW i \in 1 .. n PROVE P[i] = [P[i - 1] EXCEPT ![T[i] + 1] = NewIndex(sorted, i)]
  BY <1>1, <1>2, <1>4, <1>6 DEF PutText
<1>8. \A i \in 0 .. n : U[i] = UsedIn(P[i], size) /\ U[i] \in SUBSET (0 .. size - 1)
  BY DEF UsedIn
<1>9. \A i \in 1 .. n : T[i] = FreeSlot(U[i - 1], size, home[i])
  <2>1. \A i \in 1 .. n : i - 1 \in 0 .. n
    OBVIOUS
  <2> HIDE DEF U
  <2> QED BY <1>8, <2>1
<1>10. ASSUME NEW i \in 1 .. n
       PROVE  NewIndex(sorted, i) \in Nat \ {0} /\ P[i - 1] \in [1 .. size -> Nat]
              /\ i - 1 \in 0 .. n /\ i \in 0 .. n
  <2>1. i \in 1 .. Len(sorted) /\ i - 1 \in 0 .. n /\ i \in 0 .. n
    BY <1>1
  <2> QED BY <1>4, <2>1, NewIndexIs
<1> HIDE DEF T, U
<1>11. U[0] = {}
  <2>1. ASSUME NEW s \in 0 .. size - 1 PROVE Zeros(size)[s + 1] = 0
    BY DEF Zeros
  <2>2. UsedIn(Zeros(size), size) = {}
    BY <2>1 DEF UsedIn
  <2>3. 0 \in 0 .. n
    OBVIOUS
  <2> QED BY <1>4, <1>8, <2>2, <2>3
<1>12. ASSUME NEW i \in 1 .. n, T[i] \in 0 .. size - 1
       PROVE  U[i] = U[i - 1] \cup {T[i]}
  <2>1. PICK t \in 0 .. size - 1, v \in [1 .. size -> Nat], x \in Nat \ {0} :
          t = T[i] /\ v = P[i - 1] /\ x = NewIndex(sorted, i)
    BY <1>10, <1>12
  <2>2. P[i] = [v EXCEPT ![t + 1] = x]
    BY <1>7, <2>1
  <2>3. UsedIn([v EXCEPT ![t + 1] = x], size) = UsedIn(v, size) \cup {t}
    <3>1. ASSUME NEW s \in 0 .. size - 1
          PROVE  [v EXCEPT ![t + 1] = x][s + 1] = IF s = t THEN x ELSE v[s + 1]
      <4>1. s + 1 \in 1 .. size /\ t + 1 \in 1 .. size /\ (s + 1 = t + 1 <=> s = t)
        OBVIOUS
      <4> QED BY <4>1
    <3> QED BY <3>1 DEF UsedIn
  <2> QED BY <1>8, <1>10, <2>1, <2>2, <2>3
<1> DEFINE B == {i \in 0 .. n : /\ IsFiniteSet(U[i]) /\ Cardinality(U[i]) <= i
                                /\ \A j \in 1 .. i : T[j] \in 0 .. size - 1}
<1>13. 0 \in B /\ \A i \in 1 .. n : i - 1 \in B => i \in B
  <2>1. 0 \in B
    <3>1. IsFiniteSet({}) /\ Cardinality({}) = 0
      BY FS_EmptySet
    <3>2. IsFiniteSet(U[0]) /\ Cardinality(U[0]) <= 0
      BY <1>11, <3>1
    <3>3. 0 \in 0 .. n /\ \A j \in 1 .. 0 : T[j] \in 0 .. size - 1
      OBVIOUS
    <3> QED BY <3>2, <3>3
  <2>2. ASSUME NEW i \in 1 .. n, i - 1 \in B PROVE i \in B
    <3>1. PICK u : u = U[i - 1]
      OBVIOUS
    <3>2. /\ IsFiniteSet(u) /\ Cardinality(u) <= i - 1 /\ u \in SUBSET (0 .. size - 1)
          /\ \A j \in 1 .. i - 1 : T[j] \in 0 .. size - 1
      BY <1>8, <1>10, <2>2, <3>1
    <3>3. Cardinality(u) \in Nat
      BY <3>2, FS_CardinalityType
    <3>4. Cardinality(u) < size /\ home[i] \in 0 .. size - 1
      BY <1>2, <1>6, <3>2, <3>3
    <3>5. T[i] \in 0 .. size - 1
      <4>1. FreeSlot(u, size, home[i]) \in 0 .. size - 1
        BY <3>2, <3>4, FreeSlotIs
      <4> QED BY <1>9, <3>1, <4>1
    <3>6. U[i] = u \cup {T[i]}
      BY <1>12, <3>1, <3>5
    <3>7. IsFiniteSet(U[i]) /\ Cardinality(U[i]) <= i
      <4>1. PICK t : t = T[i]
        OBVIOUS
      <4>2. /\ IsFiniteSet(u \cup {t})
            /\ Cardinality(u \cup {t}) = IF t \in u THEN Cardinality(u) ELSE Cardinality(u) + 1
        BY <3>2, FS_AddElement
      <4> QED BY <3>2, <3>3, <3>6, <4>1, <4>2
    <3>8. \A j \in 1 .. i : T[j] \in 0 .. size - 1
      <4>1. \A j \in 1 .. i : j = i \/ j \in 1 .. i - 1
        OBVIOUS
      <4> QED BY <3>2, <3>5, <4>1
    <3>9. i \in 0 .. n
      OBVIOUS
    <3> QED BY <3>7, <3>8, <3>9
  <2> HIDE DEF B
  <2> QED BY <2>1, <2>2
<1>14. 0 .. n \subseteq B
  <2> HIDE DEF B
  <2> QED BY <1>13, StepByStep
<1>15. \A i \in 1 .. n : T[i] \in 0 .. size - 1
  <2>1. n \in B
    BY <1>14
  <2> QED BY <2>1
<1> HIDE DEF B
<1>16. ProbedInto(n, size, home, T, U)
  BY <1>9, <1>11, <1>12, <1>15 DEF ProbedInto
<1>17. /\ \A i \in 1 .. n, j \in 1 .. n : T[i] = T[j] => i = j
       /\ \A i \in 1 .. n : Reaches(i, size, home, T, U[n])
  <2>1. /\ \A i \in 0 .. n : /\ U[i] \in SUBSET (0 .. size - 1) /\ Cardinality(U[i]) = i
                             /\ IsFiniteSet(U[i])
        /\ \A i \in 1 .. n : T[i] \in U[n] /\ T[i] \notin U[i - 1]
        /\ \A i \in 1 .. n, j \in 1 .. n : T[i] = T[j] => i = j
        /\ \A t \in U[n] : \E i \in 1 .. n : T[i] = t
        /\ \A i \in 1 .. n : Reaches(i, size, home, T, U[n])
    <3>1. n <= size
      BY <1>2
    <3>2. home \in [1 .. n -> 0 .. size - 1]
      BY <1>6
    <3> QED BY <1>16, <3>1, <3>2, Probed
  <2> QED BY <2>1
<1> DEFINE A == {k \in 0 .. n : \A i \in 1 .. k : P[k][T[i] + 1] = NewIndex(sorted, i)}
<1>18. 0 \in A /\ \A k \in 1 .. n : k - 1 \in A => k \in A
  <2>1. 0 \in A
    OBVIOUS
  <2>2. ASSUME NEW k \in 1 .. n, k - 1 \in A PROVE k \in A
    <3>1. PICK v \in [1 .. size -> Nat], x \in Nat : v = P[k - 1] /\ x = NewIndex(sorted, k)
      BY <1>10
    <3>2. P[k] = [v EXCEPT ![T[k] + 1] = x]
      BY <1>7, <3>1
    <3>3. ASSUME NEW i \in 1 .. k PROVE P[k][T[i] + 1] = NewIndex(sorted, i)
      <4>1. i \in 1 .. n
        OBVIOUS
      <4>2. PICK a \in 0 .. size - 1, b \in 0 .. size - 1 : a = T[i] /\ b = T[k]
        BY <1>15, <4>1
      <4>3. a + 1 \in 1 .. size /\ b + 1 \in 1 .. size /\ (a + 1 = b + 1 <=> a = b)
        OBVIOUS
      <4>4. [v EXCEPT ![b + 1] = x][a + 1] = IF a = b THEN x ELSE v[a + 1]
        BY <4>3
      <4>5. CASE i = k
        BY <3>1, <3>2, <4>2, <4>4, <4>5
      <4>6. CASE i # k
        <5>1. i \in 1 .. k - 1 /\ a # b
          BY <1>17, <4>1, <4>2, <4>6
        <5>2. v[a + 1] = NewIndex(sorted, i)
          BY <2>2, <3>1, <4>2, <5>1
        <5> QED BY <3>2, <4>2, <4>4, <5>1, <5>2
      <4> QED BY <4>5, <4>6
    <3>4. k \in 0 .. n
      OBVIOUS
    <3> QED BY <3>3, <3>4
  <2> HIDE DEF A
  <2> QED BY <2>1, <2>2
<1>19. 0 .. n \subseteq A
  <2> HIDE DEF A
  <2> QED BY <1>18, StepByStep
<1>20. \A i \in 1 .. n : P[n][T[i] + 1] = NewIndex(sorted, i)
  <2>1. n \in A
    BY <1>19
  <2> QED BY <2>1
<1> HIDE DEF A
<1>21. P[n] \in [1 .. size -> Nat] /\ U[n] = UsedIn(P[n], size)
  <2>1. n \in 0 .. n
    OBVIOUS
  <2> QED BY <1>4, <1>8, <2>1
<1>22. HashedAt(P[n], n, size, home, T, sorted)
  BY <1>15, <1>17, <1>20, <1>21 DEF HashedAt
<1> QED BY <1>1, <1>2, <1>3, <1>5, <1>22

(* Who was displaced lies in the run of collisions that holds his home,    *)
(* or his home in the run at the other end of the table.                   *)
LEMMA HomeInRun ==
  ASSUME NEW size \in Nat, NEW slots \in [1 .. size -> Nat], NEW home \in 0 .. size - 1,
         NEW d \in 0 .. size - 1,
         \A e \in 0 .. d : (home + e) % size \in UsedIn(slots, size)
  PROVE  \E n \in 1 .. 2 : home \in CollisionRanges(slots, (home + d) % size)[n]
<1>1. size \in Nat \ {0} /\ Len(slots) = size
  BY FunctionLen
<1>2. ASSUME NEW e \in 0 .. d, home + e < size PROVE slots[(home + e) + 1] # 0
  <2>1. PICK r \in 0 .. size - 1 : r = home + e /\ home + e = size * 0 + r /\ 0 \in Int
    BY <1>2
  <2>2. (size * 0 + r) % size = r
    BY <1>1, <2>1, ModIs
  <2> QED BY <2>1, <2>2 DEF UsedIn
<1>3. ASSUME NEW e \in 0 .. d, size <= home + e PROVE slots[(home + e - size) + 1] # 0
  <2>1. PICK r \in 0 .. size - 1 : r = home + e - size /\ home + e = size * 1 + r /\ 1 \in Int
    <3>1. home + e - size \in 0 .. size - 1 /\ home + e = size * 1 + (home + e - size)
      BY <1>3
    <3> QED BY <3>1
  <2>2. (size * 1 + r) % size = r
    BY <1>1, <2>1, ModIs
  <2> QED BY <2>1, <2>2 DEF UsedIn
<1> DEFINE i == (home + d) % size
           Used(S) == \A s \in S : slots[s + 1] # 0
           Run == {s \in 0 .. size - 1 : Used(s .. i) /\ Used(i .. s)}
           AtFront == {s \in 0 .. size - 1 : Used(0 .. s)}
           AtBack == {s \in 0 .. size - 1 : Used(s .. size - 1)}
           Ranges == IF Run = 0 .. size - 1 THEN <<Run, {}>>
                     ELSE IF 0 \in Run THEN <<Run, AtBack>>
                     ELSE IF size - 1 \in Run THEN <<Run, AtFront>>
                     ELSE <<Run, {}>>
<1>4. CollisionRanges(slots, i) = Ranges
  BY <1>1 DEF CollisionRanges
<1>5. 1 \in 1 .. 2 /\ 2 \in 1 .. 2
  OBVIOUS
<1>6. CASE home + d < size
  <2>1. i = home + d
    <3>1. PICK r \in 0 .. size - 1 : r = home + d /\ home + d = size * 0 + r /\ 0 \in Int
      BY <1>6
    <3>2. (size * 0 + r) % size = r
      BY <1>1, <3>1, ModIs
    <3> QED BY <3>1, <3>2
  <2>2. ASSUME NEW s \in home .. home + d PROVE slots[s + 1] # 0
    <3>1. PICK e \in 0 .. d : e = s - home /\ home + e = s /\ home + e < size
      <4>1. s - home \in 0 .. d /\ home + (s - home) = s
        OBVIOUS
      <4> QED BY <1>6, <4>1
    <3> QED BY <1>2, <3>1
  <2>3. home + d .. home \subseteq home .. home + d
    OBVIOUS
  <2>4. home \in Run
    BY <2>1, <2>2, <2>3
  <2>5. Ranges[1] = Run
    <3> HIDE DEF Run, AtBack, AtFront
    <3> QED OBVIOUS
  <2> HIDE DEF Run, Ranges
  <2> QED BY <1>4, <1>5, <2>4, <2>5
<1>7. CASE ~(home + d < size)
  <2>1. PICK r \in 0 .. size - 1 : r = home + d - size /\ r = i
    <3>1. PICK r \in 0 .. size - 1 : r = home + d - size /\ home + d = size * 1 + r /\ 1 \in Int
      <4>1. home + d - size \in 0 .. size - 1 /\ home + d = size * 1 + (home + d - size)
        BY <1>7
      <4> QED BY <4>1
    <3>2. (size * 1 + r) % size = r
      BY <1>1, <3>1, ModIs
    <3> QED BY <3>1, <3>2
  <2>2. ASSUME NEW s \in 0 .. r PROVE slots[s + 1] # 0
    <3>1. PICK e \in 0 .. d : home + e - size = s /\ size <= home + e
      <4>1. size - home + s \in 0 .. d /\ home + (size - home + s) - size = s /\ size <= home + (size - home + s)
        BY <2>1
      <4> QED BY <4>1
    <3> QED BY <1>3, <3>1
  <2>3. ASSUME NEW s \in home .. size - 1 PROVE slots[s + 1] # 0
    <3>1. PICK e \in 0 .. d : home + e = s /\ home + e < size
      <4>1. s - home \in 0 .. d /\ home + (s - home) = s
        BY <1>7
      <4> QED BY <4>1
    <3> QED BY <1>2, <3>1
  <2>4. 0 \in Run
    <3>1. r .. 0 \subseteq 0 .. r /\ 0 \in 0 .. size - 1
      BY <1>1
    <3> QED BY <2>1, <2>2, <3>1
  <2>5. home \in AtBack
    BY <2>3
  <2>6. Run = 0 .. size - 1 => Ranges[1] = Run /\ home \in Run
    <3> HIDE DEF Run, AtBack, AtFront
    <3> QED OBVIOUS
  <2>7. Run # 0 .. size - 1 => Ranges[2] = AtBack
    <3> HIDE DEF Run, AtBack, AtFront
    <3> QED BY <2>4
  <2> HIDE DEF Run, Ranges, AtBack
  <2> QED BY <1>4, <1>5, <2>5, <2>6, <2>7
<1> QED BY <1>6, <1>7

KeptOf(keep, S) == IF keep = "first" THEN Min(S) ELSE Max(S)

LEMMA KeptIs ==
  ASSUME NEW m \in Nat, NEW S \in SUBSET (0 .. m), S # {}, NEW keep
  PROVE  KeptOf(keep, S) \in S
<1>1. Min(S) \in S
  <2>1. PICK x \in S : \A y \in S : x <= y
    <3>1. S \subseteq Nat
      OBVIOUS
    <3> QED BY <3>1, LeastOf
  <2>2. S \subseteq Int
    OBVIOUS
  <2>3. Min(S) = x
    BY <2>1, <2>2, MinIs
  <2> QED BY <2>3
<1>2. Max(S) \in S
  <2> DEFINE R == {m - x : x \in S}
  <2>1. PICK t \in R : \A y \in R : t <= y
    <3>1. ASSUME NEW x \in S PROVE m - x \in Nat
      OBVIOUS
    <3>2. PICK x \in S : m - x \in R
      OBVIOUS
    <3>3. R \subseteq Nat /\ R # {}
      BY <3>1, <3>2
    <3> HIDE DEF R
    <3> QED BY <3>3, LeastOf
  <2>2. PICK x \in S : t = m - x
    OBVIOUS
  <2>3. ASSUME NEW y \in S PROVE x >= y
    <3>1. m - x <= m - y
      BY <2>1, <2>2
    <3>2. x \in Int /\ y \in Int
      OBVIOUS
    <3> QED BY <3>1, <3>2
  <2>4. S \subseteq Int
    OBVIOUS
  <2>5. Max(S) = x
    BY <2>3, <2>4, MaxIs
  <2> QED BY <2>5
<1> QED BY <1>1, <1>2 DEF KeptOf

-----------------------------------------------------------------------------
(***************************************************************************)
(* A rebuild, by its parts.                                                *)
(***************************************************************************)
NamesIn(b) == {StringAt(b, i) : i \in Named(b)}

SortedNames(b) == SortedSeq(NamesIn(b), Before)

TextOf(sorted) == <<0>> \o StringsOfAll(sorted)

PaddedText(sorted) == TextOf(sorted) \o Zeros(Align4(Len(TextOf(sorted))) - Len(TextOf(sorted)))

MappingOf(b, sorted, keep) ==
  {<<0, 0>>} \cup
  {<<KeptOf(keep, {i \in Named(b) : StringAt(b, i) = sorted[j]}), NewIndex(sorted, j)>> :
     j \in DOMAIN sorted}

StreamOf(sorted, hash) ==
  [signature |-> Signature, version |-> 1, strings |-> PaddedText(sorted),
   hashes |-> HashTable(sorted, hash), numStrings |-> Len(sorted)]

(* The mapping as the model writes it, with the function from places to    *)
(* strings.                                                                *)
MappingBy(At, sorted, keep) ==
  {<<0, 0>>} \cup
  {<<KeptOf(keep, {i \in DOMAIN At : At[i] = sorted[j]}), NewIndex(sorted, j)>> :
     j \in DOMAIN sorted}

StringsBy(b) == [i \in Named(b) |-> StringAt(b, i)]

SortedBy(b) == SortedSeq({StringsBy(b)[i] : i \in DOMAIN StringsBy(b)}, Before)

LEMMA RebuildIs ==
  ASSUME NEW s, s.strings # <<>>, NEW hash, NEW keep
  PROVE  Rebuild(s, hash, keep)
           = [mapping |-> MappingOf(s.strings, SortedNames(s.strings), keep),
              stream |-> StreamOf(SortedNames(s.strings), hash)]
<1>1. Rebuild(s, hash, keep)
        = IF s.strings = <<>> THEN [mapping |-> {}, stream |-> s]
          ELSE [mapping |-> MappingBy(StringsBy(s.strings), SortedBy(s.strings), keep),
                stream |-> StreamOf(SortedBy(s.strings), hash)]
  BY Zenon DEF Rebuild, MappingBy, StreamOf, StringsBy, SortedBy, PaddedText, TextOf, StringsOfAll, KeptOf
<1>2. PICK b : b = s.strings
  OBVIOUS
<1>3. {StringsBy(b)[i] : i \in DOMAIN StringsBy(b)} = NamesIn(b)
  BY DEF StringsBy, NamesIn
<1>4. SortedBy(b) = SortedNames(b)
  BY <1>3 DEF SortedBy, SortedNames
<1>5. ASSUME NEW sorted PROVE MappingBy(StringsBy(b), sorted, keep) = MappingOf(b, sorted, keep)
  <2>1. ASSUME NEW j PROVE {i \in DOMAIN StringsBy(b) : StringsBy(b)[i] = sorted[j]}
                             = {i \in Named(b) : StringAt(b, i) = sorted[j]}
    BY DEF StringsBy
  <2> QED BY <2>1 DEF MappingBy, MappingOf
<1> QED BY <1>1, <1>2, <1>4, <1>5

LEMMA PaddingIs ==
  ASSUME NEW k \in Nat
  PROVE  Align4(k) - k \in Nat
<1>1. (k + 3) % 4 \in 0 .. 3 /\ k + 3 = 4 * ((k + 3) \div 4) + ((k + 3) % 4) /\ (k + 3) \div 4 \in Int
  <2>1. PICK a \in Int : a = k + 3
    OBVIOUS
  <2>2. a % 4 \in 0 .. 3 /\ a = 4 * (a \div 4) + (a % 4) /\ a \div 4 \in Int
    OBVIOUS
  <2> QED BY <2>1, <2>2
<1>2. PICK q \in Int, r \in 0 .. 3 : q = (k + 3) \div 4 /\ k + 3 = 4 * q + r
  BY <1>1
<1>3. q * 4 - k \in Nat
  BY <1>2
<1> QED BY <1>2, <1>3 DEF Align4

(* The text of a rebuild is a buffer of its strings.                       *)
LEMMA TextIs ==
  ASSUME NEW sorted \in Seq(Texts0)
  PROVE  /\ PaddedText(sorted) \in Seq(Nat) /\ PaddedText(sorted) # <<>>
         /\ \E L : BufferOf(PaddedText(sorted), sorted, L)
<1>1. PICK all, L : all \in Seq(Nat) /\ all = StringsOfAll(sorted) /\ StringPlaces(sorted, L)
  BY StringsPlaced
<1>2. PICK n \in Nat : n = Len(sorted)
  BY LenProperties
<1>3. PICK z \in Nat : z = L[n] /\ Len(all) = z
  <2>1. n \in 0 .. n
    OBVIOUS
  <2> QED BY <1>1, <1>2, <2>1 DEF StringPlaces
<1>4. PICK front : front = <<0>>
  OBVIOUS
<1>5. front \in Seq(Nat) /\ Len(front) = 1 /\ front[1] = 0
  BY <1>4
<1>6. PICK text : text = TextOf(sorted)
  OBVIOUS
<1>7. text = front \o all
  BY <1>1, <1>4, <1>6 DEF TextOf
<1>8. /\ text \in Seq(Nat) /\ Len(text) = 1 + z
      /\ text[1] = 0 /\ \A j \in 1 .. z : text[1 + j] = all[j]
  <2>1. /\ text \in Seq(Nat) /\ Len(text) = Len(front) + Len(all)
        /\ \A i \in 1 .. Len(front) + Len(all) :
             text[i] = IF i <= Len(front) THEN front[i] ELSE all[i - Len(front)]
    BY <1>1, <1>5, <1>7, ConcatProperties
  <2>2. \A i \in 1 .. 1 + z : text[i] = IF i <= 1 THEN front[i] ELSE all[i - 1]
    BY <1>3, <1>5, <2>1
  <2>3. 1 \in 1 .. 1 + z /\ \A j \in 1 .. z : 1 + j \in 1 .. 1 + z /\ ~(1 + j <= 1) /\ (1 + j) - 1 = j
    OBVIOUS
  <2> QED BY <1>3, <1>5, <2>1, <2>2, <2>3
<1>9. PICK p \in Nat : p = Align4(Len(text)) - Len(text)
  <2>1. Len(text) \in Nat
    BY <1>8
  <2> QED BY <2>1, PaddingIs
<1>10. PICK pad : pad = Zeros(p)
  OBVIOUS
<1>11. pad \in Seq(Nat) /\ Len(pad) = p /\ \A i \in 1 .. p : pad[i] = 0
  <2>1. pad \in [1 .. p -> Nat] /\ \A i \in 1 .. p : pad[i] = 0
    BY <1>10 DEF Zeros
  <2> QED BY <2>1, FunctionLen
<1>12. PICK b : b = PaddedText(sorted)
  OBVIOUS
<1>13. b = text \o pad
  BY <1>6, <1>9, <1>10, <1>12 DEF PaddedText
<1>14. /\ b \in Seq(Nat) /\ Len(b) = 1 + z + p
       /\ \A i \in 1 .. 1 + z : b[i] = text[i]
       /\ \A i \in 1 .. p : b[1 + z + i] = 0
  <2>1. /\ b \in Seq(Nat) /\ Len(b) = Len(text) + Len(pad)
        /\ \A i \in 1 .. Len(text) + Len(pad) :
             b[i] = IF i <= Len(text) THEN text[i] ELSE pad[i - Len(text)]
    BY <1>8, <1>11, <1>13, ConcatProperties
  <2>2. \A i \in 1 .. 1 + z + p : b[i] = IF i <= 1 + z THEN text[i] ELSE pad[i - (1 + z)]
    BY <1>8, <1>11, <2>1
  <2>3. /\ \A i \in 1 .. 1 + z : i \in 1 .. 1 + z + p /\ i <= 1 + z
        /\ \A i \in 1 .. p : 1 + z + i \in 1 .. 1 + z + p /\ ~(1 + z + i <= 1 + z) /\ (1 + z + i) - (1 + z) = i
    OBVIOUS
  <2>4. \A i \in 1 .. 1 + z : b[i] = text[i]
    BY <2>2, <2>3
  <2>5. ASSUME NEW i \in 1 .. p PROVE b[1 + z + i] = 0
    <3>1. 1 + z + i \in 1 .. 1 + z + p /\ ~(1 + z + i <= 1 + z) /\ (1 + z + i) - (1 + z) = i
      BY <2>3
    <3>2. b[1 + z + i] = pad[(1 + z + i) - (1 + z)]
      BY <2>2, <3>1
    <3> QED BY <1>11, <3>1, <3>2
  <2> QED BY <1>8, <1>11, <2>1, <2>4, <2>5
<1>15. b # <<>> /\ 1 <= Len(b)
  <2>1. Len(b) # 0 /\ 1 <= Len(b)
    BY <1>14
  <2> QED BY <2>1
<1>16. b[1] = 0 /\ \A j \in 1 .. z : b[1 + j] = all[j]
  <2>1. 1 \in 1 .. 1 + z /\ \A j \in 1 .. z : 1 + j \in 1 .. 1 + z
    OBVIOUS
  <2> QED BY <1>8, <1>14, <2>1
<1>17. Quiet(b, 1 + z)
  <2>1. ASSUME NEW q \in 1 + z .. (1 + z + p) - 1 PROVE b[q + 1] = 0
    <3>1. q - z \in 1 .. p /\ 1 + z + (q - z) = q + 1
      BY <2>1
    <3> QED BY <1>14, <3>1
  <2> QED BY <1>14, <2>1 DEF Quiet
<1>18. StringsLieAt(b, 1, sorted, L)
  <2>1. 1 + z <= 1 + z + p
    OBVIOUS
  <2> QED BY <1>1, <1>2, <1>3, <1>14, <1>16, <2>1 DEF StringsLieAt
<1>19. BufferOf(b, sorted, L)
  BY <1>1, <1>2, <1>3, <1>15, <1>16, <1>17, <1>18 DEF BufferOf
<1> QED BY <1>12, <1>14, <1>15, <1>19

(* The sorted names of any buffer: each once, none empty.                  *)
NamesOnce(b, sorted) ==
  /\ sorted \in Seq(Texts0)
  /\ \A i \in 1 .. Len(sorted) : sorted[i] # <<>> /\ sorted[i] \in NamesIn(b)
  /\ \A i \in 1 .. Len(sorted), j \in 1 .. Len(sorted) : sorted[i] = sorted[j] => i = j
  /\ \A x \in NamesIn(b) : \E i \in 1 .. Len(sorted) : sorted[i] = x

LEMMA NamesAreSorted ==
  ASSUME NEW b \in Seq(Nat)
  PROVE  NamesOnce(b, SortedNames(b))
<1>1. PICK m \in Nat : m = Len(b)
  BY LenProperties
<1>2. Named(b) \subseteq 0 .. m - 1 /\ Named(b) \subseteq Starts(b)
  BY <1>1 DEF Named, Starts
<1>3. ASSUME NEW x \in NamesIn(b) PROVE x \in Texts0 /\ x # <<>>
  <2>1. PICK i \in Named(b) : x = StringAt(b, i)
    BY DEF NamesIn
  <2>2. StringAt(b, i) # <<>>
    BY DEF Named
  <2>3. i \in Starts(b)
    BY <1>2
  <2>4. StringAt(b, i) \in Texts0
    BY <2>3, StartHasString
  <2> QED BY <2>1, <2>2, <2>4
<1>4. IsFiniteSet(NamesIn(b))
  <2>1. IsFiniteSet(Named(b))
    <3>1. 0 \in Int /\ m - 1 \in Int
      OBVIOUS
    <3>2. IsFiniteSet(0 .. m - 1)
      BY <3>1, FS_Interval
    <3> QED BY <1>2, <3>2, FS_Subset
  <2> DEFINE f == [i \in Named(b) |-> StringAt(b, i)]
  <2>2. f \in Surjection(Named(b), NamesIn(b))
    <3>1. f \in [Named(b) -> NamesIn(b)]
      BY DEF NamesIn
    <3>2. \A x \in NamesIn(b) : \E i \in Named(b) : f[i] = x
      BY DEF NamesIn
    <3> QED BY <3>1, <3>2 DEF Surjection
  <2> HIDE DEF f
  <2> QED BY <2>1, <2>2, FS_Surjection
<1>5. NamesIn(b) \in SUBSET Seq(Nat)
  <2>1. Texts0 \subseteq Seq(Nat)
    BY DEF Texts0
  <2> QED BY <1>3, <2>1
<1>6. PICK S : S = NamesIn(b)
  OBVIOUS
<1>7. /\ Cardinality(S) \in Nat
      /\ SortedSeq(S, Before) \in [1 .. Cardinality(S) -> S]
      /\ Len(SortedSeq(S, Before)) = Cardinality(S)
      /\ \A i \in 1 .. Cardinality(S), j \in 1 .. Cardinality(S) :
           SortedSeq(S, Before)[i] = SortedSeq(S, Before)[j] => i = j
      /\ \A x \in S : \E i \in 1 .. Cardinality(S) : SortedSeq(S, Before)[i] = x
  BY <1>4, <1>5, <1>6, SortedStrings
<1>8. SortedNames(b) = SortedSeq(S, Before)
  BY <1>6 DEF SortedNames
<1>9. PICK f, n : f = SortedSeq(S, Before) /\ n \in Nat /\ n = Cardinality(S)
  BY <1>7
<1>10. /\ f \in [1 .. n -> S] /\ Len(f) = n
       /\ \A i \in 1 .. n, j \in 1 .. n : f[i] = f[j] => i = j
       /\ \A x \in S : \E i \in 1 .. n : f[i] = x
  BY <1>7, <1>9
<1>11. f \in Seq(Texts0)
  <2>1. f \in [1 .. n -> Texts0]
    BY <1>3, <1>6, <1>10
  <2> QED BY <1>9, <2>1, FunctionLen
<1>12. \A i \in 1 .. n : f[i] # <<>> /\ f[i] \in S
  BY <1>3, <1>6, <1>10
<1>13. NamesOnce(b, f)
  BY <1>6, <1>10, <1>11, <1>12 DEF NamesOnce
<1> QED BY <1>8, <1>9, <1>13

-----------------------------------------------------------------------------
(***************************************************************************)
(* What a rebuild keeps.                                                   *)
(***************************************************************************)
(* The strings of the new text, each at its new offset.                    *)
TextHolds(text, sorted) ==
  /\ Named(text) = {NewIndex(sorted, j) : j \in 1 .. Len(sorted)}
  /\ \A j \in 1 .. Len(sorted) :
       NewIndex(sorted, j) \in Nat \ {0} /\ StringAt(text, NewIndex(sorted, j)) = sorted[j]

LEMMA TextHoldsStrings ==
  ASSUME NEW sorted \in Seq(Texts0), \A i \in 1 .. Len(sorted) : sorted[i] # <<>>
  PROVE  TextHolds(PaddedText(sorted), sorted)
<1>1. PICK text, L : text = PaddedText(sorted) /\ text \in Seq(Nat) /\ BufferOf(text, sorted, L)
  BY TextIs
<1>2. PICK n \in Nat : n = Len(sorted)
  BY LenProperties
<1>3. ASSUME NEW j \in 1 .. n PROVE NewIndex(sorted, j) = 1 + L[j - 1] /\ NewIndex(sorted, j) \in Nat \ {0}
  <2>1. LenBefore(sorted, j) = L[j - 1]
    BY <1>1, <1>2 DEF BufferOf, StringPlaces
  <2>2. j \in 1 .. Len(sorted)
    BY <1>2
  <2> QED BY <2>1, <2>2, NewIndexIs
<1>4. /\ Named(text) = {1 + L[i - 1] : i \in {k \in 1 .. n : sorted[k] # <<>>}}
      /\ \A i \in 1 .. n : StringAt(text, 1 + L[i - 1]) = sorted[i]
  BY <1>1, <1>2, BufferStrings
<1>5. {k \in 1 .. n : sorted[k] # <<>>} = 1 .. n
  BY <1>2
<1>6. Named(text) = {NewIndex(sorted, j) : j \in 1 .. n}
  BY <1>3, <1>4, <1>5
<1>7. ASSUME NEW j \in 1 .. n PROVE StringAt(text, NewIndex(sorted, j)) = sorted[j]
  BY <1>3, <1>4
<1> QED BY <1>1, <1>2, <1>3, <1>6, <1>7 DEF TextHolds

(* A name that is kept at some copy.                                       *)
LEMMA CopyIsKept ==
  ASSUME NEW b \in Seq(Nat), NEW x \in NamesIn(b), NEW keep
  PROVE  LET Copies == {i \in Named(b) : StringAt(b, i) = x}
         IN /\ Copies # {} /\ KeptOf(keep, Copies) \in Copies
            /\ KeptOf(keep, Copies) \in Nat
<1> DEFINE Copies == {i \in Named(b) : StringAt(b, i) = x}
<1>1. PICK m \in Nat : m = Len(b)
  BY LenProperties
<1>2. Copies \in SUBSET (0 .. m)
  BY <1>1 DEF Named, Starts
<1>3. Copies # {}
  BY DEF NamesIn
<1> HIDE DEF Copies
<1>4. KeptOf(keep, Copies) \in Copies
  BY <1>2, <1>3, KeptIs
<1>5. KeptOf(keep, Copies) \in Nat
  <2>1. PICK c \in Copies : c = KeptOf(keep, Copies)
    BY <1>4
  <2>2. c \in 0 .. m
    BY <1>2
  <2> QED BY <2>1, <2>2
<1> QED BY <1>3, <1>4, <1>5 DEF Copies

LEMMA MappingKeeps ==
  ASSUME NEW s, s.strings \in Seq(Nat), NEW keep, NEW sorted, NamesOnce(s.strings, sorted),
         NEW r, r.mapping = MappingOf(s.strings, sorted, keep),
         TextHolds(r.stream.strings, sorted)
  PROVE  MappingKeepsStrings(s, r)
<1>1. PICK b, text, map : b = s.strings /\ text = r.stream.strings /\ map = r.mapping
  OBVIOUS
<1>2. PICK n \in Nat : n = Len(sorted) /\ DOMAIN sorted = 1 .. n
  BY LenProperties DEF NamesOnce
<1> DEFINE Copies(x) == {i \in Named(b) : StringAt(b, i) = x}
           K(j) == KeptOf(keep, Copies(sorted[j]))
<1>3. ASSUME NEW j \in 1 .. n
      PROVE  K(j) \in Nat /\ K(j) \in Named(b) /\ StringAt(b, K(j)) = sorted[j]
  <2>1. sorted[j] \in NamesIn(b)
    BY <1>1, <1>2 DEF NamesOnce
  <2>2. KeptOf(keep, {i \in Named(b) : StringAt(b, i) = sorted[j]}) \in {i \in Named(b) : StringAt(b, i) = sorted[j]}
        /\ KeptOf(keep, {i \in Named(b) : StringAt(b, i) = sorted[j]}) \in Nat
    BY <1>1, <2>1, CopyIsKept
  <2> QED BY <2>2
<1>4. map = {<<0, 0>>} \cup {<<K(j), NewIndex(sorted, j)>> : j \in 1 .. n}
  BY <1>1, <1>2 DEF MappingOf
<1>5. \A j \in 1 .. n : StringAt(text, NewIndex(sorted, j)) = sorted[j]
  BY <1>1, <1>2 DEF TextHolds
<1> HIDE DEF K
<1>6. ASSUME NEW i \in Named(b) \ {0}
      PROVE  /\ MapOldToNew(map, i) # Err => StringAt(text, MapOldToNew(map, i)[1]) = StringAt(b, i)
             /\ MapOldToNew(map, i) = Err =>
                  \E j \in Copies(StringAt(b, i)) : MapOldToNew(map, j) # Err
  <2>1. i # 0
    OBVIOUS
  <2>2. ASSUME MapOldToNew(map, i) # Err
        PROVE  StringAt(text, MapOldToNew(map, i)[1]) = StringAt(b, i)
    <3>1. ~(\A pair \in map : pair[1] # i)
      BY <2>1, <2>2 DEF MapOldToNew
    <3>2. PICK pair \in map : pair[1] = i /\ pair = CHOOSE q \in map : q[1] = i
      BY <3>1
    <3>3. MapOldToNew(map, i) = <<pair[2]>>
      BY <2>1, <3>1, <3>2 DEF MapOldToNew
    <3>4. PICK j \in 1 .. n : pair = <<K(j), NewIndex(sorted, j)>>
      <4>1. pair # <<0, 0>>
        BY <2>1, <3>2
      <4> QED BY <1>4, <4>1
    <3>5. i = K(j) /\ MapOldToNew(map, i)[1] = NewIndex(sorted, j)
      <4>1. PICK c, x : c = K(j) /\ x = NewIndex(sorted, j)
        OBVIOUS
      <4>2. pair = <<c, x>> /\ pair[1] = c /\ pair[2] = x
        BY <3>4, <4>1
      <4>3. <<x>>[1] = x
        OBVIOUS
      <4> QED BY <3>2, <3>3, <4>1, <4>2, <4>3
    <3> QED BY <1>3, <1>5, <3>5
  <2>3. \E j \in Copies(StringAt(b, i)) : MapOldToNew(map, j) # Err
    <3>1. StringAt(b, i) \in NamesIn(b)
      BY DEF NamesIn
    <3>2. PICK k \in 1 .. n : sorted[k] = StringAt(b, i)
      BY <1>1, <1>2, <3>1 DEF NamesOnce
    <3>3. PICK c, x : c = K(k) /\ x = NewIndex(sorted, k)
      OBVIOUS
    <3>4. c \in Copies(StringAt(b, i))
      BY <1>3, <3>2, <3>3
    <3>5. <<c, x>> \in map /\ <<c, x>>[1] = c
      BY <1>4, <3>3
    <3>6. MapOldToNew(map, c) # Err
      <4>1. CASE c = 0
        BY <4>1 DEF MapOldToNew, Err
      <4>2. CASE c # 0
        <5>1. ~(\A pair \in map : pair[1] # c)
          BY <3>5
        <5>2. MapOldToNew(map, c) = <<(CHOOSE pair \in map : pair[1] = c)[2]>>
          BY <4>2, <5>1 DEF MapOldToNew
        <5>3. ASSUME NEW y PROVE <<y>> # <<>>
          OBVIOUS
        <5> QED BY <5>2, <5>3 DEF Err
      <4> QED BY <4>1, <4>2
    <3> QED BY <3>4, <3>6
  <2> QED BY <2>2, <2>3
<1> QED BY <1>1, <1>6 DEF MappingKeepsStrings

(* Rebuilding a rebuilt stream maps each string to itself.                 *)
LEMMA MappingStays ==
  ASSUME NEW text \in Seq(Nat), NEW keep, NEW sorted, NamesOnce(text, sorted), TextHolds(text, sorted)
  PROVE  \A pair \in MappingOf(text, sorted, keep) : pair[1] = pair[2]
<1>1. PICK n \in Nat : n = Len(sorted) /\ DOMAIN sorted = 1 .. n
  BY LenProperties DEF NamesOnce
<1>2. ASSUME NEW j \in 1 .. n
      PROVE  KeptOf(keep, {i \in Named(text) : StringAt(text, i) = sorted[j]}) = NewIndex(sorted, j)
  <2>1. sorted[j] \in NamesIn(text)
    BY <1>1 DEF NamesOnce
  <2>2. PICK c : c = KeptOf(keep, {i \in Named(text) : StringAt(text, i) = sorted[j]})
    OBVIOUS
  <2>3. c \in {i \in Named(text) : StringAt(text, i) = sorted[j]}
    BY <2>1, <2>2, CopyIsKept
  <2>4. PICK k \in 1 .. n : c = NewIndex(sorted, k)
    BY <1>1, <2>3 DEF TextHolds
  <2>5. sorted[k] = sorted[j]
    BY <1>1, <2>3, <2>4 DEF TextHolds
  <2>6. k = j
    BY <1>1, <2>5 DEF NamesOnce
  <2> QED BY <2>2, <2>4, <2>6
<1>3. ASSUME NEW pair \in MappingOf(text, sorted, keep) PROVE pair[1] = pair[2]
  <2>1. CASE pair = <<0, 0>>
    BY <2>1
  <2>2. CASE pair # <<0, 0>>
    <3>1. PICK j \in 1 .. n :
            pair = <<KeptOf(keep, {i \in Named(text) : StringAt(text, i) = sorted[j]}), NewIndex(sorted, j)>>
      BY <1>1, <2>2 DEF MappingOf
    <3>2. PICK x : x = NewIndex(sorted, j)
      OBVIOUS
    <3>3. pair = <<x, x>>
      BY <1>2, <3>1, <3>2
    <3> QED BY <3>3
  <2> QED BY <2>1, <2>2
<1> QED BY <1>3

LEMMA HashesFind ==
  ASSUME NEW sorted \in Seq(Texts0), NEW hash, \A i \in 1 .. Len(sorted) : hash[sorted[i]] \in Nat,
         NEW s, s.hashes = HashTable(sorted, hash), TextHolds(s.strings, sorted)
  PROVE  HashesFindStrings(s, hash)
<1>1. PICK n \in Nat : n = Len(sorted)
  BY LenProperties
<1>2. PICK size \in Nat : size = NumHashes(n)
  BY <1>1, NumHashesIs
<1>3. PICK slots, T, home : /\ slots = s.hashes /\ home = TextHomes(sorted, hash)
                            /\ HashedAt(slots, n, size, home, T, sorted)
  BY <1>1, <1>2, TextsHashed
<1>4. slots \in [1 .. size -> Nat] /\ Len(slots) = size
  BY <1>3, FunctionLen DEF HashedAt
<1>5. ASSUME NEW i \in Named(s.strings)
      PROVE  \E d \in 0 .. size - 1 :
               LET Home == hash[StringAt(s.strings, i)] % size
                   Slot(e) == (Home + e) % size
               IN /\ slots[Slot(d) + 1] = i
                  /\ \A e \in 0 .. d : slots[Slot(e) + 1] # 0
                  /\ \E run \in {CollisionRanges(slots, Slot(d))[k] : k \in 1 .. 2} : Home \in run
  <2>1. PICK k \in 1 .. n : i = NewIndex(sorted, k) /\ StringAt(s.strings, i) = sorted[k]
    BY <1>1 DEF TextHolds
  <2>2. PICK h : h = hash[sorted[k]] % size
    OBVIOUS
  <2>3. home[k] = h
    BY <1>1, <1>2, <1>3, <2>2 DEF TextHomes, TextHome
  <2>4. PICK d \in 0 .. size - 1 :
          /\ T[k] = (h + d) % size
          /\ \A e \in 0 .. d : (h + e) % size \in UsedIn(slots, size)
    BY <1>3, <2>3 DEF HashedAt, Reaches
  <2>5. slots[((h + d) % size) + 1] = i
    BY <1>3, <2>1, <2>4 DEF HashedAt
  <2>6. h \in 0 .. size - 1
    <3>1. PICK a \in Nat : a = hash[sorted[k]]
      BY <1>1
    <3>2. size \in Nat \ {0}
      BY <2>4
    <3>3. a % size \in 0 .. size - 1
      BY <3>2
    <3> QED BY <2>2, <3>1, <3>3
  <2>7. \A e \in 0 .. d : slots[((h + e) % size) + 1] # 0
    BY <2>4 DEF UsedIn
  <2>8. \E m \in 1 .. 2 : h \in CollisionRanges(slots, (h + d) % size)[m]
    BY <1>4, <2>4, <2>6, HomeInRun
  <2>9. h = hash[StringAt(s.strings, i)] % size
    BY <2>1, <2>2
  <2> QED BY <2>4, <2>5, <2>7, <2>8, <2>9
<1> QED BY <1>3, <1>4, <1>5 DEF HashesFindStrings

KeptAfter(s, hash, r, again) ==
  /\ Parse(r.stream) = <<r.stream>>
  /\ MappingKeepsStrings(s, r)
  /\ {StringAt(r.stream.strings, i) : i \in Named(r.stream.strings)}
       = {StringAt(s.strings, i) : i \in Named(s.strings)}
  /\ HashesFindStrings(r.stream, hash)
  /\ again.stream = r.stream
  /\ \A pair \in again.mapping : pair[1] = pair[2]

(* A rebuild of the Names stream loses nothing: for every stream, every    *)
(* hash function of its strings and whichever of equal strings is kept,    *)
(* the mapping keeps what the references mean, the hash table leads to     *)
(* every string, and a second rebuild changes nothing                      *)
(* (NamesStream::rebuild).                                                 *)
THEOREM NamesAlwaysKept ==
  ASSUME NEW s, s.strings \in Seq(Nat), NEW keep, NEW hash,
         \A i \in Named(s.strings) : hash[StringAt(s.strings, i)] \in Nat
  PROVE  RebuildKeepsNames(s, hash, keep)
<1> SUFFICES ASSUME s.strings # <<>> PROVE RebuildKeepsNames(s, hash, keep)
  BY DEF RebuildKeepsNames
<1>1. PICK b, sorted, text : b = s.strings /\ sorted = SortedNames(b) /\ text = PaddedText(sorted)
  OBVIOUS
<1>2. NamesOnce(b, sorted)
  BY <1>1, NamesAreSorted
<1>3. PICK n \in Nat : n = Len(sorted) /\ DOMAIN sorted = 1 .. n
  BY <1>2, LenProperties DEF NamesOnce
<1>4. sorted \in Seq(Texts0) /\ \A i \in 1 .. Len(sorted) : sorted[i] # <<>>
  BY <1>2 DEF NamesOnce
<1>5. text \in Seq(Nat) /\ text # <<>>
  BY <1>1, <1>4, TextIs
<1>6. TextHolds(text, sorted)
  BY <1>1, <1>4, TextHoldsStrings
<1>7. NamesIn(text) = NamesIn(b)
  <2>1. NamesIn(text) = {sorted[j] : j \in 1 .. n}
    BY <1>3, <1>6 DEF NamesIn, TextHolds
  <2>2. NamesIn(b) = {sorted[j] : j \in 1 .. n}
    BY <1>2, <1>3 DEF NamesOnce
  <2> QED BY <2>1, <2>2
<1>8. SortedNames(text) = sorted /\ NamesOnce(text, sorted)
  BY <1>1, <1>2, <1>7 DEF SortedNames, NamesOnce
<1>9. PICK t, r, again : /\ t = StreamOf(sorted, hash)
                         /\ r = [mapping |-> MappingOf(b, sorted, keep), stream |-> t]
                         /\ again = [mapping |-> MappingOf(text, sorted, keep), stream |-> t]
  OBVIOUS
<1>10. /\ t.strings = text /\ t.hashes = HashTable(sorted, hash)
       /\ t.signature = Signature /\ t.version = 1
       /\ r.stream = t /\ r.mapping = MappingOf(b, sorted, keep)
       /\ again.stream = t /\ again.mapping = MappingOf(text, sorted, keep)
  BY <1>1, <1>9 DEF StreamOf
<1>11. Rebuild(s, hash, keep) = r
  BY <1>1, <1>9, RebuildIs
<1>12. Rebuild(r.stream, hash, keep) = again
  <2>1. t.strings # <<>>
    BY <1>5, <1>10
  <2>2. Rebuild(t, hash, keep)
          = [mapping |-> MappingOf(t.strings, SortedNames(t.strings), keep),
             stream |-> StreamOf(SortedNames(t.strings), hash)]
    BY <2>1, RebuildIs
  <2> QED BY <1>8, <1>9, <1>10, <2>2
<1>13. Parse(r.stream) = <<r.stream>>
  BY <1>10 DEF Parse
<1>14. MappingKeepsStrings(s, r)
  BY <1>1, <1>2, <1>6, <1>10, MappingKeeps
<1>15. HashesFindStrings(r.stream, hash)
  <2>1. \A i \in 1 .. Len(sorted) : hash[sorted[i]] \in Nat
    <3>1. ASSUME NEW i \in 1 .. Len(sorted) PROVE hash[sorted[i]] \in Nat
      <4>1. sorted[i] \in NamesIn(b)
        BY <1>2 DEF NamesOnce
      <4> QED BY <1>1, <4>1 DEF NamesIn
    <3> QED BY <3>1
  <2> QED BY <1>4, <1>6, <1>10, <2>1, HashesFind
<1>16. \A pair \in again.mapping : pair[1] = pair[2]
  BY <1>5, <1>6, <1>8, <1>10, MappingStays
<1>17. {StringAt(text, i) : i \in Named(text)} = {StringAt(b, i) : i \in Named(b)}
  BY <1>7 DEF NamesIn
<1>18. KeptAfter(s, hash, r, again)
  <2>1. r.stream.strings = text /\ again.stream = r.stream
    BY <1>10
  <2> QED BY <1>1, <1>13, <1>14, <1>15, <1>16, <1>17, <2>1 DEF KeptAfter
<1>19. RebuildKeepsNames(s, hash, keep)
         <=> (s.strings # <<>> =>
                KeptAfter(s, hash, Rebuild(s, hash, keep),
                          Rebuild(Rebuild(s, hash, keep).stream, hash, keep)))
  BY Zenon DEF RebuildKeepsNames, KeptAfter
<1> QED BY <1>11, <1>12, <1>18, <1>19

-----------------------------------------------------------------------------
(* The strings of an input: a NUL, the strings, and a tail without a NUL.  *)
LEMMA InputStrings ==
  ASSUME NEW names \in Seq(Texts0), NEW tail \in Seq(Nat \ {0})
  PROVE  LET b == <<0>> \o StringsOfAll(names) \o tail
         IN b \in Seq(Nat) /\ b # <<>> /\ \E L : BufferOf(b, names, L)
<1>1. PICK all, L : all \in Seq(Nat) /\ all = StringsOfAll(names) /\ StringPlaces(names, L)
  BY StringsPlaced
<1>2. PICK n \in Nat : n = Len(names)
  BY LenProperties
<1>3. PICK z \in Nat : z = L[n] /\ Len(all) = z
  <2>1. n \in 0 .. n
    OBVIOUS
  <2> QED BY <1>1, <1>2, <2>1 DEF StringPlaces
<1>4. PICK front : front = <<0>>
  OBVIOUS
<1>5. front \in Seq(Nat) /\ Len(front) = 1 /\ front[1] = 0
  BY <1>4
<1>6. PICK text : text = front \o all
  OBVIOUS
<1>7. /\ text \in Seq(Nat) /\ Len(text) = 1 + z
      /\ text[1] = 0 /\ \A j \in 1 .. z : text[1 + j] = all[j]
  <2>1. /\ text \in Seq(Nat) /\ Len(text) = Len(front) + Len(all)
        /\ \A i \in 1 .. Len(front) + Len(all) :
             text[i] = IF i <= Len(front) THEN front[i] ELSE all[i - Len(front)]
    BY <1>1, <1>5, <1>6, ConcatProperties
  <2>2. \A i \in 1 .. 1 + z : text[i] = IF i <= 1 THEN front[i] ELSE all[i - 1]
    BY <1>3, <1>5, <2>1
  <2>3. 1 \in 1 .. 1 + z /\ \A j \in 1 .. z : 1 + j \in 1 .. 1 + z /\ ~(1 + j <= 1) /\ (1 + j) - 1 = j
    OBVIOUS
  <2> QED BY <1>3, <1>5, <2>1, <2>2, <2>3
<1>8. PICK m \in Nat : m = Len(tail) /\ \A i \in 1 .. m : tail[i] \in Nat \ {0}
  BY LenProperties
<1>9. tail \in Seq(Nat)
  OBVIOUS
<1>10. PICK b : b = text \o tail
  OBVIOUS
<1>11. /\ b \in Seq(Nat) /\ Len(b) = 1 + z + m
       /\ \A i \in 1 .. 1 + z : b[i] = text[i]
       /\ \A i \in 1 .. m : b[1 + z + i] # 0
  <2>1. /\ b \in Seq(Nat) /\ Len(b) = Len(text) + Len(tail)
        /\ \A i \in 1 .. Len(text) + Len(tail) :
             b[i] = IF i <= Len(text) THEN text[i] ELSE tail[i - Len(text)]
    BY <1>7, <1>9, <1>10, ConcatProperties
  <2>2. \A i \in 1 .. 1 + z + m : b[i] = IF i <= 1 + z THEN text[i] ELSE tail[i - (1 + z)]
    BY <1>7, <1>8, <2>1
  <2>3. /\ \A i \in 1 .. 1 + z : i \in 1 .. 1 + z + m /\ i <= 1 + z
        /\ \A i \in 1 .. m : 1 + z + i \in 1 .. 1 + z + m /\ ~(1 + z + i <= 1 + z) /\ (1 + z + i) - (1 + z) = i
    OBVIOUS
  <2>4. \A i \in 1 .. 1 + z : b[i] = text[i]
    BY <2>2, <2>3
  <2>5. ASSUME NEW i \in 1 .. m PROVE b[1 + z + i] # 0
    <3>1. 1 + z + i \in 1 .. 1 + z + m /\ ~(1 + z + i <= 1 + z) /\ (1 + z + i) - (1 + z) = i
      BY <2>3
    <3>2. b[1 + z + i] = tail[(1 + z + i) - (1 + z)]
      BY <2>2, <3>1
    <3> QED BY <1>8, <3>1, <3>2
  <2> QED BY <1>7, <1>8, <2>1, <2>4, <2>5
<1>12. b # <<>> /\ 1 <= Len(b)
  <2>1. Len(b) # 0 /\ 1 <= Len(b)
    BY <1>11
  <2> QED BY <2>1
<1>13. b[1] = 0 /\ \A j \in 1 .. z : b[1 + j] = all[j]
  <2>1. 1 \in 1 .. 1 + z /\ \A j \in 1 .. z : 1 + j \in 1 .. 1 + z
    OBVIOUS
  <2> QED BY <1>7, <1>11, <2>1
<1>14. Quiet(b, 1 + z)
  <2>1. ASSUME NEW q \in 1 + z .. (1 + z + m) - 1, NEW j \in q + 1 .. 1 + z + m PROVE b[j] # 0
    <3>1. j - (1 + z) \in 1 .. m /\ 1 + z + (j - (1 + z)) = j
      BY <2>1
    <3> QED BY <1>11, <3>1
  <2> QED BY <1>11, <2>1 DEF Quiet
<1>15. StringsLieAt(b, 1, names, L)
  <2>1. 1 + z <= 1 + z + m
    OBVIOUS
  <2> QED BY <1>1, <1>2, <1>3, <1>11, <1>13, <2>1 DEF StringsLieAt
<1>16. BufferOf(b, names, L)
  BY <1>1, <1>2, <1>3, <1>12, <1>13, <1>14, <1>15 DEF BufferOf
<1>17. b = <<0>> \o StringsOfAll(names) \o tail
  BY <1>1, <1>4, <1>6, <1>10
<1> QED BY <1>11, <1>12, <1>16, <1>17

LEMMA TextsAreTexts == Texts \in SUBSET Texts0
<1>1. <<>> \in Texts0 /\ <<97>> \in Texts0 /\ <<98>> \in Texts0 /\ <<97, 98>> \in Texts0
  BY DEF Texts0
<1> QED BY <1>1 DEF Texts

LEMMA NamesHashIsNat ==
  ASSUME NEW k \in {-1, 0, 2}, NEW s \in Texts0
  PROVE  NamesHash(k, s) \in Nat
<1>1. Len(s) \in Nat
  BY LenProperties DEF Texts0
<1>2. CASE k < 0
  <2>1. PICK h : h = HashU32(s) /\ h \in SUBSET (0 .. 31)
    BY HashU32Bits
  <2>2. h \in SUBSET Nat /\ IsFiniteSet(h)
    <3>1. 0 \in Int /\ 31 \in Int
      OBVIOUS
    <3>2. IsFiniteSet(0 .. 31)
      BY <3>1, FS_Interval
    <3>3. IsFiniteSet(h)
      BY <2>1, <3>2, FS_Subset
    <3> QED BY <2>1, <3>3
  <2>3. 12 \in Nat \ {0}
    OBVIOUS
  <2>4. Remainder(h, 12) \in Nat
    BY <2>2, <2>3, RemainderIsLess
  <2> QED BY <1>2, <2>1, <2>4 DEF NamesHash, HashModU32
<1>3. CASE ~(k < 0)
  <2>1. k \in Nat
    BY <1>3
  <2> QED BY <1>1, <1>3, <2>1 DEF NamesHash
<1> QED BY <1>2, <1>3

(* After the Names stream of an input is rebuilt its references mean what  *)
(* they meant and the new hash table finds every string                    *)
(* (NamesStream::rebuild).                                                 *)
THEOREM NamesStayRebuilt == Spec => []NamesRebuilt
<1>1. ASSUME InputInv PROVE NamesRebuilt
  <2> SUFFICES ASSUME table = "names", input # <<>>, NEW x, x = input[1]
               PROVE  RebuildKeepsNames(
                        [signature |-> Signature, version |-> 1, strings |-> StringsOf(x),
                         hashes |-> <<>>, numStrings |-> 0],
                        [s \in Texts |-> NamesHash(x.hash, s)], x.keep)
    BY DEF NamesRebuilt
  <2>1. x \in NamesInputs
    BY <1>1 DEF InputInv, InputsOf
  <2>2. /\ x.strings \in SeqOf(Texts, MaxStrings) /\ x.tail \in {<<>>, <<99>>}
        /\ x.hash \in {-1, 0, 2}
    BY <2>1 DEF NamesInputs
  <2>3. PICK names, tail, b :
          /\ names = x.strings /\ tail = x.tail /\ b = <<0>> \o StringsOfAll(names) \o tail
    OBVIOUS
  <2>4. names \in Seq(Texts) /\ names \in Seq(Texts0)
    <3>1. names \in Seq(Texts)
      BY <2>2, <2>3, BoundsAssumption, SeqOfIsSeq
    <3> QED BY <3>1, TextsAreTexts
  <2>5. tail \in Seq(Nat \ {0})
    <3>1. <<>> \in Seq(Nat \ {0}) /\ <<99>> \in Seq(Nat \ {0})
      OBVIOUS
    <3> QED BY <2>2, <2>3, <3>1
  <2>6. StringsOf(x) = b
    BY <2>3 DEF StringsOf, StringsOfAll
  <2>7. b \in Seq(Nat) /\ \E L : BufferOf(b, names, L)
    BY <2>3, <2>4, <2>5, InputStrings
  <2>8. PICK hash : hash = [s \in Texts |-> NamesHash(x.hash, s)]
    OBVIOUS
  <2>9. ASSUME NEW i \in Named(b) PROVE hash[StringAt(b, i)] \in Nat
    <3>1. PICK L : BufferOf(b, names, L)
      BY <2>7
    <3>2. PICK k \in 1 .. Len(names) : StringAt(b, i) = names[k]
      <4>1. /\ Named(b) = {1 + L[k - 1] : k \in {m \in 1 .. Len(names) : names[m] # <<>>}}
            /\ \A k \in 1 .. Len(names) : StringAt(b, 1 + L[k - 1]) = names[k]
        BY <2>4, <2>7, <3>1, BufferStrings
      <4>2. PICK k \in 1 .. Len(names) : i = 1 + L[k - 1]
        BY <4>1
      <4> QED BY <4>1, <4>2
    <3>3. names[k] \in Texts
      BY <2>4, <3>2, LenProperties
    <3>4. NamesHash(x.hash, names[k]) \in Nat
      BY <2>2, <3>3, NamesHashIsNat, TextsAreTexts
    <3> QED BY <2>8, <3>2, <3>3, <3>4
  <2>10. PICK s : s = [signature |-> Signature, version |-> 1, strings |-> b,
                       hashes |-> <<>>, numStrings |-> 0]
    OBVIOUS
  <2>11. s.strings = b
    BY <2>10
  <2>12. RebuildKeepsNames(s, hash, x.keep)
    BY <2>7, <2>9, <2>11, NamesAlwaysKept
  <2> QED BY <2>6, <2>8, <2>10, <2>12
<1> QED BY <1>1, InputInvariant, PTL
=============================================================================

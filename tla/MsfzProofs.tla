----------------------------- MODULE MsfzProofs -----------------------------
(***************************************************************************)
(* Proofs about MsfzWriter and MsfzReader, for any lengths, thresholds,    *)
(* alignments, compression and failing writes.                             *)
(*                                                                         *)
(* The first half is about the writer: what is written is not written      *)
(* again, chunks keep whole calls, and a stream grows by the calls that    *)
(* succeed.  The second is about the reader of what was written: the       *)
(* stream directory decodes to the fragments it was encoded from, finish   *)
(* leaves directory, chunk table and header in the file as it wrote them,  *)
(* and the fragments lead to the bytes of the calls.                       *)
(***************************************************************************)
EXTENDS MsfzWriterInvariant, SequenceLemmas

-----------------------------------------------------------------------------
(***************************************************************************)
(* The size of a stream: its fragments are folded from the left, which     *)
(* takes the greatest index away from the set of indices, again and again. *)
(***************************************************************************)
Sums(g, f, D) ==
  [s \in SUBSET D |-> IF s = {} THEN 0 ELSE g[s \ {Max(s)}] + f[Max(s)].size]

(* The fold is defined.                                                    *)
LEMMA SumsExist ==
  ASSUME NEW n \in Nat, NEW f
  PROVE  \E g : g = Sums(g, f, 1 .. n)
<1> DEFINE B == {m \in 0 .. n : \E g : g = Sums(g, f, 1 .. m)}
<1>1. 0 \in B
  <2> DEFINE g == [s \in SUBSET (1 .. 0) |-> 0]
  <2>1. \A s \in SUBSET (1 .. 0) : s = {}
    OBVIOUS
  <2>2. g = Sums(g, f, 1 .. 0)
    BY <2>1 DEF Sums
  <2>3. \E h : h = Sums(h, f, 1 .. 0)
    BY <2>2
  <2> QED BY <2>3
<1>2. ASSUME NEW m \in 1 .. n, m - 1 \in B PROVE m \in B
  <2> DEFINE D == 1 .. (m - 1)
             E == 1 .. m
  <2>1. PICK g : g = Sums(g, f, D)
    BY <1>2
  <2> DEFINE h == [s \in SUBSET E |-> IF m \in s THEN g[s \ {m}] + f[m].size ELSE g[s]]
             k == [s \in SUBSET E |-> IF s = {} THEN 0 ELSE h[s \ {Max(s)}] + f[Max(s)].size]
  <2>2. \A s \in SUBSET D : g[s] = IF s = {} THEN 0 ELSE g[s \ {Max(s)}] + f[Max(s)].size
    BY <2>1 DEF Sums
  <2>3. ASSUME NEW s \in SUBSET E PROVE h[s] = k[s]
    <3>1. CASE m \in s
      <4>1. Max(s) = m
        <5>1. s \subseteq Int /\ \A y \in s : m >= y
          OBVIOUS
        <5> QED BY <3>1, <5>1, MaxIs
      <4>2. s \ {m} \in SUBSET E /\ m \notin s \ {m}
        OBVIOUS
      <4>3. h[s \ {m}] = g[s \ {m}]
        BY <4>2
      <4> QED BY <3>1, <4>1, <4>3
    <3>2. CASE m \notin s
      <4>1. s \in SUBSET D
        BY <3>2
      <4>2. s \ {Max(s)} \in SUBSET E /\ m \notin s \ {Max(s)}
        BY <3>2
      <4>3. h[s] = g[s] /\ h[s \ {Max(s)}] = g[s \ {Max(s)}]
        BY <3>2, <4>2
      <4> HIDE DEF h
      <4> QED BY <2>2, <4>1, <4>3
    <3> QED BY <3>1, <3>2
  <2>4. h = k
    BY <2>3
  <2>5. h = Sums(h, f, E)
    BY <2>4 DEF Sums
  <2> QED BY <2>5
<1>3. 0 .. n \subseteq B
  <2> HIDE DEF B
  <2> QED BY <1>1, <1>2, StepByStep
<1> QED BY <1>3

(* Sizes are summed up from the first fragment to the last.                *)
LEMMA SizeSums ==
  ASSUME NEW f \in Seq(Fragments)
  PROVE  \E P \in [0 .. Len(f) -> Nat] :
           /\ P[0] = 0
           /\ \A i \in 1 .. Len(f) : P[i] = P[i - 1] + f[i].size
           /\ FragmentsSize(f) = P[Len(f)]
<1> DEFINE n == Len(f)
           g == CHOOSE h : h = Sums(h, f, 1 .. n)
           P == [i \in 0 .. n |-> g[1 .. i]]
<1>1. n \in Nat /\ DOMAIN f = 1 .. n /\ \A i \in 1 .. n : f[i].size \in Nat
  <2>1. \A i \in 1 .. n : f[i] \in Fragments
    OBVIOUS
  <2> QED BY <2>1, LenProperties DEF Fragments, Locations
<1>2. FragmentsSize(f) = g[1 .. n]
  BY <1>1 DEF FragmentsSize, FoldLeft, MapThenFoldSet, Sums
<1> HIDE DEF n
<1>3. g = Sums(g, f, 1 .. n)
  BY <1>1, SumsExist
<1> HIDE DEF g
<1>4. \A s \in SUBSET (1 .. n) : g[s] = IF s = {} THEN 0 ELSE g[s \ {Max(s)}] + f[Max(s)].size
  BY <1>3 DEF Sums
<1>5. P[0] = 0
  <2>1. 1 .. 0 = {} /\ 0 \in 0 .. n
    BY <1>1
  <2> QED BY <1>4, <2>1
<1>6. ASSUME NEW i \in 1 .. n PROVE P[i] = P[i - 1] + f[i].size
  <2> DEFINE s == 1 .. i
  <2>1. s \subseteq 1 .. n /\ i \in s /\ s \ {i} = 1 .. (i - 1)
    BY <1>1
  <2>2. Max(s) = i
    <3>1. s \subseteq Int /\ \A y \in s : i >= y
      OBVIOUS
    <3> HIDE DEF s
    <3> QED BY <2>1, <3>1, MaxIs
  <2>3. P[i] = g[s] /\ P[i - 1] = g[1 .. (i - 1)]
    BY <1>1
  <2> HIDE DEF P, s
  <2> QED BY <1>4, <2>1, <2>2, <2>3
<1>7. P \in [0 .. n -> Nat]
  <2> DEFINE B == {i \in 0 .. n : P[i] \in Nat}
  <2>1. 0 \in B /\ \A i \in 1 .. n : i - 1 \in B => i \in B
    <3> HIDE DEF P
    <3>1. ASSUME NEW i \in 1 .. n, P[i - 1] \in Nat PROVE P[i] \in Nat
      <4>1. P[i] = P[i - 1] + f[i].size /\ f[i].size \in Nat
        BY <1>1, <1>6
      <4> QED BY ONLY <3>1, <4>1
    <3>2. 0 \in 0 .. n /\ \A i \in 1 .. n : i \in 0 .. n
      BY <1>1
    <3> QED BY <1>5, <3>1, <3>2
  <2>2. 0 .. n \subseteq B
    <3> HIDE DEF B
    <3> QED BY <1>1, <2>1, StepByStep
  <2>3. \A i \in 0 .. n : P[i] \in Nat
    BY <2>2
  <2> QED BY <2>3
<1>8. FragmentsSize(f) = P[n]
  BY <1>1, <1>2
<1> HIDE DEF P
<1> QED BY <1>5, <1>6, <1>7, <1>8 DEF n

(* Two sequences of fragments of which all but the last have equal sizes.  *)
LEMMA SizeOfFront ==
  ASSUME NEW e \in Seq(Fragments), NEW f \in Seq(Fragments), NEW k \in Nat,
         k <= Len(e), Len(f) = k + 1,
         \A i \in 1 .. k : f[i] = e[i]
  PROVE  /\ FragmentsSize(e) \in Nat /\ FragmentsSize(f) \in Nat
         /\ Len(e) = k => FragmentsSize(f) = FragmentsSize(e) + f[k + 1].size
         /\ Len(e) = k + 1 =>
              FragmentsSize(f) = FragmentsSize(e) - e[k + 1].size + f[k + 1].size
<1>1. PICK P \in [0 .. Len(e) -> Nat] :
           /\ P[0] = 0
           /\ \A i \in 1 .. Len(e) : P[i] = P[i - 1] + e[i].size
           /\ FragmentsSize(e) = P[Len(e)]
  BY SizeSums
<1>2. PICK Q \in [0 .. Len(f) -> Nat] :
           /\ Q[0] = 0
           /\ \A i \in 1 .. Len(f) : Q[i] = Q[i - 1] + f[i].size
           /\ FragmentsSize(f) = Q[Len(f)]
  BY SizeSums
<1>3. Len(e) \in Nat /\ Len(f) \in Nat
  OBVIOUS
<1>4. ASSUME NEW i \in 1 .. k, P[i - 1] = Q[i - 1] PROVE P[i] = Q[i]
  <2>1. i \in 1 .. Len(e) /\ i \in 1 .. Len(f)
    BY <1>3
  <2>2. P[i] = P[i - 1] + e[i].size /\ Q[i] = Q[i - 1] + f[i].size /\ f[i] = e[i]
    BY <1>1, <1>2, <2>1
  <2> QED BY <1>4, <2>2
<1>5. P[k] = Q[k]
  <2>1. P[0] = Q[0]
    BY <1>1, <1>2
  <2> QED BY <1>4, <2>1, SameByStep
<1>6. Q[k + 1] = Q[k] + f[k + 1].size
  <2>1. k + 1 \in 1 .. Len(f) /\ (k + 1) - 1 = k
    BY <1>3
  <2> QED BY <1>2, <2>1
<1>7. P[Len(e)] \in Nat /\ Q[Len(f)] \in Nat /\ P[k] \in Nat
  <2>1. Len(e) \in 0 .. Len(e) /\ Len(f) \in 0 .. Len(f) /\ k \in 0 .. Len(e)
    BY <1>3
  <2> QED BY ONLY <1>1, <1>2, <2>1, P \in [0 .. Len(e) -> Nat], Q \in [0 .. Len(f) -> Nat]
<1>8. Len(e) = k + 1 => P[k + 1] = P[k] + e[k + 1].size
  <2>1. Len(e) = k + 1 => k + 1 \in 1 .. Len(e) /\ (k + 1) - 1 = k
    BY <1>3
  <2> QED BY <1>1, <2>1
<1>9. \A i \in 1 .. Len(e) : e[i] \in Fragments /\ e[i].size \in Nat
  <2>1. \A i \in 1 .. Len(e) : e[i] \in Fragments
    OBVIOUS
  <2> QED BY <2>1 DEF Fragments, Locations
<1>10. f[k + 1] \in Fragments /\ f[k + 1].size \in Nat
  <2>1. f[k + 1] \in Fragments
    BY <1>3
  <2> QED BY <2>1 DEF Fragments, Locations
<1>11. Len(e) = k + 1 => e[k + 1].size \in Nat
  BY <1>3, <1>9
<1> QED BY <1>1, <1>2, <1>5, <1>6, <1>7, <1>8, <1>10, <1>11

(* No fragments, and one more.                                             *)
LEMMA SizeOfNone == FragmentsSize(<<>>) = 0
<1>1. <<>> \in Seq(Fragments) /\ Len(<<>>) = 0
  OBVIOUS
<1>2. PICK P \in [0 .. Len(<<>>) -> Nat] : P[0] = 0 /\ FragmentsSize(<<>>) = P[Len(<<>>)]
  BY <1>1, SizeSums
<1> QED BY <1>1, <1>2

(* A fragment more.                                                        *)
LEMMA SizeOfAppended ==
  ASSUME NEW e \in Seq(Fragments), NEW x \in Fragments
  PROVE  /\ FragmentsSize(e) \in Nat
         /\ FragmentsSize(Append(e, x)) = FragmentsSize(e) + x.size
<1> DEFINE f == Append(e, x)
           k == Len(e)
<1>1. k \in Nat /\ f \in Seq(Fragments) /\ Len(f) = k + 1 /\ f[k + 1] = x
      /\ \A i \in 1 .. k : f[i] = e[i]
  OBVIOUS
<1> HIDE DEF f
<1>2. FragmentsSize(e) \in Nat /\ FragmentsSize(f) = FragmentsSize(e) + f[k + 1].size
  BY <1>1, SizeOfFront
<1> QED BY <1>1, <1>2 DEF f

(* The last fragment extended.                                             *)
LEMMA SizeOfExtended ==
  ASSUME NEW e \in Seq(Fragments), e # <<>>, NEW n \in Nat
  PROVE  /\ Extended(e, n) \in Seq(Fragments) /\ Len(Extended(e, n)) = Len(e)
         /\ Len(e) \in Nat \ {0} /\ e[Len(e)] \in Fragments
         /\ \A i \in 1 .. (Len(e) - 1) : Extended(e, n)[i] = e[i]
         /\ Extended(e, n)[Len(e)] =
              [size |-> e[Len(e)].size + n, location |-> e[Len(e)].location]
         /\ FragmentsSize(e) \in Nat
         /\ FragmentsSize(Extended(e, n)) = FragmentsSize(e) + n
<1> DEFINE m == Len(e)
           x == [size |-> e[m].size + n, location |-> e[m].location]
           f == Extended(e, n)
<1>1. m \in Nat \ {0} /\ DOMAIN e = 1 .. m /\ e \in [1 .. m -> Fragments]
  BY EmptySeq, LenProperties
<1>2. e[m] \in Fragments
  BY <1>1
<1>3. x \in Fragments /\ [e[m] EXCEPT !.size = @ + n] = x
  BY <1>2 DEF Fragments, Locations
<1>4. f = [e EXCEPT ![m] = x]
  <2>1. Extended(e, n) =
          [i \in 1 .. Len(e) |->
             IF i = Len(e) THEN [e[Len(e)] EXCEPT !.size = e[Len(e)].size + n] ELSE e[i]]
    <3>1. DOMAIN e = 1 .. Len(e)
      BY <1>1
    <3> QED BY ONLY <3>1 DEF Extended
  <2>2. [e EXCEPT ![m] = x] = [i \in 1 .. m |-> IF i = m THEN x ELSE e[i]]
    BY <1>1
  <2> HIDE DEF x
  <2> QED BY <1>3, <2>1, <2>2
<1> HIDE DEF x, m
<1>5. f \in [1 .. m -> Fragments] /\ f[m] = x /\ \A i \in 1 .. (m - 1) : f[i] = e[i]
  BY <1>1, <1>3, <1>4
<1> HIDE DEF f
<1>6. f \in Seq(Fragments) /\ Len(f) = m
  BY <1>1, <1>5, FunctionLen
<1>7. FragmentsSize(e) \in Nat /\ FragmentsSize(f) = FragmentsSize(e) - e[m].size + f[m].size
  <2> DEFINE k == m - 1
  <2>1. k \in Nat /\ k <= Len(e) /\ Len(f) = k + 1 /\ Len(e) = k + 1
        /\ \A i \in 1 .. k : f[i] = e[i]
    BY <1>1, <1>5, <1>6 DEF m
  <2>2. k + 1 = m
    BY <1>1
  <2> HIDE DEF k
  <2>3. /\ FragmentsSize(e) \in Nat
        /\ FragmentsSize(f) = FragmentsSize(e) - e[k + 1].size + f[k + 1].size
    BY ONLY e \in Seq(Fragments), <1>6, <2>1, SizeOfFront
  <2> QED BY <2>2, <2>3
<1>8. f[m].size = e[m].size + n /\ e[m].size \in Nat
  BY <1>2, <1>5 DEF x, Fragments
<1>9. FragmentsSize(f) = FragmentsSize(e) + n
  BY <1>7, <1>8
<1> QED BY <1>1, <1>2, <1>5, <1>6, <1>7, <1>9 DEF f, m, x

-----------------------------------------------------------------------------
(***************************************************************************)
(* Writing to the file.                                                    *)
(***************************************************************************)
(* A sequence, of whatever.                                                *)
LEMMA SeqFacts ==
  ASSUME NEW s, IsSeq(s)
  PROVE  /\ Len(s) \in Nat /\ DOMAIN s = 1 .. Len(s)
         /\ \E S : s \in Seq(S)
<1> DEFINE n == Len(s)
           S == {s[i] : i \in 1 .. n}
<1>1. n \in Nat /\ s = [i \in 1 .. n |-> s[i]]
  BY DEF IsSeq
<1> HIDE DEF n
<1>2. s \in [1 .. n -> S]
  BY <1>1
<1> HIDE DEF S
<1>3. s \in Seq(S)
  BY <1>1, <1>2, FunctionLen
<1>4. DOMAIN s = 1 .. n
  BY <1>2
<1> QED BY <1>1, <1>3, <1>4 DEF n

(* And back.                                                               *)
LEMMA SeqIsSeq ==
  ASSUME NEW S, NEW s \in Seq(S)
  PROVE  IsSeq(s)
<1>1. Len(s) \in Nat /\ s \in [1 .. Len(s) -> S]
  BY LenProperties
<1> DEFINE n == Len(s)
<1>2. n \in Nat /\ s \in [1 .. n -> S]
  BY <1>1
<1> HIDE DEF n
<1>3. s = [i \in 1 .. n |-> s[i]]
  BY <1>2
<1> QED BY <1>2, <1>3 DEF IsSeq, n

(* Cells written over a file: they are there, and the others as before.    *)
LEMMA OverlayCells ==
  ASSUME NEW file, IsSeq(file), NEW offset \in Nat, NEW cells, IsSeq(cells)
  PROVE  LET o == Overlay(file, offset, cells)
         IN /\ IsSeq(o) /\ Len(o) >= Len(file)
            /\ cells # <<>> => Len(o) >= offset + Len(cells)
            /\ \A j \in 1 .. Len(file) : j <= offset \/ j > offset + Len(cells) => o[j] = file[j]
            /\ \A i \in 1 .. Len(cells) : o[offset + i] = cells[i]
<1> DEFINE o == Overlay(file, offset, cells)
           n == Len(file)
           c == Len(cells)
<1>1. n \in Nat /\ c \in Nat /\ DOMAIN file = 1 .. n /\ DOMAIN cells = 1 .. c
  BY SeqFacts
<1>2. PICK A : file \in Seq(A)
  BY SeqFacts
<1>3. PICK C : cells \in Seq(C)
  BY SeqFacts
<1>4. CASE cells = <<>>
  <2>1. o = file /\ c = 0
    BY <1>4 DEF Overlay
  <2> QED BY <1>1, <1>4, <2>1
<1>5. CASE cells # <<>>
  <2> DEFINE S == A \cup C \cup {Zero}
             gap == [i \in 1 .. offset - n |-> Zero]
             whole == file \o gap
             before == SubSeq(whole, 1, offset)
             after == SubSeq(file, offset + c + 1, n)
             Length == IF offset + c > n THEN offset + c ELSE n
  <2>1. file \in Seq(S) /\ cells \in Seq(S) /\ Zero \in S
    <3>1. \A i \in 1 .. n : file[i] \in A
      BY <1>2
    <3>2. \A i \in 1 .. c : cells[i] \in C
      BY <1>3
    <3>3. file \in [1 .. n -> S] /\ cells \in [1 .. c -> S]
      <4>1. file = [i \in 1 .. n |-> file[i]] /\ cells = [i \in 1 .. c |-> cells[i]]
        BY DEF IsSeq
      <4> QED BY <3>1, <3>2, <4>1
    <3> HIDE DEF S, n, c
    <3>4. file \in Seq(S) /\ cells \in Seq(S)
      BY <1>1, <3>3, FunctionLen
    <3> QED BY <3>4 DEF S
  <2>2. gap \in Seq(S) /\ Len(gap) = IF offset > n THEN offset - n ELSE 0
    <3>1. CASE offset > n
      <4>1. offset - n \in Nat /\ gap \in [1 .. offset - n -> S]
        BY <1>1, <2>1, <3>1
      <4> HIDE DEF gap, n, S
      <4> QED BY <3>1, <4>1, FunctionLen
    <3>2. CASE ~(offset > n)
      <4> DEFINE k == offset - n
      <4>1. k \in Int /\ k <= 0
        BY <1>1, <3>2
      <4>2. 1 .. k = {} /\ 1 .. 0 = {}
        <5> HIDE DEF k
        <5> QED BY <4>1
      <4>3. gap \in [1 .. 0 -> S]
        BY <4>2
      <4> HIDE DEF gap, S
      <4> QED BY <3>2, <4>3, FunctionLen
    <3> QED BY <3>1, <3>2
  <2> HIDE DEF S, gap
  <2>3. /\ whole \in Seq(S) /\ Len(whole) >= offset /\ Len(whole) \in Nat
        /\ \A j \in 1 .. n : whole[j] = file[j]
    <3>1. whole \in Seq(S) /\ Len(whole) = n + Len(gap)
      BY <2>1, <2>2
    <3>2. \A j \in 1 .. n : whole[j] = file[j]
      BY <1>1, <2>1, <2>2
    <3> QED BY <1>1, <2>2, <3>1, <3>2
  <2> HIDE DEF whole
  <2>4. /\ before \in Seq(S) /\ Len(before) = offset
        /\ \A j \in 1 .. offset : before[j] = whole[j]
    BY <2>3
  <2>5. /\ after \in Seq(S) /\ Len(after) = Length - (offset + c)
        /\ \A j \in 1 .. Len(after) : after[j] = file[offset + c + j]
    <3> DEFINE q == offset + c
    <3>1. q \in Nat /\ n \in Nat /\ n = Len(file) /\ after = SubSeq(file, q + 1, n)
          /\ Length = IF q > n THEN q ELSE n
      BY <1>1
    <3> HIDE DEF q, after, Length
    <3>2. CASE q >= n
      <4>1. after = <<>>
        BY <2>1, <3>1, <3>2
      <4>2. <<>> \in Seq(S) /\ Len(<<>>) = 0
        OBVIOUS
      <4>3. Length - q = 0
        BY <3>1, <3>2
      <4> QED BY <4>1, <4>2, <4>3 DEF q
    <3>3. CASE q < n
      <4>1. /\ after \in Seq(S) /\ Len(after) = n - q
            /\ \A j \in 1 .. (n - q) : after[j] = file[q + j]
        BY <2>1, <3>1, <3>3
      <4>2. Length - q = n - q
        BY <3>1, <3>3
      <4> QED BY <4>1, <4>2 DEF q
    <3> QED BY <3>1, <3>2, <3>3
  <2>6. o = before \o cells \o after
    BY <1>5 DEF Overlay, whole, gap
  <2>7. c > 0
    BY <1>1, <1>3, <1>5, EmptySeq
  <2> HIDE DEF before, after
  <2> DEFINE head == before \o cells
  <2>8. /\ head \in Seq(S) /\ Len(head) = offset + c
        /\ \A j \in 1 .. offset : head[j] = before[j]
        /\ \A i \in 1 .. c : head[offset + i] = cells[i]
    <3>1. head \in Seq(S) /\ Len(head) = Len(before) + Len(cells)
      BY <2>1, <2>4
    <3>2. \A j \in 1 .. (Len(before) + Len(cells)) :
            head[j] = IF j <= Len(before) THEN before[j] ELSE cells[j - Len(before)]
      BY ONLY <2>1, <2>4, ConcatProperties
    <3>3. \A j \in 1 .. (offset + c) : head[j] = IF j <= offset THEN before[j] ELSE cells[j - offset]
      BY <2>4, <3>2
    <3> HIDE DEF head
    <3>4. \A j \in 1 .. offset : head[j] = before[j]
      BY <1>1, <3>3
    <3>5. ASSUME NEW i \in 1 .. c PROVE head[offset + i] = cells[i]
      <4>1. offset + i \in 1 .. (offset + c) /\ ~(offset + i <= offset) /\ (offset + i) - offset = i
        BY <1>1
      <4> QED BY <3>3, <4>1
    <3> QED BY <2>4, <3>1, <3>4, <3>5
  <2> HIDE DEF head
  <2>9. /\ o \in Seq(S) /\ Len(o) = Length
        /\ \A j \in 1 .. (offset + c) : o[j] = head[j]
        /\ \A j \in 1 .. Len(after) : o[offset + c + j] = after[j]
    <3>1. o = head \o after
      BY <2>6 DEF head
    <3> HIDE DEF o
    <3>0. head \in Seq(S) /\ after \in Seq(S)
      BY <2>5, <2>8
    <3>2. o \in Seq(S) /\ Len(o) = Len(head) + Len(after)
      BY ONLY <3>0, <3>1
    <3>3. \A j \in 1 .. (Len(head) + Len(after)) :
            o[j] = IF j <= Len(head) THEN head[j] ELSE after[j - Len(head)]
      BY ONLY <3>0, <3>1, ConcatProperties
    <3>4. Len(after) \in Nat /\ Len(head) \in Nat
      BY <2>5, <2>8
    <3>5. \A j \in 1 .. (offset + c) : o[j] = head[j]
      BY <2>8, <3>3, <3>4
    <3>6. ASSUME NEW j \in 1 .. Len(after) PROVE o[offset + c + j] = after[j]
      <4> DEFINE h == Len(head)
      <4>1. h + j \in 1 .. (h + Len(after)) /\ ~(h + j <= h) /\ (h + j) - h = j
        BY <3>4
      <4>2. o[h + j] = after[j]
        BY <3>3, <4>1
      <4> QED BY <2>8, <4>2
    <3>7. Len(o) = Length
      <4>0. offset + c \in Nat /\ Length \in Int
        BY <1>1
      <4> HIDE DEF Length, c, n
      <4>1. PICK q \in Nat, l \in Int : q = offset + c /\ l = Length
        BY <4>0
      <4>2. Len(after) = l - q /\ Len(head) = q
        BY <2>5, <2>8, <4>1
      <4>3. q + (l - q) = l
        OBVIOUS
      <4>4. Len(o) = q + (l - q)
        BY ONLY <3>2, <4>2
      <4> QED BY <4>1, <4>3, <4>4
    <3> QED BY <3>2, <3>5, <3>6, <3>7
  <2> HIDE DEF o
  <2>14. o \in Seq(S)
    BY <2>9
  <2>10. IsSeq(o)
    BY ONLY <2>14, SeqIsSeq
  <2>11. Length >= n /\ Length >= offset + c /\ Length \in Nat
    BY <1>1
  <2>12. ASSUME NEW j \in 1 .. n, j <= offset \/ j > offset + c PROVE o[j] = file[j]
    <3>1. CASE j <= offset
      <4>1. j \in 1 .. offset /\ j \in 1 .. (offset + c)
        BY <1>1, <3>1
      <4>2. o[j] = head[j] /\ head[j] = before[j] /\ before[j] = whole[j] /\ whole[j] = file[j]
        BY <2>3, <2>4, <2>8, <2>9, <4>1
      <4> QED BY <4>2
    <3>2. CASE j > offset + c
      <4> DEFINE i == j - (offset + c)
      <4>1. i \in 1 .. Len(after) /\ offset + c + i = j
        BY <1>1, <2>5, <3>2
      <4> HIDE DEF i
      <4>2. o[offset + c + i] = after[i] /\ after[i] = file[offset + c + i]
        BY <2>5, <2>9, <4>1
      <4> QED BY <4>1, <4>2
    <3> QED BY <2>12, <3>1, <3>2
  <2>13. ASSUME NEW i \in 1 .. c PROVE o[offset + i] = cells[i]
    <3>1. offset + i \in 1 .. (offset + c)
      BY <1>1
    <3> QED BY <2>8, <2>9, <3>1
  <2> QED BY <2>9, <2>10, <2>11, <2>12, <2>13 DEF o
<1> QED BY <1>4, <1>5

(* The same, of the output file.                                           *)
LEMMA CellsWritten ==
  ASSUME IsSeq(out), NEW offset \in Nat, NEW cells, IsSeq(cells), WriteAll(offset, cells)
  PROVE  /\ IsSeq(out') /\ Len(out') >= Len(out)
         /\ cells # <<>> => Len(out') >= offset + Len(cells)
         /\ \A j \in 1 .. Len(out) :
              j <= offset \/ j > offset + Len(cells) => out'[j] = out[j]
         /\ \A i \in 1 .. Len(cells) : out'[offset + i] = cells[i]
         /\ pos' = offset + Len(cells) /\ pos' \in Nat
<1>1. out' = Overlay(out, offset, cells) /\ pos' = offset + Len(cells)
  BY DEF WriteAll
<1>2. Len(cells) \in Nat
  BY SeqFacts
<1> QED BY <1>1, <1>2, OverlayCells

(* A function on 1 .. n, whatever its values.                              *)
LEMMA ListIsSeq ==
  ASSUME NEW n \in Nat, NEW s, s = [i \in 1 .. n |-> s[i]]
  PROVE  IsSeq(s) /\ Len(s) = n
<1> DEFINE S == {s[i] : i \in 1 .. n}
<1>1. s \in [1 .. n -> S]
  OBVIOUS
<1> HIDE DEF S
<1>2. s \in Seq(S) /\ Len(s) = n
  BY <1>1, FunctionLen
<1> QED BY <1>2, SeqIsSeq

(* The next place that is aligned.                                         *)
LEMMA AlignedUp ==
  ASSUME NEW p \in Nat, NEW a \in Nat \ {0}
  PROVE  AlignUp(p, a) \in Nat /\ AlignUp(p, a) >= p
<1> DEFINE b == p + a - 1
           q == b \div a
           r == b % a
<1>1. b \in Nat
  OBVIOUS
<1>2. q \in Nat /\ r \in 0 .. (a - 1) /\ b = a * q + r
  <2> HIDE DEF b
  <2> QED BY <1>1
<1>3. q * a = a * q /\ q * a \in Nat
  <2> HIDE DEF q
  <2> QED BY <1>2
<1>4. AlignUp(p, a) = q * a
  BY DEF AlignUp
<1> DEFINE x == q * a
<1>5. x \in Nat /\ b = x + r
  <2> HIDE DEF b, q, r
  <2> QED BY <1>2, <1>3
<1> HIDE DEF x, q
<1>6. x >= p
  <2> HIDE DEF r
  <2> QED BY <1>2, <1>5
<1> QED BY <1>4, <1>5, <1>6 DEF x

(* Cells that compress data, wherever they lie, decompress to it.          *)
LEMMA ImageDecompressed ==
  ASSUME NEW file, NEW offset \in Nat, NEW k \in Nat \ {0}, offset + k <= Len(file),
         NEW S, NEW data \in Seq(S),
         \A i \in 1 .. k : file[offset + i] = <<"z", data, i, k>>
  PROVE  Decompress(file, offset, k, Len(data)) = data
<1>1. 1 \in 1 .. k /\ file[offset + 1] = <<"z", data, 1, k>>
  OBVIOUS
<1>2. file[offset + 1][1] = "z" /\ file[offset + 1][2] = data
  BY <1>1
<1>3. SubSeq(data, 1, Len(data)) = data
  BY SubSeqFull
<1>4. Len(data) <= Len(data)
  OBVIOUS
<1> QED BY <1>2, <1>3, <1>4 DEF Decompress

LEMMA CompressedCells ==
  ASSUME NEW data, NEW k \in Nat
  PROVE  /\ IsSeq(Compressed(data, k)) /\ Len(Compressed(data, k)) = k
         /\ \A i \in 1 .. k : Compressed(data, k)[i] = <<"z", data, i, k>>
<1>1. Compressed(data, k) = [i \in 1 .. k |-> Compressed(data, k)[i]]
  BY DEF Compressed
<1> QED BY <1>1, ListIsSeq DEF Compressed

(* The bytes of a call.                                                    *)
LEMMA BytesOfCall ==
  ASSUME NEW s \in Nat, NEW c \in Nat, NEW n \in Nat \ {0}
  PROVE  /\ Bytes(s, c, n) \in Seq(ByteCells) /\ Len(Bytes(s, c, n)) = n
         /\ CallsIn(Bytes(s, c, n)) = {c} /\ ChunkFits(Bytes(s, c, n))
<1> DEFINE d == Bytes(s, c, n)
<1>1. d \in [1 .. n -> ByteCells] /\ \A i \in 1 .. n : d[i][3] = c
  BY DEF Bytes, ByteCells
<1> HIDE DEF d
<1>2. d \in Seq(ByteCells) /\ Len(d) = n /\ DOMAIN d = 1 .. n
  BY <1>1, FunctionLen
<1>3. CallsIn(d) = {c}
  <2>1. 1 \in 1 .. n
    OBVIOUS
  <2> QED BY <1>1, <1>2, <2>1 DEF CallsIn
<1>4. ChunkFits(d)
  BY <1>1, <1>2 DEF ChunkFits
<1> QED BY <1>2, <1>3, <1>4 DEF d

(* The first cells of what should have been written.                       *)
LEMMA FirstCells ==
  ASSUME NEW cells, IsSeq(cells), NEW n \in 0 .. Len(cells) - 1
  PROVE  IsSeq(SubSeq(cells, 1, n)) /\ Len(SubSeq(cells, 1, n)) = n
<1>1. Len(cells) \in Nat
  BY SeqFacts
<1>2. PICK S : cells \in Seq(S)
  BY SeqFacts
<1>3. SubSeq(cells, 1, n) \in Seq(S) /\ Len(SubSeq(cells, 1, n)) = n
  BY <1>1, <1>2
<1> QED BY <1>3, SeqIsSeq

-----------------------------------------------------------------------------
(***************************************************************************)
(* What a step keeps.                                                      *)
(***************************************************************************)
(* What was written behind the header and in front of the position stays.  *)
OutKept ==
  /\ IsSeq(out') /\ Len(out') >= Len(out)
  /\ \A o, n \in Nat :
       Kept(o, n) => Kept(o, n)' /\ \A i \in 1 .. n : out'[o + i] = out[o + i]

(* Bytes join the chunk in memory, or a new one after it was written.      *)
ChunkStep(d) ==
  \/ chunks' = chunks /\ chunkData' = chunkData \o d
  \/ /\ chunkData # <<>> /\ chunkData' = d
     /\ \E e \in Entries :
          /\ chunks' = Append(chunks, e) /\ e.size = Len(chunkData)
          /\ Kept(e.fileOffset, e.compressedSize)'
          /\ \A i \in 1 .. e.compressedSize :
               out'[e.fileOffset + i] = <<"z", chunkData, i, e.compressedSize>>

(* The file is not touched.                                                *)
LEMMA OutSame ==
  ASSUME WriterTyped, out' = out, pos' \in Nat, pos' >= pos, stage' = stage
  PROVE  OutKept
<1>1. IsSeq(out) /\ Len(out) \in Nat /\ pos \in Nat
  BY SeqFacts DEF WriterTyped
<1>2. ASSUME NEW o \in Nat, NEW n \in Nat, Kept(o, n) PROVE Kept(o, n)'
  BY <1>1, <1>2 DEF Kept
<1> QED BY <1>1, <1>2 DEF OutKept

(* What is written at the position or behind it.                           *)
LEMMA WrittenBehind ==
  ASSUME WriterTyped, InStage, stage \in Unpublished, stage' \in Unpublished,
         NEW offset \in Nat, offset >= pos, NEW cells, IsSeq(cells), WriteAll(offset, cells)
  PROVE  /\ OutKept
         /\ IsSeq(out') /\ Len(out') >= HeaderSize /\ out'[1] = Zero
         /\ pos' \in Nat /\ pos' >= HeaderSize /\ pos' >= pos
         /\ pos' = offset + Len(cells)
         /\ cells # <<>> => Kept(offset, Len(cells))'
         /\ \A i \in 1 .. Len(cells) : out'[offset + i] = cells[i]
<1>1. IsSeq(out) /\ Len(out) \in Nat /\ Len(cells) \in Nat /\ Len(out) >= HeaderSize
      /\ pos \in Nat /\ pos >= HeaderSize /\ out[1] = Zero
  BY SeqFacts DEF WriterTyped, InStage
<1>2. /\ IsSeq(out') /\ Len(out') >= Len(out)
      /\ cells # <<>> => Len(out') >= offset + Len(cells)
      /\ \A j \in 1 .. Len(out) :
           j <= offset \/ j > offset + Len(cells) => out'[j] = out[j]
      /\ \A i \in 1 .. Len(cells) : out'[offset + i] = cells[i]
      /\ pos' = offset + Len(cells) /\ pos' \in Nat
  BY <1>1, CellsWritten
<1>3. Len(out') \in Nat
  BY <1>2, SeqFacts
<1>4. ASSUME NEW o \in Nat, NEW n \in Nat, Kept(o, n)
      PROVE  Kept(o, n)' /\ \A i \in 1 .. n : out'[o + i] = out[o + i]
  <2>1. HeaderSize <= o /\ o + n <= Len(out) /\ o + n <= pos
    BY <1>4 DEF Kept
  <2>2. Kept(o, n)'
    BY <1>1, <1>2, <1>3, <2>1 DEF Kept, HeaderSize
  <2>3. ASSUME NEW i \in 1 .. n PROVE out'[o + i] = out[o + i]
    <3>1. o + i \in 1 .. Len(out) /\ o + i <= offset
      BY <1>1, <2>1
    <3> QED BY <1>2, <3>1
  <2> QED BY <2>2, <2>3
<1>5. out'[1] = Zero /\ pos' >= HeaderSize /\ pos' >= pos /\ Len(out') >= HeaderSize
  BY <1>1, <1>2, <1>3 DEF HeaderSize
<1>6. cells # <<>> => Kept(offset, Len(cells))'
  BY <1>1, <1>2, <1>3 DEF Kept, HeaderSize
<1>7. OutKept
  BY <1>2, <1>4 DEF OutKept
<1> QED BY <1>2, <1>5, <1>6, <1>7

(* A write that fails.                                                     *)
LEMMA WriteFailed ==
  ASSUME WriterTyped, InStage, stage \in Unpublished, stage' \in Unpublished,
         NEW offset \in Nat, offset >= pos, NEW cells, IsSeq(cells), WriteFails(offset, cells)
  PROVE  /\ OutKept
         /\ IsSeq(out') /\ Len(out') >= HeaderSize /\ out'[1] = Zero
         /\ pos' \in Nat /\ pos' >= HeaderSize /\ pos' >= pos
         /\ failures' \in 0 .. MaxFailures
<1>1. PICK n \in 0 .. Len(cells) - 1 : WriteAll(offset, SubSeq(cells, 1, n))
  BY DEF WriteFails
<1>2. IsSeq(SubSeq(cells, 1, n))
  BY FirstCells
<1>3. failures' \in 0 .. MaxFailures
  BY MsfzWriterAssumption DEF WriteFails, WriterTyped
<1> QED BY <1>1, <1>2, <1>3, WrittenBehind

(* The chunk in memory is written.                                         *)
LEMMA ChunkWritten ==
  ASSUME WriterTyped, InStage, stage \in Unpublished, stage' \in Unpublished,
         NEW d \in Seq(ByteCells), FinishCurrentChunk(d)
  PROVE  /\ OutKept /\ ChunkStep(d)
         /\ IsSeq(out') /\ Len(out') >= HeaderSize /\ out'[1] = Zero
         /\ pos' \in Nat /\ pos' >= HeaderSize
<1>1. chunkData \in Seq(ByteCells) /\ pos \in Nat /\ pos >= HeaderSize /\ Len(chunkData) \in Nat
  BY DEF WriterTyped, InStage
<1>2. CASE chunkData = <<>> /\ UNCHANGED <<fileVars, chunks>>
  <2>1. <<>> \o d = d
    BY ConcatEmptySeq
  <2>2. ChunkStep(d)
    BY <1>2, <2>1 DEF ChunkStep, FinishCurrentChunk
  <2>3. out' = out /\ pos' = pos
    BY <1>2 DEF fileVars
  <2>4. OutKept
    <3>1. IsSeq(out) /\ Len(out) \in Nat
      BY SeqFacts DEF WriterTyped
    <3>2. ASSUME NEW o \in Nat, NEW n \in Nat, Kept(o, n) PROVE Kept(o, n)'
      BY <2>3, <3>2 DEF Kept
    <3> QED BY <2>3, <3>1, <3>2 DEF OutKept
  <2> QED BY <2>2, <2>3, <2>4 DEF WriterTyped, InStage
<1>3. CASE /\ chunkData # <<>>
           /\ \E k \in CompressedSizes :
                /\ WriteAll(pos, Compressed(chunkData, k))
                /\ chunks' = Append(chunks, ChunkEntry(k))
  <2>1. PICK k \in CompressedSizes :
                /\ WriteAll(pos, Compressed(chunkData, k))
                /\ chunks' = Append(chunks, ChunkEntry(k))
    BY <1>3
  <2>2. k \in Nat \ {0}
    BY MsfzWriterAssumption
  <2>3. PICK p \in Nat : p = pos
    BY <1>1
  <2>4. PICK cells : cells = Compressed(chunkData, k)
    OBVIOUS
  <2>5. PICK e : e = ChunkEntry(k)
    OBVIOUS
  <2>6. /\ IsSeq(cells) /\ Len(cells) = k
        /\ \A i \in 1 .. k : cells[i] = <<"z", chunkData, i, k>>
    BY <2>2, <2>4, CompressedCells
  <2>7. cells # <<>> /\ Len(chunkData) # 0
    <3>1. Len(<<>>) = 0
      OBVIOUS
    <3> QED BY <1>1, <1>3, <2>2, <2>6, <3>1, EmptySeq
  <2>8. e \in Entries /\ e.size = Len(chunkData) /\ e.compressedSize = k /\ e.fileOffset = p
    BY <1>1, <2>2, <2>3, <2>5, <2>7 DEF Entries, ChunkEntry
  <2>9. /\ OutKept
        /\ IsSeq(out') /\ Len(out') >= HeaderSize /\ out'[1] = Zero
        /\ pos' \in Nat /\ pos' >= HeaderSize
        /\ Kept(p, Len(cells))'
        /\ \A i \in 1 .. Len(cells) : out'[p + i] = cells[i]
    <3>1. p >= pos /\ WriteAll(p, cells)
      BY <1>1, <2>1, <2>3, <2>4
    <3> QED BY ONLY WriterTyped, InStage, stage \in Unpublished, stage' \in Unpublished,
                    <2>3, <2>6, <2>7, <3>1, WrittenBehind
  <2>10. /\ chunks' = Append(chunks, e) /\ Kept(e.fileOffset, e.compressedSize)'
         /\ \A i \in 1 .. e.compressedSize :
              out'[e.fileOffset + i] = <<"z", chunkData, i, e.compressedSize>>
    BY <2>1, <2>5, <2>6, <2>8, <2>9
  <2>11. ChunkStep(d)
    BY <1>3, <2>8, <2>10 DEF ChunkStep, FinishCurrentChunk
  <2> QED BY <2>9, <2>11
<1> QED BY <1>2, <1>3 DEF FinishCurrentChunk

(* A chunk on disk: its cells are there, and so are its bytes.             *)
OnDisk(e, data) ==
  /\ Kept(e.fileOffset, e.compressedSize)
  /\ data \in Seq(ByteCells) /\ Len(data) = e.size
  /\ \A i \in 1 .. e.compressedSize :
       out[e.fileOffset + i] = <<"z", data, i, e.compressedSize>>

LEMMA DiskLoaded ==
  ASSUME NEW e \in Entries, NEW data, OnDisk(e, data), Len(out) \in Nat
  PROVE  LoadChunkData(out, e) = data
<1>1. e.fileOffset \in Nat /\ e.compressedSize \in Nat \ {0}
  BY DEF Entries
<1>2. e.fileOffset + e.compressedSize <= Len(out)
  BY DEF OnDisk, Kept
<1>3. Decompress(out, e.fileOffset, e.compressedSize, Len(data)) = data
  BY <1>1, <1>2, ImageDecompressed DEF OnDisk
<1> QED BY <1>3 DEF LoadChunkData, OnDisk

LEMMA DiskKept ==
  ASSUME NEW e \in Entries, NEW data, OnDisk(e, data), OutKept
  PROVE  OnDisk(e, data)' /\ LoadChunkData(out', e) = data
<1>1. e.fileOffset \in Nat /\ e.compressedSize \in Nat \ {0}
  BY DEF Entries
<1>2. /\ Kept(e.fileOffset, e.compressedSize)'
      /\ \A i \in 1 .. e.compressedSize : out'[e.fileOffset + i] = out[e.fileOffset + i]
  BY <1>1 DEF OnDisk, OutKept
<1>3. OnDisk(e, data)'
  BY <1>2 DEF OnDisk
<1>4. Len(out') \in Nat
  BY SeqFacts DEF OutKept
<1>5. e.fileOffset + e.compressedSize <= Len(out')
  BY <1>2 DEF Kept
<1>6. Decompress(out', e.fileOffset, e.compressedSize, Len(data)) = data
  BY <1>1, <1>3, <1>4, <1>5, ImageDecompressed DEF OnDisk
<1> QED BY <1>3, <1>6 DEF LoadChunkData, OnDisk

(* The chunks written so far stay what they were.                          *)
LEMMA ChunksStay ==
  ASSUME WriterTyped, ChunksOnDisk, OutKept, NEW d \in Seq(ByteCells), ChunkStep(d)
  PROVE  /\ ChunksOnDisk' /\ chunkData' \in Seq(ByteCells) /\ chunks' \in Seq(Entries)
         /\ \A k \in DOMAIN chunks :
              k \in DOMAIN chunks' /\ chunks'[k] = chunks[k] /\ ChunkOf(k)' = ChunkOf(k)
         /\ \/ chunks' = chunks /\ chunkData' = chunkData \o d
            \/ /\ chunkData # <<>> /\ chunkData' = d /\ Len(chunks') = Len(chunks) + 1
               /\ chunks'[Len(chunks) + 1].size = Len(chunkData)
               /\ DOMAIN chunks' = DOMAIN chunks \cup {Len(chunks) + 1}
               /\ LoadChunkData(out', chunks'[Len(chunks) + 1]) = chunkData
<1>1. chunks \in Seq(Entries) /\ chunkData \in Seq(ByteCells) /\ Len(chunks) \in Nat
      /\ DOMAIN chunks = 1 .. Len(chunks) /\ Len(out') \in Nat
  BY LenProperties, SeqFacts DEF WriterTyped, OutKept
<1>2. \A k \in DOMAIN chunks : chunks[k] \in Entries /\ OnDisk(chunks[k], ChunkOf(k))
  BY <1>1, ElementOfSeq DEF ChunksOnDisk, OnDisk
<1>3. ASSUME NEW k \in DOMAIN chunks, chunks'[k] = chunks[k]
      PROVE  OnDisk(chunks[k], ChunkOf(k))' /\ ChunkOf(k)' = ChunkOf(k)
  <2>1. PICK e \in Entries : e = chunks[k]
    BY <1>2
  <2>2. PICK c : c = ChunkOf(k)
    OBVIOUS
  <2>3. OnDisk(e, c)
    BY <1>2, <2>1, <2>2
  <2>4. OnDisk(e, c)' /\ LoadChunkData(out', e) = c
    BY <2>3, DiskKept
  <2>5. e = chunks'[k]
    BY <1>3, <2>1
  <2>6. ChunkOf(k)' = c
    BY <2>4, <2>5 DEF ChunkOf
  <2> QED BY <2>2, <2>4, <2>5, <2>6 DEF OnDisk
<1>4. ASSUME \A k \in DOMAIN chunks' : OnDisk(chunks[k], ChunkOf(k))' PROVE ChunksOnDisk'
  BY <1>4 DEF ChunksOnDisk, OnDisk
<1>5. CASE chunks' = chunks /\ chunkData' = chunkData \o d
  <2>1. chunkData' \in Seq(ByteCells)
    BY <1>1, <1>5
  <2> QED BY <1>1, <1>3, <1>4, <1>5, <2>1
<1>6. CASE /\ chunkData # <<>> /\ chunkData' = d
           /\ \E e \in Entries :
                /\ chunks' = Append(chunks, e) /\ e.size = Len(chunkData)
                /\ Kept(e.fileOffset, e.compressedSize)'
                /\ \A i \in 1 .. e.compressedSize :
                     out'[e.fileOffset + i] = <<"z", chunkData, i, e.compressedSize>>
  <2>1. PICK e \in Entries :
                /\ chunks' = Append(chunks, e) /\ e.size = Len(chunkData)
                /\ Kept(e.fileOffset, e.compressedSize)'
                /\ \A i \in 1 .. e.compressedSize :
                     out'[e.fileOffset + i] = <<"z", chunkData, i, e.compressedSize>>
    BY <1>6
  <2>2. PICK c : c = chunkData
    OBVIOUS
  <2>3. OnDisk(e, c)'
    BY <1>1, <2>1, <2>2 DEF OnDisk
  <2>4. LoadChunkData(out', e) = c
    <3>1. e.fileOffset \in Nat /\ e.compressedSize \in Nat \ {0}
      BY DEF Entries
    <3>2. e.fileOffset + e.compressedSize <= Len(out')
      BY <2>1 DEF Kept
    <3>3. Decompress(out', e.fileOffset, e.compressedSize, Len(c)) = c
      BY <1>1, <2>3, <3>1, <3>2, ImageDecompressed DEF OnDisk
    <3> QED BY <2>1, <2>2, <3>3 DEF LoadChunkData
  <2>5. /\ chunks' \in Seq(Entries) /\ Len(chunks') = Len(chunks) + 1
        /\ DOMAIN chunks' = 1 .. (Len(chunks) + 1)
        /\ chunks'[Len(chunks) + 1] = e
        /\ \A k \in 1 .. Len(chunks) : chunks'[k] = chunks[k]
    BY <1>1, <2>1, AppendProperties
  <2>6. DOMAIN chunks' = DOMAIN chunks \cup {Len(chunks) + 1}
    BY <1>1, <2>5
  <2>7. PICK m : m = Len(chunks) + 1
    OBVIOUS
  <2>8. ChunkOf(m)' = c /\ e = chunks'[m]
    BY <2>4, <2>5, <2>7 DEF ChunkOf
  <2>9. ChunksOnDisk'
    <3> SUFFICES ASSUME NEW k \in DOMAIN chunks' PROVE OnDisk(chunks[k], ChunkOf(k))'
      BY <1>4
    <3>1. CASE k = m
      BY <2>3, <2>8, <3>1
    <3>2. CASE k # m
      <4>1. k \in DOMAIN chunks /\ chunks'[k] = chunks[k]
        BY <1>1, <2>5, <2>6, <2>7, <3>2
      <4> QED BY <1>3, <4>1
    <3> QED BY <3>1, <3>2
  <2>10. \A k \in DOMAIN chunks :
           k \in DOMAIN chunks' /\ chunks'[k] = chunks[k] /\ ChunkOf(k)' = ChunkOf(k)
    BY <1>1, <1>3, <2>5, <2>6
  <2>11. chunks'[Len(chunks) + 1].size = Len(chunkData)
         /\ LoadChunkData(out', chunks'[Len(chunks) + 1]) = chunkData
    BY <2>1, <2>2, <2>4, <2>5
  <2> QED BY <1>6, <2>5, <2>6, <2>9, <2>10, <2>11
<1> QED BY <1>5, <1>6 DEF ChunkStep

(* The calls whose bytes are in two sequences that are joined.             *)
LEMMA CallsJoined ==
  ASSUME NEW a \in Seq(ByteCells), NEW b \in Seq(ByteCells)
  PROVE  CallsIn(a \o b) = CallsIn(a) \cup CallsIn(b)
<1> DEFINE c == a \o b
<1>1. /\ Len(a) \in Nat /\ Len(b) \in Nat /\ DOMAIN a = 1 .. Len(a) /\ DOMAIN b = 1 .. Len(b)
      /\ DOMAIN c = 1 .. (Len(a) + Len(b))
  BY LenProperties, ConcatProperties
<1>2. \A i \in 1 .. (Len(a) + Len(b)) : c[i] = IF i <= Len(a) THEN a[i] ELSE b[i - Len(a)]
  BY ConcatProperties
<1> HIDE DEF c
<1>3. ASSUME NEW i \in DOMAIN a PROVE i \in DOMAIN c /\ c[i] = a[i]
  BY <1>1, <1>2
<1>4. ASSUME NEW i \in DOMAIN b PROVE i + Len(a) \in DOMAIN c /\ c[i + Len(a)] = b[i]
  <2>1. i + Len(a) \in 1 .. (Len(a) + Len(b)) /\ ~(i + Len(a) <= Len(a)) /\ (i + Len(a)) - Len(a) = i
    BY <1>1
  <2> QED BY <1>1, <1>2, <2>1
<1>5. ASSUME NEW i \in DOMAIN c
      PROVE  \/ i \in DOMAIN a /\ c[i] = a[i]
             \/ i - Len(a) \in DOMAIN b /\ c[i] = b[i - Len(a)]
  BY <1>1, <1>2
<1>6. CallsIn(a) \cup CallsIn(b) \subseteq CallsIn(c)
  BY <1>3, <1>4 DEF CallsIn
<1>7. CallsIn(c) \subseteq CallsIn(a) \cup CallsIn(b)
  BY <1>5 DEF CallsIn
<1> QED BY <1>6, <1>7 DEF c

LEMMA NoCalls == CallsIn(<<>>) = {}
BY DEF CallsIn

(* No call's bytes get into two chunks.                                    *)
LEMMA CallsStayApart ==
  ASSUME WriterTyped, ChunksOnDisk, ChunksApart, OutKept,
         NEW d \in Seq(ByteCells), ChunkStep(d), ChunkFits(chunkData'),
         calls' \in Nat, calls' >= calls, \A c \in CallsIn(d) : c \in Nat /\ c > calls /\ c <= calls'
  PROVE  ChunksApart'
<1>1. /\ ChunkFits(chunkData) /\ CallsIn(chunkData) \subseteq 1 .. calls
      /\ \A k \in DOMAIN chunks :
           /\ ChunkFits(ChunkOf(k)) /\ CallsIn(ChunkOf(k)) \subseteq 1 .. calls
           /\ CallsIn(ChunkOf(k)) \cap CallsIn(chunkData) = {}
      /\ \A j, k \in DOMAIN chunks : j # k => CallsIn(ChunkOf(j)) \cap CallsIn(ChunkOf(k)) = {}
  BY DEF ChunksApart
<1>2. \A k \in DOMAIN chunks :
        k \in DOMAIN chunks' /\ chunks'[k] = chunks[k] /\ ChunkOf(k)' = ChunkOf(k)
  BY ChunksStay
<1>3. calls \in Nat /\ chunkData \in Seq(ByteCells)
  BY MsfzWriterAssumption DEF WriterTyped
<1>4. 1 .. calls \subseteq 1 .. calls' /\ CallsIn(d) \subseteq 1 .. calls'
      /\ CallsIn(d) \cap (1 .. calls) = {}
  BY <1>3
<1>5. CASE chunks' = chunks /\ chunkData' = chunkData \o d
  <2>1. CallsIn(chunkData') = CallsIn(chunkData) \cup CallsIn(d)
    BY <1>3, <1>5, CallsJoined
  <2>2. CallsIn(chunkData') \subseteq 1 .. calls'
    BY <1>1, <1>4, <2>1
  <2>3. ASSUME NEW k \in DOMAIN chunks'
        PROVE  /\ ChunkFits(ChunkOf(k)') /\ CallsIn(ChunkOf(k)') \subseteq 1 .. calls'
               /\ CallsIn(ChunkOf(k)') \cap CallsIn(chunkData') = {}
    <3>1. k \in DOMAIN chunks /\ ChunkOf(k)' = ChunkOf(k)
      BY <1>2, <1>5
    <3> QED BY <1>1, <1>4, <2>1, <3>1
  <2>4. ASSUME NEW j \in DOMAIN chunks', NEW k \in DOMAIN chunks', j # k
        PROVE  CallsIn(ChunkOf(j)') \cap CallsIn(ChunkOf(k)') = {}
    <3>1. j \in DOMAIN chunks /\ k \in DOMAIN chunks
          /\ ChunkOf(j)' = ChunkOf(j) /\ ChunkOf(k)' = ChunkOf(k)
      BY <1>2, <1>5
    <3> QED BY <1>1, <2>4, <3>1
  <2> QED BY <2>2, <2>3, <2>4 DEF ChunksApart
<1>6. CASE /\ chunkData' = d /\ DOMAIN chunks' = DOMAIN chunks \cup {Len(chunks) + 1}
           /\ LoadChunkData(out', chunks'[Len(chunks) + 1]) = chunkData
  <2>1. PICK m : m = Len(chunks) + 1
    OBVIOUS
  <2>2. ChunkOf(m)' = chunkData
    BY <1>6, <2>1 DEF ChunkOf
  <2>3. ASSUME NEW k \in DOMAIN chunks' PROVE k = m \/ (k \in DOMAIN chunks /\ ChunkOf(k)' = ChunkOf(k))
    <3>1. k \in DOMAIN chunks \cup {m}
      BY ONLY k \in DOMAIN chunks', <1>6, <2>1
    <3> QED BY <1>2, <3>1
  <2>4. ASSUME NEW k \in DOMAIN chunks'
        PROVE  /\ ChunkFits(ChunkOf(k)') /\ CallsIn(ChunkOf(k)') \subseteq 1 .. calls'
               /\ CallsIn(ChunkOf(k)') \cap CallsIn(chunkData') = {}
    <3>1. ChunkFits(ChunkOf(k)') /\ CallsIn(ChunkOf(k)') \subseteq 1 .. calls
      BY <1>1, <2>2, <2>3
    <3> QED BY <1>4, <1>6, <3>1
  <2>5. ASSUME NEW j \in DOMAIN chunks', NEW k \in DOMAIN chunks', j # k
        PROVE  CallsIn(ChunkOf(j)') \cap CallsIn(ChunkOf(k)') = {}
    <3>1. CASE j = m
      <4>1. k \in DOMAIN chunks /\ ChunkOf(k)' = ChunkOf(k)
        BY <2>3, <2>5, <3>1
      <4> QED BY <1>1, <2>2, <3>1, <4>1
    <3>2. CASE k = m
      <4>1. j \in DOMAIN chunks /\ ChunkOf(j)' = ChunkOf(j)
        BY <2>3, <2>5, <3>2
      <4> QED BY <1>1, <2>2, <3>2, <4>1
    <3>3. CASE j # m /\ k # m
      <4>1. j \in DOMAIN chunks /\ k \in DOMAIN chunks
            /\ ChunkOf(j)' = ChunkOf(j) /\ ChunkOf(k)' = ChunkOf(k)
        BY <2>3, <3>3
      <4> QED BY <1>1, <2>5, <4>1
    <3> QED BY <3>1, <3>2, <3>3
  <2>6. CallsIn(chunkData') \subseteq 1 .. calls'
    BY <1>4, <1>6
  <2> QED BY <2>4, <2>5, <2>6 DEF ChunksApart
<1> QED BY <1>5, <1>6, ChunksStay

-----------------------------------------------------------------------------
(***************************************************************************)
(* The fragments of a stream.                                              *)
(***************************************************************************)
(* What a fragment is, in its two forms.                                   *)
LEMMA FragmentForms ==
  ASSUME NEW f \in Fragments
  PROVE  /\ f.size \in Nat
         /\ \/ /\ IsCompressed(f.location) /\ f.location[2] \in Nat /\ f.location[3] \in Nat
            \/ ~IsCompressed(f.location) /\ f.location[1] = "file" /\ f.location[2] \in Nat
BY DEF Fragments, Locations, IsCompressed

(* A part of a sequence of bytes.                                          *)
LEMMA BytesRead ==
  ASSUME NEW data \in Seq(ByteCells), NEW o \in Nat, NEW n \in Nat, o + n <= Len(data)
  PROVE  ReadExact(data, o, n) \in Seq(ByteCells) /\ Len(ReadExact(data, o, n)) = n
<1>1. ReadExact(data, o, n) = SubSeq(data, o + 1, o + n)
  BY DEF ReadExact
<1>2. \A i \in (o + 1) .. (o + n) : data[i] \in ByteCells
  BY ElementOfSeq
<1>3. /\ SubSeq(data, o + 1, o + n) \in Seq(ByteCells)
      /\ Len(SubSeq(data, o + 1, o + n)) = n
  BY <1>2, SubSeqProperties
<1> QED BY <1>1, <1>3

(* Cells of a file that are bytes.                                         *)
LEMMA CellsRead ==
  ASSUME NEW file, NEW o \in Nat, NEW n \in Nat, \A i \in 1 .. n : file[o + i] \in ByteCells
  PROVE  /\ SubSeq(file, o + 1, o + n) \in Seq(ByteCells)
         /\ Len(SubSeq(file, o + 1, o + n)) = n
         /\ \A i \in 1 .. n : SubSeq(file, o + 1, o + n)[i] = file[o + i]
<1>1. ASSUME NEW j \in (o + 1) .. (o + n) PROVE file[j] \in ByteCells
  <2>1. j - o \in 1 .. n /\ o + (j - o) = j
    OBVIOUS
  <2>2. file[o + (j - o)] \in ByteCells
    BY <2>1
  <2> QED BY <2>1, <2>2
<1>2. o + 1 \in Int /\ o + n \in Int
  OBVIOUS
<1> DEFINE s == SubSeq(file, o + 1, o + n)
<1>3. /\ s \in Seq(ByteCells)
      /\ Len(s) = IF o + 1 <= o + n THEN o + n - (o + 1) + 1 ELSE 0
      /\ \A i \in 1 .. (o + n - (o + 1) + 1) : s[i] = file[(o + 1) + i - 1]
  BY <1>1, <1>2, SubSeqProperties
<1> HIDE DEF s
<1>4. (IF o + 1 <= o + n THEN o + n - (o + 1) + 1 ELSE 0) = n /\ o + n - (o + 1) + 1 = n
  OBVIOUS
<1>5. ASSUME NEW i \in 1 .. n PROVE s[i] = file[o + i]
  <2>1. (o + 1) + i - 1 = o + i
    OBVIOUS
  <2> QED BY <1>3, <1>4, <2>1
<1> QED BY <1>3, <1>4, <1>5 DEF s

(* It stays when the sequence grows, and grows itself from its end.        *)
LEMMA BytesReadOn ==
  ASSUME NEW data \in Seq(ByteCells), NEW d \in Seq(ByteCells),
         NEW o \in Nat, NEW n \in Nat, o + n <= Len(data)
  PROVE  /\ ReadExact(data \o d, o, n) = ReadExact(data, o, n)
         /\ o + n = Len(data) =>
              /\ ReadExact(data \o d, o, n + Len(d)) = ReadExact(data, o, n) \o d
              /\ ReadExact(data \o d, o + n, Len(d)) = d
<1> DEFINE c == data \o d
           l == Len(data)
           m == Len(d)
<1>1. /\ c \in Seq(ByteCells) /\ Len(c) = l + m /\ l \in Nat /\ m \in Nat
      /\ \A i \in 1 .. l : c[i] = data[i]
      /\ \A i \in 1 .. m : c[l + i] = d[i]
  <2>1. c \in Seq(ByteCells) /\ Len(c) = l + m /\ l \in Nat /\ m \in Nat
    BY ConcatProperties
  <2>2. \A i \in 1 .. (l + m) : c[i] = IF i <= l THEN data[i] ELSE d[i - l]
    BY ConcatProperties
  <2> HIDE DEF c, l, m
  <2>3. \A i \in 1 .. l : c[i] = data[i]
    BY <2>1, <2>2
  <2>4. ASSUME NEW i \in 1 .. m PROVE c[l + i] = d[i]
    <3>1. l + i \in 1 .. (l + m) /\ ~(l + i <= l) /\ (l + i) - l = i
      BY <2>1
    <3> QED BY <2>2, <3>1
  <2> QED BY <2>1, <2>3, <2>4
<1> HIDE DEF c
<1>2. ReadExact(data, o, n) \in Seq(ByteCells) /\ Len(ReadExact(data, o, n)) = n
      /\ \A i \in 1 .. n : ReadExact(data, o, n)[i] = data[o + i]
  <2>1. ReadExact(data, o, n) = SubSeq(data, o + 1, o + n)
    BY DEF ReadExact
  <2>2. \A i \in 1 .. n : SubSeq(data, o + 1, o + n)[i] = data[o + i]
    OBVIOUS
  <2> QED BY <2>1, <2>2, BytesRead
<1>3. ASSUME NEW p \in Nat, NEW k \in Nat, p + k <= Len(c)
      PROVE  ReadExact(c, p, k) \in Seq(ByteCells) /\ Len(ReadExact(c, p, k)) = k
             /\ \A i \in 1 .. k : ReadExact(c, p, k)[i] = c[p + i]
  <2>1. ReadExact(c, p, k) = SubSeq(c, p + 1, p + k)
    BY <1>3 DEF ReadExact
  <2>2. \A i \in 1 .. k : SubSeq(c, p + 1, p + k)[i] = c[p + i]
    BY <1>1
  <2> QED BY <1>1, <1>3, <2>1, <2>2, BytesRead
<1>4. ReadExact(c, o, n) = ReadExact(data, o, n)
  <2> DEFINE u == ReadExact(c, o, n)
             v == ReadExact(data, o, n)
  <2>1. u \in Seq(ByteCells) /\ Len(u) = n /\ \A i \in 1 .. n : u[i] = c[o + i]
    <3>1. o + n <= Len(c)
      BY <1>1
    <3> QED BY <1>3, <3>1
  <2>2. v \in Seq(ByteCells) /\ Len(v) = n /\ \A i \in 1 .. n : v[i] = data[o + i]
    BY <1>2
  <2>3. \A i \in 1 .. n : c[o + i] = data[o + i]
    BY <1>1
  <2> HIDE DEF u, v
  <2>4. u = v
    BY <2>1, <2>2, <2>3, SeqEqual
  <2> QED BY <2>4 DEF u, v
<1>5. ASSUME o + n = l
      PROVE  ReadExact(c, o, n + m) = ReadExact(data, o, n) \o d
  <2> DEFINE u == ReadExact(c, o, n + m)
             v == ReadExact(data, o, n)
             w == v \o d
  <2>1. u \in Seq(ByteCells) /\ Len(u) = n + m /\ \A i \in 1 .. (n + m) : u[i] = c[o + i]
    <3>1. PICK k \in Nat : k = n + m
      BY <1>1
    <3>2. o + k <= Len(c)
      BY <1>1, <1>5, <3>1
    <3> QED BY <1>3, <3>1, <3>2
  <2>2. v \in Seq(ByteCells) /\ Len(v) = n /\ \A i \in 1 .. n : v[i] = data[o + i]
    BY <1>2
  <2> HIDE DEF u, v
  <2>3. /\ w \in Seq(ByteCells) /\ Len(w) = n + m
        /\ \A i \in 1 .. (n + m) : w[i] = IF i <= n THEN v[i] ELSE d[i - n]
    <3>1. v \in Seq(ByteCells) /\ d \in Seq(ByteCells)
      BY <2>2
    <3>2. w \in Seq(ByteCells) /\ Len(w) = Len(v) + Len(d)
      BY ONLY <3>1
    <3>3. \A i \in 1 .. (Len(v) + Len(d)) : w[i] = IF i <= Len(v) THEN v[i] ELSE d[i - Len(v)]
      BY ONLY <3>1, ConcatProperties
    <3> QED BY <2>2, <3>2, <3>3
  <2> HIDE DEF w
  <2>4. ASSUME NEW i \in 1 .. (n + m) PROVE u[i] = w[i]
    <3>1. CASE i <= n
      <4>1. i \in 1 .. n /\ o + i \in 1 .. l
        BY <1>1, <1>5, <3>1
      <4> QED BY <1>1, <2>1, <2>2, <2>3, <3>1, <4>1
    <3>2. CASE ~(i <= n)
      <4>0. m \in Nat
        BY <1>1
      <4>1. i - n \in 1 .. m /\ o + i = l + (i - n)
        BY ONLY <1>5, <3>2, <4>0, i \in 1 .. (n + m), n \in Nat, o \in Nat
      <4>2. c[l + (i - n)] = d[i - n]
        BY <1>1, <4>1
      <4> QED BY <2>1, <2>3, <3>2, <4>1, <4>2
    <3> QED BY <3>1, <3>2
  <2>5. u = w
    BY <2>1, <2>3, <2>4, SeqEqual
  <2> QED BY <2>5 DEF u, v, w
<1>6. ASSUME o + n = l
      PROVE  ReadExact(c, o + n, m) = d
  <2> DEFINE u == ReadExact(c, o + n, m)
  <2>1. u \in Seq(ByteCells) /\ Len(u) = m /\ \A i \in 1 .. m : u[i] = c[l + i]
    <3>1. l \in Nat /\ m \in Nat /\ l + m <= Len(c)
      BY <1>1
    <3>2. /\ ReadExact(c, l, m) \in Seq(ByteCells) /\ Len(ReadExact(c, l, m)) = m
          /\ \A i \in 1 .. m : ReadExact(c, l, m)[i] = c[l + i]
      <4> HIDE DEF l, m
      <4> QED BY <1>3, <3>1
    <3> QED BY <1>6, <3>2
  <2> HIDE DEF u
  <2>2. u = d
    BY <1>1, <2>1, SeqEqual
  <2> QED BY <2>2 DEF u
<1> QED BY <1>4, <1>5, <1>6 DEF c

(* The bytes of the chunk with an index, on disk or in memory.             *)
ChunkData(k) == IF k = Len(chunks) THEN chunkData ELSE ChunkOf(k + 1)

DiskTyped ==
  IsSeq(out) /\ chunkData \in Seq(ByteCells) /\ chunks \in Seq(Entries) /\ ChunksOnDisk

InChunk(f) ==
  /\ f.location[2] \in 0 .. Len(chunks) /\ ChunkData(f.location[2]) \in Seq(ByteCells)
  /\ Stored(f) <=> f.location[3] + f.size <= Len(ChunkData(f.location[2]))
  /\ FragmentBytes(f) = ReadExact(ChunkData(f.location[2]), f.location[3], f.size)

InFile(f) ==
  FragmentBytes(f) = ReadExact(out, f.location[2], f.size)

(* Where the bytes of a fragment are.                                      *)
LEMMA WhereBytesAre ==
  DiskTyped => \A f \in Fragments :
    Fragment(f) => IF IsCompressed(f.location) THEN InChunk(f) ELSE InFile(f)
<1> SUFFICES ASSUME DiskTyped, NEW f \in Fragments, Fragment(f)
             PROVE  IF IsCompressed(f.location) THEN InChunk(f) ELSE InFile(f)
  OBVIOUS
<1>1. f.size \in Nat
  BY FragmentForms
<1>2. CASE IsCompressed(f.location)
  <2> DEFINE k == f.location[2]
             o == f.location[3]
  <2>1. k \in Nat /\ o \in Nat /\ k \in 0 .. Len(chunks) /\ Len(chunks) \in Nat
    BY <1>2, FragmentForms DEF Fragment, DiskTyped
  <2>2. CASE k = Len(chunks)
    BY <1>2, <2>1, <2>2 DEF InChunk, ChunkData, DiskTyped, Stored, FragmentBytes, PendingChunk
  <2>3. CASE k # Len(chunks)
    <3>1. k + 1 \in DOMAIN chunks /\ DOMAIN chunks = 1 .. Len(chunks)
      <4>1. DOMAIN chunks = 1 .. Len(chunks)
        BY DEF DiskTyped
      <4> QED BY <2>1, <2>3, <4>1
    <3> DEFINE c == ChunkOf(k + 1)
    <3>2. c \in Seq(ByteCells) /\ Len(c) = chunks[k + 1].size
      BY <3>1 DEF DiskTyped, ChunksOnDisk
    <3>3. c # Error
      BY <3>2, MsfzValuesAssumption
    <3>4. ChunkData(k) = c
      BY <2>3 DEF ChunkData
    <3>5. ~PendingChunk(f)
      BY <2>3 DEF PendingChunk
    <3>6. FragmentBytes(f) = ReadExact(c, o, f.size)
      <4>1. FragmentBytes(f) = GetChunkSlice(LoadChunkData(out, chunks[k + 1]), o + 0, f.size)
        BY <1>2, <3>5 DEF FragmentBytes, ReadFragment
      <4>2. o + 0 = o
        BY <2>1
      <4> QED BY <3>3, <4>1, <4>2 DEF GetChunkSlice, ChunkOf
    <3>7. Stored(f) <=> o + f.size <= chunks[k + 1].size
      BY <1>2, <3>5 DEF Stored
    <3> HIDE DEF c
    <3> QED BY <1>2, <2>1, <3>2, <3>4, <3>6, <3>7 DEF InChunk
  <2> QED BY <2>2, <2>3
<1>3. CASE ~IsCompressed(f.location)
  <2>1. f.location[2] + 0 = f.location[2]
    BY <1>3, FragmentForms
  <2>2. ~PendingChunk(f)
    BY <1>3 DEF PendingChunk
  <2> QED BY <1>3, <2>1, <2>2 DEF InFile, FragmentBytes, ReadFragment
<1> QED BY <1>2, <1>3

LEMMA WhereBytesWillBe ==
  (DiskTyped => \A f \in Fragments :
     Fragment(f) => IF IsCompressed(f.location) THEN InChunk(f) ELSE InFile(f))'
BY WhereBytesAre, PTL

(* A fragment that is stored reads as bytes, as many as its size.          *)
LEMMA BytesOfFragment ==
  ASSUME DiskTyped, NEW f \in Fragments, Fragment(f), Stored(f)
  PROVE  FragmentBytes(f) \in Seq(ByteCells) /\ Len(FragmentBytes(f)) = f.size
<1>1. CASE IsCompressed(f.location)
  <2>1. InChunk(f)
    BY <1>1, WhereBytesAre
  <2>2. f.location[3] \in Nat /\ f.size \in Nat
    BY <1>1, FragmentForms
  <2> QED BY <2>1, <2>2, BytesRead DEF InChunk
<1>2. CASE ~IsCompressed(f.location)
  <2>1. FragmentBytes(f) = ReadExact(out, f.location[2], f.size)
    BY <1>2, WhereBytesAre DEF InFile
  <2>2. f.location[2] \in Nat /\ f.size \in Nat
    BY <1>2, FragmentForms
  <2>3. /\ f.location[2] + f.size <= Len(out)
        /\ \A i \in 1 .. f.size : out[f.location[2] + i] \in ByteCells
    BY <1>2 DEF Stored, Kept
  <2> DEFINE o == f.location[2]
             n == f.size
  <2>4. FragmentBytes(f) = SubSeq(out, o + 1, o + n)
    BY <2>1, <2>3 DEF ReadExact
  <2>5. o \in Nat /\ n \in Nat /\ \A i \in 1 .. n : out[o + i] \in ByteCells
    BY <2>2, <2>3
  <2>6. SubSeq(out, o + 1, o + n) \in Seq(ByteCells) /\ Len(SubSeq(out, o + 1, o + n)) = n
    <3> HIDE DEF o, n
    <3> QED BY <2>5, CellsRead
  <2> QED BY <2>4, <2>6
<1> QED BY <1>1, <1>2

(* A chunk that is there stays, or grows at its end.                       *)
LEMMA ChunkDataGrows ==
  ASSUME WriterTyped, ChunksOnDisk, OutKept, NEW d \in Seq(ByteCells), ChunkStep(d),
         NEW k \in 0 .. Len(chunks)
  PROVE  /\ k \in 0 .. Len(chunks') /\ ChunkData(k) \in Seq(ByteCells)
         /\ \/ ChunkData(k)' = ChunkData(k)
            \/ ChunkData(k)' = ChunkData(k) \o d
<1> Len(chunks) \in Nat
  BY LenProperties DEF WriterTyped
<1>1. DOMAIN chunks = 1 .. Len(chunks) /\ chunkData \in Seq(ByteCells)
  BY LenProperties DEF WriterTyped
<1>2. ChunkData(k) \in Seq(ByteCells)
  <2>1. CASE k = Len(chunks)
    BY <1>1, <2>1 DEF ChunkData
  <2>2. CASE k # Len(chunks)
    <3>1. k + 1 \in 1 .. Len(chunks)
      <4>1. PICK m \in Nat : m = Len(chunks)
        OBVIOUS
      <4>2. k \in 0 .. m /\ k # m
        BY <2>2, <4>1
      <4>3. k + 1 \in 1 .. m
        BY ONLY <4>1, <4>2
      <4> QED BY <4>1, <4>3
    <3> QED BY <1>1, <2>2, <3>1 DEF ChunkData, ChunksOnDisk
  <2> QED BY <2>1, <2>2
<1>3. ASSUME k # Len(chunks)
      PROVE  k + 1 \in DOMAIN chunks' /\ ChunkOf(k + 1)' = ChunkOf(k + 1)
  <2>1. k + 1 \in 1 .. Len(chunks)
    <3>1. PICK m \in Nat : m = Len(chunks)
      OBVIOUS
    <3>2. k \in 0 .. m /\ k # m
      BY <1>3, <3>1
    <3>3. k + 1 \in 1 .. m
      BY ONLY <3>1, <3>2
    <3> QED BY <3>1, <3>3
  <2> QED BY <1>1, <2>1, ChunksStay
<1>4. CASE chunks' = chunks /\ chunkData' = chunkData \o d
  <2>1. CASE k = Len(chunks)
    BY <1>2, <1>4, <2>1 DEF ChunkData
  <2>2. CASE k # Len(chunks)
    BY <1>2, <1>3, <1>4, <2>2 DEF ChunkData
  <2> QED BY <2>1, <2>2
<1>5. CASE /\ Len(chunks') = Len(chunks) + 1
           /\ LoadChunkData(out', chunks'[Len(chunks) + 1]) = chunkData
  <2>1. k \in 0 .. Len(chunks') /\ k # Len(chunks')
    BY <1>1, <1>5
  <2>2. ChunkData(k)' = ChunkOf(k + 1)'
    BY <2>1 DEF ChunkData
  <2>3. CASE k = Len(chunks)
    BY <1>2, <1>5, <2>1, <2>2, <2>3 DEF ChunkData, ChunkOf
  <2>4. CASE k # Len(chunks)
    BY <1>2, <1>3, <2>1, <2>2, <2>4 DEF ChunkData
  <2> QED BY <2>3, <2>4
<1> QED BY <1>4, <1>5, ChunksStay

(* A fragment that is stored stays so, and keeps its bytes.                *)
LEMMA FragmentKept ==
  ASSUME WriterTyped, ChunksOnDisk, OutKept, NEW d \in Seq(ByteCells), ChunkStep(d),
         NEW f \in Fragments, Fragment(f)
  PROVE  /\ Fragment(f)'
         /\ Stored(f) => Stored(f)' /\ FragmentBytes(f)' = FragmentBytes(f)
<1>1. DiskTyped /\ DiskTyped'
  BY ChunksStay DEF DiskTyped, WriterTyped, OutKept
<1>2. f.size \in Nat
  BY FragmentForms
<1>3. CASE IsCompressed(f.location)
  <2> DEFINE k == f.location[2]
             o == f.location[3]
  <2>1. k \in 0 .. Len(chunks) /\ o \in Nat
    BY <1>3, FragmentForms DEF Fragment
  <2>2. /\ k \in 0 .. Len(chunks') /\ ChunkData(k) \in Seq(ByteCells)
        /\ ChunkData(k)' = ChunkData(k) \/ ChunkData(k)' = ChunkData(k) \o d
    BY <2>1, ChunkDataGrows
  <2>3. Fragment(f)'
    BY <1>3, <2>1, <2>2 DEF Fragment
  <2>4. InChunk(f) /\ InChunk(f)'
    BY <1>1, <1>3, <2>3, WhereBytesAre, WhereBytesWillBe
  <2>5. ASSUME Stored(f) PROVE Stored(f)' /\ FragmentBytes(f)' = FragmentBytes(f)
    <3>1. PICK c \in Seq(ByteCells) : c = ChunkData(k)
      BY <2>2
    <3>2. o + f.size <= Len(c) /\ FragmentBytes(f) = ReadExact(c, o, f.size)
      BY <2>4, <2>5, <3>1 DEF InChunk
    <3>3. PICK e : e = ChunkData(k)'
      OBVIOUS
    <3>4. /\ Stored(f)' <=> o + f.size <= Len(e)
          /\ FragmentBytes(f)' = ReadExact(e, o, f.size)
      BY <2>4, <3>3 DEF InChunk
    <3>5. CASE e = c
      BY <3>2, <3>4, <3>5
    <3>6. CASE e = c \o d
      <4>1. ReadExact(e, o, f.size) = ReadExact(c, o, f.size)
        BY <1>2, <2>1, <3>2, <3>6, BytesReadOn
      <4>2. Len(e) = Len(c) + Len(d) /\ Len(c) \in Nat /\ Len(d) \in Nat
        BY <3>6
      <4>3. o + f.size <= Len(e)
        BY <1>2, <2>1, <3>2, <4>2
      <4> QED BY <3>2, <3>4, <4>1, <4>3
    <3> QED BY <2>2, <3>1, <3>3, <3>5, <3>6
  <2> QED BY <2>3, <2>5
<1>4. CASE ~IsCompressed(f.location)
  <2> DEFINE o == f.location[2]
             n == f.size
  <2>1. Fragment(f)' /\ o \in Nat
    BY <1>4, FragmentForms DEF Fragment
  <2>2. InFile(f) /\ InFile(f)'
    BY <1>1, <1>4, <2>1, WhereBytesAre, WhereBytesWillBe
  <2>3. ASSUME Stored(f) PROVE Stored(f)' /\ FragmentBytes(f)' = FragmentBytes(f)
    <3>1. Kept(o, n) /\ \A i \in 1 .. n : out[o + i] \in ByteCells
      BY <1>4, <2>3 DEF Stored
    <3>2. Kept(o, n)' /\ \A i \in 1 .. n : out'[o + i] = out[o + i]
      BY <1>2, <2>1, <3>1 DEF OutKept
    <3>3. Stored(f)'
      BY <1>4, <3>1, <3>2 DEF Stored
    <3>4. FragmentBytes(f) = SubSeq(out, o + 1, o + n)
          /\ FragmentBytes(f)' = SubSeq(out', o + 1, o + n)
      BY <2>2, <3>1, <3>2 DEF InFile, ReadExact, Kept
    <3>5. SubSeq(out, o + 1, o + n) = SubSeq(out', o + 1, o + n)
      <4> HIDE DEF o, n
      <4>1. o \in Nat /\ n \in Nat
        BY <1>2, <2>1 DEF n
      <4>2. \A i \in 1 .. n : out[o + i] \in ByteCells /\ out'[o + i] \in ByteCells
        BY <3>1, <3>2
      <4> DEFINE u == SubSeq(out, o + 1, o + n)
                 v == SubSeq(out', o + 1, o + n)
      <4>3. u \in Seq(ByteCells) /\ Len(u) = n /\ \A i \in 1 .. n : u[i] = out[o + i]
        BY <4>1, <4>2, CellsRead
      <4>4. v \in Seq(ByteCells) /\ Len(v) = n /\ \A i \in 1 .. n : v[i] = out'[o + i]
        BY <4>1, <4>2, CellsRead
      <4> HIDE DEF u, v
      <4>5. u = v
        BY <3>2, <4>3, <4>4, SeqEqual
      <4> QED BY <4>5 DEF u, v
    <3> QED BY <3>3, <3>4, <3>5
  <2> QED BY <2>1, <2>3
<1> QED BY <1>3, <1>4

(* So do all the fragments of a stream.                                    *)
SeqTyped(f) == \A i \in DOMAIN f : Fragment(f[i])
SeqStored(f) == \A i \in DOMAIN f : Stored(f[i])
Parts(f) == [i \in DOMAIN f |-> FragmentBytes(f[i])]

LEMMA FragmentsKept ==
  ASSUME WriterTyped, ChunksOnDisk, OutKept, NEW d \in Seq(ByteCells), ChunkStep(d),
         NEW f \in Seq(Fragments), SeqTyped(f)
  PROVE  /\ SeqTyped(f)'
         /\ SeqStored(f) => SeqStored(f)' /\ Parts(f)' = Parts(f)
<1>1. \A i \in DOMAIN f : f[i] \in Fragments
  <2>1. DOMAIN f = 1 .. Len(f)
    BY LenProperties
  <2> QED BY <2>1, ElementOfSeq
<1>2. \A i \in DOMAIN f :
        /\ Fragment(f[i])'
        /\ Stored(f[i]) => Stored(f[i])' /\ FragmentBytes(f[i])' = FragmentBytes(f[i])
  <2> TAKE i \in DOMAIN f
  <2>1. PICK x \in Fragments : x = f[i] /\ Fragment(x)
    BY <1>1 DEF SeqTyped
  <2>2. /\ Fragment(x)'
        /\ Stored(x) => Stored(x)' /\ FragmentBytes(x)' = FragmentBytes(x)
    BY <2>1, FragmentKept
  <2> QED BY <2>1, <2>2
<1>3. ASSUME SeqStored(f) PROVE SeqStored(f)' /\ Parts(f)' = Parts(f)
  BY <1>2, <1>3 DEF SeqStored, Parts
<1> QED BY <1>2, <1>3 DEF SeqTyped

AllStored ==
  \A s \in DOMAIN streams : streams[s] # Nil => SeqStored(streams[s])

StreamTyped(f) == f # Nil => SeqTyped(f) /\ FragmentsSize(f) < NilSize

LEMMA NoneTyped == StreamTyped(<<>>) /\ SeqStored(<<>>)
BY SizeOfNone, MsfzReaderAssumption DEF StreamTyped, SeqTyped, SeqStored

(* The streams that are not written.                                       *)
Untouched(s) ==
  \/ streams'[s] \in {Nil, <<>>}
  \/ s \in DOMAIN streams /\ streams'[s] = streams[s]

LEMMA StreamKept ==
  ASSUME WriterTyped, FragmentsTyped, ChunksOnDisk, OutKept,
         NEW d \in Seq(ByteCells), ChunkStep(d),
         NEW s \in DOMAIN streams'
  PROVE  /\ Untouched(s) => /\ StreamTyped(streams[s])'
                            /\ AllStored /\ streams'[s] # Nil => SeqStored(streams[s])'
         /\ s \in DOMAIN streams /\ streams'[s] = streams[s] /\ AllStored
            => StreamContents(s)' = StreamContents(s)
<1>1. CASE streams'[s] \in {Nil, <<>>} /\ ~(s \in DOMAIN streams /\ streams'[s] = streams[s])
  <2>1. StreamTyped(<<>>)' /\ SeqStored(<<>>)'
    BY NoneTyped, SizeOfNone, MsfzReaderAssumption DEF StreamTyped, SeqTyped, SeqStored
  <2>2. StreamTyped(streams[s])'
    BY <1>1, <2>1 DEF StreamTyped
  <2> QED BY <1>1, <2>1, <2>2
<1>2. CASE s \in DOMAIN streams /\ streams'[s] = streams[s]
  <2>1. CASE streams[s] = Nil
    BY <1>2, <2>1 DEF StreamTyped, StreamContents
  <2>2. CASE streams[s] # Nil
    <3>1. streams[s] \in Seq(Fragments)
      BY <1>2, <2>2 DEF WriterTyped
    <3>2. PICK f \in Seq(Fragments) : f = streams[s]
      BY <3>1
    <3>3. SeqTyped(f) /\ FragmentsSize(f) < NilSize
      BY <1>2, <2>2, <3>2 DEF FragmentsTyped, SeqTyped
    <3>4. /\ SeqTyped(f)'
          /\ SeqStored(f) => SeqStored(f)' /\ Parts(f)' = Parts(f)
      BY <3>3, FragmentsKept
    <3>5. StreamTyped(streams[s])'
      BY <1>2, <3>2, <3>3, <3>4 DEF StreamTyped
    <3>6. ASSUME AllStored
          PROVE  SeqStored(streams[s])' /\ StreamContents(s)' = StreamContents(s)
      <4>1. SeqStored(f)
        BY <1>2, <2>2, <3>2, <3>6 DEF AllStored
      <4>2. StreamContents(s) = Joined(Parts(f)) /\ StreamContents(s)' = Joined(Parts(f)')
        BY <1>2, <2>2, <3>2 DEF StreamContents, Parts
      <4> QED BY <1>2, <3>2, <3>4, <4>1, <4>2
    <3> QED BY <3>5, <3>6
  <2> QED BY <2>1, <2>2
<1> QED BY <1>1, <1>2 DEF Untouched

(* The streams of a step that writes to none of them.                      *)
LEMMA StreamsStay ==
  ASSUME WriterTyped, FragmentsTyped, ChunksOnDisk, OutKept,
         NEW d \in Seq(ByteCells), ChunkStep(d),
         \A s \in DOMAIN streams' : Untouched(s)
  PROVE  FragmentsTyped' /\ (AllStored => AllStored')
<1>1. FragmentsTyped'
  <2> SUFFICES ASSUME NEW s \in DOMAIN streams' PROVE StreamTyped(streams[s])'
    BY DEF FragmentsTyped, StreamTyped, SeqTyped
  <2>1. Untouched(s)
    OBVIOUS
  <2> QED BY <2>1, StreamKept
<1>2. ASSUME AllStored PROVE AllStored'
  <2> SUFFICES ASSUME NEW s \in DOMAIN streams', streams'[s] # Nil PROVE SeqStored(streams[s])'
    BY DEF AllStored
  <2>1. Untouched(s)
    OBVIOUS
  <2> QED BY <1>2, <2>1, StreamKept
<1> QED BY <1>1, <1>2

(* The stream that is being written still ends with the chunk in memory,   *)
(* or not in it, if no bytes join the chunk.                               *)
LEMMA EndStays ==
  ASSUME WriterTyped, FragmentsTyped, EndsWithChunk, ChunkStep(<<>>),
         writer' # NoWriter /\ streams'[writer'.stream] # <<>> =>
           /\ writer # NoWriter /\ writer'.stream = writer.stream
           /\ streams'[writer'.stream] = streams[writer.stream]
  PROVE  EndsWithChunk'
<1> SUFFICES ASSUME writer' # NoWriter, streams'[writer'.stream] # <<>>,
                    PendingChunk(Last(streams[writer.stream]))'
             PROVE  LET f == Last(streams'[writer'.stream])
                    IN f.location[3] + f.size = Len(chunkData')
  BY DEF EndsWithChunk
<1>1. PICK s : s = writer.stream
  OBVIOUS
<1>2. /\ writer # NoWriter /\ writer'.stream = s /\ streams'[s] = streams[s]
      /\ s \in DOMAIN streams /\ streams[s] # Nil /\ streams[s] # <<>>
  BY <1>1 DEF WriterTyped, Writers
<1>3. PICK e \in Seq(Fragments) : e = streams[s]
  BY <1>2 DEF WriterTyped
<1>4. PICK f : f = Last(e)
  OBVIOUS
<1>5. Len(e) \in 1 .. Len(e) /\ f = e[Len(e)]
  BY <1>2, <1>3, <1>4, EmptySeq DEF Last
<1>6. f \in Fragments /\ Fragment(f)
  <2>1. DOMAIN e = 1 .. Len(e)
    BY LenProperties
  <2> QED BY <1>2, <1>3, <1>5, <2>1, ElementOfSeq DEF FragmentsTyped
<1>7. PendingChunk(f)'
  BY <1>2, <1>3, <1>4
<1>8. IsCompressed(f.location) /\ f.location[2] = Len(chunks')
  BY <1>7 DEF PendingChunk
<1>9. f.location[2] \in 0 .. Len(chunks) /\ Len(chunks) \in Nat
  BY <1>6, <1>8 DEF Fragment, WriterTyped
<1>10. chunks' = chunks /\ chunkData' = chunkData \o <<>>
  <2>1. ASSUME NEW e2 \in Entries, chunks' = Append(chunks, e2) PROVE FALSE
    <3>1. Len(chunks') = Len(chunks) + 1
      BY <2>1 DEF WriterTyped
    <3> QED BY <1>8, <1>9, <3>1
  <2> QED BY <2>1 DEF ChunkStep
<1>11. chunkData' = chunkData
  BY <1>10, ConcatEmptySeq DEF WriterTyped
<1>12. PendingChunk(f)
  BY <1>8, <1>10 DEF PendingChunk
<1>13. f.location[3] + f.size = Len(chunkData)
  BY <1>1, <1>2, <1>3, <1>4, <1>12 DEF EndsWithChunk
<1> QED BY <1>2, <1>3, <1>4, <1>11, <1>13

(* What is stored stays, and no bytes join the chunk in memory.            *)
Quiet == OutKept /\ ChunkStep(<<>>)

(* A step that writes to no stream keeps the invariant, if the types of    *)
(* the variables and the stages are kept.                                  *)
LEMMA StepKeepsInv ==
  ASSUME MsfzInv, WriterTyped', InStage', OutKept, ChunkStep(<<>>),
         \A s \in DOMAIN streams' : Untouched(s),
         ~AnyCalls /\ writer' # NoWriter /\ streams'[writer'.stream] # <<>> =>
           /\ writer # NoWriter /\ writer'.stream = writer.stream
           /\ streams'[writer'.stream] = streams[writer.stream],
         calls' >= calls
  PROVE  MsfzInv'
<1> USE DEF MsfzInv
<1>1. <<>> \in Seq(ByteCells)
  BY EmptySeq
<1>2. ChunksOnDisk'
  BY <1>1, ChunksStay
<1>3. FragmentsTyped' /\ (AllStored => AllStored')
  BY <1>1, StreamsStay
<1>4. StreamsStored'
  <2> SUFFICES ASSUME ~AnyCalls PROVE AllStored' /\ EndsWithChunk'
    BY DEF StreamsStored, AllStored, SeqStored
  <2>1. AllStored /\ EndsWithChunk
    BY DEF StreamsStored, AllStored, SeqStored
  <2> QED BY <1>3, <2>1, EndStays
<1>5. ChunksApart'
  <2>1. ChunkFits(chunkData')
    <3>1. ChunkFits(<<>>)
      BY DEF ChunkFits
    <3>2. chunkData' = chunkData \/ chunkData' = <<>>
      BY ConcatEmptySeq DEF ChunkStep, WriterTyped
    <3> QED BY <3>1, <3>2 DEF ChunksApart
  <2>2. calls' \in Nat
    BY MsfzWriterAssumption DEF WriterTyped
  <2> QED BY <1>1, <2>1, <2>2, NoCalls, CallsStayApart
<1> QED BY <1>2, <1>3, <1>4, <1>5

-----------------------------------------------------------------------------
(***************************************************************************)
(* Each step keeps the invariant.                                          *)
(***************************************************************************)
StreamMap(n) == [0 .. n - 1 -> {Nil} \cup Seq(Fragments)]

LEMMA StreamsDomain ==
  ASSUME WriterTyped
  PROVE  \E n \in 1 .. MaxStreams :
           /\ n \in Nat \ {0} /\ streams \in StreamMap(n) /\ DOMAIN streams = 0 .. n - 1
           /\ Cardinality(DOMAIN streams) = n
<1>1. PICK n \in 1 .. MaxStreams : streams \in [0 .. n - 1 -> {Nil} \cup Seq(Fragments)]
  BY DEF WriterTyped
<1>2. n \in Nat \ {0}
  BY MsfzWriterAssumption
<1>3. Cardinality(0 .. n - 1) = n
  <2>1. Cardinality(0 .. n - 1) = IF 0 > n - 1 THEN 0 ELSE (n - 1) - 0 + 1
    BY <1>2, FS_Interval
  <2> QED BY <1>2, <2>1
<1> QED BY <1>1, <1>2, <1>3 DEF StreamMap

LEMMA NilIsNoSeq == <<>> # Nil /\ \A f \in Seq(Fragments) : f # Nil
BY MsfzValuesAssumption, EmptySeq

(* Neither the file nor a chunk is touched.                                *)
LEMMA NothingWritten ==
  ASSUME MsfzInv, UNCHANGED <<fileVars, chunkVars>>, stage' = stage
  PROVE  Quiet
<1> USE DEF MsfzInv
<1>1. OutKept
  BY OutSame DEF WriterTyped, fileVars
<1>2. chunkData' = chunkData \o <<>>
  BY ConcatEmptySeq DEF WriterTyped, chunkVars
<1> QED BY <1>1, <1>2 DEF Quiet, ChunkStep, chunkVars

LEMMA ReserveKeepsInv ==
  ASSUME MsfzInv, NEW n \in 1 .. MaxStreams, ReserveNumStreams(n)
  PROVE  MsfzInv' /\ Quiet
<1> USE DEF MsfzInv
<1>1. Quiet
  BY NothingWritten DEF ReserveNumStreams, finishVars
<1>2. DOMAIN streams' = 0 .. n - 1
      /\ \A s \in 0 .. n - 1 : streams'[s] = IF s \in DOMAIN streams THEN streams[s] ELSE Nil
  BY DEF ReserveNumStreams
<1>3. \A s \in DOMAIN streams' : Untouched(s)
  BY <1>2 DEF Untouched
<1>4. streams' \in StreamMap(n)
  BY StreamsDomain DEF ReserveNumStreams, StreamMap
<1>5. WriterTyped'
  BY <1>4 DEF WriterTyped, ReserveNumStreams, StreamMap, fileVars, chunkVars, finishVars
<1>6. InStage'
  BY DEF InStage, ReserveNumStreams, fileVars, chunkVars, finishVars
<1>7. calls' >= calls /\ writer' = NoWriter
  BY MsfzWriterAssumption DEF ReserveNumStreams, WriterTyped
<1> QED BY <1>1, <1>3, <1>5, <1>6, <1>7, StepKeepsInv DEF Quiet

LEMMA OpenKeepsInv ==
  ASSUME MsfzInv, NEW s \in DOMAIN streams, OpenStreamWriter(s)
  PROVE  MsfzInv' /\ Quiet
<1> USE DEF MsfzInv
<1>1. Quiet
  BY NothingWritten DEF OpenStreamWriter, finishVars
<1>2. PICK n \in 1 .. MaxStreams :
        n \in Nat \ {0} /\ streams \in StreamMap(n) /\ DOMAIN streams = 0 .. n - 1
  BY StreamsDomain
<1>3. /\ DOMAIN streams' = DOMAIN streams
      /\ streams'[s] = IF streams[s] = Nil THEN <<>> ELSE streams[s]
      /\ \A t \in DOMAIN streams : t # s => streams'[t] = streams[t]
      /\ streams' \in StreamMap(n)
  BY <1>2, EmptySeq DEF OpenStreamWriter, StreamMap
<1>4. \A t \in DOMAIN streams' : Untouched(t)
  BY <1>3 DEF Untouched
<1>5. writer' = NewWriter(s) /\ writer'.stream = s /\ streams'[s] # Nil
  BY <1>3, NilIsNoSeq DEF OpenStreamWriter, NewWriter
<1>6. writer' \in Writers'
  BY <1>3, <1>5 DEF NewWriter, Writers, DefaultAlignment
<1>7. WriterTyped'
  BY <1>3, <1>5, <1>6
     DEF WriterTyped, OpenStreamWriter, StreamMap, fileVars, chunkVars, finishVars
<1>8. InStage'
  BY DEF InStage, OpenStreamWriter, fileVars, chunkVars, finishVars
<1>9. calls' >= calls /\ (~AnyCalls => streams'[writer'.stream] = <<>>)
  BY <1>3, <1>5, MsfzWriterAssumption DEF OpenStreamWriter, WriterTyped, StreamOnce
<1> QED BY <1>1, <1>4, <1>7, <1>8, <1>9, StepKeepsInv DEF Quiet

LEMMA NewStreamKeepsInv ==
  ASSUME MsfzInv, NewStreamWriter
  PROVE  MsfzInv' /\ Quiet
<1> USE DEF MsfzInv
<1>1. Quiet
  BY NothingWritten DEF NewStreamWriter, finishVars
<1>2. PICK n \in 1 .. MaxStreams :
        /\ n \in Nat \ {0} /\ streams \in StreamMap(n) /\ DOMAIN streams = 0 .. n - 1
        /\ Cardinality(DOMAIN streams) = n
  BY StreamsDomain
<1>3. /\ n < MaxStreams /\ writer' = NewWriter(n)
      /\ streams' = [t \in 0 .. n |-> IF t = n THEN <<>> ELSE streams[t]]
  BY <1>2 DEF NewStreamWriter
<1>4. n + 1 \in 1 .. MaxStreams /\ (n + 1) - 1 = n /\ n \notin DOMAIN streams
      /\ 0 .. n = DOMAIN streams \cup {n}
  BY <1>2, <1>3, MsfzWriterAssumption
<1>5. /\ streams' \in StreamMap(n + 1) /\ DOMAIN streams' = DOMAIN streams \cup {n}
      /\ streams'[n] = <<>> /\ \A t \in DOMAIN streams : streams'[t] = streams[t]
  BY <1>2, <1>3, <1>4, EmptySeq DEF StreamMap
<1>6. \A t \in DOMAIN streams' : Untouched(t)
  BY <1>5 DEF Untouched
<1>7. writer'.stream = n /\ writer' \in Writers' /\ streams'[writer'.stream] # Nil
  BY <1>3, <1>5, NilIsNoSeq DEF NewWriter, Writers, DefaultAlignment
<1>8. WriterTyped'
  BY <1>4, <1>5, <1>7
     DEF WriterTyped, NewStreamWriter, StreamMap, fileVars, chunkVars, finishVars
<1>9. InStage'
  BY DEF InStage, NewStreamWriter, fileVars, chunkVars, finishVars
<1>10. calls' >= calls /\ streams'[writer'.stream] = <<>>
  BY <1>5, <1>7, MsfzWriterAssumption DEF NewStreamWriter, WriterTyped
<1> QED BY <1>1, <1>6, <1>8, <1>9, <1>10, StepKeepsInv DEF Quiet

(* A step that leaves the streams alone, and drops the writer or not.      *)
LEMMA SameStreamsKeepInv ==
  ASSUME MsfzInv, WriterTyped', InStage', OutKept, ChunkStep(<<>>),
         streams' = streams, writer' \in {NoWriter, writer} \/
           (writer # NoWriter /\ writer'.stream = writer.stream),
         calls' \in {calls, calls + 1}
  PROVE  MsfzInv' /\ Quiet
<1>1. \A s \in DOMAIN streams' : Untouched(s)
  BY DEF Untouched
<1>2. calls' >= calls
  BY MsfzWriterAssumption DEF MsfzInv, WriterTyped
<1>3. writer' # NoWriter =>
           /\ writer # NoWriter /\ writer'.stream = writer.stream
           /\ streams'[writer'.stream] = streams[writer.stream]
  OBVIOUS
<1> QED BY <1>1, <1>2, <1>3, StepKeepsInv DEF Quiet

LEMMA SettingsKeepInv ==
  ASSUME MsfzInv,
         \/ \E t \in Thresholds : SetThreshold(t)
         \/ \E b \in BOOLEAN : SetCompressionEnabled(b)
         \/ \E a \in Alignments : SetAlignment(a)
  PROVE  MsfzInv' /\ Quiet
<1> USE DEF MsfzInv
<1>1. CASE \E t \in Thresholds : SetThreshold(t)
  <2>1. PICK t \in Thresholds : SetThreshold(t)
    BY <1>1
  <2>2. Quiet
    BY <2>1, NothingWritten DEF SetThreshold, finishVars
  <2>3. WriterTyped'
    BY <2>1 DEF WriterTyped, SetThreshold, fileVars, chunkVars, finishVars
  <2>4. InStage'
    BY <2>1 DEF InStage, SetThreshold, fileVars, chunkVars, finishVars
  <2>5. streams' = streams /\ writer' = NoWriter /\ calls' = calls
    BY <2>1 DEF SetThreshold
  <2> QED BY <2>2, <2>3, <2>4, <2>5, SameStreamsKeepInv DEF Quiet
<1>2. CASE \E b \in BOOLEAN : SetCompressionEnabled(b)
  <2>1. PICK b \in BOOLEAN : SetCompressionEnabled(b)
    BY <1>2
  <2>2. Quiet
    BY <2>1, NothingWritten DEF SetCompressionEnabled, finishVars
  <2>3. /\ writer' \in Writers' /\ writer'.stream = writer.stream /\ writer # NoWriter
        /\ streams'[writer'.stream] # Nil
    BY <2>1 DEF WriterTyped, SetCompressionEnabled, Writers
  <2>4. WriterTyped'
    BY <2>1, <2>3 DEF WriterTyped, SetCompressionEnabled, fileVars, chunkVars, finishVars
  <2>5. InStage'
    BY <2>1 DEF InStage, SetCompressionEnabled, fileVars, chunkVars, finishVars
  <2>6. streams' = streams /\ calls' = calls
    BY <2>1 DEF SetCompressionEnabled
  <2> QED BY <2>2, <2>3, <2>4, <2>5, <2>6, SameStreamsKeepInv DEF Quiet
<1>3. CASE \E a \in Alignments : SetAlignment(a)
  <2>1. PICK a \in Alignments : SetAlignment(a)
    BY <1>3
  <2>2. Quiet
    BY <2>1, NothingWritten DEF SetAlignment, finishVars
  <2>3. /\ writer' \in Writers' /\ writer'.stream = writer.stream /\ writer # NoWriter
        /\ streams'[writer'.stream] # Nil
    BY <2>1, MsfzWriterAssumption DEF WriterTyped, SetAlignment, Writers
  <2>4. WriterTyped'
    BY <2>1, <2>3 DEF WriterTyped, SetAlignment, fileVars, chunkVars, finishVars
  <2>5. InStage'
    BY <2>1 DEF InStage, SetAlignment, fileVars, chunkVars, finishVars
  <2>6. streams' = streams /\ calls' = calls
    BY <2>1 DEF SetAlignment
  <2> QED BY <2>2, <2>3, <2>4, <2>5, <2>6, SameStreamsKeepInv DEF Quiet
<1> QED BY <1>1, <1>2, <1>3

LEMMA EndChunkKeepsInv ==
  ASSUME MsfzInv, EndChunk \/ FinishChunk
  PROVE  MsfzInv' /\ Quiet
<1> USE DEF MsfzInv
<1>1. stage \in Unpublished /\ stage' \in Unpublished /\ FinishCurrentChunk(<<>>)
  BY DEF EndChunk, FinishChunk, Unpublished, finishVars
<1>2. <<>> \in Seq(ByteCells)
  BY EmptySeq
<1>3. /\ OutKept /\ ChunkStep(<<>>)
      /\ IsSeq(out') /\ Len(out') >= HeaderSize /\ out'[1] = Zero
      /\ pos' \in Nat /\ pos' >= HeaderSize
  BY <1>1, <1>2, ChunkWritten
<1>4. chunkData' = <<>> /\ chunks' \in Seq(Entries)
  BY <1>1, <1>2, <1>3, ChunksStay DEF FinishCurrentChunk
<1>5. /\ streams' = streams /\ calls' = calls /\ threshold' = threshold /\ failures' = failures
      /\ writer' = NoWriter \/ (writer' = writer /\ stage' = stage)
  BY DEF EndChunk, FinishChunk, finishVars
<1>6. WriterTyped'
  BY <1>1, <1>2, <1>3, <1>4, <1>5 DEF WriterTyped, Writers
<1>7. InStage'
  BY <1>1, <1>3, <1>4, <1>5 DEF InStage
<1> QED BY <1>3, <1>5, <1>6, <1>7, SameStreamsKeepInv DEF Quiet

(* Something was written, or not, and nothing but the file has changed.    *)
LEMMA FileStepKeepsInv ==
  ASSUME MsfzInv, UNCHANGED <<threshold, chunkData, chunks, streams, writer>>,
         stage \in Unpublished, stage' = stage \/ (stage # "writing" /\ stage' \in Unpublished \ {"writing"}),
         OutKept, IsSeq(out'), Len(out') >= HeaderSize, out'[1] = Zero,
         pos' \in Nat, pos' >= HeaderSize,
         calls' \in {calls, calls + 1}, calls' \in 0 .. MaxCalls, failures' \in 0 .. MaxFailures
  PROVE  MsfzInv' /\ Quiet
<1> USE DEF MsfzInv
<1>1. ChunkStep(<<>>)
  BY ConcatEmptySeq DEF ChunkStep, WriterTyped
<1>2. WriterTyped'
  BY DEF WriterTyped, Writers
<1>3. InStage'
  BY DEF InStage
<1> QED BY <1>1, <1>2, <1>3, SameStreamsKeepInv DEF Quiet

LEMMA FailuresKeepInv ==
  ASSUME MsfzInv, EndChunkFails \/ \E n \in Lengths : WriteCompressedFails(n)
  PROVE  MsfzInv' /\ Quiet
<1> USE DEF MsfzInv
<1>1. /\ FinishCurrentChunkFails /\ stage' = stage /\ stage \in Unpublished
      /\ UNCHANGED <<threshold, chunkData, chunks, streams, writer>>
      /\ calls' \in {calls, calls + 1} /\ calls' \in 0 .. MaxCalls
  <2>1. CASE EndChunkFails
    BY <2>1 DEF EndChunkFails, FinishCurrentChunkFails, chunkVars, finishVars, WriterTyped,
                Unpublished
  <2>2. CASE \E n \in Lengths : WriteCompressedFails(n)
    <3>1. calls' = calls + 1 /\ calls < MaxCalls /\ writer # NoWriter
      BY <2>2 DEF WriteCompressedFails, Calling
    <3>2. calls' \in 0 .. MaxCalls
      BY <3>1, MsfzWriterAssumption DEF WriterTyped
    <3> QED BY <2>2, <3>1, <3>2 DEF WriteCompressedFails, FinishCurrentChunkFails, Calling,
                                     chunkVars, finishVars, InStage, Unpublished
  <2> QED BY <2>1, <2>2
<1>2. PICK k \in CompressedSizes : WriteFails(pos, Compressed(chunkData, k))
  BY <1>1 DEF FinishCurrentChunkFails
<1>3. IsSeq(Compressed(chunkData, k))
  BY MsfzWriterAssumption, CompressedCells
<1>4. pos \in Nat /\ pos >= pos
  BY DEF WriterTyped
<1>5. /\ OutKept
      /\ IsSeq(out') /\ Len(out') >= HeaderSize /\ out'[1] = Zero
      /\ pos' \in Nat /\ pos' >= HeaderSize /\ failures' \in 0 .. MaxFailures
  BY <1>1, <1>2, <1>3, <1>4, WriteFailed
<1> QED BY <1>1, <1>5, FileStepKeepsInv DEF Quiet

(* Where an uncompressed fragment goes.                                    *)
LEMMA OffsetBehind ==
  ASSUME WriterTyped, writer # NoWriter
  PROVE  FragmentOffset \in Nat /\ FragmentOffset >= pos
<1>1. pos \in Nat /\ writer.alignment \in Nat \ {0}
  BY DEF WriterTyped, Writers
<1>2. AlignUp(pos, writer.alignment) \in Nat /\ AlignUp(pos, writer.alignment) >= pos
  BY <1>1, AlignedUp
<1> QED BY <1>1, <1>2 DEF FragmentOffset

LEMMA RefusedKeepInv ==
  ASSUME MsfzInv, NEW n \in Lengths,
         WriteTooLong(n) \/ WriteTooFar(n) \/ WriteUncompressedFails(n)
  PROVE  MsfzInv' /\ Quiet
<1> USE DEF MsfzInv
<1>1. /\ stage' = stage /\ stage \in Unpublished /\ writer # NoWriter
      /\ UNCHANGED <<threshold, chunkData, chunks, streams, writer>>
      /\ calls' = calls + 1
  BY DEF WriteTooLong, WriteTooFar, WriteUncompressedFails, Calling, chunkVars, finishVars,
         InStage, Unpublished
<1>2. calls' \in 0 .. MaxCalls
  <2>1. calls < MaxCalls
    BY DEF WriteTooLong, WriteTooFar, WriteUncompressedFails, Calling
  <2> QED BY <1>1, <2>1, MsfzWriterAssumption DEF WriterTyped
<1>3. FragmentOffset \in Nat /\ FragmentOffset >= pos
  BY <1>1, OffsetBehind
<1>4. IsSeq(out) /\ Len(out) >= HeaderSize /\ pos \in Nat /\ out[1] = Zero /\ pos >= HeaderSize
  BY <1>1 DEF WriterTyped, InStage
<1>5. CASE WriteTooLong(n) \/ WriteTooFar(n)
  <2>1. out' = out /\ failures' = failures /\ pos' \in Nat /\ pos' >= pos
    BY <1>3, <1>4, <1>5 DEF WriteTooLong, WriteTooFar, fileVars
  <2>2. OutKept
    BY <1>1, <2>1, OutSame
  <2>3. pos' >= HeaderSize
    BY <1>4, <2>1 DEF HeaderSize
  <2>4. failures' \in 0 .. MaxFailures
    BY <2>1 DEF WriterTyped
  <2> QED BY <1>1, <1>2, <1>4, <2>1, <2>2, <2>3, <2>4, FileStepKeepsInv DEF Quiet
<1>6. CASE WriteUncompressedFails(n)
  <2>1. WriteFails(FragmentOffset, Bytes(writer.stream, calls + 1, n))
    BY <1>6 DEF WriteUncompressedFails
  <2>2. IsSeq(Bytes(writer.stream, calls + 1, n))
    <3>1. n \in Nat \ {0}
      BY MsfzWriterAssumption
    <3> DEFINE b == Bytes(writer.stream, calls + 1, n)
    <3>2. b = [i \in 1 .. n |-> b[i]]
      BY DEF Bytes
    <3> QED BY <3>1, <3>2, ListIsSeq
  <2>3. /\ OutKept
        /\ IsSeq(out') /\ Len(out') >= HeaderSize /\ out'[1] = Zero
        /\ pos' \in Nat /\ pos' >= HeaderSize /\ failures' \in 0 .. MaxFailures
    BY <1>1, <1>3, <2>1, <2>2, WriteFailed
  <2> QED BY <1>1, <1>2, <2>3, FileStepKeepsInv DEF Quiet
<1> QED BY <1>5, <1>6

(* The stream directory is a sequence of cells.                            *)
LEMMA FlattenIsSeq ==
  ASSUME NEW S, NEW parts \in Seq(Seq(S))
  PROVE  FlattenSeq(parts) \in Seq(S)
<1>1. PICK P \in [0 .. Len(parts) -> Seq(S)] : FlattenSeq(parts) = P[Len(parts)]
  BY FlattenPrefixes
<1>2. Len(parts) \in 0 .. Len(parts)
  OBVIOUS
<1> QED BY <1>1, <1>2

LEMMA FieldsAreSeq ==
  ASSUME NEW f \in {Nil} \cup Seq(Fragments)
  PROVE  StreamFields(f) \in Seq(FieldCells)
<1>1. ASSUME NEW n \in Nat PROVE << <<"u32", n>> >> \in Seq(FieldCells)
  <2>1. <<"u32", n>> \in FieldCells
    BY DEF FieldCells
  <2> QED BY <2>1
<1>2. CASE f = Nil
  BY <1>1, <1>2, MsfzReaderAssumption DEF StreamFields
<1>3. CASE f # Nil
  <2> DEFINE pairs == [i \in DOMAIN f |-> << <<"u32", f[i].size>>, <<"u64", f[i].location>> >>]
             n == Len(f)
  <2>1. n \in Nat /\ DOMAIN f = 1 .. n /\ \A i \in 1 .. n : f[i] \in Fragments
    BY <1>3, LenProperties, ElementOfSeq
  <2>2. ASSUME NEW i \in 1 .. n
        PROVE  << <<"u32", f[i].size>>, <<"u64", f[i].location>> >> \in Seq(FieldCells)
    <3>1. f[i].size \in Nat /\ f[i].location \in Locations
      BY <2>1 DEF Fragments
    <3> DEFINE s == f[i].size
               l == f[i].location
    <3>2. <<"u32", s>> \in FieldCells /\ <<"u64", l>> \in FieldCells
      BY <3>1 DEF FieldCells
    <3> HIDE DEF s, l
    <3>3. << <<"u32", s>>, <<"u64", l>> >> \in Seq(FieldCells)
      BY <3>2
    <3> QED BY <3>3 DEF s, l
  <2>3. pairs \in [1 .. n -> Seq(FieldCells)]
    BY <2>1, <2>2
  <2> HIDE DEF pairs, n
  <2>4. pairs \in Seq(Seq(FieldCells))
    BY <2>1, <2>3, FunctionLen
  <2>5. FlattenSeq(pairs) \in Seq(FieldCells)
    BY <2>4, FlattenIsSeq
  <2>6. StreamFields(f) = FlattenSeq(pairs) \o << <<"u32", 0>> >>
    BY <1>3 DEF StreamFields, pairs
  <2>7. << <<"u32", 0>> >> \in Seq(FieldCells)
    BY <1>1
  <2> QED BY <2>5, <2>6, <2>7, ConcatProperties
<1> QED BY <1>2, <1>3

LEMMA DirectoryIsSeq ==
  ASSUME WriterTyped
  PROVE  IsSeq(EncodeStreamDir)
<1>1. PICK n \in 1 .. MaxStreams :
        /\ n \in Nat \ {0} /\ streams \in StreamMap(n) /\ Cardinality(DOMAIN streams) = n
  BY StreamsDomain
<1> DEFINE fields == [i \in 1 .. n |-> StreamFields(streams[i - 1])]
<1>2. fields \in [1 .. n -> Seq(FieldCells)]
  <2> SUFFICES ASSUME NEW i \in 1 .. n PROVE StreamFields(streams[i - 1]) \in Seq(FieldCells)
    OBVIOUS
  <2>1. i - 1 \in 0 .. n - 1
    BY <1>1
  <2>2. streams[i - 1] \in {Nil} \cup Seq(Fragments)
    BY <1>1, <2>1 DEF StreamMap
  <2> QED BY <2>2, FieldsAreSeq
<1> HIDE DEF fields
<1>3. fields \in Seq(Seq(FieldCells))
  BY <1>1, <1>2, FunctionLen
<1>4. EncodeStreamDir = FlattenSeq(fields)
  BY <1>1 DEF EncodeStreamDir, fields
<1> QED BY <1>3, <1>4, FlattenIsSeq, SeqIsSeq

LEMMA DirectoryKeepsInv ==
  ASSUME MsfzInv, WriteChunkTable \/ \E compress \in BOOLEAN : WriteStreamDir(compress)
  PROVE  MsfzInv' /\ Quiet
<1> USE DEF MsfzInv
<1>1. /\ stage \in Unpublished \ {"writing"} /\ stage' \in Unpublished \ {"writing"}
      /\ UNCHANGED <<threshold, chunkData, chunks, streams, writer, calls, failures>>
  BY DEF WriteStreamDir, WriteChunkTable, chunkVars, Unpublished
<1>2. calls' \in 0 .. MaxCalls /\ failures' \in 0 .. MaxFailures
  BY <1>1 DEF WriterTyped
<1>3. AlignUp(pos, DirAlignment) \in Nat /\ AlignUp(pos, DirAlignment) >= pos
  <2>1. pos \in Nat /\ DirAlignment \in Nat \ {0}
    BY DEF WriterTyped, DirAlignment
  <2> QED BY <2>1, AlignedUp
<1>4. \E cells : IsSeq(cells) /\ WriteAll(AlignUp(pos, DirAlignment), cells)
  <2>1. CASE WriteChunkTable
    <3> DEFINE cells == [i \in DOMAIN chunks |-> <<"entry", chunks[i]>>]
               n == Len(chunks)
    <3>1. n \in Nat /\ DOMAIN chunks = 1 .. n
      BY LenProperties DEF WriterTyped
    <3>2. cells = [i \in 1 .. n |-> cells[i]]
      BY <3>1
    <3>3. IsSeq(cells)
      <4> HIDE DEF cells, n
      <4> QED BY <3>1, <3>2, ListIsSeq
    <3> QED BY <2>1, <3>3 DEF WriteChunkTable
  <2>2. CASE \E compress \in BOOLEAN : WriteStreamDir(compress)
    <3>1. PICK compress \in BOOLEAN : WriteStreamDir(compress)
      BY <2>2
    <3> DEFINE fields == EncodeStreamDir
    <3>2. IsSeq(fields)
      BY DirectoryIsSeq
    <3>3. PICK k \in IF compress THEN CompressedSizes ELSE {Len(fields)} :
            WriteAll(AlignUp(pos, DirAlignment), IF compress THEN Compressed(fields, k) ELSE fields)
      BY <3>1 DEF WriteStreamDir
    <3>4. CASE compress
      <4>1. k \in Nat
        BY <3>4, MsfzWriterAssumption
      <4>2. IsSeq(Compressed(fields, k))
        BY <4>1, CompressedCells
      <4> QED BY <3>3, <3>4, <4>2
    <3>5. CASE ~compress
      BY <3>2, <3>3, <3>5
    <3> QED BY <3>4, <3>5
  <2> QED BY <2>1, <2>2
<1>5. PICK cells : IsSeq(cells) /\ WriteAll(AlignUp(pos, DirAlignment), cells)
  BY <1>4
<1>6. /\ OutKept
      /\ IsSeq(out') /\ Len(out') >= HeaderSize /\ out'[1] = Zero
      /\ pos' \in Nat /\ pos' >= HeaderSize
  BY <1>1, <1>3, <1>5, WrittenBehind
<1> QED BY <1>1, <1>2, <1>6, FileStepKeepsInv DEF Quiet

(* The header, and what is done behind it, leave everything where it is.   *)
LEMMA LastStepsKeepInv ==
  ASSUME MsfzInv, WriteFileHeader \/ \E size \in MinFileSizes : ExtendToMinFileSize(size)
  PROVE  MsfzInv' /\ Quiet
<1> USE DEF MsfzInv
<1>1. /\ stage # "writing" /\ stage' \in {"padding", "finished"}
      /\ UNCHANGED <<threshold, chunkData, chunks, streams, writer, calls, failures>>
  BY DEF WriteFileHeader, ExtendToMinFileSize, chunkVars
<1>2. ChunkStep(<<>>)
  BY <1>1, ConcatEmptySeq DEF ChunkStep, WriterTyped
<1>3. /\ IsSeq(out) /\ Len(out) \in Nat /\ Len(out) >= HeaderSize /\ pos \in Nat
      /\ stage = "padding" => out[1] # Zero
  BY SeqFacts DEF WriterTyped, InStage, Unpublished
<1>4. ASSUME IsSeq(out'), Len(out') >= Len(out), pos' \in Nat, out'[1] # Zero,
             \A j \in (HeaderSize + 1) .. Len(out) : out'[j] = out[j]
      PROVE  MsfzInv' /\ Quiet
  <2>1. Len(out') \in Nat /\ HeaderSize = 2
    BY <1>4, SeqFacts DEF HeaderSize
  <2>2. OutKept
    <3>1. ASSUME NEW o \in Nat, NEW n \in Nat, Kept(o, n)
          PROVE  Kept(o, n)' /\ \A i \in 1 .. n : out'[o + i] = out[o + i]
      <4>1. HeaderSize <= o /\ o + n <= Len(out)
        BY <3>1 DEF Kept
      <4>2. o + n <= Len(out')
        BY <1>3, <1>4, <2>1, <4>1
      <4>3. \A i \in 1 .. n : o + i \in (HeaderSize + 1) .. Len(out)
        BY <1>3, <2>1, <4>1
      <4> QED BY <1>1, <1>4, <4>1, <4>2, <4>3 DEF Kept, Unpublished
    <3> QED BY <1>4, <3>1 DEF OutKept
  <2>3. Len(out') >= HeaderSize
    BY <1>3, <1>4, <2>1
  <2>4. WriterTyped'
    BY <1>1, <1>4, <2>3 DEF WriterTyped, Writers
  <2>5. InStage'
    BY <1>1, <1>4 DEF InStage, Unpublished
  <2> QED BY <1>1, <1>2, <2>2, <2>4, <2>5, SameStreamsKeepInv DEF Quiet
<1>5. CASE WriteFileHeader
  <2> DEFINE cells == << <<"header", header>>, Zero >>
  <2>1. IsSeq(cells) /\ Len(cells) = 2 /\ cells[1] # Zero /\ cells # <<>>
    <3>1. cells \in Seq({<<"header", header>>, Zero})
      OBVIOUS
    <3>2. Len(cells) = 2 /\ cells[1] = <<"header", header>> /\ cells # <<>>
      OBVIOUS
    <3>3. <<"header", header>> # Zero
      BY DEF Zero
    <3> QED BY <3>1, <3>2, <3>3, SeqIsSeq
  <2>2. PICK o \in Nat : o = 0 /\ WriteAll(o, cells)
    BY <1>5 DEF WriteFileHeader
  <2> HIDE DEF cells
  <2>3. /\ IsSeq(out') /\ Len(out') >= Len(out)
        /\ \A j \in 1 .. Len(out) : j <= o \/ j > o + Len(cells) => out'[j] = out[j]
        /\ \A i \in 1 .. Len(cells) : out'[o + i] = cells[i]
        /\ pos' \in Nat
    <3>1. IsSeq(out) /\ IsSeq(cells)
      BY <1>3, <2>1
    <3> QED BY ONLY <2>2, <3>1, CellsWritten
  <2>4. out'[1] # Zero
    <3>1. 1 \in 1 .. Len(cells) /\ o + 1 = 1
      BY <2>1, <2>2
    <3>2. out'[o + 1] = cells[1]
      BY <2>3, <3>1
    <3> QED BY <2>1, <3>1, <3>2
  <2>5. \A j \in (HeaderSize + 1) .. Len(out) : out'[j] = out[j]
    BY <1>3, <2>1, <2>2, <2>3 DEF HeaderSize
  <2> QED BY <1>4, <2>3, <2>4, <2>5
<1>6. CASE \E size \in MinFileSizes : ExtendToMinFileSize(size)
  <2>1. PICK size \in MinFileSizes : ExtendToMinFileSize(size)
    BY <1>6
  <2>2. CASE Len(out) < size
    <3> DEFINE offset == size - 1
               cells == <<Zero>>
    <3>1. offset \in Nat /\ offset >= Len(out)
      BY <1>3, <2>2, MsfzWriterAssumption
    <3>2. IsSeq(cells)
      <4>1. cells \in Seq({Zero})
        OBVIOUS
      <4> QED BY <4>1, SeqIsSeq
    <3>3. WriteAll(offset, cells)
      BY <2>1, <2>2 DEF ExtendToMinFileSize
    <3> HIDE DEF offset, cells
    <3>4. /\ IsSeq(out') /\ Len(out') >= Len(out)
          /\ \A j \in 1 .. Len(out) : j <= offset \/ j > offset + Len(cells) => out'[j] = out[j]
          /\ pos' \in Nat
      BY <1>3, <3>1, <3>2, <3>3, CellsWritten
    <3>5. \A j \in 1 .. Len(out) : out'[j] = out[j]
      BY <1>3, <3>1, <3>4
    <3>6. out'[1] # Zero
      <4>1. 1 \in 1 .. Len(out) /\ stage = "padding"
        BY <1>3, <2>1 DEF HeaderSize, ExtendToMinFileSize
      <4> QED BY <1>3, <3>5, <4>1
    <3>7. \A j \in (HeaderSize + 1) .. Len(out) : out'[j] = out[j]
      BY <1>3, <3>5 DEF HeaderSize
    <3> QED BY <1>4, <3>4, <3>6, <3>7
  <2>3. CASE ~(Len(out) < size)
    <3>1. out' = out /\ pos' = pos /\ stage = "padding"
      BY <2>1, <2>3 DEF ExtendToMinFileSize, fileVars
    <3> QED BY <1>3, <1>4, <3>1
  <2> QED BY <2>2, <2>3
<1> QED BY <1>5, <1>6

-----------------------------------------------------------------------------
(***************************************************************************)
(* A call of write appends a fragment, or extends the last one.            *)
(***************************************************************************)
(* g is f with n more bytes, the last fragment now being x.                *)
Grown(f, g, x, n) ==
  /\ g \in Seq(Fragments) /\ x \in Fragments /\ FragmentsSize(f) \in Nat
  /\ FragmentsSize(g) = FragmentsSize(f) + n
  /\ \E k \in Nat :
       /\ k <= Len(f) /\ Len(g) = k + 1 /\ g[k + 1] = x
       /\ \A i \in 1 .. k : g[i] = f[i]
       /\ \/ Len(f) = k /\ x.size = n
          \/ /\ Len(f) = k + 1
             /\ x = [size |-> f[k + 1].size + n, location |-> f[k + 1].location]

LEMMA AppendGrows ==
  ASSUME NEW f \in Seq(Fragments), NEW n \in Nat, NEW x \in Fragments, x.size = n
  PROVE  Grown(f, Append(f, x), x, n)
<1> DEFINE g == Append(f, x)
           k == Len(f)
<1>1. k \in Nat /\ g \in Seq(Fragments) /\ Len(g) = k + 1 /\ g[k + 1] = x
      /\ \A i \in 1 .. k : g[i] = f[i]
  OBVIOUS
<1>2. FragmentsSize(f) \in Nat /\ FragmentsSize(g) = FragmentsSize(f) + n
  BY SizeOfAppended
<1> HIDE DEF g, k
<1>3. k <= Len(f) /\ Len(f) = k
  BY <1>1 DEF k
<1>4. Grown(f, g, x, n)
  BY <1>1, <1>2, <1>3 DEF Grown
<1> QED BY <1>4 DEF g

LEMMA ExtendGrows ==
  ASSUME NEW f \in Seq(Fragments), f # <<>>, NEW n \in Nat
  PROVE  LET x == [size |-> Last(f).size + n, location |-> Last(f).location]
         IN Grown(f, Extended(f, n), x, n)
<1> DEFINE g == Extended(f, n)
           x == [size |-> Last(f).size + n, location |-> Last(f).location]
           k == Len(f) - 1
<1>1. /\ g \in Seq(Fragments) /\ Len(g) = Len(f) /\ Len(f) \in Nat \ {0}
      /\ f[Len(f)] \in Fragments
      /\ \A i \in 1 .. (Len(f) - 1) : g[i] = f[i]
      /\ g[Len(f)] = [size |-> f[Len(f)].size + n, location |-> f[Len(f)].location]
      /\ FragmentsSize(f) \in Nat /\ FragmentsSize(g) = FragmentsSize(f) + n
  BY SizeOfExtended
<1>2. k \in Nat /\ k <= Len(f) /\ k + 1 = Len(f)
  BY <1>1
<1>3. x = [size |-> f[k + 1].size + n, location |-> f[k + 1].location] /\ x \in Fragments
  BY <1>1, <1>2 DEF Last, Fragments
<1> HIDE DEF g, k, x
<1>4. Len(g) = k + 1 /\ g[k + 1] = x /\ \A i \in 1 .. k : g[i] = f[i]
  BY <1>1, <1>2, <1>3 DEF k
<1>5. Grown(f, g, x, n)
  BY <1>1, <1>2, <1>3, <1>4 DEF Grown
<1> QED BY <1>5 DEF g, x

(* A fragment is not longer than its stream.                               *)
LEMMA GrownSize ==
  ASSUME NEW f \in Seq(Fragments), NEW n \in Nat \ {0}, NEW g, NEW x, Grown(f, g, x, n),
         FragmentsSize(f) + n < NilSize
  PROVE  x.size \in 1 .. NilSize - 1 /\ FragmentsSize(g) < NilSize
         /\ g # <<>> /\ g # Nil /\ Last(g) = x
<1>1. PICK k \in Nat :
       /\ k <= Len(f) /\ Len(g) = k + 1 /\ g[k + 1] = x
       /\ \A i \in 1 .. k : g[i] = f[i]
       /\ \/ Len(f) = k /\ x.size = n
          \/ /\ Len(f) = k + 1
             /\ x = [size |-> f[k + 1].size + n, location |-> f[k + 1].location]
  BY DEF Grown
<1>2. g \in Seq(Fragments) /\ x \in Fragments /\ FragmentsSize(f) \in Nat
      /\ FragmentsSize(g) = FragmentsSize(f) + n
  BY DEF Grown
<1>3. PICK P \in [0 .. Len(g) -> Nat] :
           /\ \A i \in 1 .. Len(g) : P[i] = P[i - 1] + g[i].size
           /\ FragmentsSize(g) = P[Len(g)]
  BY <1>2, SizeSums
<1>4. k + 1 \in 1 .. Len(g) /\ (k + 1) - 1 = k /\ k \in 0 .. Len(g)
  BY <1>1
<1>5. P[k + 1] = P[k] + x.size /\ P[k] \in Nat /\ x.size \in Nat
  BY <1>1, <1>2, <1>3, <1>4 DEF Fragments, Locations
<1>6. x.size <= FragmentsSize(g)
  BY <1>1, <1>3, <1>5
<1>7. x.size >= n
  <2>1. CASE Len(f) = k + 1 /\ x = [size |-> f[k + 1].size + n, location |-> f[k + 1].location]
    <3>1. k + 1 \in 1 .. Len(f)
      BY <2>1
    <3>2. f[k + 1] \in Fragments
      BY <3>1, ElementOfSeq
    <3>3. f[k + 1].size \in Nat
      BY <3>2 DEF Fragments, Locations
    <3> QED BY <2>1, <3>3
  <2> QED BY <1>1, <1>5, <2>1
<1>8. g # <<>> /\ Last(g) = x
  <2>1. Len(<<>>) = 0
    OBVIOUS
  <2> QED BY <1>1, <2>1 DEF Last
<1>9. g # Nil
  BY <1>2, NilIsNoSeq
<1> QED BY <1>2, <1>5, <1>6, <1>7, <1>8, <1>9, MsfzReaderAssumption

(* The bytes of the fragments of f are F, and G those of g.                *)
PartsGrow(f, g, F, G, d) ==
  /\ DOMAIN F = DOMAIN f /\ DOMAIN G = DOMAIN g
  /\ F = [i \in DOMAIN F |-> F[i]] /\ G = [i \in DOMAIN G |-> G[i]]
  /\ \A i \in DOMAIN f : F[i] \in Seq(ByteCells)
  /\ \A i \in DOMAIN f : i \in DOMAIN g /\ g[i] = f[i] => G[i] = F[i]
  /\ G[Len(g)] = IF Len(g) = Len(f) THEN F[Len(f)] \o d ELSE d
  /\ G[Len(g)] \in Seq(ByteCells)

LEMMA GrownParts ==
  ASSUME NEW f \in Seq(Fragments), NEW n \in Nat, NEW g, NEW x, Grown(f, g, x, n),
         NEW F, NEW G, NEW d \in Seq(ByteCells), PartsGrow(f, g, F, G, d)
  PROVE  Joined(F) \in Seq(ByteCells) /\ Joined(G) = Joined(F) \o d
<1> DEFINE y == G[Len(g)]
<1>0. /\ DOMAIN F = DOMAIN f /\ DOMAIN G = DOMAIN g
      /\ F = [i \in DOMAIN F |-> F[i]] /\ G = [i \in DOMAIN G |-> G[i]]
      /\ \A i \in DOMAIN f : F[i] \in Seq(ByteCells)
      /\ \A i \in DOMAIN f : i \in DOMAIN g /\ g[i] = f[i] => G[i] = F[i]
      /\ G[Len(g)] = y /\ y \in Seq(ByteCells)
      /\ y = IF Len(g) = Len(f) THEN F[Len(f)] \o d ELSE d
  BY DEF PartsGrow
<1> HIDE DEF y
<1>1. PICK k \in Nat :
       /\ k <= Len(f) /\ Len(g) = k + 1
       /\ \A i \in 1 .. k : g[i] = f[i]
       /\ Len(f) = k \/ Len(f) = k + 1
  BY DEF Grown
<1>2. g \in Seq(Fragments)
  BY DEF Grown
<1>3. Len(f) \in Nat /\ DOMAIN f = 1 .. Len(f) /\ DOMAIN g = 1 .. Len(g)
  BY <1>2, LenProperties
<1>4. F \in [1 .. Len(f) -> Seq(ByteCells)]
  BY <1>0, <1>3
<1>5. \A i \in 1 .. k : G[i] = F[i]
  <2> TAKE i \in 1 .. k
  <2>1. i \in 1 .. Len(f) /\ i \in 1 .. Len(g)
    BY <1>1, Len(f) \in Nat
  <2> QED BY <1>0, <1>1, <1>3, <2>1
<1>6. \A i \in 1 .. Len(g) : G[i] \in Seq(ByteCells)
  <2> TAKE i \in 1 .. Len(g)
  <2>1. CASE i = k + 1
    BY <1>0, <1>1, <2>1
  <2>2. CASE i # k + 1
    <3>1. i \in 1 .. k /\ i \in 1 .. Len(f)
      BY <1>1, <1>3, <2>2
    <3> QED BY <1>0, <1>3, <1>5, <3>1
  <2> QED BY <2>1, <2>2
<1>7. G \in [1 .. Len(g) -> Seq(ByteCells)]
  BY <1>0, <1>3, <1>6
<1>8. F \in Seq(Seq(ByteCells)) /\ Len(F) = Len(f)
  BY <1>3, <1>4, FunctionLen
<1>9. G \in Seq(Seq(ByteCells)) /\ Len(G) = k + 1
  <2>1. Len(g) \in Nat
    BY <1>1
  <2> QED BY <1>1, <1>7, <2>1, FunctionLen
<1>10. /\ FlattenSeq(F) \in Seq(ByteCells)
       /\ Len(F) = k => FlattenSeq(G) = FlattenSeq(F) \o G[k + 1]
       /\ Len(F) = k + 1 /\ G[k + 1] = F[k + 1] \o d => FlattenSeq(G) = FlattenSeq(F) \o d
  <2>1. k <= Len(F) /\ Len(G) = k + 1 /\ F \in Seq(Seq(ByteCells)) /\ G \in Seq(Seq(ByteCells))
    BY <1>1, <1>8, <1>9
  <2>2. /\ FlattenSeq(F) \in Seq(ByteCells)
        /\ Len(F) = k => FlattenSeq(G) = FlattenSeq(F) \o G[k + 1]
        /\ \A u \in Seq(ByteCells) : Len(F) = k + 1 /\ G[k + 1] = F[k + 1] \o u =>
             FlattenSeq(G) = FlattenSeq(F) \o u
    <3>1. FlattenSeq(F) \in Seq(ByteCells)
      BY <2>1, FlattenIsSeq
    <3>2. ASSUME Len(F) = k PROVE FlattenSeq(G) = FlattenSeq(F) \o G[k + 1]
      BY ONLY k \in Nat, <1>5, <2>1, <3>2, FlattenFront, Zenon
    <3>3. ASSUME NEW u \in Seq(ByteCells), Len(F) = k + 1, G[k + 1] = F[k + 1] \o u
          PROVE  FlattenSeq(G) = FlattenSeq(F) \o u
      BY ONLY k \in Nat, u \in Seq(ByteCells), <1>5, <2>1, <3>3, FlattenFront, ZenonT(60)
    <3> QED BY <3>1, <3>2, <3>3
  <2> QED BY <2>2
<1>11. FlattenSeq(G) = FlattenSeq(F) \o d
  <2>1. CASE Len(f) = k
    <3>1. Len(g) # Len(f)
      BY <1>1, <2>1
    <3> QED BY <1>0, <1>1, <1>8, <1>10, <2>1, <3>1
  <2>2. CASE Len(f) = k + 1
    <3>1. Len(g) = Len(f)
      BY <1>1, <2>2
    <3> QED BY <1>0, <1>1, <1>8, <1>10, <2>2, <3>1
  <2> QED BY <1>1, <2>1, <2>2
<1>12. Joined(F) = FlattenSeq(F) /\ Joined(G) = FlattenSeq(G)
  <2>1. \A i \in DOMAIN F : F[i] # Error
    BY <1>0, MsfzValuesAssumption
  <2>2. \A i \in DOMAIN G : G[i] # Error
    <3>1. DOMAIN G = 1 .. Len(g)
      BY <1>0, <1>3
    <3> QED BY <1>6, <3>1, MsfzValuesAssumption
  <2> QED BY <2>1, <2>2 DEF Joined
<1> QED BY <1>10, <1>11, <1>12

(* What a call of write does to the streams.                               *)
Appended(s, d) ==
  /\ s \in DOMAIN streams /\ streams[s] # Nil
  /\ DOMAIN streams' = DOMAIN streams /\ streams'[s] # Nil
  /\ \A t \in DOMAIN streams : t # s => StreamContents(t)' = StreamContents(t)
  /\ StreamContents(s) \in Seq(ByteCells)
  /\ StreamContents(s)' = StreamContents(s) \o d

(* The last fragment of the stream is x, which holds the bytes of the call *)
(* behind those of the fragment that was extended.                         *)
Holds(f, g, x, d) ==
  /\ Stored(x)'
  /\ FragmentBytes(x)' =
       IF Len(g) = Len(f) THEN FragmentBytes(f[Len(f)]) \o d ELSE d

LEMMA StreamGrows ==
  ASSUME WriterTyped, FragmentsTyped, ChunksOnDisk, OutKept,
         NEW e \in Seq(ByteCells), ChunkStep(e), NEW d \in Seq(ByteCells),
         NEW s \in DOMAIN streams, NEW f \in Seq(Fragments), streams[s] = f,
         NEW n \in Nat \ {0}, NEW g, NEW x, Grown(f, g, x, n), FragmentsSize(f) + n < NilSize,
         streams' = [streams EXCEPT ![s] = g], Fragment(x)',
         ~AnyCalls /\ AllStored => Holds(f, g, x, d)
  PROVE  /\ FragmentsTyped'
         /\ ~AnyCalls /\ AllStored => AllStored' /\ Appended(s, d)
<1>1. PICK k \in Nat :
       /\ k <= Len(f) /\ Len(g) = k + 1 /\ g[k + 1] = x
       /\ \A i \in 1 .. k : g[i] = f[i]
       /\ Len(f) = k \/ Len(f) = k + 1
  BY DEF Grown
<1>2. g \in Seq(Fragments) /\ DOMAIN g = 1 .. Len(g) /\ DOMAIN f = 1 .. Len(f) /\ Len(f) \in Nat
  BY LenProperties DEF Grown
<1>3. g # Nil /\ f # Nil /\ FragmentsSize(g) < NilSize
  BY GrownSize, NilIsNoSeq
<1>4. SeqTyped(f)
  BY <1>3 DEF FragmentsTyped, SeqTyped
<1>5. /\ SeqTyped(f)'
      /\ SeqStored(f) => SeqStored(f)' /\ Parts(f)' = Parts(f)
  BY <1>4, FragmentsKept
<1>6. DOMAIN streams' = DOMAIN streams /\ streams'[s] = g
      /\ \A t \in DOMAIN streams : t # s => streams'[t] = streams[t]
  BY StreamsDomain DEF StreamMap
<1>7. ASSUME NEW i \in DOMAIN g PROVE i = Len(g) \/ (i \in DOMAIN f /\ g[i] = f[i])
  <2>1. CASE i # k + 1
    <3>1. i \in 1 .. k /\ i \in 1 .. Len(f)
      BY <1>1, <1>2, <2>1
    <3> QED BY <1>1, <1>2, <3>1
  <2> QED BY <1>1, <2>1
<1>8. SeqTyped(g)'
  <2> SUFFICES ASSUME NEW i \in DOMAIN g PROVE Fragment(g[i])'
    BY DEF SeqTyped
  <2>1. PICK z : z = g[i]
    OBVIOUS
  <2>2. Fragment(z)'
    BY <1>1, <1>5, <1>7, <2>1 DEF SeqTyped
  <2> QED BY <2>1, <2>2
<1>9. FragmentsTyped'
  <2> SUFFICES ASSUME NEW t \in DOMAIN streams' PROVE StreamTyped(streams[t])'
    BY DEF FragmentsTyped, StreamTyped, SeqTyped
  <2>1. CASE t = s
    BY <1>3, <1>6, <1>8, <2>1 DEF StreamTyped
  <2>2. CASE t # s
    <3>1. Untouched(t)
      BY <1>6, <2>2 DEF Untouched
    <3> QED BY <3>1, StreamKept
  <2> QED BY <2>1, <2>2
<1>10. ASSUME ~AnyCalls, AllStored PROVE AllStored' /\ Appended(s, d)
  <2>1. SeqStored(f) /\ Holds(f, g, x, d)
    BY <1>3, <1>10 DEF AllStored
  <2>2. SeqStored(g)'
    <3> SUFFICES ASSUME NEW i \in DOMAIN g PROVE Stored(g[i])'
      BY DEF SeqStored
    <3>1. PICK z : z = g[i]
      OBVIOUS
    <3>2. Stored(z)'
      BY <1>1, <1>5, <1>7, <2>1, <3>1 DEF SeqStored, Holds
    <3> QED BY <3>1, <3>2
  <2>3. AllStored'
    <3> SUFFICES ASSUME NEW t \in DOMAIN streams', streams'[t] # Nil PROVE SeqStored(streams[t])'
      BY DEF AllStored
    <3>1. CASE t = s
      BY <1>6, <2>2, <3>1
    <3>2. CASE t # s
      <4>1. Untouched(t)
        BY <1>6, <3>2 DEF Untouched
      <4> QED BY <1>10, <4>1, StreamKept
    <3> QED BY <3>1, <3>2
  <2>4. PICK F : F = Parts(f)
    OBVIOUS
  <2>5. PICK G : G = Parts(g)'
    OBVIOUS
  <2>6. ASSUME NEW i \in DOMAIN f PROVE F[i] \in Seq(ByteCells) /\ F[i] = FragmentBytes(f[i])'
    <3>1. DiskTyped
      BY DEF DiskTyped, WriterTyped
    <3>2. f[i] \in Fragments /\ Fragment(f[i]) /\ Stored(f[i])
      BY <1>2, <1>4, <2>1, ElementOfSeq DEF SeqTyped, SeqStored
    <3>3. FragmentBytes(f[i]) \in Seq(ByteCells)
      BY <3>1, <3>2, BytesOfFragment
    <3>4. F = Parts(f)'
      BY <1>5, <2>1, <2>4
    <3> QED BY <2>4, <3>3, <3>4 DEF Parts
  <2>7. DOMAIN F = DOMAIN f /\ DOMAIN G = DOMAIN g
        /\ F = [i \in DOMAIN F |-> F[i]] /\ G = [i \in DOMAIN G |-> G[i]]
    BY <2>4, <2>5 DEF Parts
  <2>8. ASSUME NEW i \in DOMAIN f, i \in DOMAIN g, g[i] = f[i] PROVE G[i] = F[i]
    <3>1. PICK z : z = f[i]
      OBVIOUS
    <3>2. G[i] = FragmentBytes(z)' /\ F[i] = FragmentBytes(z)'
      BY <2>5, <2>6, <2>8, <3>1 DEF Parts
    <3> QED BY <3>2
  <2>9. PICK y : y = IF Len(g) = Len(f) THEN F[Len(f)] \o d ELSE d
    OBVIOUS
  <2>10. y \in Seq(ByteCells)
    <3>1. CASE Len(g) = Len(f)
      <4>1. Len(f) \in DOMAIN f
        BY <1>1, <1>2, <3>1
      <4>2. F[Len(f)] \in Seq(ByteCells)
        BY <2>6, <4>1
      <4> QED BY <2>9, <3>1, <4>2, ConcatProperties
    <3>2. CASE Len(g) # Len(f)
      BY <2>9, <3>2
    <3> QED BY <3>1, <3>2
  <2>11. G[Len(g)] = y
    <3>1. Len(g) \in DOMAIN g /\ g[Len(g)] = x
      BY <1>1, <1>2
    <3>2. G[Len(g)] = FragmentBytes(x)'
      BY <2>5, <3>1 DEF Parts
    <3>3. CASE Len(g) = Len(f)
      <4>1. Len(f) \in DOMAIN f
        BY <1>1, <1>2, <3>3
      <4>2. F[Len(f)] = FragmentBytes(f[Len(f)])
        BY <2>4, <4>1 DEF Parts
      <4> QED BY <2>1, <2>9, <3>2, <3>3, <4>2 DEF Holds
    <3>4. CASE Len(g) # Len(f)
      BY <2>1, <2>9, <3>2, <3>4 DEF Holds
    <3> QED BY <3>3, <3>4
  <2>12. Joined(F) \in Seq(ByteCells) /\ Joined(G) = Joined(F) \o d
    <3>1. PartsGrow(f, g, F, G, d)
      BY <2>6, <2>7, <2>8, <2>9, <2>10, <2>11 DEF PartsGrow
    <3> QED BY <3>1, GrownParts
  <2>13. StreamContents(s) = Joined(F) /\ StreamContents(s)' = Joined(G)
    BY <1>3, <1>6, <2>4, <2>5 DEF StreamContents, Parts
  <2>14. ASSUME NEW t \in DOMAIN streams, t # s PROVE StreamContents(t)' = StreamContents(t)
    BY <1>6, <1>10, <2>14, StreamKept
  <2>15. Appended(s, d)
    BY <1>3, <1>6, <2>12, <2>13, <2>14 DEF Appended
  <2> QED BY <2>3, <2>15
<1> QED BY <1>9, <1>10

(* A call's bytes reach the chunk in memory, at its end.                   *)
LEMMA BytesReachChunk ==
  ASSUME MsfzInv, stage = "writing", stage' = stage,
         NEW d \in Seq(ByteCells), WriteToChunks(d), ChunkFits(d)
  PROVE  /\ OutKept /\ ChunkStep(d) /\ ChunkFits(chunkData')
         /\ IsSeq(out') /\ Len(out') >= HeaderSize /\ out'[1] = Zero
         /\ pos' \in Nat /\ pos' >= HeaderSize
         /\ chunkData' \in Seq(ByteCells) /\ Len(chunkData') >= Len(d)
         /\ ReadExact(chunkData', Len(chunkData') - Len(d), Len(d)) = d
<1> USE DEF MsfzInv
<1>1. stage \in Unpublished /\ stage' \in Unpublished
  BY DEF Unpublished
<1>2. chunkData \in Seq(ByteCells) /\ Len(chunkData) \in Nat /\ Len(d) \in Nat
  BY DEF WriterTyped
<1>3. ASSUME chunkData' = chunkData \o d \/ chunkData' = d
      PROVE  /\ chunkData' \in Seq(ByteCells) /\ Len(chunkData') >= Len(d)
             /\ ReadExact(chunkData', Len(chunkData') - Len(d), Len(d)) = d
  <2>1. CASE chunkData' = chunkData \o d
    <3>1. Len(chunkData') = Len(chunkData) + Len(d) /\ chunkData' \in Seq(ByteCells)
      BY <1>2, <2>1, ConcatProperties
    <3>2. Len(chunkData') - Len(d) = Len(chunkData) /\ Len(chunkData') >= Len(d)
      BY <1>2, <3>1
    <3>3. PICK o \in Nat : o = Len(chunkData)
      BY <1>2
    <3>4. o + 0 = Len(chunkData) /\ o + 0 = o /\ o + 0 <= Len(chunkData)
      BY <1>2, <3>3
    <3>5. ReadExact(chunkData \o d, o + 0, Len(d)) = d
      BY <1>2, <3>4, BytesReadOn
    <3> QED BY <2>1, <3>1, <3>2, <3>3, <3>4, <3>5
  <2>2. CASE chunkData' = d
    <3>1. Len(d) - Len(d) = 0 /\ 0 + Len(d) = Len(d) /\ 0 + 1 = 1
      BY <1>2
    <3>2. SubSeq(d, 1, Len(d)) = d
      BY SubSeqFull
    <3>3. ReadExact(d, 0, Len(d)) = d
      BY <1>2, <3>1, <3>2 DEF ReadExact
    <3> QED BY <1>2, <2>2, <3>1, <3>3
  <2> QED BY <1>3, <2>1, <2>2
<1>4. CASE ChunkIsFull(Len(d))
  <2>1. FinishCurrentChunk(d)
    BY <1>4 DEF WriteToChunks
  <2>2. /\ OutKept /\ ChunkStep(d)
        /\ IsSeq(out') /\ Len(out') >= HeaderSize /\ out'[1] = Zero
        /\ pos' \in Nat /\ pos' >= HeaderSize
    BY <1>1, <2>1, ChunkWritten
  <2>3. chunkData' = d
    BY <2>1 DEF FinishCurrentChunk
  <2> QED BY <1>3, <2>2, <2>3
<1>5. CASE ~ChunkIsFull(Len(d))
  <2>1. chunkData' = chunkData \o d /\ out' = out /\ pos' = pos /\ chunks' = chunks
    BY <1>5 DEF WriteToChunks, fileVars
  <2>2. /\ OutKept
        /\ IsSeq(out') /\ Len(out') >= HeaderSize /\ out'[1] = Zero
        /\ pos' \in Nat /\ pos' >= HeaderSize
    <3>1. OutKept
      BY <2>1, OutSame DEF WriterTyped
    <3> QED BY <1>1, <2>1, <3>1 DEF WriterTyped, InStage
  <2>3. ChunkStep(d)
    BY <2>1 DEF ChunkStep
  <2>4. Len(chunkData') < threshold
    <3>1. Len(chunkData') = Len(chunkData) + Len(d)
      BY <1>2, <2>1, ConcatProperties
    <3>2. threshold \in Nat
      BY MsfzWriterAssumption DEF WriterTyped
    <3> QED BY <1>2, <1>5, <3>1, <3>2 DEF ChunkIsFull
  <2>5. ChunkFits(chunkData')
    BY <2>4 DEF ChunkFits, WriterTyped
  <2> QED BY <1>3, <2>1, <2>2, <2>3, <2>5
<1> QED BY <1>4, <1>5

(* The last fragment of the stream that is written, and the chunk.         *)
LEMMA LastPending ==
  ASSUME MsfzInv, ~AnyCalls, writer # NoWriter,
         NEW d \in Seq(ByteCells), ChunkStep(d), OutKept,
         NEW f \in Seq(Fragments), f = streams[writer.stream], f # <<>>,
         IsCompressed(Last(f).location), Last(f).location[2] = Len(chunks')
  PROVE  /\ chunks' = chunks /\ chunkData' = chunkData \o d /\ PendingChunk(Last(f))
         /\ Last(f).location[3] + Last(f).size = Len(chunkData)
         /\ Last(f) \in Fragments /\ Fragment(Last(f)) /\ Stored(Last(f))
<1> USE DEF MsfzInv
<1>1. Len(f) \in 1 .. Len(f) /\ DOMAIN f = 1 .. Len(f) /\ Last(f) = f[Len(f)]
  BY EmptySeq, LenProperties DEF Last
<1>2. writer.stream \in DOMAIN streams /\ streams[writer.stream] # Nil
  BY DEF WriterTyped, Writers
<1>3. Last(f) \in Fragments /\ Fragment(Last(f)) /\ Stored(Last(f))
  BY <1>1, <1>2, ElementOfSeq DEF FragmentsTyped, StreamsStored
<1>4. Last(f).location[2] \in 0 .. Len(chunks)
  BY <1>3 DEF Fragment
<1>5. Len(chunks) \in Nat
  BY DEF WriterTyped
<1>6. chunks' = chunks /\ chunkData' = chunkData \o d
  <2>1. ASSUME Len(chunks') = Len(chunks) + 1 PROVE FALSE
    BY <1>4, <1>5, <2>1
  <2> QED BY <2>1, ChunksStay
<1>7. PendingChunk(Last(f))
  BY <1>6 DEF PendingChunk
<1>8. EndsWithChunk
  BY DEF StreamsStored
<1>9. Last(f).location[3] + Last(f).size = Len(chunkData)
  BY <1>2, <1>7, <1>8 DEF EndsWithChunk
<1> QED BY <1>3, <1>6, <1>7, <1>9

LEMMA WriteCompressedKeepsInv ==
  ASSUME MsfzInv, NEW n \in Lengths, WriteCompressed(n)
  PROVE  /\ MsfzInv' /\ OutKept
         /\ ~AnyCalls => Appended(writer.stream, Bytes(writer.stream, calls + 1, n))
<1> USE DEF MsfzInv
<1>1. PICK s : s = writer.stream
  OBVIOUS
<1>2. /\ writer # NoWriter /\ writer' = writer /\ threshold' = threshold /\ stage' = stage
      /\ stage = "writing" /\ calls' = calls + 1 /\ calls < MaxCalls /\ failures' = failures
  BY DEF WriteCompressed, Calling, finishVars, InStage
<1>3. n \in Nat \ {0} /\ calls \in Nat /\ calls' \in 0 .. MaxCalls
  BY <1>2, MsfzWriterAssumption DEF WriterTyped
<1>4. PICK m \in 1 .. MaxStreams :
        m \in Nat \ {0} /\ streams \in StreamMap(m) /\ DOMAIN streams = 0 .. m - 1
  BY StreamsDomain
<1>5. s \in DOMAIN streams /\ s \in Nat /\ streams[s] # Nil
  BY <1>1, <1>2, <1>4 DEF WriterTyped, Writers
<1>6. PICK f \in Seq(Fragments) : f = streams[s]
  BY <1>4, <1>5 DEF StreamMap
<1>7. PICK d : d = Bytes(s, calls + 1, n)
  OBVIOUS
<1>8. /\ d \in Seq(ByteCells) /\ Len(d) = n /\ CallsIn(d) = {calls + 1} /\ ChunkFits(d)
  <2>1. s \in Nat /\ calls + 1 \in Nat /\ n \in Nat \ {0}
    BY <1>3, <1>5
  <2> QED BY ONLY <1>7, <2>1, BytesOfCall
<1>9. /\ OutKept /\ ChunkStep(d) /\ ChunkFits(chunkData')
      /\ IsSeq(out') /\ Len(out') >= HeaderSize /\ out'[1] = Zero
      /\ pos' \in Nat /\ pos' >= HeaderSize
      /\ chunkData' \in Seq(ByteCells) /\ Len(chunkData') >= Len(d)
      /\ ReadExact(chunkData', Len(chunkData') - Len(d), Len(d)) = d
  <2>1. WriteToChunks(d)
    BY <1>1, <1>7 DEF WriteCompressed
  <2> QED BY <1>2, <1>8, <2>1, BytesReachChunk
<1>10. ChunksOnDisk' /\ chunks' \in Seq(Entries) /\ Len(chunks') \in Nat
  BY <1>8, <1>9, ChunksStay
<1>11. PICK c \in Nat : c = Len(chunks')
  BY <1>10
<1>12. PICK o \in Nat : o = Len(chunkData') - n /\ o + n = Len(chunkData')
  <2>1. PICK l \in Nat : l = Len(chunkData')
    BY <1>9, LenProperties
  <2>2. l >= n
    BY <1>8, <1>9, <2>1
  <2>3. l - n \in Nat /\ (l - n) + n = l
    BY <1>3, <2>2
  <2> QED BY <2>1, <2>3
<1>13. PICK g : g = AddFragmentCompressed(f, n, c, o)
  OBVIOUS
<1>14. streams' = [streams EXCEPT ![s] = g] /\ FragmentsSize(f) + n < NilSize
       /\ FragmentsSize(f) \in Nat
  <2>1. FragmentsSize(f) \in Nat
    <3>1. PICK P \in [0 .. Len(f) -> Nat] : FragmentsSize(f) = P[Len(f)]
      BY SizeSums
    <3> QED BY <3>1
  <2>2. n < NilSize - FragmentsSize(f)
    BY <1>1, <1>6 DEF WriteCompressed, FitsStream
  <2>3. streams' = [streams EXCEPT ![s] = g]
    BY <1>1, <1>6, <1>11, <1>12, <1>13 DEF WriteCompressed
  <2> QED BY <1>3, <2>1, <2>2, <2>3, MsfzReaderAssumption
<1>15. \E x : /\ Grown(f, g, x, n) /\ Fragment(x)' /\ IsCompressed(x.location)
              /\ ~AnyCalls => /\ Holds(f, g, x, d)
                              /\ x.location[3] + x.size = Len(chunkData')
  <2>1. DiskTyped /\ DiskTyped'
    BY <1>9, <1>10 DEF DiskTyped, WriterTyped
  <2>2. ChunkData(c)' = chunkData'
    BY <1>11 DEF ChunkData
  <2>3. CASE /\ f # <<>> /\ IsCompressed(Last(f).location)
             /\ Last(f).location[2] = c /\ Last(f).location[3] + n = o
    <3>1. PICK l : l = Last(f)
      OBVIOUS
    <3>2. PICK x : x = [size |-> l.size + n, location |-> l.location]
      OBVIOUS
    <3>3. g = Extended(f, n)
      BY <1>13, <2>3 DEF AddFragmentCompressed
    <3>4. Grown(f, g, x, n)
      BY <1>3, <2>3, <3>1, <3>2, <3>3, ExtendGrows
    <3>5. x \in Fragments /\ x.size \in 1 .. NilSize - 1 /\ x.location = l.location
          /\ x.size = l.size + n
      <4>1. x.size \in 1 .. NilSize - 1
        BY <1>3, <1>14, <3>4, GrownSize
      <4>2. x \in Fragments
        BY <3>4 DEF Grown
      <4> QED BY <3>2, <4>1, <4>2
    <3>6. x.location[2] = c /\ x.location[3] \in Nat /\ IsCompressed(x.location)
      BY <2>3, <3>1, <3>5, FragmentForms
    <3>7. Fragment(x)'
      BY <1>11, <3>5, <3>6 DEF Fragment
    <3>8. InChunk(x)'
      BY <2>1, <3>5, <3>6, <3>7, WhereBytesWillBe
    <3>9. ASSUME ~AnyCalls
          PROVE  Holds(f, g, x, d) /\ x.location[3] + x.size = Len(chunkData')
      <4>1. /\ chunks' = chunks /\ chunkData' = chunkData \o d /\ PendingChunk(l)
            /\ l.location[3] + l.size = Len(chunkData)
            /\ l \in Fragments /\ Fragment(l) /\ Stored(l)
        BY <1>1, <1>2, <1>6, <1>8, <1>9, <1>11, <2>3, <3>1, <3>9, LastPending
      <4>2. PICK a \in Seq(ByteCells) : a = chunkData
        BY DEF WriterTyped
      <4>3. Len(chunkData') = Len(a) + n /\ Len(a) \in Nat
        <5>1. d \in Seq(ByteCells) /\ Len(d) = n
          BY <1>8
        <5>2. Len(a \o d) = Len(a) + Len(d) /\ Len(a) \in Nat
          BY ONLY <5>1, a \in Seq(ByteCells), ConcatProperties, LenProperties
        <5> QED BY <4>1, <4>2, <5>1, <5>2
      <4>4. l.size \in Nat /\ l.location[3] \in Nat /\ l.size = n
        <5>1. l.size \in Nat
          BY <4>1, FragmentForms
        <5>2. l.location[3] \in Nat
          BY <3>5, <3>6
        <5>3. l.location[3] + n = o
          BY <2>3, <3>1
        <5>4. l.location[3] + l.size = Len(a)
          BY <4>1, <4>2
        <5>5. o + n = Len(a) + n
          BY <1>12, <4>3
        <5>6. PICK p \in Nat, z \in Nat, u \in Nat :
                 p = l.location[3] /\ z = l.size /\ u = Len(a)
          BY <4>3, <5>1, <5>2
        <5>7. p + n = o /\ p + z = u /\ o + n = u + n
          BY <5>3, <5>4, <5>5, <5>6
        <5>8. z = n
          BY <1>3, <5>7
        <5> QED BY <5>1, <5>2, <5>6, <5>8
      <4>5. x.location[3] + x.size = Len(chunkData')
        <5>1. PICK p \in Nat, z \in Nat, u \in Nat :
                 p = l.location[3] /\ z = l.size /\ u = Len(a)
          BY <4>3, <4>4
        <5>2. p + z = u
          BY <4>1, <4>2, <5>1
        <5>3. p + (z + n) = u + n
          BY <1>3, <5>2
        <5>4. x.location[3] = p /\ x.size = z + n
          BY <3>5, <5>1
        <5> QED BY <4>3, <5>1, <5>3, <5>4
      <4>6. Stored(x)' /\ FragmentBytes(x)' = ReadExact(a \o d, l.location[3], l.size + n)
        <5>1. /\ Stored(x)' <=> x.location[3] + x.size <= Len(chunkData')
              /\ FragmentBytes(x)' = ReadExact(chunkData', x.location[3], x.size)
          BY <2>2, <3>6, <3>8 DEF InChunk
        <5>2. x.location[3] + x.size <= Len(chunkData')
          BY <4>3, <4>5, <1>3
        <5> QED BY <3>5, <4>1, <4>2, <5>1, <5>2
      <4>7. ReadExact(a \o d, l.location[3], l.size + Len(d)) = ReadExact(a, l.location[3], l.size) \o d
        <5>1. PICK q \in Nat, z \in Nat : q = l.location[3] /\ z = l.size
          BY <4>4
        <5>2. q + z = Len(a) /\ q + z <= Len(a)
          BY <4>1, <4>2, <4>3, <5>1
        <5>3. a \in Seq(ByteCells) /\ d \in Seq(ByteCells) /\ q \in Nat /\ z \in Nat
          BY <1>8
        <5>4. ReadExact(a \o d, q, z + Len(d)) = ReadExact(a, q, z) \o d
          BY ONLY <5>2, <5>3, BytesReadOn
        <5> QED BY <5>1, <5>4
      <4>8. FragmentBytes(l) = ReadExact(a, l.location[3], l.size)
        BY <4>1, <4>2 DEF FragmentBytes
      <4>9. Len(g) = Len(f) /\ l = f[Len(f)]
        BY <1>3, <2>3, <3>1, <3>3, SizeOfExtended DEF Last
      <4> QED BY <1>8, <4>5, <4>6, <4>7, <4>8, <4>9 DEF Holds
    <3> QED BY <3>4, <3>6, <3>7, <3>9
  <2>4. CASE ~(/\ f # <<>> /\ IsCompressed(Last(f).location)
               /\ Last(f).location[2] = c /\ Last(f).location[3] + n = o)
    <3>1. PICK x : x = [size |-> n, location |-> <<"chunk", c, o>>]
      OBVIOUS
    <3>2. g = Append(f, x)
      BY <1>13, <2>4, <3>1 DEF AddFragmentCompressed
    <3>3. x \in Fragments /\ x.size = n /\ x.location[2] = c /\ x.location[3] = o
          /\ IsCompressed(x.location)
      BY <1>3, <3>1 DEF Fragments, Locations, IsCompressed
    <3>4. Grown(f, g, x, n)
      BY <1>3, <3>2, <3>3, AppendGrows
    <3>5. x.size \in 1 .. NilSize - 1
      BY <1>3, <1>14, <3>4, GrownSize
    <3>6. Fragment(x)'
      BY <1>11, <3>3, <3>5 DEF Fragment
    <3>7. InChunk(x)'
      BY <2>1, <3>3, <3>6, WhereBytesWillBe
    <3>8. Stored(x)' /\ FragmentBytes(x)' = d
      <4>1. /\ Stored(x)' <=> o + n <= Len(chunkData')
            /\ FragmentBytes(x)' = ReadExact(chunkData', o, n)
        BY <2>2, <3>3, <3>7 DEF InChunk
      <4>2. o + n <= Len(chunkData')
        BY <1>3, <1>12
      <4> QED BY <1>8, <1>9, <1>12, <4>1, <4>2
    <3>9. Len(g) # Len(f)
      <4>1. Len(g) = Len(f) + 1 /\ Len(f) \in Nat
        BY <3>2, <3>3, AppendProperties
      <4> QED BY <4>1
    <3>10. Holds(f, g, x, d)
      BY <3>8, <3>9 DEF Holds
    <3> QED BY <1>12, <3>3, <3>4, <3>6, <3>10
  <2> QED BY <2>3, <2>4
<1>16. PICK x : /\ Grown(f, g, x, n) /\ Fragment(x)' /\ IsCompressed(x.location)
                /\ ~AnyCalls => /\ Holds(f, g, x, d)
                                /\ x.location[3] + x.size = Len(chunkData')
  BY <1>15
<1>17. FragmentsTyped' /\ (~AnyCalls /\ AllStored => AllStored' /\ Appended(s, d))
  <2>1. ~AnyCalls => Holds(f, g, x, d)
    BY <1>16
  <2>2. FragmentsSize(f) + n < NilSize
    BY <1>14
  <2>3. streams[s] = f /\ streams' = [streams EXCEPT ![s] = g] /\ Fragment(x)'
    BY <1>6, <1>14, <1>16
  <2>4. Grown(f, g, x, n)
    BY <1>16
  <2> QED BY <1>3, <1>5, <1>8, <1>9, <2>1, <2>2, <2>3, <2>4, StreamGrows
<1>18. ASSUME ~AnyCalls PROVE Appended(s, d) /\ StreamsStored'
  <2>1. AllStored
    BY <1>18 DEF StreamsStored, AllStored, SeqStored
  <2>2. AllStored' /\ Appended(s, d)
    BY <1>17, <1>18, <2>1
  <2>3. EndsWithChunk'
    <3>1. Last(g) = x
      BY <1>3, <1>6, <1>14, <1>16, GrownSize
    <3>2. streams'[s] = g /\ writer'.stream = s
      BY <1>1, <1>2, <1>5, <1>14
    <3>3. x.location[3] + x.size = Len(chunkData')
      BY <1>16, <1>18
    <3> QED BY <3>1, <3>2, <3>3 DEF EndsWithChunk
  <2> QED BY <2>2, <2>3 DEF StreamsStored, AllStored, SeqStored
<1>19. WriterTyped'
  <2>1. g \in Seq(Fragments) /\ g # Nil /\ g # <<>>
    <3>1. g # Nil /\ g # <<>>
      BY <1>3, <1>6, <1>14, <1>16, GrownSize
    <3> QED BY <1>16, <3>1 DEF Grown
  <2>2. streams' \in StreamMap(m) /\ DOMAIN streams' = DOMAIN streams
    BY <1>4, <1>14, <2>1 DEF StreamMap
  <2>3. writer' \in Writers' /\ streams'[writer'.stream] # Nil
    <3>1. writer \in Writers
      BY <1>2 DEF WriterTyped
    <3> QED BY <1>1, <1>2, <1>5, <1>14, <2>1, <2>2, <3>1 DEF Writers
  <2> QED BY <1>2, <1>3, <1>4, <1>9, <1>10, <2>2, <2>3 DEF WriterTyped, StreamMap
<1>20. InStage'
  BY <1>2, <1>9 DEF InStage, Unpublished
<1>21. ChunksApart'
  BY <1>2, <1>3, <1>8, <1>9, CallsStayApart
<1>22. MsfzInv'
  BY <1>10, <1>17, <1>18, <1>19, <1>20, <1>21 DEF MsfzInv, StreamsStored
<1>23. d = Bytes(writer.stream, calls + 1, n) /\ s = writer.stream
  BY <1>1, <1>7
<1> QED BY <1>9, <1>18, <1>22, <1>23

(* What was written is read.                                               *)
LEMMA CellsReadBack ==
  ASSUME NEW b, NEW p \in Nat, NEW d \in Seq(ByteCells), \A i \in 1 .. Len(d) : b[p + i] = d[i]
  PROVE  /\ \A i \in 1 .. Len(d) : b[p + i] \in ByteCells
         /\ SubSeq(b, p + 1, p + Len(d)) = d
<1>1. PICK l \in Nat : l = Len(d)
  BY LenProperties
<1>2. \A i \in 1 .. l : b[p + i] \in ByteCells
  BY <1>1, ElementOfSeq
<1> DEFINE y == SubSeq(b, p + 1, p + l)
<1>3. y \in Seq(ByteCells) /\ Len(y) = l /\ \A i \in 1 .. l : y[i] = b[p + i]
  BY <1>2, CellsRead
<1> HIDE DEF y
<1>4. y = d
  <2>1. \A i \in 1 .. l : y[i] = d[i]
    BY <1>1, <1>3
  <2> QED BY <1>1, <1>3, <2>1, SeqEqual
<1> QED BY <1>1, <1>2, <1>4 DEF y

(* From a to b, k cells at p stay, and d is written behind them.            *)
WrittenOn(a, b, p, k, d) ==
  /\ \A i \in 1 .. k : a[p + i] \in ByteCells /\ b[p + i] = a[p + i]
  /\ \A i \in 1 .. Len(d) : b[(p + k) + i] = d[i]

ReadOn(a, b, p, k, d) ==
  /\ \A i \in 1 .. (k + Len(d)) : b[p + i] \in ByteCells
  /\ SubSeq(b, p + 1, p + (k + Len(d))) = SubSeq(a, p + 1, p + k) \o d

(* Cells that were written behind others read on from them.                *)
LEMMA CellsReadOn ==
  ASSUME NEW a, NEW b, NEW p \in Nat, NEW k \in Nat, NEW d \in Seq(ByteCells),
         WrittenOn(a, b, p, k, d)
  PROVE  ReadOn(a, b, p, k, d)
<1> USE DEF WrittenOn
<1>1. PICK l \in Nat : l = Len(d)
  BY LenProperties
<1>2. \A i \in 1 .. l : d[i] \in ByteCells
  BY <1>1, ElementOfSeq
<1>3. ASSUME NEW i \in 1 .. (k + l)
      PROVE  b[p + i] = IF i <= k THEN a[p + i] ELSE d[i - k]
  <2>1. CASE i <= k
    <3>1. i \in 1 .. k
      BY <2>1
    <3> QED BY <2>1, <3>1
  <2>2. CASE ~(i <= k)
    <3>1. i - k \in 1 .. l /\ (p + k) + (i - k) = p + i
      BY <2>2
    <3>2. b[(p + k) + (i - k)] = d[i - k]
      BY <1>1, <3>1
    <3> QED BY <2>2, <3>1, <3>2
  <2> QED BY <2>1, <2>2
<1>4. ASSUME NEW i \in 1 .. (k + l) PROVE b[p + i] \in ByteCells
  <2>1. CASE i <= k
    <3>1. i \in 1 .. k
      BY <2>1
    <3> QED BY <3>1
  <2>2. CASE ~(i <= k)
    <3>1. i - k \in 1 .. l
      BY <2>2
    <3>2. d[i - k] \in ByteCells
      BY <1>2, <3>1
    <3> QED BY <1>3, <2>2, <3>2
  <2> QED BY <2>1, <2>2
<1> DEFINE u == SubSeq(b, p + 1, p + (k + l))
           v == SubSeq(a, p + 1, p + k)
           w == v \o d
<1>5. u \in Seq(ByteCells) /\ Len(u) = k + l /\ \A i \in 1 .. (k + l) : u[i] = b[p + i]
  <2>1. k + l \in Nat
    OBVIOUS
  <2> QED BY <1>4, <2>1, CellsRead
<1>6. v \in Seq(ByteCells) /\ Len(v) = k /\ \A i \in 1 .. k : v[i] = a[p + i]
  <2>1. \A i \in 1 .. k : a[p + i] \in ByteCells
    OBVIOUS
  <2> QED BY ONLY p \in Nat, k \in Nat, <2>1, CellsRead
<1> HIDE DEF u, v
<1>7. /\ w \in Seq(ByteCells) /\ Len(w) = k + l
      /\ \A i \in 1 .. (k + l) : w[i] = IF i <= k THEN v[i] ELSE d[i - k]
  <2>1. v \in Seq(ByteCells) /\ d \in Seq(ByteCells)
    BY <1>6
  <2>2. /\ w \in Seq(ByteCells) /\ Len(w) = Len(v) + Len(d)
        /\ \A i \in 1 .. (Len(v) + Len(d)) : w[i] = IF i <= Len(v) THEN v[i] ELSE d[i - Len(v)]
    BY ONLY <2>1, ConcatProperties
  <2> QED BY <1>1, <1>6, <2>2
<1> HIDE DEF w
<1>8. ASSUME NEW i \in 1 .. (k + l) PROVE u[i] = w[i]
  <2>1. CASE i <= k
    <3>1. i \in 1 .. k
      BY <2>1
    <3> QED BY <1>3, <1>5, <1>6, <1>7, <2>1, <3>1
  <2>2. CASE ~(i <= k)
    BY <1>3, <1>5, <1>7, <2>2
  <2> QED BY <2>1, <2>2
<1>9. u = w
  BY <1>5, <1>7, <1>8, SeqEqual
<1> QED BY <1>1, <1>4, <1>9 DEF u, v, w, ReadOn

(* A stream is at least as long as its last fragment.                      *)
LEMMA LastInSize ==
  ASSUME NEW f \in Seq(Fragments), f # <<>>
  PROVE  /\ Last(f) = f[Len(f)] /\ Len(f) \in Nat \ {0} /\ DOMAIN f = 1 .. Len(f)
         /\ Last(f) \in Fragments
         /\ FragmentsSize(f) \in Nat /\ FragmentsSize(f) >= Last(f).size
<1>1. Len(f) \in Nat \ {0} /\ DOMAIN f = 1 .. Len(f) /\ Last(f) = f[Len(f)]
  BY EmptySeq, LenProperties DEF Last
<1>2. Last(f) \in Fragments
  BY <1>1, ElementOfSeq
<1>3. PICK P \in [0 .. Len(f) -> Nat] :
        /\ \A i \in 1 .. Len(f) : P[i] = P[i - 1] + f[i].size
        /\ FragmentsSize(f) = P[Len(f)]
  BY SizeSums
<1>4. PICK l \in Nat \ {0} : l = Len(f)
  BY <1>1
<1>5. P[l] = P[l - 1] + f[l].size /\ P[l - 1] \in Nat /\ P[l] \in Nat
  BY <1>3, <1>4
<1>6. f[l].size \in Nat
  BY <1>1, <1>2, <1>4, FragmentForms
<1> QED BY <1>1, <1>2, <1>3, <1>4, <1>5, <1>6

(* A call of write straight to the file appends its bytes to the stream.    *)
LEMMA WriteUncompressedKeepsInv ==
  ASSUME MsfzInv, NEW n \in Lengths, WriteUncompressed(n)
  PROVE  /\ MsfzInv' /\ OutKept
         /\ ~AnyCalls => Appended(writer.stream, Bytes(writer.stream, calls + 1, n))
<1> USE DEF MsfzInv
<1>1. PICK s : s = writer.stream
  OBVIOUS
<1>2. /\ writer # NoWriter /\ writer' = writer /\ threshold' = threshold /\ stage' = stage
      /\ stage = "writing" /\ calls' = calls + 1 /\ calls < MaxCalls /\ failures' = failures
      /\ chunks' = chunks /\ chunkData' = chunkData
  BY DEF WriteUncompressed, Calling, finishVars, chunkVars, InStage
<1>3. n \in Nat \ {0} /\ calls \in Nat /\ calls' \in 0 .. MaxCalls
  BY <1>2, MsfzWriterAssumption DEF WriterTyped
<1>4. PICK m \in 1 .. MaxStreams :
        m \in Nat \ {0} /\ streams \in StreamMap(m) /\ DOMAIN streams = 0 .. m - 1
  BY StreamsDomain
<1>5. s \in DOMAIN streams /\ s \in Nat /\ streams[s] # Nil
  BY <1>1, <1>2, <1>4 DEF WriterTyped, Writers
<1>6. PICK f \in Seq(Fragments) : f = streams[s]
  BY <1>4, <1>5 DEF StreamMap
<1>7. PICK d : d = Bytes(s, calls + 1, n)
  OBVIOUS
<1>8. d \in Seq(ByteCells) /\ Len(d) = n /\ IsSeq(d) /\ d # <<>>
  <2>1. d \in Seq(ByteCells) /\ Len(d) = n
    <3>1. s \in Nat /\ calls + 1 \in Nat /\ n \in Nat \ {0}
      BY <1>3, <1>5
    <3> QED BY ONLY <1>7, <3>1, BytesOfCall
  <2>2. d # <<>>
    BY <1>3, <2>1, EmptySeq
  <2> QED BY <2>1, <2>2, SeqIsSeq
<1>9. PICK o \in Nat : o = FragmentOffset /\ o >= pos /\ o <= MaxFileOffset
  BY <1>2, OffsetBehind DEF WriteUncompressed, OffsetFits
<1>10. /\ OutKept /\ ChunkStep(<<>>)
       /\ IsSeq(out') /\ Len(out') >= HeaderSize /\ out'[1] = Zero
       /\ pos' \in Nat /\ pos' >= HeaderSize
       /\ Kept(o, n)' /\ \A i \in 1 .. n : out'[o + i] = d[i]
  <2>1. WriteAll(o, d)
    BY <1>1, <1>7, <1>9 DEF WriteUncompressed
  <2>2. stage \in Unpublished /\ stage' \in Unpublished
    BY <1>2 DEF Unpublished
  <2>3. chunkData' = chunkData \o <<>>
    BY <1>2, ConcatEmptySeq DEF WriterTyped
  <2>4. /\ OutKept
        /\ IsSeq(out') /\ Len(out') >= HeaderSize /\ out'[1] = Zero
        /\ pos' \in Nat /\ pos' >= HeaderSize
        /\ d # <<>> => Kept(o, Len(d))'
        /\ \A i \in 1 .. Len(d) : out'[o + i] = d[i]
    BY <1>8, <1>9, <2>1, <2>2, WrittenBehind
  <2>5. Kept(o, Len(d))'
    BY <1>8, <2>4
  <2>6. Len(d) = n
    BY <1>8
  <2>7. Kept(o, n)'
    BY <2>5, <2>6
  <2> QED BY <1>2, <2>3, <2>4, <2>6, <2>7 DEF ChunkStep
<1>11. ChunksOnDisk' /\ chunks' \in Seq(Entries) /\ chunkData' \in Seq(ByteCells)
  <2>1. <<>> \in Seq(ByteCells)
    OBVIOUS
  <2> QED BY <1>10, <2>1, ChunksStay
<1>12. PICK g : g = AddFragmentUncompressed(f, n, o)
  OBVIOUS
<1>13. streams' = [streams EXCEPT ![s] = g] /\ FragmentsSize(f) + n < NilSize
       /\ FragmentsSize(f) \in Nat
  <2>1. FragmentsSize(f) \in Nat
    <3>1. PICK P \in [0 .. Len(f) -> Nat] : FragmentsSize(f) = P[Len(f)]
      BY SizeSums
    <3> QED BY <3>1
  <2>2. n < NilSize - FragmentsSize(f)
    BY <1>1, <1>6 DEF WriteUncompressed, FitsStream
  <2>3. streams' = [streams EXCEPT ![s] = g]
    BY <1>1, <1>6, <1>9, <1>12 DEF WriteUncompressed
  <2> QED BY <1>3, <2>1, <2>2, <2>3, MsfzReaderAssumption
<1>14. DiskTyped'
  BY <1>10, <1>11 DEF DiskTyped
<1>15. \E x : /\ Grown(f, g, x, n) /\ Fragment(x)' /\ ~IsCompressed(x.location)
              /\ ~AnyCalls => Holds(f, g, x, d)
  <2>1. CASE /\ f # <<>> /\ ~IsCompressed(Last(f).location)
             /\ Last(f).location[2] + n = o
    <3>1. PICK l : l = Last(f)
      OBVIOUS
    <3>2. PICK x : x = [size |-> l.size + n, location |-> l.location]
      OBVIOUS
    <3>3. g = Extended(f, n)
      BY <1>12, <2>1 DEF AddFragmentUncompressed
    <3>4. Grown(f, g, x, n)
      BY <1>3, <2>1, <3>1, <3>2, <3>3, ExtendGrows
    <3>5. x \in Fragments /\ x.size \in 1 .. NilSize - 1 /\ x.location = l.location
          /\ x.size = l.size + n
      <4>1. x.size \in 1 .. NilSize - 1
        BY <1>3, <1>13, <3>4, GrownSize
      <4>2. x \in Fragments
        BY <3>4 DEF Grown
      <4> QED BY <3>2, <4>1, <4>2
    <3>6. l \in Fragments /\ Fragment(l) /\ l = f[Len(f)] /\ Len(f) \in DOMAIN f
          /\ FragmentsSize(f) >= l.size
      <4>1. l \in Fragments /\ l = f[Len(f)] /\ Len(f) \in DOMAIN f
            /\ FragmentsSize(f) >= l.size
        BY <2>1, <3>1, LastInSize
      <4> QED BY <1>5, <1>6, <4>1 DEF FragmentsTyped
    <3>7. ~IsCompressed(l.location)
      BY <2>1, <3>1
    <3>8. Fragment(x)'
      BY <3>5, <3>6, <3>7 DEF Fragment
    <3>9. PICK p \in Nat, z \in Nat : p = l.location[2] /\ z = l.size /\ z # 0
      BY <3>6, <3>7, FragmentForms DEF Fragment
    <3>10. FragmentBytes(l) = ReadExact(out, p, z) /\ FragmentBytes(x)' = ReadExact(out', p, z + n)
      <4>1. DiskTyped
        BY DEF DiskTyped, WriterTyped
      <4>2. InFile(l)
        BY <3>6, <3>7, <4>1, WhereBytesAre
      <4>3. InFile(x)'
        BY <1>14, <3>5, <3>7, <3>8, WhereBytesWillBe
      <4> QED BY <3>5, <3>9, <4>2, <4>3 DEF InFile
    <3>11. ASSUME ~AnyCalls PROVE Holds(f, g, x, d)
      <4>1. p + z = o /\ z = n
        <5>1. Adjacent(f)
          BY <1>1, <1>6 DEF WriteUncompressed
        <5>2. pos = p + z
          BY <2>1, <3>1, <3>9, <3>11, <5>1 DEF Adjacent
        <5>3. FragmentsSize(f) # 0
          BY <1>13, <3>6, <3>9
        <5>4. o = pos
          BY <1>1, <1>6, <1>9, <5>3 DEF FragmentOffset
        <5>5. p + n = o
          BY <2>1, <3>1, <3>9
        <5> QED BY <1>3, <3>9, <5>2, <5>4, <5>5
      <4>2. Stored(l)
        BY <1>5, <1>6, <3>6, <3>11 DEF StreamsStored
      <4>3. Kept(p, z) /\ \A i \in 1 .. z : out[p + i] \in ByteCells
        BY <3>7, <3>9, <4>2 DEF Stored
      <4>4. Kept(p, z)' /\ \A i \in 1 .. z : out'[p + i] = out[p + i]
        BY <1>10, <3>9, <4>3 DEF OutKept
      <4>5. p + (z + n) = o + n
        BY <1>3, <3>9, <4>1
      <4>6. Kept(p, z + n)'
        BY <1>10, <4>4, <4>5 DEF Kept
      <4>7. /\ \A i \in 1 .. (z + Len(d)) : out'[p + i] \in ByteCells
            /\ SubSeq(out', p + 1, p + (z + Len(d))) = SubSeq(out, p + 1, p + z) \o d
        <5>1. \A i \in 1 .. Len(d) : out'[(p + z) + i] = d[i]
          BY <1>8, <1>10, <4>1
        <5>2. \A i \in 1 .. z : out[p + i] \in ByteCells /\ out'[p + i] = out[p + i]
          BY <4>3, <4>4
        <5>3. PICK a, b : a = out /\ b = out'
          OBVIOUS
        <5>4. WrittenOn(a, b, p, z, d)
          BY <5>1, <5>2, <5>3 DEF WrittenOn
        <5>5. ReadOn(a, b, p, z, d)
          BY <1>8, <5>4, CellsReadOn
        <5> QED BY <5>3, <5>5 DEF ReadOn
      <4>8. Stored(x)'
        <5>1. \A i \in 1 .. x.size : out'[x.location[2] + i] \in ByteCells
          BY <1>8, <3>5, <3>9, <4>7
        <5>2. Kept(x.location[2], x.size)'
          BY <3>5, <3>9, <4>6
        <5> QED BY <3>5, <3>7, <5>1, <5>2 DEF Stored
      <4>9. FragmentBytes(x)' = FragmentBytes(l) \o d
        <5>1. ReadExact(out, p, z) = SubSeq(out, p + 1, p + z)
          BY <4>3 DEF ReadExact, Kept
        <5>2. ReadExact(out', p, z + n) = SubSeq(out', p + 1, p + (z + n))
          BY <4>6 DEF ReadExact, Kept
        <5> QED BY <1>8, <3>10, <4>7, <5>1, <5>2
      <4>10. Len(g) = Len(f)
        BY <1>3, <2>1, <3>3, SizeOfExtended
      <4> QED BY <3>6, <4>8, <4>9, <4>10 DEF Holds
    <3> QED BY <3>4, <3>5, <3>7, <3>8, <3>11
  <2>2. CASE ~(/\ f # <<>> /\ ~IsCompressed(Last(f).location)
               /\ Last(f).location[2] + n = o)
    <3>1. PICK x : x = [size |-> n, location |-> <<"file", o>>]
      OBVIOUS
    <3>2. g = Append(f, x)
      BY <1>12, <2>2, <3>1 DEF AddFragmentUncompressed
    <3>3. x \in Fragments /\ x.size = n /\ x.location[1] = "file" /\ x.location[2] = o
          /\ ~IsCompressed(x.location)
      BY <1>3, <3>1 DEF Fragments, Locations, IsCompressed
    <3>4. Grown(f, g, x, n)
      BY <1>3, <3>2, <3>3, AppendGrows
    <3>5. x.size \in 1 .. NilSize - 1
      BY <1>3, <1>13, <3>4, GrownSize
    <3>6. Fragment(x)'
      BY <1>9, <3>3, <3>5, MsfzReaderAssumption DEF Fragment
    <3>7. FragmentBytes(x)' = ReadExact(out', o, n)
      <4>1. InFile(x)'
        BY <1>14, <3>3, <3>6, WhereBytesWillBe
      <4> QED BY <3>3, <4>1 DEF InFile
    <3>8. ReadExact(out', o, n) = d /\ \A i \in 1 .. n : out'[o + i] \in ByteCells
      <4>1. \A i \in 1 .. Len(d) : out'[o + i] = d[i]
        BY <1>8, <1>10
      <4>2. /\ \A i \in 1 .. Len(d) : out'[o + i] \in ByteCells
            /\ SubSeq(out', o + 1, o + Len(d)) = d
        BY <1>8, <4>1, CellsReadBack
      <4>3. ReadExact(out', o, n) = SubSeq(out', o + 1, o + n)
        BY <1>10 DEF ReadExact, Kept
      <4> QED BY <1>8, <4>2, <4>3
    <3>9. Stored(x)' /\ FragmentBytes(x)' = d
      BY <1>10, <3>3, <3>7, <3>8 DEF Stored
    <3>10. Len(g) # Len(f)
      <4>1. Len(g) = Len(f) + 1 /\ Len(f) \in Nat
        BY <3>2, <3>3, AppendProperties
      <4> QED BY <4>1
    <3>11. Holds(f, g, x, d)
      BY <3>9, <3>10 DEF Holds
    <3> QED BY <3>3, <3>4, <3>6, <3>11
  <2> QED BY <2>1, <2>2
<1>16. PICK x : /\ Grown(f, g, x, n) /\ Fragment(x)' /\ ~IsCompressed(x.location)
                /\ ~AnyCalls => Holds(f, g, x, d)
  BY <1>15
<1>17. FragmentsTyped' /\ (~AnyCalls /\ AllStored => AllStored' /\ Appended(s, d))
  <2>1. ~AnyCalls => Holds(f, g, x, d)
    BY <1>16
  <2>2. FragmentsSize(f) + n < NilSize
    BY <1>13
  <2>3. streams[s] = f /\ streams' = [streams EXCEPT ![s] = g] /\ Fragment(x)'
    BY <1>6, <1>13, <1>16
  <2>4. Grown(f, g, x, n)
    BY <1>16
  <2>5. <<>> \in Seq(ByteCells)
    OBVIOUS
  <2> QED BY <1>3, <1>5, <1>8, <1>10, <2>1, <2>2, <2>3, <2>4, <2>5, StreamGrows
<1>18. ASSUME ~AnyCalls PROVE Appended(s, d) /\ StreamsStored'
  <2>1. AllStored
    BY <1>18 DEF StreamsStored, AllStored, SeqStored
  <2>2. AllStored' /\ Appended(s, d)
    BY <1>17, <1>18, <2>1
  <2>3. EndsWithChunk'
    <3>1. Last(g) = x
      BY <1>3, <1>6, <1>13, <1>16, GrownSize
    <3>2. streams'[s] = g /\ writer'.stream = s
      BY <1>1, <1>2, <1>5, <1>13
    <3>3. ~PendingChunk(x)'
      BY <1>16 DEF PendingChunk
    <3> QED BY <3>1, <3>2, <3>3 DEF EndsWithChunk
  <2> QED BY <2>2, <2>3 DEF StreamsStored, AllStored, SeqStored
<1>19. WriterTyped'
  <2>1. g \in Seq(Fragments) /\ g # Nil /\ g # <<>>
    <3>1. g # Nil /\ g # <<>>
      BY <1>3, <1>6, <1>13, <1>16, GrownSize
    <3> QED BY <1>16, <3>1 DEF Grown
  <2>2. streams' \in StreamMap(m) /\ DOMAIN streams' = DOMAIN streams
    BY <1>4, <1>13, <2>1 DEF StreamMap
  <2>3. writer' \in Writers' /\ streams'[writer'.stream] # Nil
    <3>1. writer \in Writers
      BY <1>2 DEF WriterTyped
    <3> QED BY <1>1, <1>2, <1>5, <1>13, <2>1, <2>2, <3>1 DEF Writers
  <2> QED BY <1>2, <1>3, <1>4, <1>10, <1>11, <2>2, <2>3 DEF WriterTyped, StreamMap
<1>20. InStage'
  BY <1>2, <1>10 DEF InStage, Unpublished
<1>21. ChunksApart'
  <2>1. <<>> \in Seq(ByteCells)
    OBVIOUS
  <2>2. ChunkFits(chunkData')
    BY <1>2 DEF ChunksApart, ChunkFits
  <2>3. calls' \in Nat /\ calls' >= calls
    BY <1>2, <1>3
  <2> QED BY <1>10, <2>1, <2>2, <2>3, NoCalls, CallsStayApart
<1>22. MsfzInv'
  BY <1>11, <1>17, <1>18, <1>19, <1>20, <1>21 DEF MsfzInv, StreamsStored
<1>23. d = Bytes(writer.stream, calls + 1, n) /\ s = writer.stream
  BY <1>1, <1>7
<1> QED BY <1>10, <1>18, <1>22, <1>23

-----------------------------------------------------------------------------
(***************************************************************************)
(* The invariant holds, and what follows from it.                          *)
(***************************************************************************)
LEMMA InitEstablishesInv == Init => MsfzInv
<1> SUFFICES ASSUME Init PROVE MsfzInv
  OBVIOUS
<1>1. WriterTyped
  <2>1. out \in Seq({Zero}) /\ Len(out) = 2
    BY DEF Init
  <2>2. IsSeq(out)
    BY <2>1, SeqIsSeq
  <2>3. streams \in [0 .. 1 - 1 -> {Nil} \cup Seq(Fragments)]
    BY DEF Init
  <2>4. 1 \in 1 .. MaxStreams /\ 0 \in 0 .. MaxCalls /\ 0 \in 0 .. MaxFailures
    BY MsfzWriterAssumption
  <2> QED BY <2>1, <2>2, <2>3, <2>4 DEF Init, WriterTyped, HeaderSize, Unpublished
<1>2. InStage
  BY DEF Init, InStage, Unpublished, HeaderSize, Zero
<1>3. streams = [s \in {0} |-> <<>>] /\ chunkData = <<>> /\ chunks = <<>> /\ writer = NoWriter
  BY DEF Init
<1>4. FragmentsTyped
  BY <1>3, NoneTyped DEF FragmentsTyped, StreamTyped, SeqTyped
<1>5. ChunksOnDisk
  BY <1>3 DEF ChunksOnDisk
<1>6. StreamsStored
  BY <1>3, NoneTyped DEF StreamsStored, SeqStored, EndsWithChunk
<1>7. ChunksApart
  BY <1>3, NoCalls DEF ChunksApart, ChunkFits
<1> QED BY <1>1, <1>2, <1>4, <1>5, <1>6, <1>7 DEF MsfzInv

LEMMA NextKeepsInv == MsfzInv /\ [Next]_msfzVars => MsfzInv'
<1> SUFFICES ASSUME MsfzInv, [Next]_msfzVars PROVE MsfzInv'
  OBVIOUS
<1>1. ASSUME NEW n \in 1 .. MaxStreams, ReserveNumStreams(n) PROVE MsfzInv'
  BY <1>1, ReserveKeepsInv
<1>2. ASSUME NEW s \in DOMAIN streams, OpenStreamWriter(s) PROVE MsfzInv'
  BY <1>2, OpenKeepsInv
<1>3. CASE NewStreamWriter
  BY <1>3, NewStreamKeepsInv
<1>4. CASE \/ \E t \in Thresholds : SetThreshold(t)
           \/ \E b \in BOOLEAN : SetCompressionEnabled(b)
           \/ \E a \in Alignments : SetAlignment(a)
  BY <1>4, SettingsKeepInv
<1>5. CASE EndChunk \/ FinishChunk
  BY <1>5, EndChunkKeepsInv
<1>6. CASE EndChunkFails \/ \E n \in Lengths : WriteCompressedFails(n)
  BY <1>6, FailuresKeepInv
<1>7. ASSUME NEW n \in Lengths, WriteCompressed(n) PROVE MsfzInv'
  BY <1>7, WriteCompressedKeepsInv
<1>8. ASSUME NEW n \in Lengths, WriteUncompressed(n) PROVE MsfzInv'
  BY <1>8, WriteUncompressedKeepsInv
<1>9. ASSUME NEW n \in Lengths,
             WriteTooLong(n) \/ WriteTooFar(n) \/ WriteUncompressedFails(n)
      PROVE  MsfzInv'
  BY <1>9, RefusedKeepInv
<1>10. CASE WriteChunkTable \/ \E compress \in BOOLEAN : WriteStreamDir(compress)
  BY <1>10, DirectoryKeepsInv
<1>11. CASE WriteFileHeader \/ \E size \in MinFileSizes : ExtendToMinFileSize(size)
  BY <1>11, LastStepsKeepInv
<1>12. CASE UNCHANGED msfzVars
  <2> USE <1>12 DEF msfzVars
  <2>1. WriterTyped'
    BY DEF MsfzInv, WriterTyped, Writers
  <2>2. InStage'
    BY DEF MsfzInv, InStage
  <2>3. FragmentsTyped'
    BY DEF MsfzInv, FragmentsTyped, Fragment
  <2>4. ChunksOnDisk'
    BY DEF MsfzInv, ChunksOnDisk, Kept, ChunkOf
  <2>5. StreamsStored'
    BY DEF MsfzInv, StreamsStored, Stored, Kept, PendingChunk, EndsWithChunk
  <2>6. ChunksApart'
    BY DEF MsfzInv, ChunksApart, ChunkOf
  <2> QED BY <2>1, <2>2, <2>3, <2>4, <2>5, <2>6 DEF MsfzInv
<1> QED BY <1>1, <1>2, <1>3, <1>4, <1>5, <1>6, <1>7, <1>8, <1>9, <1>10, <1>11, <1>12 DEF Next

(* Whatever is written, in whatever order, and whatever fails: the types   *)
(* and the stages are kept, no fragment is empty or too far, every chunk   *)
(* is on disk as a whole behind the header and in front of the position,   *)
(* chunks keep whole calls, and every fragment of callers that keep to the *)
(* rules is within its chunk or was written to the file.                   *)
THEOREM MsfzInvariant == Spec => []MsfzInv
<1>1. Init => MsfzInv
  BY InitEstablishesInv
<1>2. MsfzInv /\ [Next]_msfzVars => MsfzInv'
  BY NextKeepsInv
<1> QED BY <1>1, <1>2, PTL DEF Spec

LEMMA InvTypes == MsfzInv => TypeOK
<1> SUFFICES ASSUME MsfzInv PROVE TypeOK
  OBVIOUS
<1> USE DEF MsfzInv
<1>1. \A i \in DOMAIN chunks : chunks[i].size \in Nat \ {0} /\ chunks[i].fileOffset \in Nat
  <2>1. \A i \in DOMAIN chunks : chunks[i] \in Entries
    BY ElementOfSeq, LenProperties DEF WriterTyped
  <2> QED BY <2>1 DEF Entries
<1>2. PICK n \in 1 .. MaxStreams : DOMAIN streams = 0 .. n - 1
  BY StreamsDomain
<1>3. writer = NoWriter \/ writer.stream \in {s \in DOMAIN streams : streams[s] # Nil}
  BY DEF WriterTyped, Writers
<1>4. stage \in {"writing", "directory", "chunk table", "header", "padding", "finished"}
  BY DEF WriterTyped, Unpublished
<1> QED BY <1>1, <1>2, <1>3, <1>4 DEF TypeOK, WriterTyped, FragmentsTyped

(* Types, and the assertions of encode_stream_dir: no fragment is empty or *)
(* as long as a nil stream, and no stream is.                              *)
THEOREM MsfzTypes == Spec => []TypeOK
BY MsfzInvariant, InvTypes, PTL

LEMMA InvShapes == MsfzInv => ChunkShape
<1> SUFFICES ASSUME MsfzInv PROVE ChunkShape
  OBVIOUS
<1> USE DEF MsfzInv
<1>1. ChunkBytes = {chunkData} \cup {ChunkOf(k) : k \in DOMAIN chunks}
  BY DEF ChunkBytes, ChunkOf
<1>2. ASSUME NEW data \in ChunkBytes
      PROVE  \/ \E t \in Thresholds \cup {DefaultThreshold} : Len(data) < t
             \/ \A i \in DOMAIN data : data[i][3] = data[1][3]
  <2>1. ChunkFits(data) /\ data \in Seq(ByteCells)
    BY <1>1 DEF ChunksApart, ChunksOnDisk, WriterTyped
  <2>2. ASSUME NEW i \in DOMAIN data PROVE 1 \in DOMAIN data
    <3>1. Len(data) \in Nat /\ DOMAIN data = 1 .. Len(data)
      BY <2>1, LenProperties
    <3> QED BY <2>2, <3>1
  <2> QED BY <2>1, <2>2 DEF ChunkFits
<1>3. ASSUME NEW a \in ChunkBytes, NEW b \in ChunkBytes,
             NEW i \in DOMAIN a, NEW j \in DOMAIN b, a[i][3] = b[j][3]
      PROVE  a = b
  <2>1. PICK c : c = a[i][3]
    OBVIOUS
  <2>2. c \in CallsIn(a) /\ c \in CallsIn(b)
    BY <1>3, <2>1 DEF CallsIn
  <2> QED BY <1>1, <2>2 DEF ChunksApart
<1> QED BY <1>2, <1>3 DEF ChunkShape

(* A chunk stays below the threshold or holds the bytes of one call, and   *)
(* no call's bytes are split between two chunks, whatever the thresholds.  *)
THEOREM ChunksKeepCalls == Spec => []ChunkShape
BY MsfzInvariant, InvShapes, PTL

-----------------------------------------------------------------------------
(***************************************************************************)
(* The writer implements StreamArchive, for callers that keep to the rules *)
(* of StreamOnce and Adjacent.                                             *)
(***************************************************************************)
(* A stream that was opened and not yet written to is empty.               *)
LEMMA EmptyStream == \A s : streams[s] = <<>> => StreamContents(s) = <<>>
<1> SUFFICES ASSUME NEW s, streams[s] = <<>> PROVE StreamContents(s) = <<>>
  OBVIOUS
<1> DEFINE F == [i \in DOMAIN streams[s] |-> FragmentBytes(streams[s][i])]
<1>1. DOMAIN streams[s] = {} /\ DOMAIN F = {}
  OBVIOUS
<1>2. F \in [1 .. 0 -> Seq(ByteCells)]
  BY <1>1
<1> HIDE DEF F
<1>3. F \in Seq(Seq(ByteCells)) /\ Len(F) = 0
  BY <1>2, FunctionLen
<1>4. FlattenSeq(F) = <<>>
  <2>1. PICK P \in [0 .. Len(F) -> Seq(ByteCells)] : P[0] = <<>> /\ FlattenSeq(F) = P[Len(F)]
    BY <1>3, FlattenPrefixes
  <2> QED BY <1>3, <2>1
<1>5. Joined(F) = <<>>
  BY <1>1, <1>4 DEF Joined, F
<1>6. streams[s] # Nil
  BY NilIsNoSeq
<1> QED BY <1>5, <1>6 DEF StreamContents, F

LEMMA EmptyStreamNext == (\A s : streams[s] = <<>> => StreamContents(s) = <<>>)'
BY EmptyStream, PTL

(* A step that adds no bytes shows nothing new of the streams it keeps.    *)
LEMMA QuietContents ==
  ASSUME MsfzInv, ~AnyCalls, Quiet,
         NEW s \in DOMAIN streams, s \in DOMAIN streams', streams'[s] = streams[s]
  PROVE  StreamContents(s)' = StreamContents(s)
<1>1. AllStored
  BY DEF MsfzInv, StreamsStored, AllStored, SeqStored
<1>2. <<>> \in Seq(ByteCells)
  OBVIOUS
<1> QED BY <1>1, <1>2, StreamKept DEF MsfzInv, Quiet

LEMMA QuietSteps ==
  ASSUME MsfzInv, ~AnyCalls, Quiet, streams' = streams
  PROVE  Contents' = Contents
<1>1. ASSUME NEW s \in DOMAIN streams PROVE StreamContents(s)' = StreamContents(s)
  BY <1>1, QuietContents
<1> QED BY <1>1 DEF Contents

(* Nothing is published before the header is written.                      *)
LEMMA NotPublished ==
  ASSUME MsfzInv, MsfzInv', stage \in Unpublished, stage' \in Unpublished
  PROVE  Published = NoImage /\ Published' = NoImage
BY DEF MsfzInv, InStage, Published

LEMMA InitArchive == Init => Archive!Init
<1> SUFFICES ASSUME Init PROVE Archive!Init
  OBVIOUS
<1>1. streams = [s \in {0} |-> <<>>] /\ out[1] = Zero /\ calls = 0
  BY DEF Init
<1>2. Contents = [s \in {0} |-> <<>>]
  BY <1>1, EmptyStream DEF Contents
<1> QED BY <1>1, <1>2 DEF Archive!Init, Published

LEMMA ReserveArchive ==
  ASSUME MsfzInv, MsfzInv', ~AnyCalls, NEW n \in 1 .. MaxStreams, ReserveNumStreams(n)
  PROVE  Archive!Reserve
<1>1. /\ stage \in Unpublished /\ stage' \in Unpublished /\ calls' = calls
      /\ streams' = [s \in 0 .. n - 1 |-> IF s \in DOMAIN streams THEN streams[s] ELSE Nil]
  BY DEF ReserveNumStreams, finishVars, Unpublished
<1>2. Published = NoImage /\ Published' = NoImage
  BY <1>1, NotPublished
<1>3. PICK m \in Nat : DOMAIN streams = 0 .. m - 1 /\ m < n
  <2>1. PICK m \in Nat : DOMAIN streams = 0 .. m - 1 /\ Cardinality(DOMAIN streams) = m
    BY StreamsDomain DEF MsfzInv
  <2> QED BY <2>1 DEF ReserveNumStreams
<1>4. DOMAIN streams' = 0 .. n - 1 /\ DOMAIN streams \subseteq DOMAIN streams'
  BY <1>1, <1>3
<1>5. ASSUME NEW s \in DOMAIN streams'
      PROVE  StreamContents(s)' = IF s \in DOMAIN streams THEN StreamContents(s) ELSE Nil
  <2>1. CASE s \in DOMAIN streams
    <3>1. streams'[s] = streams[s]
      BY <1>1, <1>4, <2>1
    <3>2. Quiet
      BY ReserveKeepsInv
    <3> QED BY <2>1, <3>1, <3>2, QuietContents
  <2>2. CASE s \notin DOMAIN streams
    <3>1. streams'[s] = Nil
      BY <1>1, <1>4, <2>2
    <3> QED BY <2>2, <3>1 DEF StreamContents
  <2> QED BY <2>1, <2>2
<1>6. DOMAIN Contents = DOMAIN streams /\ DOMAIN Contents' = DOMAIN streams'
      /\ \A s \in DOMAIN streams : Contents[s] = StreamContents(s)
  BY DEF Contents
<1>7. Contents' = [s \in DOMAIN Contents' |-> IF s \in DOMAIN Contents THEN Contents[s] ELSE Nil]
  <2>1. Contents' = [s \in DOMAIN streams' |->
                       IF s \in DOMAIN streams THEN StreamContents(s) ELSE Nil]
    BY <1>5 DEF Contents
  <2> QED BY <1>6, <2>1
<1> QED BY <1>1, <1>2, <1>4, <1>6, <1>7 DEF Archive!Reserve

(* A stream is opened that was nil, or is new.                             *)
LEMMA OpenedArchive ==
  ASSUME MsfzInv, MsfzInv', ~AnyCalls, Quiet,
         stage \in Unpublished, stage' \in Unpublished, calls' = calls,
         NEW s, s \in DOMAIN streams => streams[s] = Nil,
         DOMAIN streams' = DOMAIN streams \cup {s}, streams'[s] = <<>>,
         \A t \in DOMAIN streams : t # s => streams'[t] = streams[t]
  PROVE  Archive!Open
<1>1. Published = NoImage /\ Published' = NoImage
  BY NotPublished
<1>2. StreamContents(s)' = <<>>
  BY EmptyStreamNext
<1>3. ASSUME NEW t \in DOMAIN streams, t # s PROVE StreamContents(t)' = StreamContents(t)
  BY <1>3, QuietContents
<1>4. DOMAIN Contents = DOMAIN streams /\ DOMAIN Contents' = DOMAIN streams'
      /\ \A t \in DOMAIN streams : Contents[t] = StreamContents(t)
  BY DEF Contents
<1>5. Contents' = [t \in DOMAIN streams \cup {s} |-> IF t = s THEN <<>> ELSE StreamContents(t)]
  BY <1>2, <1>3 DEF Contents
<1>6. Contents' = [t \in DOMAIN Contents \cup {s} |-> IF t = s THEN <<>> ELSE Contents[t]]
  BY <1>4, <1>5
<1>7. s \in DOMAIN Contents' /\ Contents'[s] = <<>>
  BY <1>6
<1>8. s \in DOMAIN Contents => Contents[s] = Nil
  BY <1>4 DEF StreamContents
<1> QED BY <1>1, <1>6, <1>7, <1>8 DEF Archive!Open

LEMMA OpenArchive ==
  ASSUME MsfzInv, MsfzInv', ~AnyCalls, NEW s \in DOMAIN streams, OpenStreamWriter(s)
  PROVE  Archive!Open
<1>1. /\ stage \in Unpublished /\ stage' \in Unpublished /\ calls' = calls
      /\ streams[s] = Nil /\ streams' = [streams EXCEPT ![s] = <<>>]
  BY DEF OpenStreamWriter, StreamOnce, finishVars, Unpublished
<1>2. DOMAIN streams' = DOMAIN streams \cup {s} /\ streams'[s] = <<>>
      /\ \A t \in DOMAIN streams : t # s => streams'[t] = streams[t]
  BY <1>1
<1>3. Quiet
  BY OpenKeepsInv
<1> QED BY <1>1, <1>2, <1>3, OpenedArchive

LEMMA NewStreamArchive ==
  ASSUME MsfzInv, MsfzInv', ~AnyCalls, NewStreamWriter
  PROVE  Archive!Open
<1>1. PICK m \in Nat : DOMAIN streams = 0 .. m - 1 /\ m = Cardinality(DOMAIN streams)
  BY StreamsDomain DEF MsfzInv
<1>2. /\ stage \in Unpublished /\ stage' \in Unpublished /\ calls' = calls
      /\ streams' = [t \in 0 .. m |-> IF t = m THEN <<>> ELSE streams[t]]
  BY <1>1 DEF NewStreamWriter, finishVars, Unpublished
<1>3. m \notin DOMAIN streams /\ DOMAIN streams' = DOMAIN streams \cup {m}
      /\ streams'[m] = <<>> /\ \A t \in DOMAIN streams : t # m => streams'[t] = streams[t]
  BY <1>1, <1>2
<1>4. Quiet
  BY NewStreamKeepsInv
<1> QED BY <1>2, <1>3, <1>4, OpenedArchive

(* A call of write that succeeds appends its bytes and no others.          *)
LEMMA AppendedArchive ==
  ASSUME MsfzInv, MsfzInv', stage = "writing", stage' = stage, calls' = calls + 1,
         NEW n \in Lengths, NEW s, Appended(s, Bytes(s, calls + 1, n))
  PROVE  Archive!AppendCall
<1>1. Published = NoImage /\ Published' = NoImage
  BY NotPublished DEF Unpublished
<1>2. DOMAIN Contents = DOMAIN streams /\ DOMAIN Contents' = DOMAIN streams
      /\ \A t \in DOMAIN streams : Contents[t] = StreamContents(t)
  BY DEF Contents, Appended
<1>3. Contents[s] # Nil /\ s \in DOMAIN Contents
  BY <1>2, MsfzValuesAssumption DEF Appended
<1>4. Archive!CallBytes(s, calls + 1, n) = Bytes(s, calls + 1, n)
  BY DEF Archive!CallBytes, Bytes
<1>5. Contents' = [t \in DOMAIN streams |->
         IF t = s THEN Contents[s] \o Bytes(s, calls + 1, n) ELSE Contents[t]]
  BY <1>2 DEF Contents, Appended
<1>6. Contents' = [Contents EXCEPT ![s] = @ \o Archive!CallBytes(s, calls + 1, n)]
  <2>1. Contents = [t \in DOMAIN streams |-> Contents[t]]
    BY DEF Contents
  <2> QED BY <1>2, <1>3, <1>4, <1>5, <2>1
<1> QED BY <1>1, <1>3, <1>6 DEF Archive!AppendCall

(* A call of write that fails appends nothing.                             *)
LEMMA RefusedArchive ==
  ASSUME MsfzInv, MsfzInv', ~AnyCalls, Quiet, streams' = streams,
         stage = "writing", stage' = stage, calls' = calls + 1
  PROVE  Archive!Refuse
<1>1. Published = NoImage /\ Published' = NoImage
  BY NotPublished DEF Unpublished
<1>2. Contents' = Contents
  BY QuietSteps
<1> QED BY <1>1, <1>2 DEF Archive!Refuse

(* Between the writes of finish, and around them, nothing is shown.        *)
LEMMA HiddenArchive ==
  ASSUME MsfzInv, MsfzInv', ~AnyCalls, Quiet, streams' = streams,
         stage \in Unpublished, stage' \in Unpublished, calls' = calls
  PROVE  UNCHANGED Archive!archiveVars
<1>1. Published = NoImage /\ Published' = NoImage
  BY NotPublished
<1>2. Contents' = Contents
  BY QuietSteps
<1> QED BY <1>1, <1>2 DEF Archive!archiveVars

(* The streams are published by the write of the header.                   *)
LEMMA HeaderArchive ==
  ASSUME MsfzInv, MsfzInv', ~AnyCalls, WriteFileHeader
  PROVE  Archive!Publish
<1>1. stage \in Unpublished /\ stage' \notin Unpublished /\ streams' = streams /\ calls' = calls
  BY DEF WriteFileHeader, Unpublished
<1>2. Quiet
  BY LastStepsKeepInv
<1>3. Contents' = Contents
  BY <1>1, <1>2, QuietSteps
<1>4. Published = NoImage /\ Published' = Contents'
  BY <1>1 DEF MsfzInv, InStage, Published
<1> QED BY <1>1, <1>3, <1>4 DEF Archive!Publish

LEMMA PaddingArchive ==
  ASSUME MsfzInv, MsfzInv', ~AnyCalls, NEW size \in MinFileSizes, ExtendToMinFileSize(size)
  PROVE  UNCHANGED Archive!archiveVars
<1>1. stage \notin Unpublished /\ stage' \notin Unpublished /\ streams' = streams /\ calls' = calls
  BY DEF ExtendToMinFileSize, Unpublished
<1>2. Quiet
  BY LastStepsKeepInv
<1>3. Contents' = Contents
  BY <1>1, <1>2, QuietSteps
<1>4. Published = Contents /\ Published' = Contents'
  BY <1>1 DEF MsfzInv, InStage, Published
<1> QED BY <1>1, <1>3, <1>4 DEF Archive!archiveVars

LEMMA NextArchive ==
  ASSUME MsfzInv, MsfzInv', ~AnyCalls, Next
  PROVE  [Archive!Next]_(Archive!archiveVars)
<1>1. ASSUME NEW n \in 1 .. MaxStreams, ReserveNumStreams(n) PROVE Archive!Next
  BY <1>1, ReserveArchive DEF Archive!Next
<1>2. ASSUME NEW s \in DOMAIN streams, OpenStreamWriter(s) PROVE Archive!Next
  BY <1>2, OpenArchive DEF Archive!Next
<1>3. ASSUME NewStreamWriter PROVE Archive!Next
  BY <1>3, NewStreamArchive DEF Archive!Next
<1>4. ASSUME \/ \E t \in Thresholds : SetThreshold(t)
             \/ \E b \in BOOLEAN : SetCompressionEnabled(b)
             \/ \E a \in Alignments : SetAlignment(a)
      PROVE  UNCHANGED Archive!archiveVars
  <2>1. Quiet
    BY <1>4, SettingsKeepInv
  <2>2. /\ stage \in Unpublished /\ stage' \in Unpublished
        /\ streams' = streams /\ calls' = calls
    BY <1>4 DEF SetThreshold, SetCompressionEnabled, SetAlignment, finishVars, MsfzInv, InStage,
       Unpublished
  <2> QED BY <2>1, <2>2, HiddenArchive
<1>5. ASSUME EndChunk \/ FinishChunk PROVE UNCHANGED Archive!archiveVars
  <2>1. Quiet
    BY <1>5, EndChunkKeepsInv
  <2>2. /\ stage \in Unpublished /\ stage' \in Unpublished
        /\ streams' = streams /\ calls' = calls
    BY <1>5 DEF EndChunk, FinishChunk, finishVars, Unpublished
  <2> QED BY <2>1, <2>2, HiddenArchive
<1>6. ASSUME EndChunkFails PROVE UNCHANGED Archive!archiveVars
  <2>1. Quiet
    BY <1>6, FailuresKeepInv
  <2>2. /\ stage \in Unpublished /\ stage' \in Unpublished
        /\ streams' = streams /\ calls' = calls
    BY <1>6 DEF EndChunkFails, finishVars, Unpublished
  <2> QED BY <2>1, <2>2, HiddenArchive
<1>7. ASSUME NEW n \in Lengths, WriteCompressedFails(n) PROVE Archive!Next
  <2>1. Quiet
    BY <1>7, FailuresKeepInv
  <2>2. stage = "writing" /\ stage' = stage /\ streams' = streams /\ calls' = calls + 1
    BY <1>7 DEF WriteCompressedFails, Calling, finishVars, MsfzInv, InStage
  <2> QED BY <2>1, <2>2, RefusedArchive DEF Archive!Next
<1>8. ASSUME NEW n \in Lengths, WriteCompressed(n) \/ WriteUncompressed(n) PROVE Archive!Next
  <2>1. PICK s : s = writer.stream
    OBVIOUS
  <2>2. Appended(s, Bytes(s, calls + 1, n))
    BY <1>8, <2>1, WriteCompressedKeepsInv, WriteUncompressedKeepsInv
  <2>3. stage = "writing" /\ stage' = stage /\ calls' = calls + 1
    BY <1>8 DEF WriteCompressed, WriteUncompressed, Calling, finishVars, MsfzInv, InStage
  <2> QED BY <2>2, <2>3, AppendedArchive DEF Archive!Next
<1>9. ASSUME NEW n \in Lengths,
             WriteTooLong(n) \/ WriteTooFar(n) \/ WriteUncompressedFails(n)
      PROVE  Archive!Next
  <2>1. Quiet
    BY <1>9, RefusedKeepInv
  <2>2. stage = "writing" /\ stage' = stage /\ streams' = streams /\ calls' = calls + 1
    BY <1>9 DEF WriteTooLong, WriteTooFar, WriteUncompressedFails, Calling, finishVars,
       MsfzInv, InStage
  <2> QED BY <2>1, <2>2, RefusedArchive DEF Archive!Next
<1>10. ASSUME WriteChunkTable \/ \E compress \in BOOLEAN : WriteStreamDir(compress)
       PROVE  UNCHANGED Archive!archiveVars
  <2>1. Quiet
    BY <1>10, DirectoryKeepsInv
  <2>2. /\ stage \in Unpublished /\ stage' \in Unpublished
        /\ streams' = streams /\ calls' = calls
    BY <1>10 DEF WriteChunkTable, WriteStreamDir, Unpublished
  <2> QED BY <2>1, <2>2, HiddenArchive
<1>11. ASSUME WriteFileHeader PROVE Archive!Next
  BY <1>11, HeaderArchive DEF Archive!Next
<1>12. ASSUME NEW size \in MinFileSizes, ExtendToMinFileSize(size)
       PROVE  UNCHANGED Archive!archiveVars
  BY <1>12, PaddingArchive
<1> QED BY <1>1, <1>2, <1>3, <1>4, <1>5, <1>6, <1>7, <1>8, <1>9, <1>10, <1>11, <1>12 DEF Next

LEMMA StutterArchive ==
  ASSUME UNCHANGED msfzVars PROVE UNCHANGED Archive!archiveVars
<1>1. UNCHANGED <<out, chunkData, chunks, streams, calls>>
  BY DEF msfzVars
<1>2. ASSUME NEW s PROVE StreamContents(s)' = StreamContents(s)
  BY <1>1 DEF StreamContents, FragmentBytes, PendingChunk
<1>3. Contents' = Contents
  BY <1>1, <1>2 DEF Contents
<1>4. Published' = Published
  BY <1>1, <1>3 DEF Published
<1> QED BY <1>1, <1>3, <1>4 DEF Archive!archiveVars

(***************************************************************************)
(* Writing an MSFZ file implements StreamArchive (the documentation of     *)
(* StreamWriter, writer.rs): for callers that open a stream once and keep  *)
(* its uncompressed writes together, for any lengths, thresholds,          *)
(* alignments, compression and failing writes, a call of write appends its *)
(* bytes to its stream and to no other, or nothing if it fails; no other   *)
(* call changes what a stream holds; and the header publishes what they    *)
(* hold then, once.                                                        *)
(***************************************************************************)
THEOREM ArchiveRefined ==
  ASSUME ~AnyCalls
  PROVE  Spec => ImplementsArchive
<1>1. Init => Archive!Init
  BY InitArchive
<1>2. MsfzInv /\ MsfzInv' /\ [Next]_msfzVars => [Archive!Next]_(Archive!archiveVars)
  BY NextArchive, StutterArchive
<1> QED BY <1>1, <1>2, MsfzInvariant, PTL DEF Spec, ImplementsArchive, Archive!Spec

-----------------------------------------------------------------------------
(***************************************************************************)
(* Decoding the directory.                                                 *)
(***************************************************************************)
(* The fields of a stream: two for each fragment, and the end.             *)
LEMMA FieldsOfStream ==
  ASSUME NEW f \in Seq(Fragments)
  PROVE  /\ Len(StreamFields(f)) = 2 * Len(f) + 1
         /\ \A i \in 1 .. Len(f) :
              /\ StreamFields(f)[2 * i - 1] = <<"u32", f[i].size>>
              /\ StreamFields(f)[2 * i] = <<"u64", f[i].location>>
         /\ StreamFields(f)[2 * Len(f) + 1] = EndField
<1> DEFINE Pair(i) == << <<"u32", f[i].size>>, <<"u64", f[i].location>> >>
           pairs == [i \in DOMAIN f |-> Pair(i)]
<1>1. PICK n \in Nat : n = Len(f) /\ DOMAIN f = 1 .. n
  OBVIOUS
<1>2. ASSUME NEW i \in 1 .. n PROVE Pair(i) \in Seq(FieldCells)
  <2>1. f[i] \in Fragments
    BY <1>1, ElementOfSeq
  <2>2. f[i].size \in Nat /\ f[i].location \in Locations
    BY <2>1 DEF Fragments, Locations
  <2> DEFINE u == <<"u32", f[i].size>>
             v == <<"u64", f[i].location>>
  <2>3. u \in FieldCells /\ v \in FieldCells
    BY <2>2 DEF FieldCells
  <2> HIDE DEF u, v
  <2>4. <<u, v>> \in Seq(FieldCells)
    BY <2>3
  <2> QED BY <2>4 DEF u, v
<1>3. pairs \in [1 .. n -> Seq(FieldCells)] /\ \A i \in 1 .. n : pairs[i] = Pair(i)
  BY <1>1, <1>2
<1>4. \A i \in 1 .. n : /\ Len(pairs[i]) = 2 /\ pairs[i][1] = <<"u32", f[i].size>>
                        /\ pairs[i][2] = <<"u64", f[i].location>>
  BY <1>3
<1>5. StreamFields(f) = FlattenSeq(pairs) \o <<EndField>>
  BY NilIsNoSeq DEF StreamFields, EndField
<1> HIDE DEF pairs, Pair
<1>6. pairs \in Seq(Seq(FieldCells)) /\ Len(pairs) = n
  BY <1>1, <1>3, FunctionLen
<1>7. PICK L : /\ PartStarts(pairs, L) /\ Len(FlattenSeq(pairs)) = L[Len(pairs)]
               /\ \A i \in 1 .. Len(pairs) :
                     /\ L[i] <= L[Len(pairs)]
                     /\ \A j \in 1 .. Len(pairs[i]) :
                          FlattenSeq(pairs)[L[i - 1] + j] = pairs[i][j]
  BY <1>6, FlattenSegments
<1>8. \A k \in 0 .. n : L[k] = 2 * k
  <2> DEFINE B == {k \in 0 .. n : L[k] = 2 * k}
  <2>1. 0 \in B
    BY <1>7 DEF PartStarts
  <2>2. ASSUME NEW k \in 1 .. n, k - 1 \in B PROVE k \in B
    <3>1. L[k] = L[k - 1] + Len(pairs[k])
      BY <1>6, <1>7 DEF PartStarts
    <3>2. L[k - 1] = 2 * (k - 1) /\ k \in 0 .. n
      BY <2>2
    <3>3. Len(pairs[k]) = 2
      BY <1>4
    <3>4. L[k] = 2 * (k - 1) + 2
      BY ONLY <3>1, <3>2, <3>3
    <3>5. 2 * (k - 1) + 2 = 2 * k
      OBVIOUS
    <3> QED BY <3>2, <3>4, <3>5
  <2>3. 0 .. n \subseteq B
    <3> HIDE DEF B
    <3> QED BY <2>1, <2>2, StepByStep
  <2> QED BY <2>3
<1> DEFINE c == FlattenSeq(pairs)
           e == <<EndField>>
<1>9. c \in Seq(FieldCells) /\ Len(c) = 2 * n
  <2>1. n \in 0 .. n
    OBVIOUS
  <2> QED BY <1>6, <1>7, <1>8, <2>1, FlattenIsSeq
<1>10. \A i \in 1 .. n : c[2 * i - 1] = <<"u32", f[i].size>> /\ c[2 * i] = <<"u64", f[i].location>>
  <2> TAKE i \in 1 .. n
  <2>1. i - 1 \in 0 .. n /\ L[i - 1] = 2 * (i - 1)
    BY <1>8
  <2>2. \A j \in 1 .. Len(pairs[i]) : c[L[i - 1] + j] = pairs[i][j]
    BY <1>6, <1>7
  <2>3. 1 \in 1 .. Len(pairs[i]) /\ 2 \in 1 .. Len(pairs[i])
    <3>1. 1 \in 1 .. 2 /\ 2 \in 1 .. 2 /\ Len(pairs[i]) = 2
      BY <1>4
    <3> QED BY ONLY <3>1
  <2>4. L[i - 1] + 1 = 2 * i - 1 /\ L[i - 1] + 2 = 2 * i
    BY <2>1
  <2>5. c[2 * i - 1] = pairs[i][1] /\ c[2 * i] = pairs[i][2]
    BY <2>2, <2>3, <2>4
  <2> QED BY <1>4, <2>5
<1> HIDE DEF c
<1>11. e \in Seq(FieldCells) /\ Len(e) = 1 /\ e[1] = EndField
  <2>1. EndField \in FieldCells
    BY DEF EndField, FieldCells
  <2> QED BY <2>1
<1> HIDE DEF e
<1>12. /\ Len(c \o e) = 2 * n + 1
       /\ \A x \in 1 .. 2 * n + 1 : (c \o e)[x] = IF x <= 2 * n THEN c[x] ELSE e[x - 2 * n]
  <2>1. c \in Seq(FieldCells) /\ e \in Seq(FieldCells)
    BY <1>9, <1>11
  <2>2. /\ Len(c \o e) = Len(c) + Len(e)
        /\ \A x \in 1 .. Len(c) + Len(e) :
             (c \o e)[x] = IF x <= Len(c) THEN c[x] ELSE e[x - Len(c)]
    BY ONLY <2>1, ConcatProperties
  <2> QED BY <1>9, <1>11, <2>2
<1>13. ASSUME NEW i \in 1 .. n PROVE (c \o e)[2 * i - 1] = c[2 * i - 1] /\ (c \o e)[2 * i] = c[2 * i]
  <2>1. 2 * i - 1 \in 1 .. 2 * n + 1 /\ 2 * i \in 1 .. 2 * n + 1 /\ 2 * i - 1 <= 2 * n /\ 2 * i <= 2 * n
    OBVIOUS
  <2> QED BY <1>12, <2>1
<1>14. (c \o e)[2 * n + 1] = EndField
  <2>1. 2 * n + 1 \in 1 .. 2 * n + 1 /\ ~(2 * n + 1 <= 2 * n) /\ (2 * n + 1) - 2 * n = 1
    OBVIOUS
  <2> QED BY <1>11, <1>12, <2>1
<1>15. StreamFields(f) = c \o e
  BY <1>5 DEF c, e
<1> QED BY <1>1, <1>10, <1>12, <1>13, <1>14, <1>15

(* The fragments f are encoded from field p on.                            *)
Encoded(fields, p, f) ==
  /\ p + 2 * Len(f) <= Len(fields)
  /\ \A i \in 1 .. Len(f) :
       /\ fields[p + 2 * i - 2] = <<"u32", f[i].size>>
       /\ fields[p + 2 * i - 1] = <<"u64", f[i].location>>
  /\ fields[p + 2 * Len(f)] = EndField

(* The first size that is zero is the end.                                 *)
LEMMA EndFound ==
  ASSUME NEW f \in Seq(Fragments), \A i \in 1 .. Len(f) : f[i].size \in 1 .. NilSize - 1,
         NEW fields, Len(fields) \in Nat, NEW p \in Nat, Encoded(fields, p, f)
  PROVE  StreamEnd(fields, p) = p + 2 * Len(f) /\ fields[p] # NilField /\ p <= Len(fields)
<1>1. PICK n \in Nat : n = Len(f)
  OBVIOUS
<1>2. NilSize \in Nat \ {0}
  BY MsfzReaderAssumption
<1>3. EndField # NilField
  BY <1>2 DEF EndField, NilField
<1>4. \A i \in 1 .. n : fields[p + 2 * i - 2] \notin {EndField, NilField}
  <2> TAKE i \in 1 .. n
  <2>1. PICK k \in 1 .. NilSize - 1 : k = f[i].size
    BY <1>1
  <2>2. fields[p + 2 * i - 2] = <<"u32", k>>
    BY <1>1, <2>1 DEF Encoded
  <2>3. k # 0 /\ k # NilSize
    BY <1>2
  <2> QED BY ONLY <2>2, <2>3 DEF EndField, NilField
<1>5. fields[p] # NilField /\ p <= Len(fields)
  <2>1. CASE n = 0
    BY <1>1, <1>3, <2>1 DEF Encoded
  <2>2. CASE n # 0
    <3>1. 1 \in 1 .. n /\ p + 2 * 1 - 2 = p
      BY <2>2
    <3> QED BY <1>1, <1>4, <3>1 DEF Encoded
  <2> QED BY <2>1, <2>2
<1> DEFINE ends == {q \in p .. Len(fields) : (q - p) % 2 = 0 /\ fields[q] = EndField}
           m == p + 2 * n
<1>6. m \in ends
  BY <1>1 DEF Encoded
<1>7. ASSUME NEW q \in ends PROVE m <= q
  <2>1. SUFFICES ASSUME q < m PROVE FALSE
    OBVIOUS
  <2>2. PICK i \in 1 .. n : q = p + 2 * i - 2
    <3>1. q \in p .. Len(fields) /\ (q - p) % 2 = 0
      OBVIOUS
    <3>2. PICK d \in Nat : d = q - p
      BY <3>1
    <3>3. d % 2 = 0 /\ d < 2 * n
      BY <2>1, <3>1, <3>2
    <3>4. d = 2 * (d \div 2) /\ (d \div 2) \in Nat
      BY <3>3
    <3>5. PICK h \in Nat : d = 2 * h
      BY <3>4
    <3>6. h + 1 \in 1 .. n /\ q = p + 2 * (h + 1) - 2
      BY <3>2, <3>3, <3>5
    <3> QED BY <3>6
  <2>3. fields[q] = EndField
    OBVIOUS
  <2> QED BY <1>4, <2>2, <2>3
<1>8. Min(ends \cup {Len(fields) + 1}) = m
  <2>1. ends \subseteq Int /\ m \in Int /\ Len(fields) + 1 \in Int
    BY <1>1
  <2>4. m <= Len(fields) + 1
    BY <1>6
  <2> HIDE DEF ends, m
  <2>2. m \in ends \cup {Len(fields) + 1} /\ ends \cup {Len(fields) + 1} \subseteq Int
    BY <1>6, <2>1
  <2>3. \A y \in ends \cup {Len(fields) + 1} : m <= y
    BY <1>7, <2>4
  <2> QED BY <2>2, <2>3, MinIs
<1>9. StreamEnd(fields, p) = m
  BY <1>5, <1>8 DEF StreamEnd
<1> QED BY <1>1, <1>5, <1>9

(* What decoding makes of a stream that was encoded.                       *)
NilFragment == [size |-> 0, location |-> Nowhere]
DecodedStream(f) == IF f = Nil THEN <<NilFragment>> ELSE f

Readable(f, table) ==
  \A i \in DOMAIN f :
    /\ f[i].size \in 1 .. NilSize - 1
    /\ LocationValid(f[i].location, table)
    /\ ~IsCompressed(f[i].location) => f[i].location[2] <= MaxFileOffset

EncodedAt(fields, q, s) ==
  /\ q + Len(s) <= Len(fields)
  /\ \A j \in 1 .. Len(s) : fields[q + j] = s[j]

LEMMA LocationUnmasked ==
  ASSUME NEW f \in Fragments, ~IsCompressed(f.location) => f.location[2] <= MaxFileOffset
  PROVE  Masked(f.location) = f.location
<1>1. CASE IsCompressed(f.location)
  BY <1>1 DEF Masked
<1>2. CASE ~IsCompressed(f.location)
  <2>1. f.location \in Locations
    BY DEF Fragments, Locations
  <2>2. f.location \in {"file"} \X Nat
    BY <1>2, <2>1 DEF IsCompressed, Locations
  <2>3. PICK o \in Nat : f.location = <<"file", o>>
    BY <2>2
  <2>4. o <= MaxFileOffset
    BY <1>2, <2>3
  <2>5. o % (MaxFileOffset + 1) = o
    BY <2>4, MsfzReaderAssumption
  <2> QED BY <1>2, <2>3, <2>5 DEF Masked
<1> QED BY <1>1, <1>2

LEMMA FragmentsEncoded ==
  ASSUME NEW f \in Seq(Fragments), NEW fields, NEW q \in Nat,
         EncodedAt(fields, q, StreamFields(f))
  PROVE  Encoded(fields, q + 1, f)
<1>1. PICK n \in Nat : n = Len(f)
  OBVIOUS
<1>2. /\ Len(StreamFields(f)) = 2 * n + 1
      /\ \A i \in 1 .. n :
              /\ StreamFields(f)[2 * i - 1] = <<"u32", f[i].size>>
              /\ StreamFields(f)[2 * i] = <<"u64", f[i].location>>
      /\ StreamFields(f)[2 * n + 1] = EndField
  BY <1>1, FieldsOfStream
<1>3. /\ q + (2 * n + 1) <= Len(fields)
      /\ \A j \in 1 .. 2 * n + 1 : fields[q + j] = StreamFields(f)[j]
  BY <1>2 DEF EncodedAt
<1>4. ASSUME NEW i \in 1 .. n
      PROVE  /\ fields[(q + 1) + 2 * i - 2] = <<"u32", f[i].size>>
             /\ fields[(q + 1) + 2 * i - 1] = <<"u64", f[i].location>>
  <2>1. 2 * i - 1 \in 1 .. 2 * n + 1 /\ 2 * i \in 1 .. 2 * n + 1
    OBVIOUS
  <2>2. q + (2 * i - 1) = (q + 1) + 2 * i - 2 /\ q + 2 * i = (q + 1) + 2 * i - 1
    OBVIOUS
  <2>3. fields[q + (2 * i - 1)] = <<"u32", f[i].size>> /\ fields[q + 2 * i] = <<"u64", f[i].location>>
    BY <1>2, <1>3, <2>1
  <2> QED BY <2>2, <2>3
<1>5. fields[(q + 1) + 2 * n] = EndField /\ (q + 1) + 2 * n <= Len(fields)
  <2>1. 2 * n + 1 \in 1 .. 2 * n + 1 /\ q + (2 * n + 1) = (q + 1) + 2 * n
    OBVIOUS
  <2>2. fields[q + (2 * n + 1)] = EndField
    BY <1>2, <1>3, <2>1
  <2> QED BY <1>3, <2>1, <2>2
<1> QED BY <1>1, <1>4, <1>5 DEF Encoded

LEMMA FragmentsDecoded ==
  ASSUME NEW f \in Seq(Fragments), NEW table, Readable(f, table),
         NEW fields, Len(fields) \in Nat, NEW p \in Nat, Encoded(fields, p, f)
  PROVE  /\ FieldsValid(fields, p, table)
         /\ DecodedFragments(fields, p) = f
<1>1. PICK n \in Nat : n = Len(f) /\ DOMAIN f = 1 .. n
  OBVIOUS
<1>2. \A i \in 1 .. n : /\ f[i].size \in 1 .. NilSize - 1
                        /\ LocationValid(f[i].location, table)
                        /\ ~IsCompressed(f[i].location) => f[i].location[2] <= MaxFileOffset
  BY <1>1 DEF Readable
<1>3. StreamEnd(fields, p) = p + 2 * n /\ fields[p] # NilField
  BY <1>1, <1>2, EndFound
<1>4. \A i \in 1 .. n : /\ fields[p + 2 * i - 2] = <<"u32", f[i].size>>
                        /\ fields[p + 2 * i - 1] = <<"u64", f[i].location>>
  BY <1>1 DEF Encoded
<1>5. FieldsValid(fields, p, table)
  <2>1. ASSUME NEW q \in p .. (p + 2 * n) - 1
        PROVE  IF (q - p) % 2 = 0
               THEN fields[q][1] = "u32" /\ fields[q] # NilField
               ELSE fields[q][1] = "u64" /\ LocationValid(fields[q][2], table)
    <3>1. PICK d \in Nat : d = q - p
      OBVIOUS
    <3>2. d < 2 * n
      BY <3>1
    <3>3. CASE d % 2 = 0
      <4>1. PICK h \in Nat : d = 2 * h
        <5>1. d = 2 * (d \div 2) /\ (d \div 2) \in Nat
          BY <3>3
        <5> QED BY <5>1
      <4>2. h + 1 \in 1 .. n /\ q = p + 2 * (h + 1) - 2
        BY <3>1, <3>2, <4>1
      <4>3. PICK i \in 1 .. n : q = p + 2 * i - 2
        BY <4>2
      <4>4. fields[q] = <<"u32", f[i].size>> /\ f[i].size # NilSize
        BY <1>2, <1>4, <4>3, MsfzReaderAssumption
      <4> QED BY <3>1, <3>3, <4>4 DEF NilField
    <3>4. CASE d % 2 # 0
      <4>1. PICK h \in Nat : d = 2 * h + 1
        <5>1. d = 2 * (d \div 2) + 1 /\ (d \div 2) \in Nat
          BY <3>4
        <5> QED BY <5>1
      <4>2. h + 1 \in 1 .. n /\ q = p + 2 * (h + 1) - 1
        BY <3>1, <3>2, <4>1
      <4>3. PICK i \in 1 .. n : q = p + 2 * i - 1
        BY <4>2
      <4>4. fields[q] = <<"u64", f[i].location>>
        BY <1>4, <4>3
      <4> QED BY <1>2, <3>1, <3>4, <4>4
    <3> QED BY <3>3, <3>4
  <2> QED BY <1>3, <2>1 DEF FieldsValid
<1>6. DecodedFragments(fields, p) = [i \in 1 .. n |->
          [size |-> fields[p + 2 * i - 2][2], location |-> Masked(fields[p + 2 * i - 1][2])]]
  <2>1. (StreamEnd(fields, p) - p) \div 2 = n
    BY <1>3
  <2> QED BY <1>3, <2>1 DEF DecodedFragments
<1>7. ASSUME NEW i \in 1 .. n
      PROVE  [size |-> fields[p + 2 * i - 2][2], location |-> Masked(fields[p + 2 * i - 1][2])] = f[i]
  <2>1. f[i] \in Fragments
    BY <1>1, ElementOfSeq
  <2>2. Masked(f[i].location) = f[i].location
    BY <1>2, <2>1, LocationUnmasked
  <2>3. fields[p + 2 * i - 2][2] = f[i].size /\ fields[p + 2 * i - 1][2] = f[i].location
    BY <1>4
  <2>4. f[i] = [size |-> f[i].size, location |-> f[i].location]
    BY <2>1 DEF Fragments, Locations
  <2> QED BY <2>2, <2>3, <2>4
<1>8. f = [i \in 1 .. n |-> f[i]]
  BY <1>1
<1> QED BY <1>5, <1>6, <1>7, <1>8

(* Of a nil stream, and of one with fragments.                             *)
LEMMA StreamDecoded ==
  ASSUME NEW f \in {Nil} \cup Seq(Fragments), NEW table, f # Nil => Readable(f, table),
         NEW fields, Len(fields) \in Nat, NEW q \in Nat, EncodedAt(fields, q, StreamFields(f))
  PROVE  /\ StreamEnd(fields, q + 1) = q + Len(StreamFields(f))
         /\ FieldsValid(fields, q + 1, table)
         /\ DecodedFragments(fields, q + 1) = DecodedStream(f)
         /\ StreamFields(f) \in Seq(FieldCells)
<1>1. StreamFields(f) \in Seq(FieldCells)
  BY FieldsAreSeq
<1>2. CASE f = Nil
  <2>1. StreamFields(f) = <<NilField>>
    BY <1>2 DEF StreamFields, NilField
  <2>2. Len(<<NilField>>) = 1 /\ <<NilField>>[1] = NilField
    OBVIOUS
  <2>3. q + 1 <= Len(fields) /\ fields[q + 1] = NilField
    BY <2>1, <2>2 DEF EncodedAt
  <2>4. StreamEnd(fields, q + 1) = q + 1
    BY <2>3 DEF StreamEnd
  <2> QED BY <1>1, <1>2, <2>1, <2>2, <2>3, <2>4
           DEF FieldsValid, DecodedFragments, DecodedStream, NilFragment
<1>3. CASE f # Nil
  <2>1. f \in Seq(Fragments) /\ Readable(f, table)
    BY <1>3
  <2>2. Encoded(fields, q + 1, f)
    BY <2>1, FragmentsEncoded
  <2>3. \A i \in 1 .. Len(f) : f[i].size \in 1 .. NilSize - 1
    BY <2>1 DEF Readable
  <2>4. StreamEnd(fields, q + 1) = (q + 1) + 2 * Len(f)
    <3>1. q + 1 \in Nat
      OBVIOUS
    <3> HIDE DEF DecodedStream
    <3> QED BY ONLY <2>1, <2>2, <2>3, <3>1, Len(fields) \in Nat, EndFound
  <2>5. Len(StreamFields(f)) = 2 * Len(f) + 1
    BY <2>1, FieldsOfStream
  <2>6. FieldsValid(fields, q + 1, table) /\ DecodedFragments(fields, q + 1) = f
    BY <2>1, <2>2, FragmentsDecoded
  <2>7. StreamEnd(fields, q + 1) = q + Len(StreamFields(f))
    BY <2>1, <2>4, <2>5
  <2> QED BY <1>1, <1>3, <2>6, <2>7 DEF DecodedStream
<1> QED BY <1>2, <1>3

(* Where the streams begin.                                                *)
BeginSteps(g, fields, n) ==
  [s \in 0 .. n |-> IF s = 0 THEN 1 ELSE StreamEnd(fields, g[s - 1]) + 1]

EndsAt(fields, n, L) ==
  /\ L \in [0 .. n -> Nat] /\ L[0] = 0
  /\ \A i \in 1 .. n : StreamEnd(fields, L[i - 1] + 1) = L[i]

BehindEnds(L, n) == [s \in 0 .. n |-> L[s] + 1]

LEMMA StreamsBegin ==
  ASSUME NEW n \in Nat, NEW fields, NEW L, EndsAt(fields, n, L)
  PROVE  StreamBegins(fields, n) = BehindEnds(L, n)
<1> USE DEF EndsAt, BehindEnds
<1> DEFINE G == [s \in 0 .. n |-> L[s] + 1]
           g == CHOOSE h : h = BeginSteps(h, fields, n)
<1>1. G = BeginSteps(G, fields, n)
  <2>1. ASSUME NEW s \in 0 .. n
        PROVE  G[s] = IF s = 0 THEN 1 ELSE StreamEnd(fields, G[s - 1]) + 1
    <3>1. CASE s = 0
      BY <3>1
    <3>2. CASE s # 0
      <4>1. s \in 1 .. n /\ s - 1 \in 0 .. n
        BY <3>2
      <4>2. G[s - 1] = L[s - 1] + 1 /\ G[s] = L[s] + 1
        BY <4>1
      <4> HIDE DEF G
      <4> QED BY <3>2, <4>1, <4>2
    <3> QED BY <3>1, <3>2
  <2>2. G = [s \in 0 .. n |-> G[s]]
    OBVIOUS
  <2> HIDE DEF G
  <2> QED BY <2>1, <2>2 DEF BeginSteps
<1>2. g = BeginSteps(g, fields, n)
  BY <1>1
<1>3. StreamBegins(fields, n) = g
  BY DEF StreamBegins, BeginSteps
<1> HIDE DEF g
<1>4. /\ g = [s \in 0 .. n |-> g[s]]
      /\ \A s \in 0 .. n : g[s] = IF s = 0 THEN 1 ELSE StreamEnd(fields, g[s - 1]) + 1
  BY <1>2 DEF BeginSteps
<1> DEFINE B == {s \in 0 .. n : g[s] = G[s]}
<1>5. 0 \in B
  <2>1. 0 \in 0 .. n
    OBVIOUS
  <2>2. g[0] = 1
    BY <1>4, <2>1
  <2>3. G[0] = 1
    BY <2>1
  <2> QED BY <2>1, <2>2, <2>3
<1>6. ASSUME NEW i \in 1 .. n, i - 1 \in B PROVE i \in B
  <2>1. g[i - 1] = L[i - 1] + 1 /\ i \in 0 .. n /\ i # 0
    BY <1>6
  <2>2. g[i] = L[i] + 1
    BY <1>4, <2>1
  <2> QED BY <2>1, <2>2
<1>7. 0 .. n \subseteq B
  <2> HIDE DEF B
  <2> QED BY <1>5, <1>6, StepByStep
<1>8. \A s \in 0 .. n : g[s] = G[s]
  BY <1>7
<1>9. g = G
  BY <1>4, <1>8
<1> QED BY <1>3, <1>9

(* The part of a flattened sequence that a stream is told to take.         *)
LEMMA PartFound ==
  ASSUME NEW S, NEW parts \in Seq(Seq(S)), NEW s \in 0 .. Len(parts) - 1
  PROVE  SubSeq(FlattenSeq(parts), Len(FlattenSeq(SubSeq(parts, 1, s))) + 1,
                Len(FlattenSeq(SubSeq(parts, 1, s + 1)))) = parts[s + 1]
<1>1. PICK n \in Nat : n = Len(parts)
  OBVIOUS
<1>2. PICK L : /\ PartStarts(parts, L) /\ Len(FlattenSeq(parts)) = L[n]
               /\ \A i \in 1 .. n :
                     /\ L[i] <= L[n]
                     /\ \A j \in 1 .. Len(parts[i]) : FlattenSeq(parts)[L[i - 1] + j] = parts[i][j]
  <2>1. PICK L : /\ PartStarts(parts, L) /\ Len(FlattenSeq(parts)) = L[Len(parts)]
                 /\ \A i \in 1 .. Len(parts) :
                       /\ L[i] <= L[Len(parts)]
                       /\ \A j \in 1 .. Len(parts[i]) :
                            FlattenSeq(parts)[L[i - 1] + j] = parts[i][j]
    BY FlattenSegments
  <2> QED BY ONLY <1>1, <2>1
<1>3. ASSUME NEW k \in 0 .. n PROVE Len(FlattenSeq(SubSeq(parts, 1, k))) = L[k]
  <2>1. PICK a \in Seq(Seq(S)) :
           a = SubSeq(parts, 1, k) /\ Len(a) = k /\ \A i \in 1 .. k : a[i] = parts[i]
    <3>1. /\ SubSeq(parts, 1, k) \in Seq(Seq(S)) /\ Len(SubSeq(parts, 1, k)) = k
          /\ \A i \in 1 .. k : SubSeq(parts, 1, k)[i] = parts[i]
      BY <1>1
    <3> QED BY <3>1
  <2>2. PICK M : PartStarts(a, M) /\ Len(FlattenSeq(a)) = M[k]
    BY <2>1, FlattenSegments
  <2>3. L[k] = M[k]
    <3>1. \A i \in 1 .. k : Len(a[i]) = Len(parts[i])
      BY <2>1
    <3>2. k \in Nat /\ k <= Len(a) /\ k <= Len(parts)
      BY <1>1, <2>1
    <3>3. M[k] = L[k]
      <4>1. PartStarts(a, M) /\ PartStarts(parts, L) /\ Len(a) \in Nat /\ Len(parts) \in Nat
        BY <1>1, <1>2, <2>1, <2>2
      <4> QED BY ONLY <3>1, <3>2, <4>1, StartsAgree
    <3> QED BY <3>3
  <2> QED BY <2>1, <2>2, <2>3
<1>4. s \in 0 .. n /\ s + 1 \in 1 .. n /\ s + 1 \in 0 .. n /\ (s + 1) - 1 = s
  BY <1>1
<1>5. PICK q \in Seq(S) : q = parts[s + 1]
  BY <1>1, <1>4, ElementOfSeq
<1>6. PICK a \in Nat, b \in Nat : a = L[s] /\ b = L[s + 1] /\ b = a + Len(q) /\ b <= L[n]
  <2>1. L[s + 1] = L[s] + Len(q) /\ L[s] \in Nat /\ L[s + 1] \in Nat
    BY <1>1, <1>2, <1>4, <1>5 DEF PartStarts
  <2> QED BY <1>2, <1>4, <2>1
<1>7. PICK c \in Seq(S) : c = FlattenSeq(parts)
  BY FlattenIsSeq
<1>8. \A j \in 1 .. Len(q) : c[a + j] = q[j]
  BY <1>2, <1>4, <1>5, <1>6, <1>7
<1>9. SubSeq(c, a + 1, b) = q
  <2>1. PICK l \in Nat : l = Len(q) /\ b = a + l
    BY <1>6
  <2>2. b <= Len(c)
    BY <1>2, <1>6, <1>7
  <2> DEFINE u == SubSeq(c, a + 1, b)
  <2>3. /\ u \in Seq(S) /\ Len(u) = l
        /\ \A j \in 1 .. l : u[j] = c[a + j]
    BY <2>1, <2>2
  <2> HIDE DEF u
  <2>4. u = q
    BY <1>8, <2>1, <2>3, SeqEqual
  <2> QED BY <2>4 DEF u
<1> QED BY <1>3, <1>4, <1>5, <1>6, <1>7, <1>9

(* Flattened parts are encoded each at its place.                          *)
LEMMA PartsEncoded ==
  ASSUME NEW S, NEW parts \in Seq(Seq(S)), NEW L, PartStarts(parts, L),
         Len(FlattenSeq(parts)) = L[Len(parts)],
         \A i \in 1 .. Len(parts) :
           /\ L[i] <= L[Len(parts)]
           /\ \A j \in 1 .. Len(parts[i]) : FlattenSeq(parts)[L[i - 1] + j] = parts[i][j],
         NEW i \in 1 .. Len(parts)
  PROVE  /\ L[i - 1] \in Nat /\ L[i] = L[i - 1] + Len(parts[i])
         /\ EncodedAt(FlattenSeq(parts), L[i - 1], parts[i])
<1>1. L[i] = L[i - 1] + Len(parts[i]) /\ L[i - 1] \in Nat
  <2>1. i - 1 \in 0 .. Len(parts)
    BY LenProperties
  <2> QED BY <2>1 DEF PartStarts
<1>2. L[i - 1] + Len(parts[i]) <= Len(FlattenSeq(parts))
  BY <1>1
<1>3. \A j \in 1 .. Len(parts[i]) : FlattenSeq(parts)[L[i - 1] + j] = parts[i][j]
  OBVIOUS
<1> QED BY <1>1, <1>2, <1>3 DEF EncodedAt

StreamsReadable ==
  \A s \in DOMAIN streams : streams[s] # Nil => Readable(streams[s], chunks)

(* The streams as the reader has them, and the directory it makes of them. *)
Decoded(n) == [i \in 1 .. n |-> DecodedStream(streams[i - 1])]

Directory(decoded, n) ==
  [fragments |-> FlattenSeq(decoded),
   starts |-> [i \in 1 .. n + 1 |-> Len(FlattenSeq(SubSeq(decoded, 1, i - 1)))],
   chunkTable |-> chunks]

LEMMA DirectoryDecoded ==
  ASSUME WriterTyped, StreamsReadable, NEW n \in Nat, n = Cardinality(DOMAIN streams)
  PROVE  /\ DecodeStreamDir(EncodeStreamDir, n, chunks) = Directory(Decoded(n), n)
         /\ EncodeStreamDir \in Seq(FieldCells)
<1>1. DOMAIN streams = 0 .. n - 1 /\ \A s \in 0 .. n - 1 : streams[s] \in {Nil} \cup Seq(Fragments)
  <2>1. PICK m \in 1 .. MaxStreams :
           /\ m \in Nat \ {0} /\ streams \in StreamMap(m) /\ DOMAIN streams = 0 .. m - 1
           /\ Cardinality(DOMAIN streams) = m
    BY StreamsDomain
  <2> QED BY <2>1 DEF StreamMap
<1> DEFINE parts == [i \in 1 .. n |-> StreamFields(streams[i - 1])]
<1>2. EncodeStreamDir = FlattenSeq(parts)
  BY DEF EncodeStreamDir
<1>3. \A i \in 1 .. n : /\ i - 1 \in 0 .. n - 1 /\ parts[i] = StreamFields(streams[i - 1])
                        /\ parts[i] \in Seq(FieldCells)
  BY <1>1, FieldsAreSeq
<1>4. parts \in Seq(Seq(FieldCells)) /\ Len(parts) = n
  <2>1. parts \in [1 .. n -> Seq(FieldCells)]
    BY <1>3
  <2> HIDE DEF parts
  <2> QED BY <2>1, FunctionLen
<1> HIDE DEF parts
<1>5. PICK fields \in Seq(FieldCells) : fields = FlattenSeq(parts)
  BY <1>4, FlattenIsSeq
<1>6. PICK L : /\ PartStarts(parts, L) /\ Len(fields) = L[n]
               /\ \A i \in 1 .. n :
                     /\ L[i] <= L[n]
                     /\ \A j \in 1 .. Len(parts[i]) : fields[L[i - 1] + j] = parts[i][j]
  <2>1. PICK L : /\ PartStarts(parts, L) /\ Len(FlattenSeq(parts)) = L[Len(parts)]
                 /\ \A i \in 1 .. Len(parts) :
                       /\ L[i] <= L[Len(parts)]
                       /\ \A j \in 1 .. Len(parts[i]) :
                            FlattenSeq(parts)[L[i - 1] + j] = parts[i][j]
    BY ONLY <1>4, FlattenSegments
  <2>2. /\ PartStarts(parts, L) /\ Len(fields) = L[n]
        /\ \A i \in 1 .. n :
              /\ L[i] <= L[n]
              /\ \A j \in 1 .. Len(parts[i]) : fields[L[i - 1] + j] = parts[i][j]
    BY ONLY <1>4, <1>5, <2>1
  <2> QED BY ONLY <2>2
<1>7. L \in [0 .. n -> Nat] /\ L[0] = 0
  BY <1>4, <1>6 DEF PartStarts
<1>8. ASSUME NEW i \in 1 .. n
      PROVE  /\ StreamEnd(fields, L[i - 1] + 1) = L[i]
             /\ FieldsValid(fields, L[i - 1] + 1, chunks)
             /\ DecodedFragments(fields, L[i - 1] + 1) = DecodedStream(streams[i - 1])
  <2>1. /\ L[i - 1] \in Nat /\ L[i] = L[i - 1] + Len(parts[i])
        /\ EncodedAt(fields, L[i - 1], parts[i])
    <3>1. /\ PartStarts(parts, L) /\ Len(FlattenSeq(parts)) = L[Len(parts)] /\ i \in 1 .. Len(parts)
          /\ \A k \in 1 .. Len(parts) :
               /\ L[k] <= L[Len(parts)]
               /\ \A j \in 1 .. Len(parts[k]) : FlattenSeq(parts)[L[k - 1] + j] = parts[k][j]
      BY <1>4, <1>5, <1>6
    <3> QED BY ONLY <1>4, <1>5, <3>1, PartsEncoded
  <2>2. PICK f \in {Nil} \cup Seq(Fragments) : f = streams[i - 1]
    BY <1>1, <1>3
  <2>3. parts[i] = StreamFields(f) /\ (f # Nil => Readable(f, chunks))
    BY <1>1, <1>3, <2>2 DEF StreamsReadable
  <2>4. PICK q \in Nat : q = L[i - 1]
    BY <2>1
  <2>5. Len(fields) \in Nat /\ EncodedAt(fields, q, StreamFields(f))
    BY <2>1, <2>3, <2>4, LenProperties
  <2>6. /\ StreamEnd(fields, q + 1) = q + Len(StreamFields(f))
        /\ FieldsValid(fields, q + 1, chunks)
        /\ DecodedFragments(fields, q + 1) = DecodedStream(f)
    BY ONLY <2>3, <2>5, f \in {Nil} \cup Seq(Fragments), q \in Nat, StreamDecoded
  <2> QED BY <2>1, <2>2, <2>3, <2>4, <2>6
<1>9. PICK begin : begin = StreamBegins(fields, n) /\ begin = [s \in 0 .. n |-> L[s] + 1]
  <2>1. \A i \in 1 .. n : StreamEnd(fields, L[i - 1] + 1) = L[i]
    BY <1>8
  <2>2. EndsAt(fields, n, L)
    BY <1>7, <2>1 DEF EndsAt
  <2>3. StreamBegins(fields, n) = BehindEnds(L, n)
    BY ONLY n \in Nat, <2>2, StreamsBegin
  <2> QED BY <2>3 DEF BehindEnds
<1>10. begin[n] <= Len(fields) + 1
  BY <1>6, <1>7, <1>9
<1>11. ASSUME NEW s \in 0 .. n - 1 PROVE FieldsValid(fields, begin[s], chunks)
  <2>1. s + 1 \in 1 .. n /\ (s + 1) - 1 = s /\ s \in 0 .. n
    OBVIOUS
  <2>2. FieldsValid(fields, L[s] + 1, chunks)
    BY <1>8, <2>1
  <2> QED BY <1>9, <2>1, <2>2
<1>12. [i \in 1 .. n |-> DecodedFragments(fields, begin[i - 1])] = Decoded(n)
  <2>1. ASSUME NEW i \in 1 .. n
        PROVE  DecodedFragments(fields, begin[i - 1]) = DecodedStream(streams[i - 1])
    <3>1. i - 1 \in 0 .. n
      OBVIOUS
    <3> QED BY <1>8, <1>9, <3>1
  <2> QED BY <2>1 DEF Decoded
<1>13. DecodeStreamDir(fields, n, chunks) = Directory(Decoded(n), n)
  BY <1>9, <1>10, <1>11, <1>12 DEF DecodeStreamDir, Directory
<1> QED BY <1>2, <1>5, <1>13

(* What the reader finds in it.                                            *)
LEMMA DirectoryRead ==
  ASSUME WriterTyped, FragmentsTyped, NEW n \in Nat, n = Cardinality(DOMAIN streams),
         NEW m, m = Directory(Decoded(n), n)
  PROVE  /\ NumStreams(m) = n /\ m.chunkTable = chunks
         /\ DOMAIN streams = 0 .. n - 1
         /\ \A s \in 0 .. n - 1 :
              /\ IsNilStream(m, s) <=> streams[s] = Nil
              /\ StreamFragments(m, s) = IF streams[s] = Nil THEN <<>> ELSE streams[s]
<1>1. DOMAIN streams = 0 .. n - 1 /\ \A s \in 0 .. n - 1 : streams[s] \in {Nil} \cup Seq(Fragments)
  <2>1. PICK k \in 1 .. MaxStreams :
           /\ k \in Nat \ {0} /\ streams \in StreamMap(k) /\ DOMAIN streams = 0 .. k - 1
           /\ Cardinality(DOMAIN streams) = k
    BY StreamsDomain
  <2> QED BY <2>1 DEF StreamMap
<1> DEFINE S == Fragments \cup {NilFragment}
           decoded == Decoded(n)
           starts == [i \in 1 .. n + 1 |-> Len(FlattenSeq(SubSeq(decoded, 1, i - 1)))]
<1>2. \A i \in 1 .. n : /\ decoded[i] = DecodedStream(streams[i - 1])
                        /\ decoded[i] \in Seq(S) /\ i - 1 \in 0 .. n - 1
  <2> TAKE i \in 1 .. n
  <2>1. i - 1 \in 0 .. n - 1 /\ decoded[i] = DecodedStream(streams[i - 1])
    BY DEF Decoded
  <2>2. NilFragment \in S /\ <<NilFragment>> \in Seq(S)
    OBVIOUS
  <2>3. \A f \in Seq(Fragments) : f \in Seq(S)
    OBVIOUS
  <2> QED BY <1>1, <2>1, <2>2, <2>3 DEF DecodedStream
<1>3. decoded \in Seq(Seq(S)) /\ Len(decoded) = n
  <2>1. decoded \in [1 .. n -> Seq(S)]
    BY <1>2 DEF Decoded
  <2> HIDE DEF decoded, S
  <2> QED BY <2>1, FunctionLen
<1> HIDE DEF S
<1>4. /\ m.fragments = FlattenSeq(decoded) /\ m.chunkTable = chunks
      /\ m.starts = starts
  BY DEF Directory
<1>5. NumStreams(m) = n
  <2>1. \A i \in 1 .. n + 1 : starts[i] \in Nat
    <3>1. ASSUME NEW i \in 1 .. n + 1 PROVE Len(FlattenSeq(SubSeq(decoded, 1, i - 1))) \in Nat
      <4>1. SubSeq(decoded, 1, i - 1) \in Seq(Seq(S))
        BY <1>3
      <4> QED BY <4>1, FlattenIsSeq, LenProperties
    <3> QED BY <3>1
  <2>2. starts \in [1 .. n + 1 -> Nat]
    BY <2>1
  <2> HIDE DEF starts
  <2>3. Len(starts) = n + 1
    BY <2>2, FunctionLen
  <2> QED BY <1>4, <2>3 DEF NumStreams
<1>6. ASSUME NEW s \in 0 .. n - 1 PROVE RawFragments(m, s) = DecodedStream(streams[s])
  <2>1. s + 1 \in 1 .. n /\ s + 1 \in 1 .. n + 1 /\ s + 2 \in 1 .. n + 1
        /\ (s + 1) - 1 = s /\ (s + 2) - 1 = s + 1 /\ s \in 0 .. Len(decoded) - 1
    BY <1>3
  <2>2. /\ m.starts[s + 1] = Len(FlattenSeq(SubSeq(decoded, 1, s)))
        /\ m.starts[s + 2] = Len(FlattenSeq(SubSeq(decoded, 1, s + 1)))
    BY <1>4, <2>1
  <2> HIDE DEF decoded
  <2>3. SubSeq(FlattenSeq(decoded), Len(FlattenSeq(SubSeq(decoded, 1, s))) + 1,
               Len(FlattenSeq(SubSeq(decoded, 1, s + 1)))) = decoded[s + 1]
    BY ONLY <1>3, <2>1, PartFound
  <2>4. decoded[s + 1] = DecodedStream(streams[s])
    BY <1>2, <2>1
  <2> QED BY <1>4, <2>2, <2>3, <2>4 DEF RawFragments
<1>7. ASSUME NEW s \in 0 .. n - 1
      PROVE  /\ IsNilStream(m, s) <=> streams[s] = Nil
             /\ StreamFragments(m, s) = IF streams[s] = Nil THEN <<>> ELSE streams[s]
  <2>1. CASE streams[s] = Nil
    <3>1. RawFragments(m, s) = <<NilFragment>>
      BY <1>6, <2>1 DEF DecodedStream
    <3>2. <<NilFragment>> # <<>> /\ <<NilFragment>>[1] = NilFragment
      OBVIOUS
    <3>3. NilFragment.location = Nowhere
      BY DEF NilFragment
    <3> QED BY <2>1, <3>1, <3>2, <3>3 DEF IsNilStream, StreamFragments
  <2>2. CASE streams[s] # Nil
    <3>1. PICK f \in Seq(Fragments) : f = streams[s]
      BY <1>1, <2>2
    <3>2. RawFragments(m, s) = f
      BY <1>6, <2>2, <3>1 DEF DecodedStream
    <3>3. ASSUME f # <<>> PROVE f[1].location # Nowhere
      <4>1. f[1] \in Fragments
        BY <3>3
      <4>2. f[1].location[1] \in {"chunk", "file"}
        BY <4>1 DEF Fragments, Locations
      <4> QED BY <4>2 DEF Nowhere
    <3> QED BY <2>2, <3>1, <3>2, <3>3 DEF IsNilStream, StreamFragments
  <2> QED BY <2>1, <2>2
<1> QED BY <1>1, <1>4, <1>5, <1>7

-----------------------------------------------------------------------------
(***************************************************************************)
(* Opening the file.                                                       *)
(***************************************************************************)
(* A fragment of a chunk that is on disk begins within it.                 *)
LEMMA NonePending ==
  ASSUME WriterTyped, FragmentsTyped, OffsetsWithin, chunkData = <<>>,
         NEW s \in DOMAIN streams, streams[s] # Nil, NEW i \in DOMAIN streams[s]
  PROVE  LET f == streams[s][i]
         IN /\ f \in Fragments /\ Fragment(f) /\ ~PendingChunk(f)
            /\ LocationValid(f.location, chunks)
<1> DEFINE f == streams[s][i]
<1>1. f \in Fragments
  <2>1. PICK m \in 1 .. MaxStreams : streams \in StreamMap(m) /\ DOMAIN streams = 0 .. m - 1
    BY StreamsDomain
  <2>2. streams[s] \in Seq(Fragments)
    BY <2>1 DEF StreamMap
  <2> QED BY <2>2, ElementOfSeq
<1>2. Fragment(f) /\ Begins(f)
  BY DEF FragmentsTyped, OffsetsWithin
<1> HIDE DEF f
<1>3. CASE IsCompressed(f.location)
  <2>1. f.location[2] \in 0 .. Len(chunks) /\ f.location[3] \in Nat /\ Len(chunks) \in Nat
    BY <1>2, <1>3, LenProperties DEF Fragment, WriterTyped
  <2>2. ~PendingChunk(f)
    <3>1. SUFFICES ASSUME PendingChunk(f) PROVE FALSE
      OBVIOUS
    <3>2. f.location[3] < Len(<<>>)
      BY <1>2, <1>3, <3>1 DEF Begins
    <3> QED BY <2>1, <3>2
  <2>3. f.location[2] # Len(chunks)
    BY <1>3, <2>2 DEF PendingChunk
  <2>4. f.location[3] < chunks[f.location[2] + 1].size
    BY <1>2, <1>3, <2>2 DEF Begins
  <2>5. f.location[2] \in 0 .. Len(chunks) - 1
    <3>1. PICK l \in Nat : l = Len(chunks)
      BY <2>1
    <3>2. PICK k \in 0 .. l : k = f.location[2]
      BY <2>1, <3>1
    <3>3. k # l
      BY <2>3, <3>1, <3>2
    <3>4. k \in 0 .. l - 1
      BY <3>3
    <3> QED BY <3>1, <3>2, <3>4
  <2> QED BY ONLY <1>1, <1>2, <1>3, <2>1, <2>2, <2>4, <2>5 DEF LocationValid, f
<1>4. CASE ~IsCompressed(f.location)
  BY <1>1, <1>2, <1>4 DEF LocationValid, PendingChunk, f
<1> QED BY <1>3, <1>4

LEMMA AllReadable ==
  ASSUME WriterTyped, FragmentsTyped, OffsetsWithin, chunkData = <<>>
  PROVE  StreamsReadable
<1> SUFFICES ASSUME NEW s \in DOMAIN streams, streams[s] # Nil, NEW i \in DOMAIN streams[s]
             PROVE  /\ streams[s][i].size \in 1 .. NilSize - 1
                    /\ LocationValid(streams[s][i].location, chunks)
                    /\ ~IsCompressed(streams[s][i].location)
                         => streams[s][i].location[2] <= MaxFileOffset
  BY DEF StreamsReadable, Readable
<1>1. Fragment(streams[s][i]) /\ LocationValid(streams[s][i].location, chunks)
  BY NonePending
<1> QED BY <1>1, MsfzReaderAssumption DEF Fragment

(* Cells that lie in a file as a whole are found there.                    *)
LEMMA CellsFound ==
  ASSUME NEW file, NEW S, NEW cells \in Seq(S), NEW o \in Nat, NEW n \in Nat, n = Len(cells),
         \A i \in 1 .. n : file[o + i] = cells[i]
  PROVE  SubSeq(file, o + 1, o + n) = cells
<1>1. \A j \in o + 1 .. o + n : file[j] \in S
  <2> TAKE j \in o + 1 .. o + n
  <2>1. j - o \in 1 .. n /\ o + (j - o) = j
    OBVIOUS
  <2>2. file[o + (j - o)] = cells[j - o] /\ cells[j - o] \in S
    BY <2>1, ElementOfSeq
  <2> QED BY <2>1, <2>2
<1>2. o + 1 \in Int /\ o + n \in Int
  OBVIOUS
<1> DEFINE s == SubSeq(file, o + 1, o + n)
<1>3. /\ s \in Seq(S)
      /\ Len(s) = IF o + 1 <= o + n THEN o + n - (o + 1) + 1 ELSE 0
      /\ \A i \in 1 .. (o + n - (o + 1) + 1) : s[i] = file[(o + 1) + i - 1]
  BY <1>1, <1>2, SubSeqProperties
<1> HIDE DEF s
<1>4. (IF o + 1 <= o + n THEN o + n - (o + 1) + 1 ELSE 0) = n /\ o + n - (o + 1) + 1 = n
  OBVIOUS
<1>5. ASSUME NEW i \in 1 .. n PROVE s[i] = cells[i]
  <2>1. (o + 1) + i - 1 = o + i
    OBVIOUS
  <2> QED BY <1>3, <1>4, <2>1
<1>6. s = cells
  BY <1>3, <1>4, <1>5, SeqEqual
<1> QED BY <1>6 DEF s

(* The fields of the directory.                                            *)
LEMMA FieldsRead ==
  ASSUME WriterTyped, DirectoryWritten, EncodeStreamDir \in Seq(FieldCells)
  PROVE  StreamDirFields(out, header) = EncodeStreamDir /\ EncodeStreamDir # Error
<1>1. PICK fields \in Seq(FieldCells) : fields = EncodeStreamDir
  OBVIOUS
<1>2. PICK o \in Nat, k \in Nat : o = header.dirOffset /\ k = header.dirCompressedSize
  BY DEF DirectoryWritten
<1>3. o + k <= Len(out) /\ header.dirSize = Len(fields) /\ Len(out) \in Nat
  BY <1>1, <1>2 DEF DirectoryWritten, Kept, WriterTyped, IsSeq
<1>4. CASE header.dirCompressed
  <2>1. k \in Nat \ {0} /\ \A i \in 1 .. k : out[o + i] = <<"z", fields, i, k>>
    BY <1>1, <1>2, <1>4 DEF DirectoryWritten
  <2>2. Decompress(out, o, k, Len(fields)) = fields
    BY ONLY <1>3, <2>1, o \in Nat, fields \in Seq(FieldCells), ImageDecompressed
  <2> QED BY <1>1, <1>2, <1>3, <1>4, <2>2, MsfzValuesAssumption DEF StreamDirFields
<1>5. CASE ~header.dirCompressed
  <2>1. k = Len(fields) /\ \A i \in 1 .. k : out[o + i] = fields[i]
    BY <1>1, <1>2, <1>5 DEF DirectoryWritten
  <2>2. ReadExact(out, o, k) = fields
    <3>1. SubSeq(out, o + 1, o + k) = fields
      BY ONLY <2>1, o \in Nat, k \in Nat, fields \in Seq(FieldCells), CellsFound
    <3> QED BY <1>3, <3>1 DEF ReadExact
  <2> QED BY <1>1, <1>2, <1>5, <2>2, MsfzValuesAssumption DEF StreamDirFields
<1> QED BY <1>4, <1>5

(* The chunk table.                                                        *)
LEMMA TableRead ==
  ASSUME WriterTyped, TableWritten
  PROVE  ChunkTable(out, header) = chunks /\ chunks # Error
<1>1. PICK n \in Nat : n = Len(chunks) /\ DOMAIN chunks = 1 .. n
  BY DEF WriterTyped
<1>2. chunks \in Seq(Entries) /\ chunks # Error /\ header.numChunks = n
  BY <1>1, MsfzValuesAssumption DEF WriterTyped, TableWritten
<1> DEFINE table == [i \in 1 .. n |-> <<"entry", chunks[i]>>]
<1>3. table \in Seq({"entry"} \X Entries) /\ Len(table) = n
  <2>1. \A i \in 1 .. n : chunks[i] \in Entries
    BY <1>1, <1>2, ElementOfSeq
  <2>2. table \in [1 .. n -> {"entry"} \X Entries]
    BY <2>1
  <2> HIDE DEF table
  <2> QED BY <2>2, FunctionLen
<1>4. (IF header.numChunks = 0 THEN <<>>
       ELSE ReadExact(out, header.chunkTableOffset, header.numChunks)) = table
  <2>1. CASE n = 0
    <3>1. table = <<>>
      BY <2>1
    <3> QED BY <1>2, <2>1, <3>1
  <2>2. CASE n # 0
    <3>1. chunks # <<>>
      BY <1>1, <1>2, <2>2
    <3>2. PICK o \in Nat : o = header.chunkTableOffset
      BY DEF TableWritten
    <3>3. o + n <= Len(out) /\ Len(out) \in Nat /\ \A i \in 1 .. n : out[o + i] = table[i]
      BY <1>1, <3>1, <3>2 DEF TableWritten, Kept, WriterTyped, IsSeq
    <3> HIDE DEF table
    <3>4. ReadExact(out, o, n) = table
      BY <1>3, <3>3, CellsFound DEF ReadExact
    <3> QED BY <1>2, <2>2, <3>2, <3>4
  <2> QED BY <2>1, <2>2
<1>5. table # Error
  BY <1>3, MsfzValuesAssumption
<1>6. \A i \in DOMAIN table : table[i][1] = "entry" /\ table[i][2] = chunks[i]
  OBVIOUS
<1>7. DOMAIN table = 1 .. n
  OBVIOUS
<1> HIDE DEF table
<1>8. ChunkTable(out, header) = [i \in DOMAIN table |-> table[i][2]]
  BY <1>4, <1>5, <1>6 DEF ChunkTable
<1>9. [i \in DOMAIN table |-> table[i][2]] = [i \in 1 .. n |-> chunks[i]]
  BY <1>6, <1>7
<1>10. chunks = [i \in 1 .. n |-> chunks[i]]
  BY <1>1, <1>2
<1> QED BY <1>2, <1>8, <1>9, <1>10

LEMMA DirectoryTyped ==
  ASSUME WriterTyped, NEW n \in Nat, DOMAIN streams = 0 .. n - 1
  PROVE  Directory(Decoded(n), n) # Error
<1> DEFINE S == [size : Nat, location : Locations \cup {Nowhere}]
           decoded == Decoded(n)
           starts == [i \in 1 .. n + 1 |-> Len(FlattenSeq(SubSeq(decoded, 1, i - 1)))]
<1>1. \A i \in 1 .. n : DecodedStream(streams[i - 1]) \in Seq(S)
  <2> TAKE i \in 1 .. n
  <2>1. PICK m \in 1 .. MaxStreams : streams \in StreamMap(m) /\ DOMAIN streams = 0 .. m - 1
    BY StreamsDomain
  <2>2. i - 1 \in 0 .. n - 1
    OBVIOUS
  <2>3. streams[i - 1] \in {Nil} \cup Seq(Fragments)
    BY <2>1, <2>2 DEF StreamMap
  <2>4. NilFragment \in S
    BY DEF NilFragment
  <2>5. Fragments \subseteq S
    BY DEF Fragments
  <2> HIDE DEF S
  <2>6. <<NilFragment>> \in Seq(S) /\ \A f \in Seq(Fragments) : f \in Seq(S)
    BY <2>4, <2>5
  <2> QED BY <2>3, <2>6 DEF DecodedStream
<1> HIDE DEF S
<1>2. decoded \in Seq(Seq(S)) /\ Len(decoded) = n
  <2>1. decoded \in [1 .. n -> Seq(S)]
    BY <1>1 DEF Decoded
  <2> HIDE DEF decoded
  <2> QED BY <2>1, FunctionLen
<1> HIDE DEF decoded
<1>3. \A i \in 1 .. n + 1 : Len(FlattenSeq(SubSeq(decoded, 1, i - 1))) \in Nat
  <2> TAKE i \in 1 .. n + 1
  <2>1. SubSeq(decoded, 1, i - 1) \in Seq(Seq(S))
    BY <1>2
  <2> QED BY <2>1, FlattenIsSeq, LenProperties
<1>4. starts \in Seq(Nat)
  <2>1. starts \in [1 .. n + 1 -> Nat]
    BY <1>3
  <2> HIDE DEF starts
  <2> QED BY <2>1, FunctionLen
<1>5. FlattenSeq(decoded) \in Seq(S) /\ chunks \in Seq(Entries)
  BY <1>2, FlattenIsSeq DEF WriterTyped
<1>6. Directory(decoded, n) = [fragments |-> FlattenSeq(decoded), starts |-> starts,
                               chunkTable |-> chunks]
  BY DEF Directory
<1> HIDE DEF starts
<1>7. Directory(decoded, n) \in Directories
  BY <1>4, <1>5, <1>6 DEF Directories, S
<1>8. Directory(decoded, n) # Error
  BY <1>7, MsfzValuesAssumption
<1> QED BY <1>8 DEF decoded

(* The file opens as soon as the header is in it, and not before.          *)
LEMMA FileOpens ==
  ASSUME ReadInv, stage \notin Unpublished, NEW n \in Nat, n = Cardinality(DOMAIN streams)
  PROVE  FromFile(out) = Directory(Decoded(n), n) /\ FromFile(out) # Error
<1>1. WriterTyped /\ FragmentsTyped /\ OffsetsWithin /\ chunkData = <<>>
  BY DEF ReadInv, MsfzInv, InStage, Unpublished
<1>2. DirectoryWritten /\ TableWritten /\ out[1] = <<"header", header>>
  BY DEF ReadInv, FinishInv, Unpublished
<1>3. /\ DecodeStreamDir(EncodeStreamDir, n, chunks) = Directory(Decoded(n), n)
      /\ EncodeStreamDir \in Seq(FieldCells)
  BY <1>1, AllReadable, DirectoryDecoded
<1>4. StreamDirFields(out, header) = EncodeStreamDir /\ EncodeStreamDir # Error
  BY <1>1, <1>2, <1>3, FieldsRead
<1>5. ChunkTable(out, header) = chunks /\ chunks # Error
  BY <1>1, <1>2, TableRead
<1>6. out # <<>> /\ out[1][1] = "header" /\ out[1][2] = header
  <2>1. Len(out) >= 2
    BY <1>1 DEF WriterTyped, HeaderSize
  <2> QED BY <1>2, <2>1
<1>7. header.numStreams = n
  BY <1>2 DEF TableWritten
<1>8. FromFile(out) = Directory(Decoded(n), n)
  BY <1>3, <1>4, <1>5, <1>6, <1>7 DEF FromFile
<1>9. Directory(Decoded(n), n) # Error
  <2>1. DOMAIN streams = 0 .. n - 1
    BY <1>1, StreamsDomain
  <2> QED BY <1>1, <2>1, DirectoryTyped
<1> QED BY <1>8, <1>9

(* A stream is read as the writer has it.                                  *)
LEMMA FragmentsRead ==
  ASSUME WriterTyped, FragmentsTyped, OffsetsWithin, chunkData = <<>>,
         NEW m, m.chunkTable = chunks,
         NEW s \in DOMAIN streams, streams[s] # Nil, StreamFragments(m, s) = streams[s]
  PROVE  ReadStream(out, m, s) = StreamContents(s)
<1>1. PICK f : f = streams[s]
  OBVIOUS
<1>2. ASSUME NEW i \in DOMAIN f
      PROVE  ReadFragment(out, m, f[i], 0, f[i].size) = FragmentBytes(f[i])
  <2>1. ~PendingChunk(f[i])
    BY <1>1, NonePending
  <2>2. FragmentBytes(f[i]) = ReadFragment(out, [chunkTable |-> chunks], f[i], 0, f[i].size)
    BY <2>1 DEF FragmentBytes
  <2>3. [chunkTable |-> chunks].chunkTable = m.chunkTable
    OBVIOUS
  <2> QED BY <2>2, <2>3 DEF ReadFragment
<1>3. [i \in DOMAIN f |-> ReadFragment(out, m, f[i], 0, f[i].size)]
        = [i \in DOMAIN f |-> FragmentBytes(f[i])]
  BY <1>2
<1> QED BY <1>1, <1>3 DEF ReadStream, StreamContents

LEMMA InvReadsBack == ReadInv => ReadsBack
<1> SUFFICES ASSUME ReadInv PROVE Image = Published
  BY DEF ReadsBack
<1> USE DEF ReadInv, MsfzInv
<1>1. CASE stage \in Unpublished
  <2>1. out[1] = Zero
    BY <1>1 DEF InStage
  <2>2. out[1][1] # "header"
    BY <2>1 DEF Zero
  <2> QED BY <2>1, <2>2 DEF Image, FromFile, Published
<1>2. CASE stage \notin Unpublished
  <2>1. PICK n \in Nat : n = Cardinality(DOMAIN streams)
    BY StreamsDomain
  <2>2. PICK m : m = FromFile(out) /\ m = Directory(Decoded(n), n) /\ m # Error
    BY <1>2, <2>1, FileOpens
  <2>3. /\ NumStreams(m) = n /\ m.chunkTable = chunks
        /\ DOMAIN streams = 0 .. n - 1
        /\ \A s \in 0 .. n - 1 :
             /\ IsNilStream(m, s) <=> streams[s] = Nil
             /\ StreamFragments(m, s) = IF streams[s] = Nil THEN <<>> ELSE streams[s]
    BY <2>1, <2>2, DirectoryRead
  <2>4. chunkData = <<>>
    BY <1>2 DEF InStage, Unpublished
  <2>5. ASSUME NEW s \in 0 .. n - 1
        PROVE  (IF IsNilStream(m, s) THEN Nil ELSE ReadStream(out, m, s)) = StreamContents(s)
    <3>1. CASE streams[s] = Nil
      BY <2>3, <3>1 DEF StreamContents
    <3>2. CASE streams[s] # Nil
      BY <2>3, <2>4, <3>2, FragmentsRead
    <3> QED BY <3>1, <3>2
  <2>6. Image = [s \in 0 .. n - 1 |-> IF IsNilStream(m, s) THEN Nil ELSE ReadStream(out, m, s)]
    BY <2>2, <2>3 DEF Image
  <2>7. Published = [s \in 0 .. n - 1 |-> StreamContents(s)]
    <3>1. out[1] # Zero
      BY <1>2 DEF InStage
    <3> QED BY <2>3, <3>1 DEF Published, Contents
  <2> QED BY <2>5, <2>6, <2>7
<1> QED BY <1>1, <1>2

-----------------------------------------------------------------------------
(***************************************************************************)
(* Reading a part of a stream.  read_at goes through the fragments, which  *)
(* the model folds from the left as it does sizes.                         *)
(***************************************************************************)
ReadSteps(g, file, m, f, r, D) ==
  [s \in SUBSET D |->
     IF s = {} THEN r ELSE ReadAtFragment(file, m, g[s \ {Max(s)}], f[Max(s)])]

(* The fold is defined.                                                    *)
LEMMA ReadStepsExist ==
  ASSUME NEW n \in Nat, NEW file, NEW m, NEW f, NEW r
  PROVE  \E g : g = ReadSteps(g, file, m, f, r, 1 .. n)
<1> DEFINE Read(x, i) == ReadAtFragment(file, m, x, f[i])
           B == {k \in 0 .. n : \E g : g = ReadSteps(g, file, m, f, r, 1 .. k)}
<1>1. 0 \in B
  <2> DEFINE g == [s \in SUBSET (1 .. 0) |-> r]
  <2>1. \A s \in SUBSET (1 .. 0) : s = {}
    OBVIOUS
  <2>2. g = ReadSteps(g, file, m, f, r, 1 .. 0)
    BY <2>1 DEF ReadSteps
  <2>3. \E h : h = ReadSteps(h, file, m, f, r, 1 .. 0)
    BY <2>2
  <2> QED BY <2>3
<1>2. ASSUME NEW k \in 1 .. n, k - 1 \in B PROVE k \in B
  <2> DEFINE D == 1 .. (k - 1)
             E == 1 .. k
  <2>1. PICK g : g = ReadSteps(g, file, m, f, r, D)
    BY <1>2
  <2>2. \A s \in SUBSET D : g[s] = IF s = {} THEN r ELSE Read(g[s \ {Max(s)}], Max(s))
    BY <2>1 DEF ReadSteps
  <2> HIDE DEF Read
  <2> DEFINE h == [s \in SUBSET E |-> IF k \in s THEN Read(g[s \ {k}], k) ELSE g[s]]
             l == [s \in SUBSET E |-> IF s = {} THEN r ELSE Read(h[s \ {Max(s)}], Max(s))]
  <2>3. ASSUME NEW s \in SUBSET E PROVE h[s] = l[s]
    <3>1. CASE k \in s
      <4>1. Max(s) = k
        <5>1. s \subseteq Int /\ \A y \in s : k >= y
          OBVIOUS
        <5> QED BY <3>1, <5>1, MaxIs
      <4>2. s \ {k} \in SUBSET E /\ k \notin s \ {k}
        OBVIOUS
      <4>3. h[s \ {k}] = g[s \ {k}]
        BY <4>2
      <4>4. h[s] = Read(g[s \ {k}], k)
        BY <3>1
      <4> HIDE DEF h
      <4> QED BY <3>1, <4>1, <4>3, <4>4
    <3>2. CASE k \notin s
      <4>1. s \in SUBSET D
        BY <3>2
      <4>2. s \ {Max(s)} \in SUBSET E /\ k \notin s \ {Max(s)}
        BY <3>2
      <4>3. h[s] = g[s] /\ h[s \ {Max(s)}] = g[s \ {Max(s)}]
        BY <3>2, <4>2
      <4> HIDE DEF h
      <4> QED BY <2>2, <4>1, <4>3
    <3> QED BY <3>1, <3>2
  <2>4. h = l
    BY <2>3
  <2>5. h = ReadSteps(h, file, m, f, r, E)
    <3>1. h = [s \in SUBSET E |-> IF s = {} THEN r ELSE Read(h[s \ {Max(s)}], Max(s))]
      BY <2>4
    <3> HIDE DEF h
    <3> QED BY <3>1 DEF ReadSteps, Read
  <2> QED BY <2>5
<1>3. 0 .. n \subseteq B
  <2> HIDE DEF B
  <2> QED BY <1>1, <1>2, StepByStep
<1> QED BY <1>3

(* read_at passes the fragments from the first to the last.                *)
FragmentsPassed(R, file, m, f, k, offset, n, bytes) ==
  /\ R[0] = [skip |-> offset, want |-> n, bytes |-> <<>>]
  /\ \A i \in 1 .. k : R[i] = ReadAtFragment(file, m, R[i - 1], f[i])
  /\ bytes = R[k].bytes

LEMMA ReadAtSteps ==
  ASSUME NEW file, NEW m, NEW s, NEW offset, NEW n,
         NEW k \in Nat, NEW f, f = StreamFragments(m, s), DOMAIN f = 1 .. k
  PROVE  \E R : FragmentsPassed(R, file, m, f, k, offset, n, ReadAt(file, m, s, offset, n))
<1>1. PICK r : r = [skip |-> offset, want |-> n, bytes |-> <<>>]
  OBVIOUS
<1> DEFINE g == CHOOSE h : h = ReadSteps(h, file, m, f, r, 1 .. k)
           R == [i \in 0 .. k |-> g[1 .. i]]
<1>2. ReadAt(file, m, s, offset, n) = g[1 .. k].bytes
  BY <1>1 DEF ReadAt, FoldLeft, MapThenFoldSet, ReadSteps
<1>3. g = ReadSteps(g, file, m, f, r, 1 .. k)
  BY ReadStepsExist
<1> HIDE DEF g
<1>4. \A t \in SUBSET (1 .. k) :
        g[t] = IF t = {} THEN r ELSE ReadAtFragment(file, m, g[t \ {Max(t)}], f[Max(t)])
  BY <1>3 DEF ReadSteps
<1>5. R[0] = r
  <2>1. 1 .. 0 = {} /\ 0 \in 0 .. k
    OBVIOUS
  <2> QED BY <1>4, <2>1
<1>6. ASSUME NEW i \in 1 .. k PROVE R[i] = ReadAtFragment(file, m, R[i - 1], f[i])
  <2> DEFINE t == 1 .. i
  <2>1. t \subseteq 1 .. k /\ i \in t /\ t \ {i} = 1 .. (i - 1) /\ t # {}
    OBVIOUS
  <2>2. Max(t) = i
    <3>1. t \subseteq Int /\ \A y \in t : i >= y
      OBVIOUS
    <3> HIDE DEF t
    <3> QED BY <2>1, <3>1, MaxIs
  <2>3. R[i] = g[t] /\ R[i - 1] = g[1 .. (i - 1)]
    OBVIOUS
  <2> HIDE DEF R, t
  <2> QED BY <1>4, <2>1, <2>2, <2>3
<1>7. R[k] = g[1 .. k]
  OBVIOUS
<1> HIDE DEF R
<1> QED BY <1>1, <1>2, <1>5, <1>6, <1>7 DEF FragmentsPassed

(* A part of a sequence.                                                   *)
LEMMA CutOf ==
  ASSUME NEW S, NEW s \in Seq(S), NEW a \in Nat, NEW b \in Nat, b <= Len(s)
  PROVE  /\ SubSeq(s, a + 1, b) \in Seq(S)
         /\ Len(SubSeq(s, a + 1, b)) = IF a < b THEN b - a ELSE 0
         /\ \A i \in 1 .. (b - a) : SubSeq(s, a + 1, b)[i] = s[a + i]
<1> DEFINE t == SubSeq(s, a + 1, b)
<1>1. \A i \in a + 1 .. b : s[i] \in S
  BY ElementOfSeq, LenProperties
<1>2. a + 1 \in Int /\ b \in Int
  OBVIOUS
<1>3. /\ t \in Seq(S) /\ Len(t) = IF a + 1 <= b THEN b - (a + 1) + 1 ELSE 0
      /\ \A i \in 1 .. (b - (a + 1) + 1) : t[i] = s[(a + 1) + i - 1]
  BY <1>1, <1>2, SubSeqProperties
<1> HIDE DEF t
<1>4. b - (a + 1) + 1 = b - a /\ (a + 1 <= b <=> a < b)
  OBVIOUS
<1>5. ASSUME NEW i \in 1 .. (b - a) PROVE t[i] = s[a + i]
  <2>1. (a + 1) + i - 1 = a + i
    OBVIOUS
  <2> QED BY <1>3, <1>4, <2>1
<1> QED BY <1>3, <1>4, <1>5 DEF t

(* A part of two sequences joined.                                         *)
CutIsJoined(p, d, a, b) ==
  /\ b <= Len(p) => SubSeq(p \o d, a + 1, b) = SubSeq(p, a + 1, b)
  /\ Len(p) <= a /\ a <= b =>
       SubSeq(p \o d, a + 1, b) = SubSeq(d, (a - Len(p)) + 1, b - Len(p))
  /\ a <= Len(p) /\ Len(p) <= b =>
       SubSeq(p \o d, a + 1, b) = SubSeq(p, a + 1, Len(p)) \o SubSeq(d, 1, b - Len(p))

LEMMA CutOfJoined ==
  ASSUME NEW S, NEW p \in Seq(S), NEW d \in Seq(S), NEW a \in Nat, NEW b \in Nat,
         b <= Len(p) + Len(d)
  PROVE  CutIsJoined(p, d, a, b)
<1>0. PICK l \in Nat, z \in Nat : l = Len(p) /\ z = Len(d)
  BY LenProperties
<1>1. PICK q \in Seq(S) : q = p \o d /\ l = Len(p) /\ z = Len(d)
  BY <1>0, ConcatProperties
<1>2. /\ Len(q) = l + z
      /\ \A i \in 1 .. l : q[i] = p[i]
      /\ \A i \in 1 .. z : q[l + i] = d[i]
  <2>1. Len(q) = l + z /\ \A i \in 1 .. l + z : q[i] = IF i <= l THEN p[i] ELSE d[i - l]
    BY <1>1, ConcatProperties
  <2>2. ASSUME NEW i \in 1 .. z PROVE q[l + i] = d[i]
    <3>1. l + i \in 1 .. l + z /\ ~(l + i <= l) /\ (l + i) - l = i
      OBVIOUS
    <3> QED BY <2>1, <3>1
  <2>3. ASSUME NEW i \in 1 .. l PROVE q[i] = p[i]
    <3>1. i \in 1 .. l + z /\ i <= l
      OBVIOUS
    <3> QED BY <2>1, <3>1
  <2> QED BY <2>1, <2>2, <2>3
<1>3. PICK t \in Seq(S) :
        /\ t = SubSeq(q, a + 1, b) /\ Len(t) = IF a < b THEN b - a ELSE 0
        /\ \A i \in 1 .. (b - a) : t[i] = q[a + i]
  <2>1. b <= Len(q)
    BY <1>1, <1>2
  <2>2. /\ SubSeq(q, a + 1, b) \in Seq(S)
        /\ Len(SubSeq(q, a + 1, b)) = IF a < b THEN b - a ELSE 0
        /\ \A i \in 1 .. (b - a) : SubSeq(q, a + 1, b)[i] = q[a + i]
    BY <2>1, CutOf
  <2> QED BY <2>2
<1>4. ASSUME b <= l PROVE t = SubSeq(p, a + 1, b)
  <2>1. PICK u \in Seq(S) :
          /\ u = SubSeq(p, a + 1, b) /\ Len(u) = IF a < b THEN b - a ELSE 0
          /\ \A i \in 1 .. (b - a) : u[i] = p[a + i]
    <3>1. b <= Len(p)
      BY <1>1, <1>4
    <3>2. /\ SubSeq(p, a + 1, b) \in Seq(S)
          /\ Len(SubSeq(p, a + 1, b)) = IF a < b THEN b - a ELSE 0
          /\ \A i \in 1 .. (b - a) : SubSeq(p, a + 1, b)[i] = p[a + i]
      BY <3>1, CutOf
    <3> QED BY <3>2
  <2>2. ASSUME NEW i \in 1 .. Len(t) PROVE t[i] = u[i]
    <3>1. i \in 1 .. (b - a) /\ a + i \in 1 .. l
      BY <1>3, <1>4
    <3> QED BY <1>2, <1>3, <2>1, <3>1
  <2>3. t = u
    BY <1>3, <2>1, <2>2, SeqEqual
  <2> QED BY <2>1, <2>3
<1>5. ASSUME l <= a, a <= b PROVE t = SubSeq(d, (a - l) + 1, b - l)
  <2>1. PICK a1 \in Nat, b1 \in Nat : a1 = a - l /\ b1 = b - l
    BY <1>5
  <2>2. b1 <= z /\ b1 - a1 = b - a /\ (a1 < b1 <=> a < b)
    BY <1>1, <2>1
  <2>3. PICK u \in Seq(S) :
          /\ u = SubSeq(d, a1 + 1, b1) /\ Len(u) = IF a1 < b1 THEN b1 - a1 ELSE 0
          /\ \A i \in 1 .. (b1 - a1) : u[i] = d[a1 + i]
    <3>1. b1 <= Len(d)
      BY <1>1, <2>2
    <3>2. /\ SubSeq(d, a1 + 1, b1) \in Seq(S)
          /\ Len(SubSeq(d, a1 + 1, b1)) = IF a1 < b1 THEN b1 - a1 ELSE 0
          /\ \A i \in 1 .. (b1 - a1) : SubSeq(d, a1 + 1, b1)[i] = d[a1 + i]
      BY <3>1, CutOf
    <3> QED BY <3>2
  <2>4. ASSUME NEW i \in 1 .. Len(t) PROVE t[i] = u[i]
    <3>1. i \in 1 .. (b - a) /\ i \in 1 .. (b1 - a1) /\ a1 + i \in 1 .. z /\ l + (a1 + i) = a + i
      BY <1>3, <2>1, <2>2
    <3>2. q[l + (a1 + i)] = d[a1 + i]
      BY <1>2, <3>1
    <3> QED BY <1>3, <2>3, <3>1, <3>2
  <2>5. Len(t) = Len(u)
    BY <1>3, <2>2, <2>3
  <2>6. t = u
    BY <2>4, <2>5, SeqEqual
  <2> QED BY <2>1, <2>3, <2>6
<1>6. ASSUME a <= l, l <= b PROVE t = SubSeq(p, a + 1, l) \o SubSeq(d, 1, b - l)
  <2>0. PICK n \in Nat, k \in Nat : n = l - a /\ k = b - l
    BY <1>6
  <2>1. n = l - a /\ k = b - l /\ k <= z /\ n + k = b - a
    BY <1>1, <2>0
  <2>2. PICK u \in Seq(S) :
          /\ u = SubSeq(p, a + 1, l) /\ Len(u) = n /\ \A i \in 1 .. n : u[i] = p[a + i]
    <3>1. l - a = n /\ (IF a < l THEN l - a ELSE 0) = n /\ l <= Len(p)
      BY <1>1, <1>6, <2>1
    <3>2. /\ SubSeq(p, a + 1, l) \in Seq(S)
          /\ Len(SubSeq(p, a + 1, l)) = IF a < l THEN l - a ELSE 0
          /\ \A i \in 1 .. (l - a) : SubSeq(p, a + 1, l)[i] = p[a + i]
      BY <3>1, CutOf
    <3> QED BY <3>1, <3>2
  <2>3. PICK v \in Seq(S) :
          /\ v = SubSeq(d, 0 + 1, k) /\ Len(v) = k /\ \A i \in 1 .. k : v[i] = d[i]
    <3>1. /\ SubSeq(d, 0 + 1, k) \in Seq(S)
          /\ Len(SubSeq(d, 0 + 1, k)) = IF 0 < k THEN k - 0 ELSE 0
          /\ \A i \in 1 .. (k - 0) : SubSeq(d, 0 + 1, k)[i] = d[0 + i]
      <4>1. k <= Len(d) /\ 0 \in Nat
        BY <1>1, <2>1
      <4> QED BY <4>1, CutOf
    <3>2. (IF 0 < k THEN k - 0 ELSE 0) = k /\ k - 0 = k /\ \A i \in 1 .. k : 0 + i = i
      OBVIOUS
    <3> QED BY <3>1, <3>2
  <2>4. PICK w \in Seq(S) : /\ w = u \o v /\ Len(w) = n + k
                            /\ \A i \in 1 .. n + k : w[i] = IF i <= n THEN u[i] ELSE v[i - n]
    <3>1. Len(u) = n /\ Len(v) = k
      BY <2>2, <2>3
    <3>2. /\ u \o v \in Seq(S) /\ Len(u \o v) = Len(u) + Len(v)
          /\ \A i \in 1 .. Len(u) + Len(v) : (u \o v)[i] = IF i <= Len(u) THEN u[i] ELSE v[i - Len(u)]
      BY ConcatProperties
    <3> QED BY <3>1, <3>2
  <2>5. Len(t) = n + k
    BY <1>3, <1>6, <2>1
  <2>6. ASSUME NEW i \in 1 .. n + k PROVE t[i] = w[i]
    <3>0. t[i] = q[a + i]
      BY <1>3, <2>1
    <3>1. CASE i <= n
      <4>1. a + i \in 1 .. l /\ i \in 1 .. n
        BY <2>1, <3>1
      <4> QED BY <1>2, <2>2, <2>4, <3>0, <3>1, <4>1
    <3>2. CASE ~(i <= n)
      <4>1. i - n \in 1 .. k /\ i - n \in 1 .. z /\ a + i = l + (i - n)
        BY <2>1, <3>2
      <4>2. q[l + (i - n)] = d[i - n]
        BY <1>2, <4>1
      <4> QED BY <2>3, <2>4, <3>0, <3>2, <4>1, <4>2
    <3> QED BY <3>1, <3>2
  <2>7. t = w
    BY <2>4, <2>5, <2>6, SeqEqual
  <2> QED BY <2>1, <2>2, <2>3, <2>4, <2>7
<1> QED BY <1>1, <1>3, <1>4, <1>5, <1>6 DEF CutIsJoined

(* Two parts that were read.                                               *)
LEMMA JoinedPair ==
  ASSUME NEW a \in Seq(ByteCells), NEW b \in Seq(ByteCells)
  PROVE  Joined(<<a, b>>) = a \o b
<1>1. PICK parts \in Seq(Seq(ByteCells)) :
        parts = <<a, b>> /\ Len(parts) = 2 /\ DOMAIN parts = 1 .. 2 /\ parts[1] = a /\ parts[2] = b
  <2>1. <<a, b>> \in Seq(Seq(ByteCells)) /\ Len(<<a, b>>) = 2 /\ DOMAIN <<a, b>> = 1 .. 2
    OBVIOUS
  <2>2. <<a, b>>[1] = a /\ <<a, b>>[2] = b
    OBVIOUS
  <2> QED BY <2>1, <2>2
<1>2. PICK P \in [0 .. Len(parts) -> Seq(ByteCells)] :
           /\ P[0] = <<>>
           /\ \A i \in 1 .. Len(parts) : P[i] = P[i - 1] \o parts[i]
           /\ FlattenSeq(parts) = P[Len(parts)]
  BY FlattenPrefixes
<1>3. P[1] = <<>> \o a /\ P[2] = P[1] \o b
  <2>1. 1 \in 1 .. Len(parts) /\ 2 \in 1 .. Len(parts) /\ 1 - 1 = 0 /\ 2 - 1 = 1
    BY <1>1
  <2>2. P[1] = P[1 - 1] \o parts[1] /\ P[2] = P[2 - 1] \o parts[2]
    BY <1>2, <2>1
  <2> QED BY <1>1, <1>2, <2>1, <2>2
<1>4. <<>> \o a = a
  BY ConcatEmptySeq
<1>5. FlattenSeq(parts) = a \o b
  BY <1>1, <1>2, <1>3, <1>4
<1>6. a # Error /\ b # Error
  BY MsfzValuesAssumption
<1>7. ~ \E i \in DOMAIN parts : parts[i] = Error
  BY <1>1, <1>6
<1> QED BY <1>1, <1>5, <1>7 DEF Joined

(* What read_at has done of n bytes at an offset when it has passed the    *)
(* fragments whose bytes are p.                                            *)
ReadSoFar(r, p, offset, n) ==
  LET end == IF offset + n < Len(p) THEN offset + n ELSE Len(p)
  IN /\ r = [skip |-> r.skip, want |-> r.want, bytes |-> r.bytes]
     /\ r.bytes = SubSeq(p, offset + 1, end)
     /\ r.want = IF Len(p) <= offset THEN n
                 ELSE IF offset + n <= Len(p) THEN 0 ELSE offset + n - Len(p)
     /\ r.want # 0 => r.skip = IF Len(p) <= offset THEN offset - Len(p) ELSE 0

(* Every part of the fragment x that is asked for is that part of d.       *)
ReadsAs(file, m, x, d) ==
  /\ Len(d) = x.size
  /\ \A skip, k \in Nat :
       skip + k <= x.size => ReadFragment(file, m, x, skip, k) = SubSeq(d, skip + 1, skip + k)

LEMMA FragmentReadOn ==
  ASSUME NEW file, NEW m, NEW x, NEW p \in Seq(ByteCells), NEW d \in Seq(ByteCells),
         ReadsAs(file, m, x, d), NEW offset \in Nat, NEW n \in Nat,
         NEW r, ReadSoFar(r, p, offset, n)
  PROVE  ReadSoFar(ReadAtFragment(file, m, r, x), p \o d, offset, n)
<1>1. PICK l \in Nat, z \in Nat : l = Len(p) /\ z = Len(d)
  BY LenProperties
<1>2. PICK q \in Seq(ByteCells) : q = p \o d /\ Len(q) = l + z
  BY <1>1, ConcatProperties
<1>3. PICK w \in Nat : /\ w = r.want
                       /\ w = IF l <= offset THEN n ELSE IF offset + n <= l THEN 0 ELSE offset + n - l
  BY <1>1 DEF ReadSoFar
<1>4. PICK e \in Nat, b \in Nat :
        /\ e = IF offset + n < l THEN offset + n ELSE l
        /\ b = IF offset + n < l + z THEN offset + n ELSE l + z
  OBVIOUS
<1>5. r.bytes = SubSeq(p, offset + 1, e) /\ r = [skip |-> r.skip, want |-> w, bytes |-> r.bytes]
  BY <1>1, <1>3, <1>4 DEF ReadSoFar
<1>6. x.size = z
  BY <1>1 DEF ReadsAs
<1>7. PICK t : t = ReadAtFragment(file, m, r, x)
  OBVIOUS
<1>8. SUFFICES
        /\ t = [skip |-> t.skip, want |-> t.want, bytes |-> t.bytes]
        /\ t.bytes = SubSeq(q, offset + 1, b)
        /\ t.want = IF l + z <= offset THEN n
                    ELSE IF offset + n <= l + z THEN 0 ELSE offset + n - (l + z)
        /\ t.want # 0 => t.skip = IF l + z <= offset THEN offset - (l + z) ELSE 0
  BY <1>2, <1>4, <1>7 DEF ReadSoFar
<1>9. /\ b <= Len(p) => SubSeq(q, offset + 1, b) = SubSeq(p, offset + 1, b)
      /\ Len(p) <= offset /\ offset <= b =>
           SubSeq(q, offset + 1, b) = SubSeq(d, (offset - Len(p)) + 1, b - Len(p))
      /\ offset <= Len(p) /\ Len(p) <= b =>
           SubSeq(q, offset + 1, b) = SubSeq(p, offset + 1, Len(p)) \o SubSeq(d, 1, b - Len(p))
  <2>1. b <= Len(p) + Len(d)
    BY <1>1, <1>4
  <2>2. CutIsJoined(p, d, offset, b)
    BY <2>1, CutOfJoined
  <2> QED BY <1>2, <2>2 DEF CutIsJoined
<1>10. CASE w = 0
  <2>1. t = r
    BY <1>3, <1>7, <1>10 DEF ReadAtFragment
  <2>2. n = 0 \/ (~(l <= offset) /\ offset + n <= l)
    BY <1>3, <1>10
  <2>3. SubSeq(p, offset + 1, e) = SubSeq(q, offset + 1, b)
    <3>1. CASE ~(l <= offset) /\ offset + n <= l
      <4>1. e = b /\ b <= Len(p)
        BY <1>1, <1>4, <3>1
      <4> QED BY <1>9, <4>1
    <3>2. CASE n = 0
      <4>1. e < offset + 1 /\ b < offset + 1
        BY <1>4, <3>2
      <4>2. SubSeq(p, offset + 1, e) = <<>> /\ SubSeq(q, offset + 1, b) = <<>>
        BY <4>1, SubSeqEmpty
      <4> QED BY <4>2
    <3> QED BY <2>2, <3>1, <3>2
  <2>4. (IF l + z <= offset THEN n ELSE IF offset + n <= l + z THEN 0 ELSE offset + n - (l + z)) = 0
    BY <2>2
  <2> QED BY <1>3, <1>5, <1>10, <2>1, <2>3, <2>4
<1>11. CASE w # 0
  <2>1. PICK skip \in Nat : skip = r.skip /\ skip = IF l <= offset THEN offset - l ELSE 0
    BY <1>1, <1>3, <1>11 DEF ReadSoFar
  <2>2. n # 0 /\ (l <= offset \/ (~(l <= offset) /\ ~(offset + n <= l) /\ w = offset + n - l))
    BY <1>3, <1>11
  <2>3. CASE skip >= z
    <3>1. t = [r EXCEPT !.skip = skip - z]
      BY <1>3, <1>6, <1>7, <1>11, <2>1, <2>3 DEF ReadAtFragment
    <3>2. t = [skip |-> skip - z, want |-> w, bytes |-> r.bytes]
      <4>1. PICK bytes : bytes = r.bytes
        OBVIOUS
      <4>2. r = [skip |-> skip, want |-> w, bytes |-> bytes]
        BY <1>5, <2>1, <4>1
      <4>3. [r EXCEPT !.skip = skip - z] = [skip |-> skip - z, want |-> w, bytes |-> bytes]
        BY ONLY <4>2
      <4> QED BY <3>1, <4>1, <4>3
    <3>3. CASE l <= offset
      <4>1. l + z <= offset /\ skip - z = offset - (l + z) /\ w = n
        BY <1>3, <2>1, <2>3, <3>3
      <4>2. e < offset + 1 /\ b < offset + 1
        BY <1>4, <4>1
      <4>3. SubSeq(p, offset + 1, e) = <<>> /\ SubSeq(q, offset + 1, b) = <<>>
        BY <4>2, SubSeqEmpty
      <4> QED BY <1>5, <3>2, <4>1, <4>3
    <3>4. CASE ~(l <= offset)
      <4>1. z = 0 /\ skip = 0 /\ e = l /\ b = l
        BY <1>4, <2>1, <2>2, <2>3, <3>4
      <4>2. SubSeq(q, offset + 1, b) = SubSeq(p, offset + 1, b)
        BY <1>1, <1>9, <4>1
      <4>3. l + z = l /\ skip - z = 0 /\ w = offset + n - l /\ ~(offset + n <= l)
        BY <2>2, <3>4, <4>1
      <4> QED BY <1>5, <3>2, <3>4, <4>1, <4>2, <4>3
    <3> QED BY <3>3, <3>4
  <2>4. CASE ~(skip >= z)
    <3>1. PICK k \in Nat : k = IF w <= z - skip THEN w ELSE z - skip
      <4>1. z - skip \in Nat
        BY <2>4
      <4> QED BY <4>1
    <3>2. /\ skip + k <= z /\ skip + k = b - l
          /\ (IF l + z <= offset THEN n ELSE IF offset + n <= l + z THEN 0 ELSE offset + n - (l + z))
               = w - k
          /\ ~(l + z <= offset) /\ l <= b /\ e <= l
      <4>1. CASE l <= offset
        BY <1>3, <1>4, <2>1, <2>2, <2>4, <3>1, <4>1
      <4>2. CASE ~(l <= offset)
        BY <1>3, <1>4, <2>1, <2>2, <2>4, <3>1, <4>2
      <4> QED BY <4>1, <4>2
    <3>3. PICK c \in Seq(ByteCells) :
            c = SubSeq(d, skip + 1, skip + k) /\ c = ReadFragment(file, m, x, skip, k)
      <4>1. ReadFragment(file, m, x, skip, k) = SubSeq(d, skip + 1, skip + k)
        BY <1>6, <3>2 DEF ReadsAs
      <4>2. skip + k <= Len(d) /\ skip + k \in Nat
        BY <1>1, <3>2
      <4>3. SubSeq(d, skip + 1, skip + k) \in Seq(ByteCells)
        BY <4>2, CutOf
      <4> QED BY <4>1, <4>3
    <3>4. t = [skip |-> 0, want |-> w - k, bytes |-> Joined(<<r.bytes, c>>)]
      BY <1>3, <1>6, <1>7, <1>11, <2>1, <2>4, <3>1, <3>3 DEF ReadAtFragment
    <3>5. r.bytes \in Seq(ByteCells)
      <4>1. e <= Len(p)
        BY <1>1, <3>2
      <4>2. SubSeq(p, offset + 1, e) \in Seq(ByteCells)
        BY <4>1, CutOf
      <4> QED BY <1>5, <4>2
    <3>6. Joined(<<r.bytes, c>>) = r.bytes \o c
      BY <3>5, JoinedPair
    <3>7. r.bytes \o c = SubSeq(q, offset + 1, b)
      <4>1. CASE l <= offset
        <5>1. skip = offset - Len(p) /\ skip + k = b - Len(p) /\ Len(p) <= offset /\ offset <= b
          BY <1>1, <2>1, <3>2, <4>1
        <5>2. SubSeq(q, offset + 1, b) = c
          BY <1>9, <3>3, <5>1
        <5>3. SubSeq(p, offset + 1, e) = <<>>
          <6>1. e < offset + 1
            BY <3>2, <4>1
          <6> QED BY <6>1, SubSeqEmpty
        <5>4. <<>> \o c = c
          BY ConcatEmptySeq
        <5> QED BY <1>5, <5>2, <5>3, <5>4
      <4>2. CASE ~(l <= offset)
        <5>1. skip = 0 /\ skip + 1 = 1 /\ skip + k = b - Len(p) /\ offset <= Len(p) /\ Len(p) <= b
              /\ e = Len(p)
          BY <1>1, <1>4, <2>1, <2>2, <3>2, <4>2
        <5> QED BY <1>5, <1>9, <3>3, <5>1
      <4> QED BY <4>1, <4>2
    <3> QED BY <3>2, <3>4, <3>6, <3>7
  <2> QED BY <2>3, <2>4
<1> QED BY <1>10, <1>11

(* A stream whose fragments read as the sequences D: read_stream joins     *)
(* them, and read_at cuts the join.                                        *)
PartsReadAs(file, m, f, D) ==
  /\ D \in Seq(Seq(ByteCells)) /\ Len(D) = Len(f)
  /\ \A i \in 1 .. Len(f) : ReadsAs(file, m, f[i], D[i])

LEMMA WholeStreamRead ==
  ASSUME NEW file, NEW m, NEW s, NEW f \in Seq(Fragments), f = StreamFragments(m, s),
         NEW D, PartsReadAs(file, m, f, D)
  PROVE  ReadStream(file, m, s) = FlattenSeq(D)
<1>1. PICK k \in Nat : k = Len(f) /\ DOMAIN f = 1 .. k
  BY LenProperties
<1>2. D \in Seq(Seq(ByteCells)) /\ Len(D) = k /\ DOMAIN D = 1 .. k
      /\ \A i \in 1 .. k : ReadsAs(file, m, f[i], D[i])
  BY <1>1, LenProperties DEF PartsReadAs
<1>3. ASSUME NEW i \in 1 .. k
      PROVE  ReadFragment(file, m, f[i], 0, f[i].size) = D[i] /\ D[i] # Error
  <2>1. D[i] \in Seq(ByteCells)
    BY <1>2, ElementOfSeq
  <2>2. f[i] \in Fragments
    BY <1>1, ElementOfSeq
  <2>3. f[i].size \in Nat
    BY <2>2, FragmentForms
  <2>4. PICK z \in Nat : z = f[i].size /\ z = Len(D[i])
    BY <1>2, <2>3 DEF ReadsAs
  <2>5. 0 + z <= z
    OBVIOUS
  <2>6. ReadFragment(file, m, f[i], 0, z) = SubSeq(D[i], 0 + 1, 0 + z)
    <3>1. ReadsAs(file, m, f[i], D[i]) /\ 0 \in Nat /\ 0 + z <= f[i].size
      BY <1>2, <2>4, <2>5
    <3> QED BY ONLY <3>1, z \in Nat DEF ReadsAs
  <2>7. SubSeq(D[i], 1, Len(D[i])) = D[i]
    BY <2>1, SubSeqFull
  <2>8. 0 + 1 = 1 /\ 0 + z = z
    OBVIOUS
  <2> QED BY <2>1, <2>4, <2>6, <2>7, <2>8, MsfzValuesAssumption
<1>4. [i \in DOMAIN f |-> ReadFragment(file, m, f[i], 0, f[i].size)] = D
  <2>1. D = [i \in 1 .. k |-> D[i]]
    BY <1>2
  <2>2. [i \in 1 .. k |-> ReadFragment(file, m, f[i], 0, f[i].size)] = [i \in 1 .. k |-> D[i]]
    BY <1>3
  <2> QED BY <1>1, <2>1, <2>2
<1>5. ReadStream(file, m, s) = Joined(D)
  BY <1>4 DEF ReadStream
<1>6. ~ \E i \in DOMAIN D : D[i] = Error
  BY <1>2, <1>3
<1> QED BY <1>5, <1>6 DEF Joined

(* n bytes at an offset, of a stream with these bytes.                     *)
ReadsPart(file, m, s, bytes, offset, n) ==
  /\ StreamSize(m, s) = Len(bytes)
  /\ ReadAt(file, m, s, offset, n)
       = SubSeq(bytes, offset + 1, IF offset + n < Len(bytes) THEN offset + n ELSE Len(bytes))

LEMMA PartOfStreamRead ==
  ASSUME NEW file, NEW m, NEW s, NEW f \in Seq(Fragments), f = StreamFragments(m, s),
         NEW D, PartsReadAs(file, m, f, D), NEW offset \in Nat, NEW n \in Nat
  PROVE  ReadsPart(file, m, s, FlattenSeq(D), offset, n)
<1>1. PICK k \in Nat : k = Len(f) /\ DOMAIN f = 1 .. k
  BY LenProperties
<1>2. D \in Seq(Seq(ByteCells)) /\ Len(D) = k
      /\ \A i \in 1 .. k : ReadsAs(file, m, f[i], D[i]) /\ D[i] \in Seq(ByteCells)
  BY <1>1, ElementOfSeq DEF PartsReadAs
<1>3. PICK P \in [0 .. k -> Seq(ByteCells)] :
           /\ P[0] = <<>>
           /\ \A i \in 1 .. k : P[i] = P[i - 1] \o D[i]
           /\ FlattenSeq(D) = P[k]
  <2>1. \E P \in [0 .. Len(D) -> Seq(ByteCells)] :
           /\ P[0] = <<>>
           /\ \A i \in 1 .. Len(D) : P[i] = P[i - 1] \o D[i]
           /\ FlattenSeq(D) = P[Len(D)]
    BY <1>2, FlattenPrefixes
  <2> QED BY <1>2, <2>1
<1>4. \A i \in 1 .. k : P[i - 1] \in Seq(ByteCells)
  <2>1. \A i \in 1 .. k : i - 1 \in 0 .. k
    OBVIOUS
  <2> QED BY <2>1
<1>5. StreamSize(m, s) = Len(P[k])
  <2>1. PICK Q \in [0 .. Len(f) -> Nat] :
           /\ Q[0] = 0
           /\ \A i \in 1 .. Len(f) : Q[i] = Q[i - 1] + f[i].size
           /\ FragmentsSize(f) = Q[Len(f)]
    BY SizeSums
  <2> DEFINE L == [i \in 0 .. k |-> Len(P[i])]
  <2>2. L[0] = Q[0]
    BY <1>3, <2>1
  <2>3. ASSUME NEW i \in 1 .. k, L[i - 1] = Q[i - 1] PROVE L[i] = Q[i]
    <3>1. L[i] = Len(P[i]) /\ L[i - 1] = Len(P[i - 1])
      OBVIOUS
    <3>2. Len(P[i]) = Len(P[i - 1]) + Len(D[i])
      <4>1. Len(P[i - 1] \o D[i]) = Len(P[i - 1]) + Len(D[i])
        BY <1>2, <1>4, ConcatProperties
      <4> QED BY <1>3, <4>1
    <3>3. Len(D[i]) = f[i].size
      BY <1>2 DEF ReadsAs
    <3>4. Q[i] = Q[i - 1] + f[i].size
      BY <1>1, <2>1
    <3> HIDE DEF L
    <3> QED BY <2>3, <3>1, <3>2, <3>3, <3>4
  <2>4. L[k] = Q[k]
    <3> HIDE DEF L
    <3> QED BY <2>2, <2>3, SameByStep
  <2>5. StreamSize(m, s) = FragmentsSize(f)
    BY DEF StreamSize, FragmentsSize
  <2>6. L[k] = Len(P[k])
    OBVIOUS
  <2> HIDE DEF L
  <2> QED BY <1>1, <2>1, <2>4, <2>5, <2>6
<1>6. PICK R :
        /\ R[0] = [skip |-> offset, want |-> n, bytes |-> <<>>]
        /\ \A i \in 1 .. k : R[i] = ReadAtFragment(file, m, R[i - 1], f[i])
        /\ ReadAt(file, m, s, offset, n) = R[k].bytes
  <2>1. \E R : FragmentsPassed(R, file, m, f, k, offset, n, ReadAt(file, m, s, offset, n))
    BY <1>1, ReadAtSteps
  <2> QED BY <2>1 DEF FragmentsPassed
<1> DEFINE B == {i \in 0 .. k : ReadSoFar(R[i], P[i], offset, n)}
<1>7. 0 \in B
  <2>1. ReadSoFar([skip |-> offset, want |-> n, bytes |-> <<>>], <<>>, offset, n)
    <3>1. Len(<<>>) = 0 /\ ~(offset + n < 0) /\ 0 <= offset /\ offset - 0 = offset
      OBVIOUS
    <3>2. SubSeq(<<>>, offset + 1, 0) = <<>>
      <4>1. 0 < offset + 1
        OBVIOUS
      <4> QED BY <4>1, SubSeqEmpty
    <3>3. PICK r : r = [skip |-> offset, want |-> n, bytes |-> <<>>]
      OBVIOUS
    <3>4. r.skip = offset /\ r.want = n /\ r.bytes = <<>>
          /\ r = [skip |-> r.skip, want |-> r.want, bytes |-> r.bytes]
      BY <3>3
    <3>5. ReadSoFar(r, <<>>, offset, n)
      BY <3>1, <3>2, <3>4 DEF ReadSoFar
    <3> QED BY <3>3, <3>5
  <2> QED BY <1>3, <1>6, <2>1
<1>8. ASSUME NEW i \in 1 .. k, i - 1 \in B PROVE i \in B
  <2>1. ReadSoFar(R[i - 1], P[i - 1], offset, n)
    BY <1>8
  <2>2. P[i - 1] \in Seq(ByteCells) /\ D[i] \in Seq(ByteCells) /\ ReadsAs(file, m, f[i], D[i])
    BY <1>2, <1>4
  <2>3. ReadSoFar(ReadAtFragment(file, m, R[i - 1], f[i]), P[i - 1] \o D[i], offset, n)
    BY <2>1, <2>2, FragmentReadOn
  <2>4. R[i] = ReadAtFragment(file, m, R[i - 1], f[i])
    BY <1>6, Zenon
  <2>5. P[i] = P[i - 1] \o D[i]
    BY <1>3, Zenon
  <2>6. i \in 0 .. k
    OBVIOUS
  <2> QED BY <2>3, <2>4, <2>5, <2>6
<1>9. k \in B
  <2>1. 0 .. k \subseteq B
    <3> HIDE DEF B
    <3> QED BY <1>7, <1>8, StepByStep
  <2>2. k \in 0 .. k
    OBVIOUS
  <2> HIDE DEF B
  <2> QED BY <2>1, <2>2
<1>10. R[k].bytes
         = SubSeq(P[k], offset + 1, IF offset + n < Len(P[k]) THEN offset + n ELSE Len(P[k]))
  BY <1>9 DEF ReadSoFar
<1> QED BY <1>3, <1>5, <1>6, <1>10 DEF ReadsPart

(* A part of a part.                                                       *)
LEMMA CutOfCut ==
  ASSUME NEW file, NEW o \in Nat, NEW n \in Nat, \A i \in 1 .. n : file[o + i] \in ByteCells,
         NEW skip \in Nat, NEW k \in Nat, skip + k <= n
  PROVE  SubSeq(file, (o + skip) + 1, (o + skip) + k)
           = SubSeq(SubSeq(file, o + 1, o + n), skip + 1, skip + k)
<1>1. PICK d \in Seq(ByteCells) :
        d = SubSeq(file, o + 1, o + n) /\ Len(d) = n /\ \A i \in 1 .. n : d[i] = file[o + i]
  BY CellsRead
<1>2. \A i \in 1 .. k : /\ file[(o + skip) + i] \in ByteCells /\ d[skip + i] \in ByteCells
                        /\ file[(o + skip) + i] = d[skip + i]
  <2> TAKE i \in 1 .. k
  <2>1. skip + i \in 1 .. n /\ (o + skip) + i = o + (skip + i)
    OBVIOUS
  <2> QED BY <1>1, <2>1
<1>3. PICK p \in Nat : p = o + skip
  OBVIOUS
<1>4. PICK u \in Seq(ByteCells) :
        u = SubSeq(file, p + 1, p + k) /\ Len(u) = k /\ \A i \in 1 .. k : u[i] = file[p + i]
  <2>1. \A i \in 1 .. k : file[p + i] \in ByteCells
    BY <1>2, <1>3
  <2> QED BY <2>1, CellsRead
<1>5. PICK v \in Seq(ByteCells) :
        v = SubSeq(d, skip + 1, skip + k) /\ Len(v) = k /\ \A i \in 1 .. k : v[i] = d[skip + i]
  <2>1. \A i \in 1 .. k : d[skip + i] \in ByteCells
    BY <1>2
  <2> QED BY <2>1, CellsRead
<1>6. u = v
  <2>1. \A i \in 1 .. k : u[i] = v[i]
    BY <1>2, <1>3, <1>4, <1>5
  <2> QED BY <1>4, <1>5, <2>1, SeqEqual
<1> QED BY <1>1, <1>3, <1>4, <1>5, <1>6

(* A fragment that is stored, and not in the chunk in memory, reads as     *)
(* FragmentBytes, in parts too.                                            *)
LEMMA StoredReads ==
  ASSUME DiskTyped, NEW x \in Fragments, Fragment(x), Stored(x), ~PendingChunk(x),
         NEW m, m.chunkTable = chunks
  PROVE  ReadsAs(out, m, x, FragmentBytes(x)) /\ FragmentBytes(x) \in Seq(ByteCells)
<1>1. FragmentBytes(x) \in Seq(ByteCells) /\ Len(FragmentBytes(x)) = x.size
  BY BytesOfFragment
<1>2. PICK z \in Nat : z = x.size
  BY FragmentForms
<1>3. ASSUME NEW skip \in Nat, NEW k \in Nat, skip + k <= z
      PROVE  ReadFragment(out, m, x, skip, k) = SubSeq(FragmentBytes(x), skip + 1, skip + k)
  <2>1. CASE IsCompressed(x.location)
    <3>1. InChunk(x)
      BY <2>1, WhereBytesAre
    <3>2. PICK i \in Nat, o \in Nat : i = x.location[2] /\ o = x.location[3] /\ i # Len(chunks)
      BY <2>1, FragmentForms DEF PendingChunk
    <3>3. PICK c \in Seq(ByteCells) :
            /\ c = ChunkOf(i + 1) /\ o + z <= Len(c)
            /\ FragmentBytes(x) = ReadExact(c, o, z)
      BY <1>2, <3>1, <3>2 DEF InChunk, ChunkData
    <3>4. PICK l \in Nat : l = Len(c)
      BY LenProperties
    <3>5. ReadFragment(out, m, x, skip, k) = ReadExact(c, o + skip, k)
      <4>1. c # Error
        BY MsfzValuesAssumption
      <4>2. LoadChunkData(out, m.chunkTable[x.location[2] + 1]) = c
        BY <3>2, <3>3 DEF ChunkOf
      <4> QED BY <2>1, <3>2, <4>1, <4>2 DEF ReadFragment, GetChunkSlice
    <3>6. (o + skip) + k <= l /\ o + z <= l
      BY <1>3, <3>3, <3>4
    <3>7. ReadExact(c, o + skip, k) = SubSeq(c, (o + skip) + 1, (o + skip) + k)
      BY <3>4, <3>6 DEF ReadExact
    <3>8. FragmentBytes(x) = SubSeq(c, o + 1, o + z)
      BY <3>3, <3>4, <3>6 DEF ReadExact
    <3>9. \A j \in 1 .. z : c[o + j] \in ByteCells
      <4>1. \A j \in 1 .. z : o + j \in 1 .. l
        BY <3>6
      <4> QED BY <3>4, <4>1, ElementOfSeq
    <3>10. SubSeq(c, (o + skip) + 1, (o + skip) + k)
             = SubSeq(SubSeq(c, o + 1, o + z), skip + 1, skip + k)
      BY <1>3, <3>9, CutOfCut
    <3> QED BY <3>5, <3>7, <3>8, <3>10
  <2>2. CASE ~IsCompressed(x.location)
    <3>1. InFile(x)
      BY <2>2, WhereBytesAre
    <3>2. PICK o \in Nat : o = x.location[2]
      BY <2>2, FragmentForms
    <3>3. o + z <= Len(out) /\ \A j \in 1 .. z : out[o + j] \in ByteCells
      BY <1>2, <2>2, <3>2 DEF Stored, Kept
    <3>4. PICK l \in Nat : l = Len(out)
      BY SeqFacts DEF DiskTyped
    <3>5. ReadFragment(out, m, x, skip, k) = ReadExact(out, o + skip, k)
      BY <2>2, <3>2 DEF ReadFragment
    <3>6. (o + skip) + k <= l /\ o + z <= l
      BY <1>3, <3>3, <3>4
    <3>7. ReadExact(out, o + skip, k) = SubSeq(out, (o + skip) + 1, (o + skip) + k)
      BY <3>4, <3>6 DEF ReadExact
    <3>8. FragmentBytes(x) = SubSeq(out, o + 1, o + z)
      BY <1>2, <3>1, <3>2, <3>4, <3>6 DEF InFile, ReadExact
    <3>10. SubSeq(out, (o + skip) + 1, (o + skip) + k)
             = SubSeq(SubSeq(out, o + 1, o + z), skip + 1, skip + k)
      BY <1>3, <3>3, CutOfCut
    <3> QED BY <3>5, <3>7, <3>8, <3>10
  <2> QED BY <2>1, <2>2
<1> QED BY <1>1, <1>2, <1>3 DEF ReadsAs

(* A part of a stream of the file is that part of the stream.              *)
StreamReadInParts(file, m, s) ==
  LET bytes == ReadStream(file, m, s)
  IN /\ StreamSize(m, s) = Len(bytes)
     /\ \A offset \in 0 .. Len(bytes) : \A n \in 0 .. NilSize :
          ReadsPart(file, m, s, bytes, offset, n)

LEMMA PartsOfStreamRead ==
  ASSUME NEW file, NEW m, NEW s, NEW f \in Seq(Fragments), f = StreamFragments(m, s),
         NEW D, PartsReadAs(file, m, f, D)
  PROVE  StreamReadInParts(file, m, s)
<1>1. PICK bytes \in Seq(ByteCells) : bytes = FlattenSeq(D) /\ bytes = ReadStream(file, m, s)
  <2>1. ReadStream(file, m, s) = FlattenSeq(D)
    BY WholeStreamRead
  <2>2. D \in Seq(Seq(ByteCells))
    BY DEF PartsReadAs
  <2>3. FlattenSeq(D) \in Seq(ByteCells)
    BY <2>2, FlattenIsSeq
  <2> QED BY <2>1, <2>3
<1>2. PICK l \in Nat : l = Len(bytes)
  BY LenProperties
<1>3. ASSUME NEW offset \in Nat, NEW n \in Nat
      PROVE  ReadsPart(file, m, s, bytes, offset, n)
  BY <1>1, PartOfStreamRead
<1>4. StreamSize(m, s) = l
  <2>1. 0 \in Nat
    OBVIOUS
  <2> QED BY <1>2, <1>3, <2>1 DEF ReadsPart
<1>5. 0 .. l \subseteq Nat /\ 0 .. NilSize \subseteq Nat
  BY MsfzReaderAssumption
<1> QED BY <1>1, <1>2, <1>3, <1>4, <1>5 DEF StreamReadInParts

LEMMA InvReadAtAgrees ==
  ASSUME ReadInv, ~AnyCalls
  PROVE  ReadAtAgrees
<1> USE DEF ReadInv, MsfzInv
<1>1. CASE stage \in Unpublished
  <2>1. out[1] = Zero
    BY <1>1 DEF InStage
  <2>2. out[1][1] # "header"
    BY <2>1 DEF Zero
  <2> QED BY <2>2 DEF FromFile, ReadAtAgrees
<1>2. CASE stage \notin Unpublished
  <2>1. PICK n \in Nat : n = Cardinality(DOMAIN streams)
    BY StreamsDomain
  <2>2. PICK m : m = FromFile(out) /\ m = Directory(Decoded(n), n) /\ m # Error
    BY <1>2, <2>1, FileOpens
  <2>3. /\ NumStreams(m) = n /\ m.chunkTable = chunks
        /\ DOMAIN streams = 0 .. n - 1
        /\ \A s \in 0 .. n - 1 :
             /\ IsNilStream(m, s) <=> streams[s] = Nil
             /\ StreamFragments(m, s) = IF streams[s] = Nil THEN <<>> ELSE streams[s]
    BY <2>1, <2>2, DirectoryRead
  <2>4. chunkData = <<>> /\ DiskTyped
    BY <1>2 DEF InStage, Unpublished, DiskTyped, WriterTyped
  <2>5. ASSUME NEW s \in 0 .. n - 1 PROVE StreamReadInParts(out, m, s)
    <3>1. PICK f \in Seq(Fragments) :
            f = StreamFragments(m, s) /\ (f # <<>> => streams[s] # Nil /\ f = streams[s])
      <4>1. PICK k \in 1 .. MaxStreams : streams \in StreamMap(k) /\ DOMAIN streams = 0 .. k - 1
        BY StreamsDomain
      <4>2. streams[s] \in {Nil} \cup Seq(Fragments)
        BY <2>3, <4>1 DEF StreamMap
      <4>3. <<>> \in Seq(Fragments)
        OBVIOUS
      <4> QED BY <2>3, <4>2, <4>3
    <3>2. PICK k \in Nat : k = Len(f) /\ DOMAIN f = 1 .. k
      BY LenProperties
    <3>3. ASSUME NEW i \in 1 .. k
          PROVE  ReadsAs(out, m, f[i], FragmentBytes(f[i])) /\ FragmentBytes(f[i]) \in Seq(ByteCells)
      <4>1. f # <<>>
        BY <3>2
      <4>2. s \in DOMAIN streams /\ streams[s] # Nil /\ i \in DOMAIN streams[s] /\ f[i] = streams[s][i]
        BY <2>3, <3>1, <3>2, <4>1
      <4>3. f[i] \in Fragments /\ Fragment(f[i]) /\ ~PendingChunk(f[i])
        BY <2>4, <4>2, NonePending
      <4>4. Stored(f[i])
        BY <4>2 DEF StreamsStored
      <4> QED BY <2>3, <2>4, <4>3, <4>4, StoredReads
    <3>4. PICK D : D = [i \in 1 .. k |-> FragmentBytes(f[i])]
      OBVIOUS
    <3>5. D \in [1 .. k -> Seq(ByteCells)] /\ \A i \in 1 .. k : ReadsAs(out, m, f[i], D[i])
      BY <3>3, <3>4
    <3>6. PartsReadAs(out, m, f, D)
      BY <3>2, <3>5, FunctionLen DEF PartsReadAs
    <3> QED BY <3>1, <3>6, PartsOfStreamRead
  <2> QED BY <2>2, <2>3, <2>5 DEF ReadAtAgrees, StreamReadInParts, ReadsPart
<1> QED BY <1>1, <1>2

-----------------------------------------------------------------------------
(***************************************************************************)
(* Each step keeps to ReadInv.                                             *)
(***************************************************************************)
(* A fragment that begins within its chunk keeps to it.                    *)
LEMMA WhereBegins ==
  DiskTyped => \A f \in Fragments :
    Fragment(f) /\ IsCompressed(f.location) =>
      (Begins(f) <=> f.location[3] < Len(ChunkData(f.location[2])))
<1> SUFFICES ASSUME DiskTyped, NEW f \in Fragments, Fragment(f), IsCompressed(f.location)
             PROVE  Begins(f) <=> f.location[3] < Len(ChunkData(f.location[2]))
  OBVIOUS
<1>1. f.location[2] \in 0 .. Len(chunks) /\ Len(chunks) \in Nat /\ DOMAIN chunks = 1 .. Len(chunks)
  BY LenProperties DEF Fragment, DiskTyped
<1>2. CASE f.location[2] = Len(chunks)
  BY <1>2 DEF Begins, PendingChunk, ChunkData
<1>3. CASE f.location[2] # Len(chunks)
  <2>1. f.location[2] + 1 \in DOMAIN chunks
    BY <1>1, <1>3
  <2>2. Len(ChunkOf(f.location[2] + 1)) = chunks[f.location[2] + 1].size
    BY <2>1 DEF DiskTyped, ChunksOnDisk
  <2> QED BY <1>3, <2>2 DEF Begins, PendingChunk, ChunkData
<1> QED BY <1>2, <1>3

LEMMA WhereBeginsNext ==
  (DiskTyped => \A f \in Fragments :
     Fragment(f) /\ IsCompressed(f.location) =>
       (Begins(f) <=> f.location[3] < Len(ChunkData(f.location[2]))))'
BY WhereBegins, PTL

LEMMA BeginsStay ==
  ASSUME WriterTyped, ChunksOnDisk, OutKept, NEW d \in Seq(ByteCells), ChunkStep(d),
         NEW f \in Fragments, Fragment(f), Begins(f)
  PROVE  Begins(f)'
<1>1. CASE ~IsCompressed(f.location)
  BY <1>1 DEF Begins
<1>2. CASE IsCompressed(f.location)
  <2>1. DiskTyped
    BY DEF DiskTyped, WriterTyped
  <2>2. DiskTyped'
    BY ChunksStay DEF DiskTyped, OutKept
  <2>3. Fragment(f)'
    BY FragmentKept
  <2>4. PICK k \in 0 .. Len(chunks), o \in Nat : k = f.location[2] /\ o = f.location[3]
    BY <1>2 DEF Fragment
  <2>5. PICK data \in Seq(ByteCells) : data = ChunkData(k)
    BY ChunkDataGrows
  <2>6. ChunkData(k)' = data \/ ChunkData(k)' = data \o d
    BY <2>5, ChunkDataGrows
  <2>7. o < Len(data)
    BY <1>2, <2>1, <2>4, <2>5, WhereBegins
  <2>8. Len(data \o d) = Len(data) + Len(d) /\ Len(d) \in Nat /\ Len(data) \in Nat
    BY ONLY data \in Seq(ByteCells), d \in Seq(ByteCells), ConcatProperties, LenProperties
  <2>9. o < Len(ChunkData(k)')
    BY <2>6, <2>7, <2>8
  <2> QED BY <1>2, <2>2, <2>3, <2>4, <2>9, WhereBeginsNext
<1> QED BY <1>1, <1>2

(* If every stream is as it was, or empty.                                 *)
LEMMA OffsetsStay ==
  ASSUME WriterTyped, FragmentsTyped, ChunksOnDisk, OffsetsWithin, OutKept,
         NEW d \in Seq(ByteCells), ChunkStep(d), \A s \in DOMAIN streams' : Untouched(s)
  PROVE  OffsetsWithin'
<1> SUFFICES ASSUME NEW s \in DOMAIN streams', streams'[s] # Nil, NEW i \in DOMAIN streams'[s]
             PROVE  Begins(streams[s][i])'
  BY DEF OffsetsWithin
<1>1. s \in DOMAIN streams /\ streams'[s] = streams[s]
  BY DEF Untouched
<1>2. streams[s][i] \in Fragments
  <2>1. PICK m \in 1 .. MaxStreams : streams \in StreamMap(m) /\ DOMAIN streams = 0 .. m - 1
    BY StreamsDomain
  <2>2. streams[s] \in Seq(Fragments)
    BY <1>1, <2>1 DEF StreamMap
  <2> QED BY <1>1, <2>2, ElementOfSeq
<1>3. PICK f : f = streams[s][i]
  OBVIOUS
<1>4. f \in Fragments /\ Fragment(f) /\ Begins(f)
  BY <1>1, <1>2, <1>3 DEF FragmentsTyped, OffsetsWithin
<1>5. Begins(f)'
  BY <1>4, BeginsStay
<1>6. streams'[s][i] = f
  BY <1>1, <1>3
<1> QED BY <1>5, <1>6 DEF Begins, PendingChunk

(* Nothing is asked of the file before finish writes its directory.        *)
LEMMA WritingKeepsReadInv ==
  ASSUME ReadInv, MsfzInv', Quiet, stage' \in {"writing", "directory"},
         \A s \in DOMAIN streams' : Untouched(s)
  PROVE  ReadInv'
<1>1. OffsetsWithin'
  <2>1. <<>> \in Seq(ByteCells)
    OBVIOUS
  <2> QED BY <2>1, OffsetsStay DEF ReadInv, MsfzInv, Quiet
<1>2. FinishInv'
  BY DEF FinishInv, Unpublished
<1> QED BY <1>1, <1>2 DEF ReadInv

LEMMA EditsKeepReadInv ==
  ASSUME ReadInv,
         \/ \E n \in 1 .. MaxStreams : ReserveNumStreams(n)
         \/ \E s \in DOMAIN streams \ {0} : OpenStreamWriter(s)
         \/ NewStreamWriter
  PROVE  ReadInv'
<1> MsfzInv
  BY DEF ReadInv
<1>1. CASE \E n \in 1 .. MaxStreams : ReserveNumStreams(n)
  <2>1. PICK n \in 1 .. MaxStreams : ReserveNumStreams(n)
    BY <1>1
  <2>2. MsfzInv' /\ Quiet
    BY <2>1, ReserveKeepsInv
  <2>3. stage' = "writing"
    BY <2>1 DEF ReserveNumStreams, finishVars
  <2>4. \A s \in DOMAIN streams' : Untouched(s)
    BY <2>1 DEF ReserveNumStreams, Untouched
  <2> QED BY <2>2, <2>3, <2>4, WritingKeepsReadInv
<1>2. CASE \E s \in DOMAIN streams \ {0} : OpenStreamWriter(s)
  <2>1. PICK s \in DOMAIN streams : OpenStreamWriter(s)
    BY <1>2
  <2>2. MsfzInv' /\ Quiet
    BY <2>1, OpenKeepsInv
  <2>3. stage' = "writing"
    BY <2>1 DEF OpenStreamWriter, finishVars
  <2>4. \A t \in DOMAIN streams' : Untouched(t)
    BY <2>1 DEF OpenStreamWriter, Untouched
  <2> QED BY <2>2, <2>3, <2>4, WritingKeepsReadInv
<1>3. CASE NewStreamWriter
  <2>1. MsfzInv' /\ Quiet
    BY <1>3, NewStreamKeepsInv
  <2>2. stage' = "writing"
    BY <1>3 DEF NewStreamWriter, finishVars
  <2>3. PICK n \in 1 .. MaxStreams :
          /\ n \in Nat \ {0} /\ DOMAIN streams = 0 .. n - 1 /\ Cardinality(DOMAIN streams) = n
    BY StreamsDomain DEF MsfzInv
  <2>4. \A t \in DOMAIN streams' : Untouched(t)
    BY <1>3, <2>3 DEF NewStreamWriter, Untouched
  <2> QED BY <2>1, <2>2, <2>4, WritingKeepsReadInv
<1> QED BY <1>1, <1>2, <1>3

LEMMA OthersKeepReadInv ==
  ASSUME ReadInv,
         \/ \E t \in Thresholds : SetThreshold(t)
         \/ \E b \in BOOLEAN : SetCompressionEnabled(b)
         \/ \E a \in Alignments : SetAlignment(a)
         \/ EndChunk
         \/ EndChunkFails
         \/ \E n \in Lengths : \/ WriteTooLong(n)
                               \/ WriteTooFar(n)
                               \/ WriteCompressedFails(n)
                               \/ WriteUncompressedFails(n)
         \/ FinishChunk
  PROVE  ReadInv'
<1> MsfzInv
  BY DEF ReadInv
<1>1. MsfzInv' /\ Quiet
  BY SettingsKeepInv, EndChunkKeepsInv, FailuresKeepInv, RefusedKeepInv
<1>2. streams' = streams /\ stage' \in {"writing", "directory"}
  BY DEF SetThreshold, SetCompressionEnabled, SetAlignment, EndChunk, EndChunkFails, WriteTooLong,
         WriteTooFar, WriteCompressedFails, WriteUncompressedFails, FinishChunk, Calling,
         finishVars, MsfzInv, InStage
<1>3. \A s \in DOMAIN streams' : Untouched(s)
  BY <1>2 DEF Untouched
<1> QED BY <1>1, <1>2, <1>3, WritingKeepsReadInv

(* The fragments of g are x, or where those of f are.                      *)
ListGrown(f, g, x) ==
  \A i \in DOMAIN g : g[i] = x \/ \E j \in DOMAIN f : g[i].location = f[j].location

(* A stream grows by a fragment that begins where the last one did, or     *)
(* within its chunk.                                                       *)
LEMMA WriteKeepsReadInv ==
  ASSUME ReadInv, MsfzInv', OutKept, NEW d \in Seq(ByteCells), ChunkStep(d),
         stage' = "writing", NEW s \in DOMAIN streams, NEW f \in Seq(Fragments), f = streams[s],
         NEW g, streams' = [streams EXCEPT ![s] = g],
         NEW x, Begins(x)', ListGrown(f, g, x)
  PROVE  ReadInv'
<1> MsfzInv /\ OffsetsWithin
  BY DEF ReadInv
<1>1. OffsetsWithin'
  <2> SUFFICES ASSUME NEW t \in DOMAIN streams', streams'[t] # Nil, NEW i \in DOMAIN streams'[t]
               PROVE  Begins(streams[t][i])'
    BY DEF OffsetsWithin
  <2>1. PICK m \in 1 .. MaxStreams : streams \in StreamMap(m) /\ DOMAIN streams = 0 .. m - 1
    BY StreamsDomain DEF MsfzInv
  <2>2. ASSUME NEW u \in DOMAIN streams, streams[u] # Nil, NEW j \in DOMAIN streams[u],
               NEW y, y.location = streams[u][j].location
        PROVE  Begins(y)'
    <3>1. PICK z : z = streams[u][j]
      OBVIOUS
    <3>2. streams[u] \in Seq(Fragments)
      BY <2>1, <2>2 DEF StreamMap
    <3>3. z \in Fragments /\ Fragment(z) /\ Begins(z)
      BY <2>2, <3>1, <3>2, ElementOfSeq DEF MsfzInv, FragmentsTyped, OffsetsWithin
    <3>4. Begins(z)'
      BY <3>3, BeginsStay DEF MsfzInv
    <3>5. y.location = z.location
      BY <2>2, <3>1
    <3> QED BY <3>4, <3>5 DEF Begins, PendingChunk
  <2>3. CASE t # s
    <3>1. t \in DOMAIN streams /\ streams'[t] = streams[t]
      BY <2>3
    <3>2. PICK y : y = streams[t][i]
      OBVIOUS
    <3>3. Begins(y)'
      BY <2>2, <3>1, <3>2
    <3>4. streams'[t][i] = y
      BY <3>1, <3>2
    <3> QED BY <3>3, <3>4 DEF Begins, PendingChunk
  <2>4. CASE t = s
    <3>1. streams'[t] = g /\ f # Nil
      BY <2>4, NilIsNoSeq
    <3>2. PICK y : y = g[i]
      OBVIOUS
    <3>3. y = x \/ \E j \in DOMAIN f : y.location = f[j].location
      BY <3>1, <3>2 DEF ListGrown
    <3>4. Begins(y)'
      BY <2>2, <3>1, <3>3
    <3>5. streams'[t][i] = y
      BY <3>1, <3>2
    <3> QED BY <3>4, <3>5 DEF Begins, PendingChunk
  <2> QED BY <2>3, <2>4
<1>2. FinishInv'
  BY DEF FinishInv, Unpublished
<1> QED BY <1>1, <1>2 DEF ReadInv

(* The locations of a stream that grew.                                    *)
LEMMA LocationsGrow ==
  ASSUME NEW f \in Seq(Fragments), NEW n \in Nat, NEW x,
         NEW g, g = Append(f, x) \/ (f # <<>> /\ g = Extended(f, n))
  PROVE  ListGrown(f, g, x)
<1>1. CASE g = Append(f, x)
  <2>1. PICK m \in Nat : m = Len(f) /\ DOMAIN f = 1 .. m
    BY LenProperties
  <2>2. /\ DOMAIN g = 1 .. m + 1 /\ g[m + 1] = x
        /\ \A i \in 1 .. m : g[i] = f[i]
    BY <1>1, <2>1
  <2>3. ASSUME NEW i \in DOMAIN g, i # m + 1 PROVE i \in DOMAIN f /\ g[i] = f[i]
    BY <2>1, <2>2, <2>3
  <2> QED BY <2>2, <2>3 DEF ListGrown
<1>2. CASE f # <<>> /\ g = Extended(f, n)
  <2>1. PICK m \in Nat \ {0} : m = Len(f) /\ DOMAIN f = 1 .. m
    BY <1>2, EmptySeq, LenProperties
  <2>2. /\ g \in Seq(Fragments) /\ Len(g) = m
        /\ \A i \in 1 .. (m - 1) : g[i] = f[i]
        /\ g[m] = [size |-> f[m].size + n, location |-> f[m].location]
    BY <1>2, <2>1, SizeOfExtended
  <2>3. DOMAIN g = 1 .. m /\ g[m].location = f[m].location /\ m \in DOMAIN f
    BY <2>1, <2>2
  <2>4. ASSUME NEW i \in DOMAIN g, i # m PROVE i \in DOMAIN f /\ g[i] = f[i]
    <3>1. i \in 1 .. (m - 1)
      BY <2>3, <2>4
    <3> QED BY <2>1, <2>2, <3>1
  <2> QED BY <2>3, <2>4 DEF ListGrown
<1> QED BY <1>1, <1>2

LEMMA WriteCompressedKeepsReadInv ==
  ASSUME ReadInv, NEW n \in Lengths, WriteCompressed(n)
  PROVE  ReadInv'
<1> MsfzInv
  BY DEF ReadInv
<1>1. MsfzInv' /\ OutKept
  BY WriteCompressedKeepsInv
<1>2. PICK s : s = writer.stream
  OBVIOUS
<1>3. writer # NoWriter /\ stage' = stage /\ stage = "writing"
  BY DEF WriteCompressed, Calling, finishVars, MsfzInv, InStage
<1>4. n \in Nat \ {0} /\ calls \in Nat
  BY MsfzWriterAssumption DEF MsfzInv, WriterTyped
<1>5. PICK m \in 1 .. MaxStreams : streams \in StreamMap(m) /\ DOMAIN streams = 0 .. m - 1
  BY StreamsDomain DEF MsfzInv
<1>6. s \in DOMAIN streams /\ s \in Nat /\ streams[s] # Nil
  BY <1>2, <1>3, <1>5 DEF MsfzInv, WriterTyped, Writers
<1>7. PICK f \in Seq(Fragments) : f = streams[s]
  BY <1>5, <1>6 DEF StreamMap
<1>8. PICK d : d = Bytes(s, calls + 1, n)
  OBVIOUS
<1>9. d \in Seq(ByteCells) /\ Len(d) = n /\ ChunkFits(d)
  <2>1. s \in Nat /\ calls + 1 \in Nat /\ n \in Nat \ {0}
    BY <1>4, <1>6
  <2> QED BY ONLY <1>8, <2>1, BytesOfCall
<1>10. ChunkStep(d) /\ chunkData' \in Seq(ByteCells) /\ Len(chunkData') >= n
  <2>1. WriteToChunks(d)
    BY <1>2, <1>8 DEF WriteCompressed
  <2> QED BY <1>3, <1>9, <2>1, BytesReachChunk
<1>11. PICK k : k = Len(chunks')
  OBVIOUS
<1>12. PICK l \in Nat : l = Len(chunkData')
  BY <1>10, LenProperties
<1>13. PICK x : x = [size |-> n, location |-> <<"chunk", k, l - n>>]
  OBVIOUS
<1>14. Begins(x)'
  <2>1. l - n < l
    BY <1>4
  <2>2. x.location[2] = k /\ x.location[3] = l - n
    BY <1>13
  <2> QED BY <1>11, <1>12, <2>1, <2>2 DEF Begins, PendingChunk
<1>15. PICK g : g = AddFragmentCompressed(f, n, k, l - n)
  OBVIOUS
<1>16. streams' = [streams EXCEPT ![s] = g]
  BY <1>2, <1>7, <1>11, <1>12, <1>15 DEF WriteCompressed
<1>17. g = Append(f, x) \/ (f # <<>> /\ g = Extended(f, n))
  BY <1>13, <1>15 DEF AddFragmentCompressed
<1>18. ListGrown(f, g, x)
  BY <1>4, <1>17, LocationsGrow
<1>19. f = streams[s] /\ stage' = "writing"
  BY <1>3, <1>7
<1> QED BY <1>1, <1>6, <1>9, <1>10, <1>14, <1>16, <1>18, <1>19, WriteKeepsReadInv

LEMMA WriteUncompressedKeepsReadInv ==
  ASSUME ReadInv, NEW n \in Lengths, WriteUncompressed(n)
  PROVE  ReadInv'
<1> MsfzInv
  BY DEF ReadInv
<1>1. MsfzInv' /\ OutKept
  BY WriteUncompressedKeepsInv
<1>2. PICK s : s = writer.stream
  OBVIOUS
<1>3. writer # NoWriter /\ stage' = stage /\ stage = "writing"
  BY DEF WriteUncompressed, Calling, finishVars, MsfzInv, InStage
<1>4. n \in Nat
  BY MsfzWriterAssumption
<1>5. PICK m \in 1 .. MaxStreams : streams \in StreamMap(m) /\ DOMAIN streams = 0 .. m - 1
  BY StreamsDomain DEF MsfzInv
<1>6. s \in DOMAIN streams /\ streams[s] # Nil
  BY <1>2, <1>3 DEF MsfzInv, WriterTyped, Writers
<1>7. PICK f \in Seq(Fragments) : f = streams[s]
  BY <1>5, <1>6 DEF StreamMap
<1>8. PICK d : d = <<>> /\ d \in Seq(ByteCells)
  <2>1. <<>> \in Seq(ByteCells)
    OBVIOUS
  <2> QED BY <2>1
<1>9. ChunkStep(d)
  <2>1. chunks' = chunks /\ chunkData' = chunkData /\ chunkData \in Seq(ByteCells)
    BY DEF WriteUncompressed, chunkVars, MsfzInv, WriterTyped
  <2> QED BY <1>8, <2>1, ConcatEmptySeq DEF ChunkStep
<1>10. PICK x : x = [size |-> n, location |-> <<"file", FragmentOffset>>]
  OBVIOUS
<1>11. Begins(x)'
  <2>1. ~IsCompressed(x.location)
    BY <1>10 DEF IsCompressed
  <2> QED BY <2>1 DEF Begins
<1>12. PICK g : g = AddFragmentUncompressed(f, n, FragmentOffset)
  OBVIOUS
<1>13. streams' = [streams EXCEPT ![s] = g]
  BY <1>2, <1>7, <1>12 DEF WriteUncompressed
<1>14. g = Append(f, x) \/ (f # <<>> /\ g = Extended(f, n))
  BY <1>10, <1>12 DEF AddFragmentUncompressed
<1>15. ListGrown(f, g, x)
  BY <1>4, <1>14, LocationsGrow
<1>16. f = streams[s] /\ stage' = "writing"
  BY <1>3, <1>7
<1> QED BY <1>1, <1>6, <1>8, <1>9, <1>11, <1>13, <1>15, <1>16, WriteKeepsReadInv

-----------------------------------------------------------------------------
(* finish: what was written stays, and the next part joins it.             *)
SameDirectory ==
  /\ header'.dirOffset = header.dirOffset /\ header'.dirCompressed = header.dirCompressed
  /\ header'.dirCompressedSize = header.dirCompressedSize
  /\ header'.dirSize = header.dirSize

LEMMA FinishStep ==
  ASSUME ReadInv, MsfzInv', Quiet, streams' = streams, chunks' = chunks
  PROVE  /\ OffsetsWithin' /\ EncodeStreamDir' = EncodeStreamDir
         /\ DirectoryWritten /\ SameDirectory => DirectoryWritten'
         /\ TableWritten /\ header' = header => TableWritten'
<1>1. \A s \in DOMAIN streams' : Untouched(s)
  BY DEF Untouched
<1>2. OffsetsWithin'
  <2>1. <<>> \in Seq(ByteCells)
    OBVIOUS
  <2> QED BY <1>1, <2>1, OffsetsStay DEF ReadInv, MsfzInv, Quiet
<1>3. EncodeStreamDir' = EncodeStreamDir
  BY DEF EncodeStreamDir, StreamFields
<1>4. ASSUME DirectoryWritten, SameDirectory PROVE DirectoryWritten'
  <2>1. PICK o \in Nat, k \in Nat : o = header.dirOffset /\ k = header.dirCompressedSize
    BY <1>4 DEF DirectoryWritten
  <2>2. Kept(o, k)' /\ \A i \in 1 .. k : out'[o + i] = out[o + i]
    BY <1>4, <2>1 DEF Quiet, OutKept, DirectoryWritten
  <2>3. Kept(header.dirOffset, header.dirCompressedSize)'
    BY <1>4, <2>1, <2>2 DEF Kept, SameDirectory
  <2>4. PICK e : e = EncodeStreamDir /\ e = EncodeStreamDir'
    BY <1>3
  <2> QED BY <1>4, <2>1, <2>2, <2>3, <2>4 DEF DirectoryWritten, SameDirectory, Kept
<1>5. ASSUME TableWritten, header' = header PROVE TableWritten'
  <2>1. PICK o \in Nat, k \in Nat : o = header.chunkTableOffset /\ k = Len(chunks) /\ DOMAIN chunks = 1 .. k
    <3>1. chunks \in Seq(Entries) /\ header.chunkTableOffset \in Nat
      BY <1>5 DEF TableWritten, ReadInv, MsfzInv, WriterTyped
    <3> QED BY <3>1, LenProperties
  <2>2. chunks # <<>> => Kept(o, k)' /\ \A i \in 1 .. k : out'[o + i] = out[o + i]
    BY <1>5, <2>1 DEF Quiet, OutKept, TableWritten
  <2>3. chunks # <<>> => Kept(header.chunkTableOffset, Len(chunks))'
    BY <1>5, <2>1, <2>2 DEF Kept
  <2> QED BY <1>5, <2>1, <2>2, <2>3 DEF TableWritten
<1> QED BY <1>2, <1>3, <1>4, <1>5

(* The directory is not empty: it holds a field of each stream.            *)
LEMMA DirectoryNotEmpty ==
  ASSUME MsfzInv
  PROVE  IsSeq(EncodeStreamDir) /\ EncodeStreamDir # <<>>
<1>1. PICK n \in 1 .. MaxStreams :
        /\ n \in Nat \ {0} /\ streams \in StreamMap(n) /\ Cardinality(DOMAIN streams) = n
  BY StreamsDomain DEF MsfzInv
<1>2. ASSUME NEW i \in 1 .. n
      PROVE  /\ StreamFields(streams[i - 1]) \in Seq(FieldCells)
             /\ Len(StreamFields(streams[i - 1])) >= 1
  <2>1. i - 1 \in 0 .. n - 1
    BY <1>1
  <2>2. PICK f \in {Nil} \cup Seq(Fragments) : f = streams[i - 1]
    BY <1>1, <2>1 DEF StreamMap
  <2>3. StreamFields(f) \in Seq(FieldCells)
    BY FieldsAreSeq
  <2>4. CASE f = Nil
    <3>1. PICK c : c = <<"u32", NilSize>>
      OBVIOUS
    <3>2. StreamFields(f) = <<c>>
      BY <2>4, <3>1 DEF StreamFields
    <3> QED BY <2>2, <2>3, <3>2
  <2>5. CASE f \in Seq(Fragments)
    <3>1. PICK k \in Nat : k = Len(f)
      BY <2>5, LenProperties
    <3>2. Len(StreamFields(f)) = 2 * k + 1
      BY <2>5, <3>1, FieldsOfStream
    <3> QED BY <2>2, <2>3, <3>1, <3>2
  <2> QED BY <2>4, <2>5
<1>3. PICK fields \in Seq(Seq(FieldCells)) :
        /\ EncodeStreamDir = FlattenSeq(fields) /\ Len(fields) = n
        /\ Len(fields[1]) >= 1 /\ fields[1] \in Seq(FieldCells)
  <2> DEFINE fields == [i \in 1 .. n |-> StreamFields(streams[i - 1])]
  <2>1. fields \in [1 .. n -> Seq(FieldCells)]
    BY <1>2
  <2>2. EncodeStreamDir = FlattenSeq(fields)
    BY <1>1 DEF EncodeStreamDir
  <2>3. 1 \in 1 .. n
    BY <1>1
  <2>4. fields[1] \in Seq(FieldCells) /\ Len(fields[1]) >= 1
    <3>1. fields[1] = StreamFields(streams[1 - 1])
      BY <2>3
    <3> HIDE DEF fields
    <3> QED BY <1>2, <2>3, <3>1
  <2> HIDE DEF fields
  <2>5. fields \in Seq(Seq(FieldCells)) /\ Len(fields) = n
    BY <1>1, <2>1, FunctionLen
  <2> QED BY <2>2, <2>4, <2>5
<1>4. PICK L : /\ PartStarts(fields, L) /\ Len(FlattenSeq(fields)) = L[Len(fields)]
               /\ \A i \in 1 .. Len(fields) : L[i] <= L[Len(fields)]
  BY FlattenSegments
<1>5. L[1] \in Nat /\ L[1] >= 1 /\ L[1] <= L[n] /\ L[n] \in Nat
  <2>1. 1 \in 1 .. n /\ 1 - 1 = 0 /\ n \in 0 .. n
    BY <1>1
  <2>2. L[1] = 0 + Len(fields[1])
    BY <1>3, <1>4, <2>1 DEF PartStarts
  <2>3. PICK k \in Nat : k = Len(fields[1]) /\ k >= 1
    BY <1>3, LenProperties
  <2>4. L[1] = k
    BY <2>2, <2>3
  <2> QED BY <1>3, <1>4, <2>1, <2>3, <2>4 DEF PartStarts
<1>6. Len(EncodeStreamDir) # 0
  <2>1. PICK a \in Nat, b \in Nat : a = L[1] /\ b = L[n]
    BY <1>5
  <2>2. b # 0
    BY <1>5, <2>1
  <2> QED BY <1>3, <1>4, <2>1, <2>2
<1>7. Len(<<>>) = 0
  OBVIOUS
<1>8. IsSeq(EncodeStreamDir)
  BY DirectoryIsSeq DEF MsfzInv
<1> QED BY ONLY <1>6, <1>7, <1>8

LEMMA WriteStreamDirKeepsReadInv ==
  ASSUME ReadInv, NEW compress \in BOOLEAN, WriteStreamDir(compress)
  PROVE  ReadInv'
<1> MsfzInv
  BY DEF ReadInv
<1>1. MsfzInv' /\ Quiet
  BY DirectoryKeepsInv
<1>2. stage = "directory" /\ stage' = "chunk table" /\ streams' = streams /\ chunks' = chunks
  BY DEF WriteStreamDir, chunkVars
<1>3. OffsetsWithin' /\ EncodeStreamDir' = EncodeStreamDir
  BY <1>1, <1>2, FinishStep
<1>4. PICK e : e = EncodeStreamDir /\ e = EncodeStreamDir'
  BY <1>3
<1>5. IsSeq(e) /\ e # <<>>
  BY <1>4, DirectoryNotEmpty
<1>6. PICK o \in Nat : o = AlignUp(pos, DirAlignment) /\ o >= pos
  <2>1. pos \in Nat /\ DirAlignment \in Nat \ {0}
    BY DEF MsfzInv, WriterTyped, DirAlignment
  <2> QED BY <2>1, AlignedUp
<1>7. PICK k \in Nat : /\ k \in IF compress THEN CompressedSizes ELSE {Len(e)}
                       /\ WriteAll(o, IF compress THEN Compressed(e, k) ELSE e)
                       /\ header' = [dirOffset |-> o, dirCompressed |-> compress,
                                     dirCompressedSize |-> k, dirSize |-> Len(e)]
  <2>1. CompressedSizes \subseteq Nat /\ Len(e) \in Nat
    BY <1>5, SeqFacts, MsfzWriterAssumption
  <2> QED BY <1>4, <1>6, <2>1 DEF WriteStreamDir
<1>8. PICK cells : cells = IF compress THEN Compressed(e, k) ELSE e
  OBVIOUS
<1>9. k # 0 /\ (~compress => k = Len(e))
  <2>1. 0 \notin CompressedSizes
    BY MsfzWriterAssumption
  <2>2. Len(e) # 0
    BY <1>5 DEF IsSeq
  <2> QED BY <1>7, <2>1, <2>2
<1>10. /\ IsSeq(cells) /\ Len(cells) = k
       /\ \A i \in 1 .. k : cells[i] = IF compress THEN <<"z", e, i, k>> ELSE e[i]
  BY <1>5, <1>7, <1>8, <1>9, CompressedCells
<1>11. cells # <<>>
  <2>1. Len(<<>>) = 0
    OBVIOUS
  <2> QED BY <1>9, <1>10, <2>1
<1>12. Kept(o, k)' /\ \A i \in 1 .. k : out'[o + i] = cells[i]
  <2>1. stage \in Unpublished /\ stage' \in Unpublished
    BY <1>2 DEF Unpublished
  <2>2. WriteAll(o, cells) /\ IsSeq(cells) /\ o >= pos
    BY <1>6, <1>7, <1>8, <1>10
  <2>3. WriterTyped /\ InStage
    BY DEF MsfzInv
  <2>4. (cells # <<>> => Kept(o, Len(cells))') /\ \A i \in 1 .. Len(cells) : out'[o + i] = cells[i]
    BY <2>1, <2>2, <2>3, WrittenBehind
  <2> QED BY <1>10, <1>11, <2>4
<1>13. DirectoryWritten'
  <2>1. /\ header'.dirOffset = o /\ header'.dirCompressed = compress
        /\ header'.dirCompressedSize = k /\ header'.dirSize = Len(e)
    BY <1>7
  <2>2. Kept(header.dirOffset, header.dirCompressedSize)'
    BY <1>12, <2>1 DEF Kept
  <2> QED BY <1>4, <1>9, <1>10, <1>12, <2>1, <2>2 DEF DirectoryWritten
<1> QED BY <1>1, <1>2, <1>3, <1>13 DEF ReadInv, FinishInv, Unpublished

LEMMA WriteChunkTableKeepsReadInv ==
  ASSUME ReadInv, WriteChunkTable
  PROVE  ReadInv'
<1> MsfzInv
  BY DEF ReadInv
<1>1. MsfzInv' /\ Quiet
  BY DirectoryKeepsInv
<1>2. stage = "chunk table" /\ stage' = "header" /\ streams' = streams /\ chunks' = chunks
  BY DEF WriteChunkTable, chunkVars
<1>3. OffsetsWithin' /\ DirectoryWritten'
  <2>1. DirectoryWritten
    BY <1>2 DEF ReadInv, FinishInv
  <2>2. SameDirectory
    BY DEF WriteChunkTable, SameDirectory
  <2> QED BY <1>1, <1>2, <2>1, <2>2, FinishStep
<1>4. PICK o \in Nat : o = AlignUp(pos, DirAlignment) /\ o >= pos
  <2>1. pos \in Nat /\ DirAlignment \in Nat \ {0}
    BY DEF MsfzInv, WriterTyped, DirAlignment
  <2> QED BY <2>1, AlignedUp
<1>5. PICK k \in Nat : k = Len(chunks) /\ DOMAIN chunks = 1 .. k
  BY LenProperties DEF MsfzInv, WriterTyped
<1>6. PICK cells : cells = [i \in 1 .. k |-> <<"entry", chunks[i]>>]
  OBVIOUS
<1>7. IsSeq(cells) /\ Len(cells) = k
  BY <1>6, ListIsSeq
<1>8. WriteAll(o, cells)
  BY <1>4, <1>5, <1>6 DEF WriteChunkTable
<1>9. ASSUME chunks # <<>>
      PROVE  Kept(o, k)' /\ \A i \in 1 .. k : out'[o + i] = cells[i]
  <2>1. stage \in Unpublished /\ stage' \in Unpublished
    BY <1>2 DEF Unpublished
  <2>2. cells # <<>>
    <3>1. k # 0
      BY <1>5, <1>9, EmptySeq DEF MsfzInv, WriterTyped
    <3> QED BY <1>7, <3>1
  <2> QED BY <1>4, <1>7, <1>8, <2>1, <2>2, WrittenBehind DEF MsfzInv
<1>10. TableWritten'
  <2>1. /\ header'.numStreams = Cardinality(DOMAIN streams)
        /\ header'.numChunks = k /\ header'.chunkTableOffset = o
    BY <1>4, <1>5 DEF WriteChunkTable
  <2>2. ASSUME chunks # <<>>
        PROVE  /\ Kept(header.chunkTableOffset, Len(chunks))'
               /\ \A i \in 1 .. k : out'[o + i] = <<"entry", chunks[i]>>
    BY <1>2, <1>5, <1>6, <1>9, <2>1, <2>2 DEF Kept
  <2> QED BY <1>2, <1>5, <2>1, <2>2 DEF TableWritten
<1> QED BY <1>1, <1>2, <1>3, <1>10 DEF ReadInv, FinishInv, Unpublished

LEMMA LastStepsKeepReadInv ==
  ASSUME ReadInv, WriteFileHeader \/ \E size \in MinFileSizes : ExtendToMinFileSize(size)
  PROVE  ReadInv'
<1> MsfzInv
  BY DEF ReadInv
<1>1. MsfzInv' /\ Quiet
  BY LastStepsKeepInv
<1>2. /\ stage \in {"header", "padding"} /\ streams' = streams /\ chunks' = chunks
      /\ header' = header
  BY DEF WriteFileHeader, ExtendToMinFileSize, chunkVars
<1>3. OffsetsWithin' /\ DirectoryWritten' /\ TableWritten'
  <2>1. DirectoryWritten /\ TableWritten
    BY <1>2 DEF ReadInv, FinishInv
  <2>2. SameDirectory
    BY <1>2 DEF SameDirectory
  <2> QED BY <1>1, <1>2, <2>1, <2>2, FinishStep
<1>4. out'[1] = <<"header", header>>
  <2>1. IsSeq(out) /\ Len(out) \in Nat /\ Len(out) >= 2
    BY SeqFacts DEF MsfzInv, WriterTyped, HeaderSize
  <2>2. CASE WriteFileHeader
    <3>1. PICK cells : cells = << <<"header", header>>, Zero >>
      OBVIOUS
    <3>2. IsSeq(cells) /\ Len(cells) = 2 /\ cells[1] = <<"header", header>>
      BY <3>1 DEF IsSeq
    <3>3. WriteAll(0, cells)
      BY <2>2, <3>1 DEF WriteFileHeader
    <3>4. PICK z : z = 0 /\ z \in Nat
      OBVIOUS
    <3>5. WriteAll(z, cells)
      BY <3>3, <3>4
    <3>6. \A i \in 1 .. Len(cells) : out'[z + i] = cells[i]
      <4>1. IsSeq(out) /\ z \in Nat /\ IsSeq(cells)
        BY <2>1, <3>2, <3>4
      <4> QED BY ONLY <3>5, <4>1, CellsWritten
    <3>7. 1 \in 1 .. Len(cells) /\ z + 1 = 1
      BY <3>2, <3>4
    <3>8. out'[z + 1] = cells[1]
      BY ONLY <3>6, <3>7
    <3> QED BY ONLY <3>2, <3>7, <3>8
  <2>3. ASSUME NEW size \in MinFileSizes, ExtendToMinFileSize(size)
        PROVE  out'[1] = out[1] /\ out[1] = <<"header", header>>
    <3>1. stage = "padding"
      BY <2>3 DEF ExtendToMinFileSize
    <3>2. out[1] = <<"header", header>>
      BY <3>1 DEF ReadInv, FinishInv, Unpublished
    <3>3. CASE Len(out) < size
      <4>1. PICK n \in Nat : n = size - 1 /\ n >= 1
        <5>1. size \in Nat
          BY MsfzWriterAssumption
        <5> QED BY <2>1, <3>3, <5>1
      <4>2. PICK cells : cells = <<Zero>>
        OBVIOUS
      <4>3. IsSeq(cells) /\ WriteAll(n, cells)
        BY <2>3, <3>3, <4>1, <4>2 DEF IsSeq, ExtendToMinFileSize
      <4>4. 1 \in 1 .. Len(out) /\ 1 <= n
        BY <2>1, <4>1
      <4> QED BY <2>1, <3>2, <4>3, <4>4, CellsWritten
    <3>4. CASE ~(Len(out) < size)
      BY <2>3, <3>2, <3>4 DEF ExtendToMinFileSize, fileVars
    <3> QED BY <3>3, <3>4
  <2> QED BY <2>2, <2>3
<1> QED BY <1>1, <1>2, <1>3, <1>4 DEF ReadInv, FinishInv, Unpublished

-----------------------------------------------------------------------------
LEMMA InitEstablishesReadInv == Init => ReadInv
<1> SUFFICES ASSUME Init PROVE ReadInv
  OBVIOUS
<1>1. OffsetsWithin
  BY DEF Init, OffsetsWithin
<1>2. FinishInv
  BY DEF Init, FinishInv, Unpublished
<1> QED BY <1>1, <1>2, InitEstablishesInv DEF ReadInv

(* No step, and nothing that leaves the writer alone, changes what holds   *)
(* of the file.                                                            *)
LEMMA StutterKeepsReadInv ==
  ASSUME ReadInv, UNCHANGED msfzVars
  PROVE  ReadInv'
<1>1. /\ out' = out /\ pos' = pos /\ chunks' = chunks /\ chunkData' = chunkData
      /\ streams' = streams /\ stage' = stage /\ header' = header
  BY DEF msfzVars
<1>2. MsfzInv'
  BY NextKeepsInv DEF ReadInv
<1>3. EncodeStreamDir' = EncodeStreamDir
  BY <1>1 DEF EncodeStreamDir, StreamFields
<1>4. OffsetsWithin'
  BY <1>1 DEF ReadInv, OffsetsWithin, Begins, PendingChunk
<1>5. FinishInv'
  BY <1>1, <1>3 DEF ReadInv, FinishInv, DirectoryWritten, TableWritten, Kept
<1> QED BY <1>2, <1>4, <1>5 DEF ReadInv

LEMMA NextKeepsReadInv == ReadInv /\ [Next]_msfzVars => ReadInv'
<1> SUFFICES ASSUME ReadInv, [Next]_msfzVars PROVE ReadInv'
  OBVIOUS
<1>1. CASE \/ \E n \in 1 .. MaxStreams : ReserveNumStreams(n)
           \/ \E s \in DOMAIN streams \ {0} : OpenStreamWriter(s)
           \/ NewStreamWriter
  BY <1>1, EditsKeepReadInv
<1>2. CASE \/ \E t \in Thresholds : SetThreshold(t)
           \/ \E b \in BOOLEAN : SetCompressionEnabled(b)
           \/ \E a \in Alignments : SetAlignment(a)
           \/ EndChunk \/ EndChunkFails \/ FinishChunk
           \/ \E n \in Lengths : \/ WriteTooLong(n)
                                 \/ WriteTooFar(n)
                                 \/ WriteCompressedFails(n)
                                 \/ WriteUncompressedFails(n)
  BY <1>2, OthersKeepReadInv
<1>3. ASSUME NEW n \in Lengths, WriteCompressed(n) PROVE ReadInv'
  BY <1>3, WriteCompressedKeepsReadInv
<1>4. ASSUME NEW n \in Lengths, WriteUncompressed(n) PROVE ReadInv'
  BY <1>4, WriteUncompressedKeepsReadInv
<1>5. ASSUME NEW compress \in BOOLEAN, WriteStreamDir(compress) PROVE ReadInv'
  BY <1>5, WriteStreamDirKeepsReadInv
<1>6. CASE WriteChunkTable
  BY <1>6, WriteChunkTableKeepsReadInv
<1>7. CASE WriteFileHeader \/ \E size \in MinFileSizes : ExtendToMinFileSize(size)
  BY <1>7, LastStepsKeepReadInv
<1>8. CASE UNCHANGED msfzVars
  BY <1>8, StutterKeepsReadInv
<1> QED BY <1>1, <1>2, <1>3, <1>4, <1>5, <1>6, <1>7, <1>8 DEF Next

(* At every moment what finish has written of the stream directory, the    *)
(* chunk table and the header stands in the file as it was written, though *)
(* any write may have failed after a part, and every fragment in a chunk   *)
(* begins within that chunk.                                               *)
THEOREM ReadInvariant == Spec => []ReadInv
<1> QED BY InitEstablishesReadInv, NextKeepsReadInv, PTL DEF Spec

(* Whoever opens the file, before, between and after the writes of finish, *)
(* finds no MSFZ file, until the header is written, or with read_stream    *)
(* the bytes of every stream of the writer, nil ones as nil, for any       *)
(* sequence of calls, failed ones too, any threshold and alignment, and    *)
(* any sizes of the compressed chunks and directory.                       *)
THEOREM FileReadsBack == Spec => []ReadsBack
<1> QED BY ReadInvariant, InvReadsBack, PTL

(* read_at returns, of every stream of the finished file, the part asked   *)
(* for of what read_stream returns, however it lies to the fragments, up   *)
(* to the end of the stream; and the size of a stream is the sum of its    *)
(* fragments' sizes.  For callers that keep to StreamOnce and Adjacent:    *)
(* for others the writer may merge fragments into one that its chunk does  *)
(* not hold, and then neither function reads it (see MCMsfzCoalesce).      *)
THEOREM PartsReadBack ==
  ASSUME ~AnyCalls
  PROVE  Spec => []ReadAtAgrees
<1>1. ReadInv => ReadAtAgrees
  BY InvReadAtAgrees
<1> QED BY <1>1, ReadInvariant, PTL
=============================================================================

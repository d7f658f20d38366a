----------------------------- MODULE RecordProofs -----------------------------
(***************************************************************************)
(* Proofs about streams of records, of every length: the walk over them,   *)
(* the index over type records, the symbols that are written, and the      *)
(* indices of global symbols: each leads from the name or the address of a *)
(* symbol to it.                                                           *)
(***************************************************************************)
EXTENDS TableProofs

-----------------------------------------------------------------------------
(***************************************************************************)
(* Records one after another.  A walk over n bytes goes from the place of  *)
(* an item to its end; I is what lies at each place, <<>> or one item.     *)
(***************************************************************************)
WalkSteps(g, n, I) ==
  [at \in 0 .. n |-> IF I[at] = <<>> THEN <<>> ELSE I[at] \o g[I[at][1].end]]

GoesForward(n, I) == \A at \in 0 .. n : I[at] # <<>> => I[at][1].end \in at + 1 .. n

ItemWalk(n, I) == CHOOSE g : g = WalkSteps(g, n, I)

(* The recursive function of ItemsFrom is defined if every item has bytes. *)
LEMMA WalkExists ==
  ASSUME NEW n \in Nat, NEW I, GoesForward(n, I)
  PROVE  \A at \in 0 .. n : ItemWalk(n, I)[at] = IF I[at] = <<>> THEN <<>>
                                             ELSE I[at] \o ItemWalk(n, I)[I[at][1].end]
<1> DEFINE Back(g, m) == [at \in n - m .. n |-> IF I[at] = <<>> THEN <<>>
                                                ELSE I[at] \o g[I[at][1].end]]
           B == {m \in 0 .. n : \E g : g = Back(g, m)}
<1>1. 0 \in B
  <2> DEFINE h == [at \in n .. n |-> <<>>]
  <2>1. \A at \in n .. n : at = n /\ at \in 0 .. n /\ ~(I[at][1].end \in at + 1 .. n)
    OBVIOUS
  <2>2. \A at \in n .. n : I[at] = <<>>
    BY <2>1 DEF GoesForward
  <2>3. n - 0 = n
    OBVIOUS
  <2>4. h = Back(h, 0)
    BY <2>2, <2>3
  <2>5. \E g : g = Back(g, 0)
    BY <2>4
  <2> HIDE DEF Back
  <2> QED BY <2>5
<1>2. ASSUME NEW m \in 1 .. n, m - 1 \in B PROVE m \in B
  <2>1. PICK g : g = Back(g, m - 1)
    <3> HIDE DEF Back
    <3> QED BY <1>2
  <2> DEFINE h == [at \in n - m .. n |-> IF I[at] = <<>> THEN <<>> ELSE I[at] \o g[I[at][1].end]]
  <2>2. \A at \in n - (m - 1) .. n : at \in n - m .. n
    OBVIOUS
  <2>3. ASSUME NEW at \in n - (m - 1) .. n PROVE h[at] = g[at]
    <3>1. g[at] = IF I[at] = <<>> THEN <<>> ELSE I[at] \o g[I[at][1].end]
      BY <2>1
    <3>2. h[at] = IF I[at] = <<>> THEN <<>> ELSE I[at] \o g[I[at][1].end]
      BY <2>2
    <3> HIDE DEF h
    <3> QED BY <3>1, <3>2
  <2>4. ASSUME NEW at \in n - m .. n, I[at] # <<>>
        PROVE  h[I[at][1].end] = g[I[at][1].end]
    <3>1. at \in 0 .. n
      OBVIOUS
    <3>2. I[at][1].end \in at + 1 .. n
      BY <2>4, <3>1 DEF GoesForward
    <3>3. I[at][1].end \in n - (m - 1) .. n
      BY <3>2
    <3> HIDE DEF h
    <3> QED BY <2>3, <3>3
  <2>5. h = [at \in n - m .. n |-> IF I[at] = <<>> THEN <<>> ELSE I[at] \o h[I[at][1].end]]
    <3>1. \A at \in n - m .. n : h[at] = IF I[at] = <<>> THEN <<>> ELSE I[at] \o g[I[at][1].end]
      OBVIOUS
    <3>2. h = [at \in n - m .. n |-> h[at]]
      OBVIOUS
    <3> HIDE DEF h
    <3>3. \A at \in n - m .. n : h[at] = IF I[at] = <<>> THEN <<>> ELSE I[at] \o h[I[at][1].end]
      BY <2>4, <3>1
    <3> QED BY <3>2, <3>3
  <2>6. \E f : f = Back(f, m)
    <3> HIDE DEF h
    <3> QED BY <2>5
  <2> HIDE DEF Back
  <2> QED BY <2>6
<1>3. n \in B
  <2>1. 0 .. n \subseteq B
    <3> HIDE DEF B
    <3> QED BY <1>1, <1>2, StepByStep
  <2> HIDE DEF B
  <2> QED BY <2>1
<1>4. \E g : g = Back(g, n)
  <2> HIDE DEF Back
  <2> QED BY <1>3
<1>5. \A g : Back(g, n) = WalkSteps(g, n, I)
  <2>1. n - n = 0
    OBVIOUS
  <2> QED BY <2>1 DEF WalkSteps
<1>6. \E g : g = WalkSteps(g, n, I)
  <2> HIDE DEF Back
  <2> QED BY <1>4, <1>5
<1>7. ItemWalk(n, I) = WalkSteps(ItemWalk(n, I), n, I)
  BY <1>6 DEF ItemWalk
<1> QED BY <1>7 DEF WalkSteps

(* k items, which lie at P[0], P[1] up to P[k], where there is none any    *)
(* more.                                                                   *)
ItemsAt(n, I, k, P, R) ==
  /\ P \in [0 .. k -> 0 .. n] /\ DOMAIN R = 1 .. k /\ R = [i \in 1 .. k |-> R[i]]
  /\ \A i \in 1 .. k : I[P[i - 1]] = <<R[i]>> /\ R[i].end = P[i]
  /\ I[P[k]] = <<>>

(* From the first of the items the walk gives all of them.                 *)
LEMMA WalkIs ==
  ASSUME NEW n \in Nat, NEW I, GoesForward(n, I), NEW k \in Nat,
         NEW P, NEW R, ItemsAt(n, I, k, P, R)
  PROVE  ItemWalk(n, I)[P[0]] = R
<1> DEFINE T == {R[i] : i \in 1 .. k}
<1>0. /\ P \in [0 .. k -> 0 .. n] /\ R \in [1 .. k -> T]
      /\ \A i \in 1 .. k : I[P[i - 1]] = <<R[i]>> /\ R[i].end = P[i]
      /\ I[P[k]] = <<>>
  BY DEF ItemsAt
<1> HIDE DEF T
<1> DEFINE W(at) == ItemWalk(n, I)[at]
           Rest(m) == [i \in 1 .. m |-> R[k - m + i]]
           B == {m \in 0 .. k : W(P[k - m]) = Rest(m)}
<1>1. 0 \in B
  <2>1. k \in 0 .. k /\ k - 0 = k
    OBVIOUS
  <2>2. P[k] \in 0 .. n
    BY <1>0, <2>1
  <2>3. W(P[k]) = <<>>
    BY <1>0, <2>2, WalkExists
  <2>4. Rest(0) = <<>>
    OBVIOUS
  <2> HIDE DEF W, Rest
  <2> QED BY <2>1, <2>3, <2>4
<1>2. ASSUME NEW m \in 1 .. k, m - 1 \in B PROVE m \in B
  <2>1. PICK i \in 1 .. k : i = k - m + 1
    OBVIOUS
  <2>2. k - m = i - 1 /\ k - (m - 1) = i /\ i - 1 \in 0 .. k /\ i \in 0 .. k
    BY <2>1
  <2>3. W(P[i]) = Rest(m - 1)
    <3> HIDE DEF W, Rest
    <3> QED BY <1>2, <2>2
  <2>4. W(P[i - 1]) = <<R[i]>> \o W(P[i])
    <3>1. P[i - 1] \in 0 .. n
      BY <1>0, <2>2
    <3>2. I[P[i - 1]] = <<R[i]>> /\ R[i].end = P[i]
      BY <1>0
    <3>3. I[P[i - 1]] # <<>> /\ I[P[i - 1]][1].end = P[i]
      BY <3>2
    <3>4. ItemWalk(n, I)[P[i - 1]] = I[P[i - 1]] \o ItemWalk(n, I)[I[P[i - 1]][1].end]
      <4>1. PICK at \in 0 .. n : at = P[i - 1]
        BY <3>1
      <4>2. ItemWalk(n, I)[at] = IF I[at] = <<>> THEN <<>> ELSE I[at] \o ItemWalk(n, I)[I[at][1].end]
        BY WalkExists
      <4> QED BY <3>3, <4>1, <4>2
    <3> QED BY <3>2, <3>3, <3>4
  <2>5. <<R[i]>> \o Rest(m - 1) = Rest(m)
    <3>1. \A j \in 1 .. m - 1 : k - (m - 1) + j \in 1 .. k
      OBVIOUS
    <3>2. \A j \in 1 .. m : k - m + j \in 1 .. k
      OBVIOUS
    <3>3. R[i] \in T
      BY <1>0
    <3>4. m - 1 \in Nat /\ Rest(m - 1) \in [1 .. m - 1 -> T]
      BY <1>0, <3>1
    <3>5. m \in Nat /\ Rest(m) \in [1 .. m -> T]
      BY <1>0, <3>2
    <3>6. PICK a : a = Rest(m - 1)
      OBVIOUS
    <3>7. a \in Seq(T) /\ Len(a) = m - 1
      <4> HIDE DEF Rest
      <4> QED BY <3>4, <3>6, FunctionLen
    <3>8. PICK c : c = Rest(m)
      OBVIOUS
    <3>9. c \in Seq(T) /\ Len(c) = m
      <4> HIDE DEF Rest
      <4> QED BY <3>5, <3>8, FunctionLen
    <3>10. PICK d : d = <<R[i]>> \o a
      OBVIOUS
    <3>11. d \in Seq(T) /\ Len(d) = m /\ d[1] = R[i] /\ \A j \in 2 .. m : d[j] = a[j - 1]
      <4>1. <<R[i]>> \in Seq(T) /\ Len(<<R[i]>>) = 1
        BY <3>3
      <4> QED BY <3>3, <3>7, <3>10, <4>1
    <3>12. ASSUME NEW j \in 1 .. m PROVE d[j] = c[j]
      <4>1. CASE j = 1
        <5>1. c[1] = R[k - m + 1]
          BY <3>8
        <5> QED BY <2>1, <3>11, <4>1, <5>1
      <4>2. CASE j # 1
        <5>1. j \in 2 .. m /\ j - 1 \in 1 .. m - 1 /\ k - (m - 1) + (j - 1) = k - m + j
          BY <4>2
        <5>2. a[j - 1] = R[k - (m - 1) + (j - 1)] /\ c[j] = R[k - m + j]
          BY <3>6, <3>8, <5>1
        <5> QED BY <3>11, <5>1, <5>2
      <4> QED BY <4>1, <4>2
    <3>13. d = c
      BY <3>9, <3>11, <3>12, SeqEqual
    <3> QED BY <3>6, <3>8, <3>10, <3>13
  <2>6. W(P[k - m]) = Rest(m)
    <3> HIDE DEF W, Rest
    <3> QED BY <2>2, <2>3, <2>4, <2>5
  <2> HIDE DEF W, Rest
  <2> QED BY <2>6
<1>3. k \in B
  <2>1. 0 .. k \subseteq B
    <3> HIDE DEF B
    <3> QED BY <1>1, <1>2, StepByStep
  <2> HIDE DEF B
  <2> QED BY <2>1
<1>4. W(P[0]) = Rest(k)
  <2>1. k - k = 0
    OBVIOUS
  <2> HIDE DEF W, Rest
  <2> QED BY <1>3, <2>1
<1>5. Rest(k) = R
  <2>1. \A i \in 1 .. k : k - k + i = i
    OBVIOUS
  <2> QED BY <1>0, <2>1
<1> QED BY <1>4, <1>5

-----------------------------------------------------------------------------
(***************************************************************************)
(* Records of symbols and of types: two bytes of length, which counts all  *)
(* that follows, two of kind, and the data.                                *)
(***************************************************************************)
Octets == 0 .. 255

LEMMA OctetIsNat == \A x \in Octets : x \in Nat
BY DEF Octets

Records == [kind : Nat, data : Seq(Octets)]

(* P[i] is where record i ends.                                            *)
RecordPlaces(b, rs, P) ==
  /\ P \in [0 .. Len(rs) -> Nat] /\ P[0] = 0 /\ P[Len(rs)] <= Len(b)
  /\ \A i \in 1 .. Len(rs) :
       /\ P[i] = P[i - 1] + 4 + Len(rs[i].data) /\ P[i] <= P[Len(rs)]
       /\ U16At(b, P[i - 1]) = 2 + Len(rs[i].data)
       /\ U16At(b, P[i - 1] + 2) = rs[i].kind
       /\ \A j \in 1 .. Len(rs[i].data) : b[P[i - 1] + 4 + j] = rs[i].data[j]

RecordAt(rs, P, i) ==
  [at |-> P[i - 1], end |-> P[i], kind |-> rs[i].kind, data |-> rs[i].data]

LEMMA ConcatIs ==
  ASSUME NEW S, NEW a \in Seq(S), NEW b \in Seq(S)
  PROVE  /\ a \o b \in Seq(S) /\ Len(a \o b) = Len(a) + Len(b)
         /\ \A i \in 1 .. Len(a) : (a \o b)[i] = a[i]
         /\ \A j \in 1 .. Len(b) : (a \o b)[Len(a) + j] = b[j]
OBVIOUS

LEMMA DropIs ==
  ASSUME NEW S, NEW b \in Seq(S), NEW at \in 0 .. Len(b)
  PROVE  /\ Drop(b, at) \in Seq(S) /\ Len(Drop(b, at)) = Len(b) - at
         /\ \A j \in 1 .. Len(b) - at : Drop(b, at)[j] = b[at + j]
<1>1. PICK n \in Nat : n = Len(b) /\ \A i \in 1 .. n : b[i] \in S
  BY LenProperties
<1>2. at \in Nat /\ at + 1 \in Int /\ at <= n
  BY <1>1
<1>3. \A i \in at + 1 .. n : b[i] \in S
  BY <1>1, <1>2
<1>4. CASE at = n
  <2>1. SubSeq(b, at + 1, n) = <<>>
    BY <1>1, <1>4
  <2> QED BY <1>1, <1>4, <2>1 DEF Drop
<1>5. CASE at < n
  <2>1. at + 1 <= n
    BY <1>2, <1>5
  <2>2. /\ SubSeq(b, at + 1, n) \in Seq(S)
        /\ Len(SubSeq(b, at + 1, n)) = n - (at + 1) + 1
        /\ \A i \in 1 .. n - (at + 1) + 1 : SubSeq(b, at + 1, n)[i] = b[at + 1 + i - 1]
    BY <1>2, <1>3, <2>1, SubSeqProperties
  <2>3. n - (at + 1) + 1 = n - at /\ \A i \in Int : at + 1 + i - 1 = at + i
    BY <1>2
  <2> QED BY <1>1, <2>2, <2>3 DEF Drop
<1> QED BY <1>1, <1>2, <1>4, <1>5

(* The bytes at a place are those at the start of what is left there.      *)
LEMMA U16InRest ==
  ASSUME NEW b \in Seq(Octets), NEW at \in Nat, NEW k \in Nat, at + k + 2 <= Len(b)
  PROVE  /\ U16At(Drop(b, at), k) = U16At(b, at + k)
         /\ U16At(Drop(b, at), k) \in Nat
<1>1. PICK n \in Nat : n = Len(b) /\ \A i \in 1 .. n : b[i] \in Octets
  BY LenProperties
<1>2. at \in 0 .. Len(b) /\ k + 1 \in 1 .. Len(b) - at /\ k + 2 \in 1 .. Len(b) - at
      /\ at + (k + 1) = at + k + 1 /\ at + (k + 2) = at + k + 2
  BY <1>1
<1>3. Drop(b, at)[k + 1] = b[at + k + 1] /\ Drop(b, at)[k + 2] = b[at + k + 2]
  <2>1. \A j \in 1 .. Len(b) - at : Drop(b, at)[j] = b[at + j]
    BY <1>2, DropIs
  <2>2. Drop(b, at)[k + 1] = b[at + (k + 1)] /\ Drop(b, at)[k + 2] = b[at + (k + 2)]
    BY <1>2, <2>1
  <2> QED BY <1>2, <2>2
<1>4. b[at + k + 1] \in Octets /\ b[at + k + 2] \in Octets
  <2>1. at + k + 1 \in 1 .. n /\ at + k + 2 \in 1 .. n
    BY <1>1
  <2> QED BY <1>1, <2>1
<1>5. PICK x, y : x = b[at + k + 1] /\ y = b[at + k + 2]
  OBVIOUS
<1>6. x + 256 * y \in Nat
  <2>1. x \in Nat /\ y \in Nat
    BY <1>4, <1>5, OctetIsNat
  <2> QED BY <2>1
<1>7. U16At(b, at + k) = x + 256 * y /\ U16At(Drop(b, at), k) = x + 256 * y
  BY <1>3, <1>5 DEF U16At
<1> QED BY <1>6, <1>7

(* What SymAt and TypeAt say of a place: nothing, or a record behind it.   *)
LEMMA RecordOrNone ==
  ASSUME NEW b \in Seq(Octets), NEW at \in 0 .. Len(b), SymAt(b, at) # Err
  PROVE  SymAt(b, at)[1].end \in at + 1 .. Len(b)
<1>1. PICK n \in Nat : n = Len(b)
  OBVIOUS
<1>2. PICK r : r = Drop(b, at)
  OBVIOUS
<1>3. r \in Seq(Octets) /\ Len(r) = n - at /\ at \in Nat
  BY <1>1, <1>2, DropIs
<1>4. ~(Len(r) < 4 \/ U16At(r, 0) < 2 \/ Len(r) < 2 + U16At(r, 0))
  BY <1>2 DEF SymAt
<1>5. SymAt(b, at)[1].end = at + 2 + U16At(r, 0)
  BY <1>2, <1>4 DEF SymAt
<1>6. U16At(r, 0) \in Nat
  <2>1. at + 0 + 2 <= Len(b) /\ 0 \in Nat
    BY <1>1, <1>3, <1>4
  <2>2. U16At(Drop(b, at), 0) \in Nat
    BY <1>3, <2>1, U16InRest
  <2> QED BY <1>2, <2>2
<1>7. PICK u \in Nat : u = U16At(r, 0)
  BY <1>6
<1>8. ~(n - at < 2 + u) /\ SymAt(b, at)[1].end = at + 2 + u
  BY <1>3, <1>4, <1>5, <1>7
<1>9. at + 2 + u \in at + 1 .. n
  BY <1>1, <1>3, <1>7, <1>8
<1> QED BY <1>1, <1>8, <1>9

LEMMA RecordFound ==
  ASSUME NEW b \in Seq(Octets), NEW rs \in Seq(Records), NEW P, RecordPlaces(b, rs, P),
         NEW i \in 1 .. Len(rs)
  PROVE  SymAt(b, P[i - 1]) = <<RecordAt(rs, P, i)>> /\ MutSymAt(b, P[i - 1]) = <<RecordAt(rs, P, i)>>
<1>1. PICK n \in Nat : n = Len(b)
  OBVIOUS
<1>2. PICK d \in Seq(Octets), at \in Nat : d = rs[i].data /\ at = P[i - 1] /\ rs[i].kind \in Nat
  <2>1. rs[i] \in Records
    OBVIOUS
  <2>2. i - 1 \in 0 .. Len(rs)
    OBVIOUS
  <2>3. P[i - 1] \in Nat
    BY <2>2 DEF RecordPlaces
  <2>4. rs[i].data \in Seq(Octets) /\ rs[i].kind \in Nat
    BY <2>1 DEF Records
  <2> QED BY <2>3, <2>4
<1>3. PICK l \in Nat : l = Len(d)
  OBVIOUS
<1>4. /\ P[i] = at + 4 + l /\ at + 4 + l <= n
      /\ U16At(b, at) = 2 + l /\ U16At(b, at + 2) = rs[i].kind
      /\ \A j \in 1 .. l : b[at + 4 + j] = d[j]
  <2>1. Len(rs) \in 0 .. Len(rs)
    BY LenProperties
  <2>2. PICK m \in Nat : m = P[Len(rs)] /\ m <= n
    BY <1>1, <2>1 DEF RecordPlaces
  <2>3. P[i] = P[i - 1] + 4 + Len(rs[i].data) /\ P[i] <= P[Len(rs)]
    BY DEF RecordPlaces
  <2>4. P[i] = at + 4 + l /\ at + 4 + l <= m
    BY <1>2, <1>3, <2>2, <2>3
  <2>5. at + 4 + l <= n
    BY <1>1, <1>2, <1>3, <2>2, <2>4
  <2>6. /\ U16At(b, P[i - 1]) = 2 + Len(rs[i].data)
        /\ U16At(b, P[i - 1] + 2) = rs[i].kind
        /\ \A j \in 1 .. Len(rs[i].data) : b[P[i - 1] + 4 + j] = rs[i].data[j]
    BY DEF RecordPlaces
  <2> QED BY <1>2, <1>3, <2>4, <2>5, <2>6
<1>5. PICK r : r = Drop(b, at)
  OBVIOUS
<1>6. /\ r \in Seq(Octets) /\ Len(r) = n - at
      /\ \A j \in 1 .. n - at : r[j] = b[at + j]
  <2>1. at \in 0 .. Len(b)
    BY <1>1, <1>4
  <2> QED BY <1>1, <1>5, <2>1, DropIs
<1>7. U16At(r, 0) = 2 + l /\ U16At(r, 2) = rs[i].kind
  <2>1. at + 0 + 2 <= Len(b) /\ at + 2 + 2 <= Len(b) /\ at + 0 = at
    BY <1>1, <1>4
  <2>2. U16At(Drop(b, at), 0) = U16At(b, at + 0) /\ U16At(Drop(b, at), 2) = U16At(b, at + 2)
    BY <2>1, U16InRest
  <2> QED BY <1>4, <1>5, <2>1, <2>2
<1>8. SubSeq(r, 5, 2 + U16At(r, 0)) = d
  <2>1. PICK e : e = SubSeq(r, 5, 4 + l)
    OBVIOUS
  <2>2. 2 + (2 + l) = 4 + l
    BY <1>3
  <2>3. e \in Seq(Octets) /\ Len(e) = l /\ \A j \in 1 .. l : e[j] = r[4 + j]
    <3>1. CASE l = 0
      <4>1. e = <<>>
        BY <1>6, <2>1, <3>1
      <4> QED BY <3>1, <4>1
    <3>2. CASE l # 0
      <4>1. 5 <= 4 + l /\ 5 \in Int /\ 4 + l \in Int
        BY <1>3, <3>2
      <4>2. \A j \in 5 .. 4 + l : r[j] \in Octets
        BY <1>1, <1>4, <1>6
      <4>3. /\ SubSeq(r, 5, 4 + l) \in Seq(Octets)
            /\ Len(SubSeq(r, 5, 4 + l)) = (4 + l) - 5 + 1
            /\ \A j \in 1 .. (4 + l) - 5 + 1 : SubSeq(r, 5, 4 + l)[j] = r[5 + j - 1]
        BY ONLY <1>6, <4>1, <4>2, SubSeqProperties
      <4>4. (4 + l) - 5 + 1 = l /\ \A j \in Int : 5 + j - 1 = 4 + j
        BY <1>3
      <4> QED BY <2>1, <4>3, <4>4
    <3> QED BY <3>1, <3>2
  <2>4. \A j \in 1 .. l : e[j] = d[j]
    <3>1. \A j \in 1 .. l : 4 + j \in 1 .. n - at /\ at + (4 + j) = at + 4 + j
      BY <1>1, <1>4
    <3> QED BY <1>4, <1>6, <2>3, <3>1
  <2>5. e = d
    BY <1>3, <2>3, <2>4, SeqEqual
  <2> QED BY <1>7, <2>1, <2>2, <2>5
<1>9. ~(Len(r) < 4) /\ ~(U16At(r, 0) < 2) /\ ~(Len(r) < 2 + U16At(r, 0))
      /\ at + 2 + U16At(r, 0) = P[i]
  BY <1>1, <1>3, <1>4, <1>6, <1>7
<1>10. SymAt(b, at) = <<[at |-> at, end |-> P[i], kind |-> rs[i].kind, data |-> d]>>
  BY <1>5, <1>7, <1>8, <1>9 DEF SymAt
<1>11. MutSymAt(b, at) = <<[at |-> at, end |-> P[i], kind |-> rs[i].kind, data |-> d]>>
  BY <1>5, <1>7, <1>8, <1>9 DEF MutSymAt
<1>12. RecordAt(rs, P, i) = [at |-> at, end |-> P[i], kind |-> rs[i].kind, data |-> d]
  BY <1>2 DEF RecordAt
<1> QED BY <1>2, <1>10, <1>11, <1>12

(* All of the records come out if there is none behind the last one.       *)
LEMMA RecordsFound ==
  ASSUME NEW b \in Seq(Octets), NEW rs \in Seq(Records), NEW P, RecordPlaces(b, rs, P),
         SymAt(b, P[Len(rs)]) = Err
  PROVE  SymsFrom(b, 0) = [i \in 1 .. Len(rs) |-> RecordAt(rs, P, i)]
<1>1. PICK n \in Nat, k \in Nat : n = Len(b) /\ k = Len(rs)
  OBVIOUS
<1> DEFINE I == [at \in 0 .. n |-> SymAt(b, at)]
           R == [i \in 1 .. k |-> RecordAt(rs, P, i)]
<1>2. SymsFrom(b, 0) = ItemWalk(n, I)[0]
  <2>1. SymsFrom(b, 0) =
          (CHOOSE g : g = [at \in 0 .. n |-> IF SymAt(b, at) = <<>> THEN <<>>
                                             ELSE SymAt(b, at) \o g[SymAt(b, at)[1].end]])[0]
    BY <1>1 DEF SymsFrom, ItemsFrom, Err
  <2>2. \A g : [at \in 0 .. n |-> IF SymAt(b, at) = <<>> THEN <<>>
                                  ELSE SymAt(b, at) \o g[SymAt(b, at)[1].end]]
               = WalkSteps(g, n, I)
    BY DEF WalkSteps
  <2> HIDE DEF I
  <2> QED BY <2>1, <2>2 DEF ItemWalk
<1>3. GoesForward(n, I)
  <2>1. ASSUME NEW at \in 0 .. n, SymAt(b, at) # <<>> PROVE SymAt(b, at)[1].end \in at + 1 .. n
    BY <1>1, <2>1, RecordOrNone DEF Err
  <2> QED BY <2>1 DEF GoesForward
<1>4. P \in [0 .. k -> 0 .. n] /\ P[0] = 0
  <2>1. P \in [0 .. k -> Nat] /\ P[0] = 0 /\ \A i \in 1 .. k : P[i] <= P[k]
    BY <1>1 DEF RecordPlaces
  <2>2. P[k] <= n /\ P[k] \in Nat
    BY <1>1, <2>1 DEF RecordPlaces
  <2>3. ASSUME NEW i \in 0 .. k PROVE P[i] \in 0 .. n
    <3>1. P[i] \in Nat /\ (i = 0 \/ i \in 1 .. k)
      BY <2>1
    <3> QED BY <2>1, <2>2, <3>1
  <2> QED BY <2>1, <2>3
<1>6. ASSUME NEW i \in 1 .. k PROVE I[P[i - 1]] = <<R[i]>> /\ R[i].end = P[i]
  <2>1. SymAt(b, P[i - 1]) = <<RecordAt(rs, P, i)>>
    BY <1>1, RecordFound
  <2>2. P[i - 1] \in 0 .. n
    <3>1. i - 1 \in 0 .. k
      OBVIOUS
    <3> QED BY <1>4, <3>1
  <2>3. RecordAt(rs, P, i).end = P[i]
    BY DEF RecordAt
  <2> QED BY <2>1, <2>2, <2>3
<1>7. I[P[k]] = <<>>
  <2>1. P[k] \in 0 .. n
    <3>1. k \in 0 .. k
      OBVIOUS
    <3> QED BY <1>4, <3>1
  <2> QED BY <1>1, <2>1 DEF Err
<1>8. ItemWalk(n, I)[P[0]] = R
  <2>1. DOMAIN R = 1 .. k /\ R = [i \in 1 .. k |-> R[i]]
    OBVIOUS
  <2> HIDE DEF I, R
  <2>2. ItemsAt(n, I, k, P, R)
    BY <1>4, <1>6, <1>7, <2>1 DEF ItemsAt
  <2> QED BY <1>3, <2>2, WalkIs
<1> HIDE DEF I
<1> QED BY <1>1, <1>2, <1>4, <1>8

(* A later record ends later.                                              *)
LEMMA PlacesAscend ==
  ASSUME NEW b, NEW rs \in Seq(Records), NEW P, RecordPlaces(b, rs, P),
         NEW i \in 1 .. Len(rs), NEW j \in 1 .. Len(rs), j < i
  PROVE  P[j] <= P[i]
<1>1. PICK k \in Nat : k = Len(rs)
  OBVIOUS
<1>2. P \in [0 .. k -> Nat] /\ \A m \in 1 .. k : P[m] = P[m - 1] + 4 + Len(rs[m].data)
  BY <1>1 DEF RecordPlaces
<1>3. ASSUME NEW m \in 1 .. k PROVE P[m - 1] \in Nat /\ P[m] \in Nat /\ P[m - 1] <= P[m]
  <2>1. m - 1 \in 0 .. k /\ m \in 0 .. k
    OBVIOUS
  <2>2. PICK l \in Nat : l = Len(rs[m].data)
    <3>1. rs[m] \in Records
      BY <1>1
    <3>2. rs[m].data \in Seq(Octets)
      BY <3>1 DEF Records
    <3> QED BY <3>2, LenProperties
  <2>3. P[m - 1] \in Nat /\ P[m] \in Nat /\ P[m] = P[m - 1] + 4 + l
    BY <1>2, <2>1, <2>2
  <2> QED BY <2>3
<1> DEFINE B == {m \in 0 .. k : m >= j => P[j] <= P[m]}
<1>4. 0 \in B
  <2>1. 0 \in 0 .. k /\ ~(0 >= j)
    BY <1>1
  <2> QED BY <2>1
<1>5. ASSUME NEW m \in 1 .. k, m - 1 \in B PROVE m \in B
  <2>1. CASE m - 1 >= j
    <3>1. PICK u, v, w : u = P[j] /\ v = P[m - 1] /\ w = P[m]
      OBVIOUS
    <3>2. u <= v
      BY <1>5, <2>1, <3>1
    <3>3. u \in Nat /\ v \in Nat /\ w \in Nat /\ v <= w
      BY <1>1, <1>3, <3>1
    <3>4. u <= w
      BY <3>2, <3>3
    <3> QED BY <3>1, <3>4
  <2>2. CASE ~(m - 1 >= j)
    <3>1. m >= j => m = j
      BY <1>1, <2>2
    <3>2. P[j] \in Nat
      BY <1>1, <1>3
    <3>3. P[j] <= P[j]
      BY <3>2
    <3> QED BY <3>1, <3>3
  <2> QED BY <2>1, <2>2
<1>6. 0 .. k \subseteq B
  <2> HIDE DEF B
  <2> QED BY <1>4, <1>5, StepByStep
<1>7. i \in B /\ i >= j
  <2>1. i \in 0 .. k
    BY <1>1
  <2> HIDE DEF B
  <2> QED BY <1>6, <2>1
<1> QED BY <1>7

(* What comes out of a stream that is cut is the records that are whole.   *)
LEMMA RecordsCut ==
  ASSUME NEW b \in Seq(Octets), NEW rs \in Seq(Records), NEW P, RecordPlaces(b, rs, P),
         P[Len(rs)] = Len(b), NEW n \in 0 .. Len(b), NEW c,
         c = Cardinality({i \in 1 .. Len(rs) : P[i] <= n})
  PROVE  c \in 0 .. Len(rs) /\ SymsFrom(Take(b, n), 0) = [i \in 1 .. c |-> RecordAt(rs, P, i)]
<1>1. PICK k \in Nat, l \in Nat : k = Len(rs) /\ l = Len(b) /\ n \in Nat /\ n <= l
  OBVIOUS
<1> DEFINE T == {i \in 1 .. k : P[i] <= n}
<1>2. ASSUME NEW i \in 0 .. k PROVE P[i] \in Nat
  BY <1>1 DEF RecordPlaces
<1>3. c \in 0 .. k /\ T = 1 .. c
  <2>1. ASSUME NEW i \in T, NEW j \in 1 .. k, j < i PROVE j \in T
    <3>1. P[j] <= P[i]
      BY <1>1, <2>1, PlacesAscend
    <3>2. PICK u, v : u = P[j] /\ v = P[i]
      OBVIOUS
    <3>3. u \in Nat /\ v \in Nat /\ u <= v /\ v <= n
      BY <1>2, <2>1, <3>1, <3>2
    <3>4. u <= n
      BY <1>1, <3>3
    <3> QED BY <3>2, <3>4
  <2>2. T \in SUBSET (1 .. k)
    OBVIOUS
  <2>3. c = Cardinality(T)
    BY <1>1
  <2> HIDE DEF T
  <2> QED BY <2>1, <2>2, <2>3, DownwardClosed
<1>4. PICK d : d = Take(b, n)
  OBVIOUS
<1>5. d \in Seq(Octets) /\ Len(d) = n /\ \A i \in 1 .. n : d[i] = b[i]
  BY <1>4, FirstPart DEF Take
<1>6. PICK qs : qs = SubSeq(rs, 1, c)
  OBVIOUS
<1>7. qs \in Seq(Records) /\ Len(qs) = c /\ \A i \in 1 .. c : qs[i] = rs[i]
  BY <1>1, <1>3, <1>6, FirstPart
<1> DEFINE Q == [i \in 0 .. c |-> P[i]]
<1>8. P[c] \in Nat /\ P[c] <= n
  <2>1. c \in 0 .. k
    BY <1>3
  <2>2. c = 0 => P[c] = 0
    BY DEF RecordPlaces
  <2>3. c # 0 => c \in T
    <3>1. c # 0 => c \in 1 .. c
      BY <2>1
    <3> HIDE DEF T
    <3> QED BY <1>3, <3>1
  <2> QED BY <1>1, <1>2, <2>1, <2>2, <2>3
<1>9. ASSUME NEW i \in 1 .. c
      PROVE  \E at \in Nat, m \in Nat :
               /\ at = P[i - 1] /\ m = Len(rs[i].data) /\ P[i] = at + 4 + m /\ at + 4 + m <= n
               /\ U16At(b, at) = 2 + m /\ U16At(b, at + 2) = rs[i].kind
               /\ \A j \in 1 .. m : b[at + 4 + j] = rs[i].data[j]
  <2>1. i \in 1 .. Len(rs) /\ i - 1 \in 0 .. k /\ i \in T
    BY <1>1, <1>3
  <2>2. PICK at \in Nat : at = P[i - 1]
    BY <1>2, <2>1
  <2>3. rs[i].data \in Seq(Octets)
    <3>1. rs[i] \in Records
      BY <2>1
    <3> QED BY <3>1 DEF Records
  <2>4. PICK m \in Nat : m = Len(rs[i].data)
    BY <2>3, LenProperties
  <2>5. P[i] = at + 4 + m
    BY <2>1, <2>2, <2>4 DEF RecordPlaces
  <2>6. /\ U16At(b, at) = 2 + m /\ U16At(b, at + 2) = rs[i].kind
        /\ \A j \in 1 .. m : b[at + 4 + j] = rs[i].data[j]
    BY <2>1, <2>2, <2>4 DEF RecordPlaces
  <2>7. P[i] <= n
    BY <2>1
  <2> QED BY <2>2, <2>4, <2>5, <2>6, <2>7
<1>10. RecordPlaces(d, qs, Q)
  <2>1. Q \in [0 .. c -> Nat] /\ Q[0] = 0 /\ Q[c] = P[c]
    <3>1. 0 \in 0 .. c /\ c \in 0 .. c /\ \A i \in 0 .. c : i \in 0 .. k
      BY <1>3
    <3>2. \A i \in 0 .. c : P[i] \in Nat
      BY <1>2, <3>1
    <3>3. P[0] = 0
      BY DEF RecordPlaces
    <3> QED BY <3>1, <3>2, <3>3
  <2>2. ASSUME NEW i \in 1 .. c
        PROVE  /\ Q[i] = Q[i - 1] + 4 + Len(qs[i].data) /\ Q[i] <= Q[c]
               /\ U16At(d, Q[i - 1]) = 2 + Len(qs[i].data)
               /\ U16At(d, Q[i - 1] + 2) = qs[i].kind
               /\ \A j \in 1 .. Len(qs[i].data) : d[Q[i - 1] + 4 + j] = qs[i].data[j]
    <3>1. PICK at \in Nat, m \in Nat :
               /\ at = P[i - 1] /\ m = Len(rs[i].data) /\ P[i] = at + 4 + m /\ at + 4 + m <= n
               /\ U16At(b, at) = 2 + m /\ U16At(b, at + 2) = rs[i].kind
               /\ \A j \in 1 .. m : b[at + 4 + j] = rs[i].data[j]
      BY <1>9
    <3>2. i - 1 \in 0 .. c /\ i \in 0 .. c /\ i \in 1 .. Len(rs) /\ c \in 1 .. Len(rs)
      BY <1>1, <1>3
    <3>3. Q[i - 1] = at /\ Q[i] = at + 4 + m
      BY <3>1, <3>2
    <3>8. at \in Nat /\ m \in Nat /\ n \in Nat /\ at + 4 + m <= n
      BY <1>1, <3>1
    <3>4. P[i] <= P[c]
      <4>1. CASE i < c
        BY <3>2, <4>1, PlacesAscend
      <4>2. CASE i = c
        BY <1>8, <4>2
      <4> QED BY <1>3, <4>1, <4>2
    <3>5. d[at + 1] = b[at + 1] /\ d[at + 2] = b[at + 2] /\ d[at + 2 + 1] = b[at + 2 + 1]
          /\ d[at + 2 + 2] = b[at + 2 + 2]
      <4>1. at + 1 \in 1 .. n /\ at + 2 \in 1 .. n /\ at + 2 + 1 \in 1 .. n /\ at + 2 + 2 \in 1 .. n
        BY ONLY <3>8
      <4> QED BY <1>5, <4>1
    <3>6. U16At(d, at) = 2 + m /\ U16At(d, at + 2) = rs[i].kind
      BY <3>1, <3>5 DEF U16At
    <3>7. ASSUME NEW j \in 1 .. m PROVE d[at + 4 + j] = rs[i].data[j]
      <4>1. at + 4 + j \in 1 .. n
        <5>1. j \in 1 .. m
          OBVIOUS
        <5> QED BY ONLY <3>8, <5>1
      <4> QED BY <1>5, <3>1, <4>1
    <3> HIDE DEF Q
    <3> QED BY <1>7, <2>1, <3>1, <3>3, <3>4, <3>6, <3>7
  <2> HIDE DEF Q
  <2> QED BY <1>5, <1>7, <1>8, <2>1, <2>2 DEF RecordPlaces
<1>11. SymAt(d, P[c]) = Err
  <2>1. PICK at \in Nat : at = P[c] /\ at <= n
    BY <1>8
  <2>2. PICK r : r = Drop(d, at)
    OBVIOUS
  <2>3. r \in Seq(Octets) /\ Len(r) = n - at
    <3>1. at \in 0 .. Len(d)
      BY <1>1, <1>5, <2>1
    <3> QED BY <1>5, <2>2, <3>1, DropIs
  <2>4. Len(r) < 4 \/ U16At(r, 0) < 2 \/ Len(r) < 2 + U16At(r, 0)
    <3>1. CASE c = k
      <4>1. at = l
        BY <1>1, <2>1, <3>1
      <4> QED BY <1>1, <2>1, <2>3, <4>1
    <3>2. CASE c # k
      <4>1. c + 1 \in 1 .. k /\ (c + 1) - 1 = c /\ ~(c + 1 \in T)
        <5>1. c \in 0 .. k /\ T = 1 .. c
          BY <1>3
        <5> HIDE DEF T
        <5> QED BY <3>2, <5>1
      <4>2. PICK i \in 1 .. k : i = c + 1 /\ i - 1 = c
        BY <4>1
      <4>3. rs[i].data \in Seq(Octets)
        <5>1. rs[i] \in Records
          BY <1>1
        <5> QED BY <5>1 DEF Records
      <4>4. PICK m \in Nat : m = Len(rs[i].data)
        BY <4>3, LenProperties
      <4>5. P[i] = at + 4 + m /\ U16At(b, at) = 2 + m
        BY <1>1, <2>1, <4>2, <4>4 DEF RecordPlaces
      <4>6. ~(at + 4 + m <= n)
        BY <4>1, <4>2, <4>5
      <4>7. CASE n - at < 4
        BY <2>3, <4>7
      <4>8. CASE ~(n - at < 4)
        <5>1. at + 0 + 2 <= Len(d) /\ at + 0 = at
          BY <1>1, <1>5, <4>8
        <5>2. U16At(r, 0) = U16At(d, at)
          <6>1. U16At(Drop(d, at), 0) = U16At(d, at + 0)
            BY <1>5, <5>1, U16InRest
          <6> QED BY <2>2, <5>1, <6>1
        <5>3. d[at + 1] = b[at + 1] /\ d[at + 2] = b[at + 2]
          <6>1. at + 1 \in 1 .. n /\ at + 2 \in 1 .. n
            BY <1>1, <4>8
          <6> QED BY <1>5, <6>1
        <5>4. U16At(d, at) = U16At(b, at)
          BY <5>3 DEF U16At
        <5>5. U16At(r, 0) = 2 + m
          BY <4>5, <5>2, <5>4
        <5>6. n - at < 2 + (2 + m)
          BY <1>1, <4>6
        <5> QED BY <2>3, <5>5, <5>6
      <4> QED BY <4>7, <4>8
    <3> QED BY <3>1, <3>2
  <2> QED BY <2>1, <2>2, <2>4 DEF SymAt
<1>12. SymsFrom(d, 0) = [i \in 1 .. c |-> RecordAt(qs, Q, i)]
  <2>1. Q[Len(qs)] = P[c]
    <3>1. c \in 0 .. c
      BY <1>3
    <3> QED BY <1>7, <3>1
  <2> HIDE DEF Q
  <2>2. SymAt(d, Q[Len(qs)]) = Err
    BY <1>11, <2>1
  <2>3. SymsFrom(d, 0) = [i \in 1 .. Len(qs) |-> RecordAt(qs, Q, i)]
    BY <1>5, <1>7, <1>10, <2>2, RecordsFound
  <2> QED BY <1>7, <2>3
<1>13. ASSUME NEW i \in 1 .. c PROVE RecordAt(qs, Q, i) = RecordAt(rs, P, i)
  <2>1. i - 1 \in 0 .. c /\ i \in 0 .. c
    BY <1>3
  <2>2. Q[i - 1] = P[i - 1] /\ Q[i] = P[i] /\ qs[i] = rs[i]
    BY <1>7, <2>1
  <2> HIDE DEF Q
  <2> QED BY <2>2 DEF RecordAt
<1> HIDE DEF Q, T
<1> QED BY <1>1, <1>3, <1>4, <1>12, <1>13

-----------------------------------------------------------------------------
(***************************************************************************)
(* Records that are written one after another.                             *)
(***************************************************************************)
Word == {x \in Nat : x < 65536}

ShortRecords == {r \in Records : r.kind \in Word /\ 2 + Len(r.data) \in Word}

LEMMA WordPut ==
  ASSUME NEW w \in Word
  PROVE  /\ PutU16(w) \in Seq(Octets) /\ Len(PutU16(w)) = 2
         /\ PutU16(w)[1] + 256 * PutU16(w)[2] = w
<1>1. PICK u, v : u = w % 256 /\ v = w \div 256
  OBVIOUS
<1>3. u \in 0 .. 255 /\ v \in 0 .. 255 /\ u + 256 * v = w
  BY <1>1, SMT DEF Word
<1>4. u \in Octets /\ v \in Octets
  BY <1>3 DEF Octets
<1>5. PutU16(w) = <<u, v>>
  BY <1>1 DEF PutU16
<1>6. <<u, v>> \in Seq(Octets)
  BY <1>4
<1> QED BY <1>3, <1>5, <1>6

Written(rs) == [i \in DOMAIN rs |-> RecordBytes(rs[i])]

LEMMA RecordBytesIs ==
  ASSUME NEW r \in ShortRecords
  PROVE  /\ RecordBytes(r) \in Seq(Octets) /\ Len(RecordBytes(r)) = 4 + Len(r.data)
         /\ Len(r.data) \in Nat /\ r.data \in Seq(Octets) /\ r.kind \in Nat
         /\ U16At(RecordBytes(r), 0) = 2 + Len(r.data) /\ U16At(RecordBytes(r), 2) = r.kind
         /\ \A j \in 1 .. Len(r.data) : RecordBytes(r)[4 + j] = r.data[j]
<1>1. r.data \in Seq(Octets) /\ r.kind \in Word /\ 2 + Len(r.data) \in Word /\ r.kind \in Nat
  BY DEF ShortRecords, Records
<1>2. PICK d \in Seq(Octets), l \in Nat : d = r.data /\ l = Len(d)
  BY <1>1, LenProperties
<1>3. PICK a, c : a = PutU16(2 + l) /\ c = PutU16(r.kind)
  OBVIOUS
<1>4. a \in Seq(Octets) /\ Len(a) = 2 /\ a[1] + 256 * a[2] = 2 + l
  BY <1>1, <1>2, <1>3, WordPut
<1>5. c \in Seq(Octets) /\ Len(c) = 2 /\ c[1] + 256 * c[2] = r.kind
  BY <1>1, <1>3, WordPut
<1>6. RecordBytes(r) = a \o c \o d
  BY <1>2, <1>3 DEF RecordBytes
<1>7. PICK e : e = a \o c
  OBVIOUS
<1>8. /\ e \in Seq(Octets) /\ Len(e) = 4
      /\ e[1] = a[1] /\ e[2] = a[2] /\ e[3] = c[1] /\ e[4] = c[2]
  <2>1. /\ a \o c \in Seq(Octets) /\ Len(a \o c) = Len(a) + Len(c)
        /\ \A i \in 1 .. Len(a) : (a \o c)[i] = a[i]
        /\ \A j \in 1 .. Len(c) : (a \o c)[Len(a) + j] = c[j]
    <3>1. a \in Seq(Octets) /\ c \in Seq(Octets)
      BY <1>4, <1>5
    <3> QED BY ONLY <3>1, ConcatIs
  <2>2. 1 \in 1 .. 2 /\ 2 \in 1 .. 2 /\ 2 + 1 = 3 /\ 2 + 2 = 4
    OBVIOUS
  <2> QED BY <1>4, <1>5, <1>7, <2>1, <2>2
<1>9. PICK f : f = e \o d
  OBVIOUS
<1>10. /\ f \in Seq(Octets) /\ Len(f) = 4 + l
       /\ f[1] = e[1] /\ f[2] = e[2] /\ f[3] = e[3] /\ f[4] = e[4]
       /\ \A j \in 1 .. l : f[4 + j] = d[j]
  <2>1. /\ e \o d \in Seq(Octets) /\ Len(e \o d) = Len(e) + Len(d)
        /\ \A i \in 1 .. Len(e) : (e \o d)[i] = e[i]
        /\ \A j \in 1 .. Len(d) : (e \o d)[Len(e) + j] = d[j]
    <3>1. e \in Seq(Octets) /\ d \in Seq(Octets)
      BY <1>8
    <3> QED BY ONLY <3>1, ConcatIs
  <2>2. 1 \in 1 .. 4 /\ 2 \in 1 .. 4 /\ 3 \in 1 .. 4 /\ 4 \in 1 .. 4
    OBVIOUS
  <2> QED BY <1>2, <1>8, <1>9, <2>1, <2>2
<1>11. U16At(f, 0) = 2 + l /\ U16At(f, 2) = r.kind
  BY <1>4, <1>5, <1>8, <1>10 DEF U16At
<1>12. RecordBytes(r) = f
  BY <1>6, <1>7, <1>9
<1> QED BY <1>1, <1>2, <1>10, <1>11, <1>12

JoinedPlaces(b, rs, tail, P) ==
  /\ RecordPlaces(b, rs, P) /\ Len(b) = P[Len(rs)] + Len(tail)
  /\ \A j \in 1 .. Len(tail) : b[P[Len(rs)] + j] = tail[j]

(* Each lies behind the one before, also if something follows the last.    *)
LEMMA RecordsJoined ==
  ASSUME NEW rs \in Seq(ShortRecords), NEW tail \in Seq(Octets), NEW b,
         b = FlattenSeq(Written(rs)) \o tail
  PROVE  /\ b \in Seq(Octets) /\ rs \in Seq(Records)
         /\ \E P : JoinedPlaces(b, rs, tail, P)
<1>1. PICK k \in Nat : k = Len(rs) /\ DOMAIN rs = 1 .. k
  BY LenProperties
<1>2. ASSUME NEW i \in 1 .. k
      PROVE  /\ RecordBytes(rs[i]) \in Seq(Octets) /\ Len(RecordBytes(rs[i])) = 4 + Len(rs[i].data)
             /\ Len(rs[i].data) \in Nat /\ rs[i].data \in Seq(Octets)
             /\ U16At(RecordBytes(rs[i]), 0) = 2 + Len(rs[i].data)
             /\ U16At(RecordBytes(rs[i]), 2) = rs[i].kind
             /\ \A j \in 1 .. Len(rs[i].data) : RecordBytes(rs[i])[4 + j] = rs[i].data[j]
  <2>1. rs[i] \in ShortRecords
    BY <1>1
  <2> QED BY <2>1, RecordBytesIs
<1>3. rs \in Seq(Records)
  <2>1. ShortRecords \subseteq Records
    BY DEF ShortRecords
  <2> QED BY <2>1, SeqMonotonic
<1>4. PICK parts : parts = Written(rs)
  OBVIOUS
<1>5. parts \in Seq(Seq(Octets)) /\ Len(parts) = k /\ \A i \in 1 .. k : parts[i] = RecordBytes(rs[i])
  <2>1. parts = [i \in 1 .. k |-> RecordBytes(rs[i])]
    BY <1>1, <1>4 DEF Written
  <2>2. parts \in [1 .. k -> Seq(Octets)]
    BY <1>2, <2>1
  <2> QED BY <2>1, <2>2, FunctionLen
<1>6. PICK a, m : a = FlattenSeq(parts) /\ m = Len(tail)
  OBVIOUS
<1>7. a \in Seq(Octets)
  <2>1. \E P \in [0 .. Len(parts) -> Seq(Octets)] : FlattenSeq(parts) = P[Len(parts)]
    BY <1>5, FlattenPrefixes
  <2>2. Len(parts) \in 0 .. Len(parts)
    BY <1>5
  <2> QED BY <1>6, <2>1, <2>2
<1>8. PICK L : /\ PartStarts(parts, L) /\ Len(a) = L[k]
               /\ \A i \in 1 .. k :
                    /\ L[i] <= L[k]
                    /\ \A j \in 1 .. Len(parts[i]) : a[L[i - 1] + j] = parts[i][j]
  <2>1. PICK L : /\ PartStarts(parts, L) /\ Len(FlattenSeq(parts)) = L[Len(parts)]
                 /\ \A i \in 1 .. Len(parts) :
                      /\ L[i] <= L[Len(parts)]
                      /\ \A j \in 1 .. Len(parts[i]) :
                           FlattenSeq(parts)[L[i - 1] + j] = parts[i][j]
    BY <1>5, FlattenSegments
  <2>2. Len(parts) = k /\ FlattenSeq(parts) = a
    BY <1>5, <1>6
  <2> WITNESS L
  <2> QED BY <2>1, <2>2
<1>9. L \in [0 .. k -> Nat] /\ L[0] = 0 /\ \A i \in 1 .. k : L[i] = L[i - 1] + Len(parts[i])
  BY <1>5, <1>8 DEF PartStarts
<1>10. PICK z \in Nat : z = L[k] /\ m \in Nat
  <2>1. k \in 0 .. k
    OBVIOUS
  <2> QED BY <1>6, <1>9, <2>1, LenProperties
<1>11. /\ b \in Seq(Octets) /\ Len(b) = z + m
       /\ \A j \in 1 .. z : b[j] = a[j]
       /\ \A j \in 1 .. m : b[z + j] = tail[j]
  <2>1. b = a \o tail
    BY <1>4, <1>6
  <2>2. Len(a) = z
    BY <1>8, <1>10
  <2>3. /\ b \in Seq(Octets) /\ Len(b) = Len(a) + Len(tail)
        /\ \A i \in 1 .. Len(a) : b[i] = a[i]
        /\ \A j \in 1 .. Len(tail) : b[Len(a) + j] = tail[j]
    BY <1>7, <2>1, ConcatIs
  <2> QED BY <1>6, <2>2, <2>3
<1>12. ASSUME NEW i \in 1 .. k
       PROVE  /\ L[i] = L[i - 1] + 4 + Len(rs[i].data) /\ L[i] <= L[k]
              /\ U16At(b, L[i - 1]) = 2 + Len(rs[i].data)
              /\ U16At(b, L[i - 1] + 2) = rs[i].kind
              /\ \A j \in 1 .. Len(rs[i].data) : b[L[i - 1] + 4 + j] = rs[i].data[j]
  <2>1. PICK at \in Nat, l \in Nat, q \in Seq(Octets) : /\ at = L[i - 1] /\ l = Len(rs[i].data)
                                       /\ q = RecordBytes(rs[i])
    <3>1. i - 1 \in 0 .. k
      OBVIOUS
    <3> QED BY <1>2, <1>9, <3>1
  <2>2. Len(q) = 4 + l /\ parts[i] = q
    BY <1>2, <1>5, <2>1
  <2>3. L[i] = at + (4 + l) /\ at + (4 + l) <= z
    BY <1>8, <1>9, <1>10, <2>1, <2>2
  <2>4. ASSUME NEW j \in 1 .. 4 + l PROVE b[at + j] = q[j]
    <3>1. at + j \in 1 .. z
      BY <1>10, <2>3
    <3>2. a[at + j] = q[j]
      BY <1>8, <2>1, <2>2
    <3> QED BY <1>11, <3>1, <3>2
  <2>5. b[at + 1] = q[1] /\ b[at + 2] = q[2] /\ b[at + 3] = q[3] /\ b[at + 4] = q[4]
    <3>1. 1 \in 1 .. 4 + l /\ 2 \in 1 .. 4 + l /\ 3 \in 1 .. 4 + l /\ 4 \in 1 .. 4 + l
      BY <2>1
    <3> QED BY <2>4, <3>1
  <2>6. U16At(b, at) = U16At(q, 0) /\ U16At(b, at + 2) = U16At(q, 2)
    <3>1. at + 0 = at /\ at + 2 + 1 = at + 3 /\ at + 2 + 2 = at + 4
      BY <2>1
    <3>2. U16At(b, at) = b[at + 1] + 256 * b[at + 2] /\ U16At(q, 0) = q[1] + 256 * q[2]
      BY DEF U16At
    <3>3. U16At(b, at + 2) = b[at + 3] + 256 * b[at + 4] /\ U16At(q, 2) = q[3] + 256 * q[4]
      <4>1. /\ U16At(b, at + 2) = b[at + 2 + 1] + 256 * b[at + 2 + 2]
            /\ U16At(q, 2) = q[2 + 1] + 256 * q[2 + 2]
        BY DEF U16At
      <4>2. 2 + 1 = 3 /\ 2 + 2 = 4
        OBVIOUS
      <4> QED BY <3>1, <4>1, <4>2
    <3> QED BY <2>5, <3>2, <3>3
  <2>7. ASSUME NEW j \in 1 .. l PROVE b[at + 4 + j] = rs[i].data[j]
    <3>1. 4 + j \in 1 .. 4 + l /\ at + (4 + j) = at + 4 + j
      <4>1. at \in Nat /\ l \in Nat /\ j \in 1 .. l
        OBVIOUS
      <4> QED BY ONLY <4>1
    <3>2. q[4 + j] = rs[i].data[j]
      BY <1>2, <2>1
    <3> QED BY <2>4, <3>1, <3>2
  <2>8. U16At(q, 0) = 2 + l /\ U16At(q, 2) = rs[i].kind
    BY <1>2, <2>1
  <2>9. L[i] = at + 4 + l
    <3>1. at + (4 + l) = at + 4 + l
      <4>1. at \in Nat /\ l \in Nat
        OBVIOUS
      <4> QED BY ONLY <4>1
    <3> QED BY <2>3, <3>1
  <2>10. L[i] <= L[k]
    BY <1>8
  <2> QED BY <2>1, <2>6, <2>7, <2>8, <2>9, <2>10
<1>13. L[k] <= Len(b)
  BY <1>10, <1>11
<1>14. RecordPlaces(b, rs, L)
  BY <1>1, <1>9, <1>12, <1>13 DEF RecordPlaces
<1>15. JoinedPlaces(b, rs, tail, L)
  BY <1>1, <1>6, <1>10, <1>11, <1>14 DEF JoinedPlaces
<1> QED BY <1>3, <1>11, <1>15

-----------------------------------------------------------------------------
(***************************************************************************)
(* The index of a stream of types.                                         *)
(***************************************************************************)
LenSteps(h, rs) ==
  [s \in SUBSET (DOMAIN rs) |-> IF s = {} THEN 0 ELSE h[s \ {Max(s)}] + 4 + Len(rs[Max(s)].data)]

(* Lengths are summed up from the first record on.                         *)
LEMMA LengthsSum ==
  ASSUME NEW rs \in Seq(Records)
  PROVE  \E P \in [0 .. Len(rs) -> Nat] :
           /\ P[0] = 0
           /\ \A i \in 1 .. Len(rs) : P[i] = P[i - 1] + 4 + Len(rs[i].data)
           /\ LenOfAll(rs) = P[Len(rs)]
<1>1. PICK n \in Nat : n = Len(rs) /\ DOMAIN rs = 1 .. n /\ \A i \in 1 .. n : Len(rs[i].data) \in Nat
  <2>1. ASSUME NEW i \in 1 .. Len(rs) PROVE Len(rs[i].data) \in Nat
    <3>1. rs[i] \in Records
      OBVIOUS
    <3>2. rs[i].data \in Seq(Octets)
      BY <3>1 DEF Records
    <3> QED BY <3>2, LenProperties
  <2> QED BY <2>1, LenProperties
<1> DEFINE next == [p \in Nat \X (1 .. n) |-> p[1] + 4 + Len(rs[p[2]].data)]
           g == CHOOSE h : h = LenSteps(h, rs)
<1>2. next \in [Nat \X (1 .. n) -> Nat]
      /\ \A v \in Nat, i \in 1 .. n : next[v, i] = v + 4 + Len(rs[i].data)
  <2>1. \A p \in Nat \X (1 .. n) : p[1] \in Nat /\ p[2] \in 1 .. n
    OBVIOUS
  <2>2. \A p \in Nat \X (1 .. n) : p[1] + 4 + Len(rs[p[2]].data) \in Nat
    BY <1>1, <2>1
  <2> QED BY <2>2
<1>3. LenOfAll(rs) = g[1 .. n]
  BY <1>1 DEF LenOfAll, FoldLeft, MapThenFoldSet, LenSteps
<1> HIDE DEF next
<1>5. n \in Nat /\ FoldsInto(n, Nat, 0, next)
  <2>1. n \in Nat /\ 0 \in Nat
    OBVIOUS
  <2> QED BY <1>2, <2>1, Zenon DEF FoldsInto
<1>4. g = LenSteps(g, rs)
  <2>1. PICK h \in [SUBSET (1 .. n) -> Nat] : h = FoldSteps(h, n, 0, next)
    <3>1. HasFold(n, Nat, 0, next)
      BY <1>5, FoldExists, Zenon
    <3> QED BY <3>1, Zenon DEF HasFold
  <2>2. ASSUME NEW s \in SUBSET (1 .. n), s # {} PROVE Max(s) \in 1 .. n /\ s \ {Max(s)} \in SUBSET (1 .. n)
    BY <2>2, MaxOfSome
  <2>3. h = [s \in SUBSET (1 .. n) |-> IF s = {} THEN 0 ELSE next[h[s \ {Max(s)}], Max(s)]]
    BY <2>1 DEF FoldSteps
  <2>4. ASSUME NEW s \in SUBSET (1 .. n), s # {}
        PROVE  next[h[s \ {Max(s)}], Max(s)] = h[s \ {Max(s)}] + 4 + Len(rs[Max(s)].data)
    BY <1>2, <2>2, <2>4
  <2>5. h = LenSteps(h, rs)
    BY <1>1, <2>3, <2>4 DEF LenSteps
  <2> QED BY <2>5
<1> HIDE DEF g
<1>10. \A s \in SUBSET (1 .. n) : g[s] = IF s = {} THEN 0 ELSE g[s \ {Max(s)}] + 4 + Len(rs[Max(s)].data)
  BY <1>1, <1>4 DEF LenSteps
<1>6. FoldsOn(g, n, Nat, 0, next)
  <2>1. g[{}] = 0
    BY <1>10
  <2>2. ASSUME NEW i \in 1 .. n, NEW v \in Nat, g[1 .. (i - 1)] = v PROVE g[1 .. i] = next[v, i]
    <3>1. 1 .. i \in SUBSET (1 .. n) /\ i \in Nat \ {0}
      OBVIOUS
    <3>2. g[1 .. i] = g[1 .. (i - 1)] + 4 + Len(rs[i].data)
      BY <1>10, <3>1, FirstIndices
    <3> QED BY <1>2, <2>2, <3>2
  <2> QED BY <2>1, <2>2 DEF FoldsOn
<1>7. PICK P \in [0 .. n -> Nat] : /\ P[0] = 0
                                   /\ \A i \in 1 .. n : P[i] = next[P[i - 1], i]
                                   /\ \A i \in 0 .. n : P[i] = g[1 .. i]
  <2>1. LoopGives(g, n, Nat, 0, next)
    BY <1>5, <1>6, FoldValues, Zenon
  <2> QED BY <2>1, Zenon DEF LoopGives
<1>8. \A i \in 1 .. n : P[i] = P[i - 1] + 4 + Len(rs[i].data)
  <2>1. \A i \in 1 .. n : P[i - 1] \in Nat
    OBVIOUS
  <2> QED BY <1>2, <1>7, <2>1
<1>9. P[n] = g[1 .. n]
  <2>1. n \in 0 .. n
    OBVIOUS
  <2> QED BY <1>7, <2>1
<1> QED BY <1>1, <1>3, <1>7, <1>8, <1>9

(* So that the first records end where the next one begins.                *)
LEMMA LengthsUpTo ==
  ASSUME NEW b, NEW rs \in Seq(Records), NEW P, RecordPlaces(b, rs, P), NEW i \in 0 .. Len(rs)
  PROVE  LenOfAll(Take(rs, i)) = P[i]
<1>1. PICK qs : qs = Take(rs, i)
  OBVIOUS
<1>2. qs \in Seq(Records) /\ Len(qs) = i /\ \A j \in 1 .. i : qs[j] = rs[j]
  BY <1>1, FirstPart DEF Take
<1>3. PICK Q \in [0 .. Len(qs) -> Nat] :
           /\ Q[0] = 0
           /\ \A j \in 1 .. Len(qs) : Q[j] = Q[j - 1] + 4 + Len(qs[j].data)
           /\ LenOfAll(qs) = Q[Len(qs)]
  BY <1>2, LengthsSum
<1>4. i \in Nat /\ P[0] = Q[0]
  BY <1>3 DEF RecordPlaces
<1>5. ASSUME NEW j \in 1 .. i, P[j - 1] = Q[j - 1] PROVE P[j] = Q[j]
  <2>1. j \in 1 .. Len(rs)
    BY LenProperties
  <2>2. P[j] = P[j - 1] + 4 + Len(rs[j].data)
    BY <2>1 DEF RecordPlaces
  <2> QED BY <1>2, <1>3, <1>5, <2>2
<1>6. P[i] = Q[i]
  BY <1>4, <1>5, SameByStep
<1> QED BY <1>1, <1>2, <1>3, <1>6

(* Types and symbols are read alike.                                       *)
LEMMA TypesAreRecords ==
  ASSUME NEW b
  PROVE  TypesOf(b) = SymsFrom(b, 0) /\ \A at : TypeAt(b, at) = SymAt(b, at)
<1>1. \A at : TypeAt(b, at) = SymAt(b, at)
  BY DEF TypeAt, SymAt
<1>2. TypesOf(b) = SymsFrom(b, 0)
  BY DEF TypesOf, SymsFrom, ItemsFrom, TypeAt, SymAt
<1> QED BY <1>1, <1>2

(* tpi.rs: whatever its records hold and whatever follows them that is not *)
(* a record, every index of a stream of types finds the record in its      *)
(* place, by both of the ways to look it up, and no other index does.      *)
THEOREM TypesAlwaysIndexed ==
  ASSUME NEW list \in Seq(ShortRecords), NEW tail \in Seq(Octets), TypeAt(tail, 0) = Err,
         NEW b, NEW begin \in Nat, ParseTypes(b) # Err, ParseTypes(b)[1].begin = begin,
         ParseTypes(b)[1].records = FlattenSeq(Written(list)) \o tail
  PROVE  TypesIndexed(b, begin, list)
<1>1. PICK t : t = ParseTypes(b)[1]
  OBVIOUS
<1>2. PICK d : d = t.records
  OBVIOUS
<1>3. d = FlattenSeq(Written(list)) \o tail /\ t.begin = begin
  BY <1>1, <1>2
<1>4. PICK P : /\ d \in Seq(Octets) /\ list \in Seq(Records)
               /\ RecordPlaces(d, list, P) /\ Len(d) = P[Len(list)] + Len(tail)
               /\ \A j \in 1 .. Len(tail) : d[P[Len(list)] + j] = tail[j]
  <2>1. d \in Seq(Octets) /\ list \in Seq(Records)
    BY <1>3, RecordsJoined
  <2>2. \E P : JoinedPlaces(d, list, tail, P)
    BY <1>3, RecordsJoined
  <2> QED BY <2>1, <2>2 DEF JoinedPlaces
<1>5. PICK k \in Nat, z \in Nat : k = Len(list) /\ z = P[k] /\ DOMAIN list = 1 .. k
  <2>1. Len(list) \in 0 .. Len(list) /\ Len(list) \in Nat
    BY LenProperties
  <2>2. P[Len(list)] \in Nat
    BY <1>4, <2>1 DEF RecordPlaces
  <2> QED BY <2>1, <2>2, LenProperties
<1>6. SymAt(d, P[k]) = Err
  <2>1. PICK r : r = Drop(d, z)
    OBVIOUS
  <2>2. PICK m \in Nat : m = Len(tail)
    BY LenProperties
  <2>3. Len(d) = z + m /\ \A j \in 1 .. m : d[z + j] = tail[j]
    BY <1>4, <1>5, <2>2
  <2>4. r \in Seq(Octets) /\ Len(r) = m /\ \A j \in 1 .. m : r[j] = d[z + j]
    <3>1. z \in 0 .. Len(d) /\ Len(d) - z = m
      BY <2>3
    <3>2. /\ Drop(d, z) \in Seq(Octets) /\ Len(Drop(d, z)) = Len(d) - z
          /\ \A j \in 1 .. Len(d) - z : Drop(d, z)[j] = d[z + j]
      BY <1>4, <3>1, DropIs
    <3> QED BY <2>1, <3>1, <3>2
  <2>5. r = tail
    BY <2>2, <2>3, <2>4, SeqEqual
  <2>6. Drop(tail, 0) = tail
    <3>1. 0 \in 0 .. Len(tail) /\ m - 0 = m
      BY <2>2
    <3>2. /\ Drop(tail, 0) \in Seq(Octets) /\ Len(Drop(tail, 0)) = Len(tail) - 0
          /\ \A j \in 1 .. Len(tail) - 0 : Drop(tail, 0)[j] = tail[0 + j]
      BY <3>1, DropIs
    <3>3. Len(Drop(tail, 0)) = Len(tail) /\ \A j \in 1 .. Len(tail) : Drop(tail, 0)[j] = tail[j]
      BY <2>2, <3>1, <3>2
    <3> QED BY <3>2, <3>3, SeqEqual
  <2>7. Len(tail) < 4 \/ U16At(tail, 0) < 2 \/ Len(tail) < 2 + U16At(tail, 0)
    <3>1. TypeAt(tail, 0) = Err
      OBVIOUS
    <3>2. \A x : <<x>> # Err
      BY DEF Err
    <3> QED BY <2>6, <3>1, <3>2 DEF TypeAt
  <2>8. SymAt(d, z) = Err
    BY <2>1, <2>5, <2>7 DEF SymAt
  <2> QED BY <1>5, <2>8
<1>7. TypesOf(d) = [i \in 1 .. k |-> RecordAt(list, P, i)]
  <2>1. SymsFrom(d, 0) = [i \in 1 .. Len(list) |-> RecordAt(list, P, i)]
    BY <1>4, <1>5, <1>6, RecordsFound
  <2> QED BY <1>5, <2>1, TypesAreRecords
<1>8. \A i \in 0 .. k : P[i] \in Nat
  BY <1>4, <1>5 DEF RecordPlaces
<1>9. PICK S : S = TypesStarts(d)
  OBVIOUS
<1>10. Len(S) = k + 1 /\ \A i \in 1 .. k + 1 : S[i] = P[i - 1]
  <2>1. PICK R : R = TypesOf(d)
    OBVIOUS
  <2>2. DOMAIN R = 1 .. k /\ \A i \in 1 .. k : R[i].at = P[i - 1] /\ R[i].end = P[i]
    BY <1>7, <2>1 DEF RecordAt
  <2>3. Len(R) = k /\ (R = <<>> <=> k = 0)
    <3>1. R \in [1 .. k -> {RecordAt(list, P, i) : i \in 1 .. k}]
      BY <1>7, <2>1
    <3>2. R \in Seq({RecordAt(list, P, i) : i \in 1 .. k}) /\ Len(R) = k
      BY <3>1, FunctionLen
    <3> QED BY <3>2
  <2>4. PICK a : a = [i \in DOMAIN R |-> R[i].at]
    OBVIOUS
  <2>5. a \in Seq(Nat) /\ Len(a) = k /\ \A i \in 1 .. k : a[i] = P[i - 1]
    <3>1. \A i \in 1 .. k : i - 1 \in 0 .. k
      OBVIOUS
    <3>2. a \in [1 .. k -> Nat] /\ \A i \in 1 .. k : a[i] = P[i - 1]
      BY <1>8, <2>2, <2>4, <3>1
    <3> QED BY <3>2, FunctionLen
  <2>6. PICK e : e = IF R = <<>> THEN 0 ELSE R[Len(R)].end
    OBVIOUS
  <2>7. e = P[k] /\ e \in Nat
    <3>1. CASE k = 0
      <4>1. P[0] = 0
        BY <1>4 DEF RecordPlaces
      <4> QED BY <2>3, <2>6, <3>1, <4>1
    <3>2. CASE k # 0
      <4>1. k \in 1 .. k /\ k \in 0 .. k
        BY <3>2
      <4> QED BY <1>8, <2>2, <2>3, <2>6, <3>2, <4>1
    <3> QED BY <3>1, <3>2
  <2>8. S = Append(a, e)
    BY <1>9, <2>1, <2>4, <2>6 DEF TypesStarts
  <2>9. Len(S) = k + 1 /\ S[k + 1] = e /\ \A i \in 1 .. k : S[i] = a[i]
    BY <2>5, <2>7, <2>8
  <2>10. ASSUME NEW i \in 1 .. k + 1 PROVE S[i] = P[i - 1]
    <3>1. CASE i = k + 1
      <4>1. i - 1 = k
        BY <3>1
      <4> QED BY <2>7, <2>9, <3>1, <4>1
    <3>2. CASE i # k + 1
      <4>1. i \in 1 .. k
        BY <3>2
      <4> QED BY <2>5, <2>9, <4>1
    <3> QED BY <3>1, <3>2
  <2> QED BY <2>9, <2>10
<1>11. ASSUME NEW index \in Int
       PROVE  /\ RecordOf(t, index) = IF index < begin \/ index - begin >= k + 1 THEN Err
                                      ELSE SymAt(d, S[index - begin + 1])
              /\ RecordRange(t, index) = IF index < begin \/ index - begin + 2 > k + 1 THEN Err
                                         ELSE <<[at |-> S[index - begin + 1], end |-> S[index - begin + 2]]>>
  <2>1. RecordOf(t, index) = IF index < begin \/ index - begin >= k + 1 THEN Err
                             ELSE TypeAt(d, S[index - begin + 1])
    BY <1>2, <1>3, <1>9, <1>10 DEF RecordOf, IsPrimitive
  <2>2. RecordRange(t, index) = IF index < begin \/ index - begin + 2 > k + 1 THEN Err
                                ELSE <<[at |-> S[index - begin + 1], end |-> S[index - begin + 2]]>>
    BY <1>2, <1>3, <1>9, <1>10 DEF RecordRange, IsPrimitive
  <2> QED BY <2>1, <2>2, TypesAreRecords
<1>12. ASSUME NEW i \in 1 .. k
       PROVE  /\ LenOfAll(Take(list, i - 1)) = P[i - 1] /\ LenOfAll(Take(list, i + 1 - 1)) = P[i]
              /\ RecordOf(t, begin + i - 1) =
                   <<[at |-> P[i - 1], end |-> P[i], kind |-> list[i].kind, data |-> list[i].data]>>
              /\ RecordRange(t, begin + i - 1) = <<[at |-> P[i - 1], end |-> P[i]]>>
  <2>1. i - 1 \in 0 .. Len(list) /\ i \in 0 .. Len(list) /\ i + 1 - 1 = i /\ i \in 1 .. Len(list)
    BY <1>5
  <2>2. LenOfAll(Take(list, i - 1)) = P[i - 1] /\ LenOfAll(Take(list, i)) = P[i]
    BY <1>4, <2>1, LengthsUpTo
  <2>3. PICK index \in Int : index = begin + i - 1
    OBVIOUS
  <2>4. /\ ~(index < begin) /\ ~(index - begin >= k + 1) /\ ~(index - begin + 2 > k + 1)
        /\ index - begin + 1 = i /\ index - begin + 2 = i + 1
    BY <2>3
  <2>5. S[i] = P[i - 1] /\ S[i + 1] = P[i]
    <3>1. i \in 1 .. k + 1 /\ i + 1 \in 1 .. k + 1 /\ (i + 1) - 1 = i
      OBVIOUS
    <3> QED BY <1>10, <3>1
  <2>6. RecordOf(t, index) = SymAt(d, P[i - 1])
    BY <1>11, <2>4, <2>5
  <2>7. RecordRange(t, index) = <<[at |-> P[i - 1], end |-> P[i]]>>
    BY <1>11, <2>4, <2>5
  <2>8. SymAt(d, P[i - 1]) = <<RecordAt(list, P, i)>>
    BY <1>4, <2>1, RecordFound
  <2> QED BY <2>1, <2>2, <2>3, <2>6, <2>7, <2>8 DEF RecordAt
<1>13. ASSUME NEW index \in {begin - 1, begin + k, begin + k + 1}
       PROVE  RecordOf(t, index) = Err /\ RecordRange(t, index) = Err
  <2>1. index \in Int
    OBVIOUS
  <2>2. CASE index = begin - 1
    <3>1. index < begin
      BY <2>2
    <3> QED BY <1>11, <2>1, <3>1
  <2>3. CASE index = begin + k
    <3>1. ~(index < begin) /\ ~(index - begin >= k + 1) /\ index - begin + 2 > k + 1
          /\ index - begin + 1 = k + 1 /\ k + 1 \in 1 .. k + 1 /\ (k + 1) - 1 = k
      BY <2>3
    <3>2. S[index - begin + 1] = P[k]
      BY <1>10, <3>1
    <3> QED BY <1>6, <1>11, <2>1, <3>1, <3>2
  <2>4. CASE index = begin + k + 1
    <3>1. index - begin >= k + 1 /\ index - begin + 2 > k + 1
      BY <2>4
    <3> QED BY <1>11, <2>1, <3>1
  <2> QED BY <2>2, <2>3, <2>4
<1>14. /\ ParseTypes(b) # Err
       /\ \A i \in DOMAIN list :
            /\ RecordOf(ParseTypes(b)[1], begin + i - 1) =
                 <<[at |-> LenOfAll(Take(list, i - 1)), end |-> LenOfAll(Take(list, i + 1 - 1)),
                    kind |-> list[i].kind, data |-> list[i].data]>>
            /\ RecordRange(ParseTypes(b)[1], begin + i - 1) =
                 <<[at |-> LenOfAll(Take(list, i - 1)), end |-> LenOfAll(Take(list, i + 1 - 1))]>>
       /\ \A index \in {begin - 1, begin + Len(list), begin + Len(list) + 1} :
            RecordOf(ParseTypes(b)[1], index) = Err /\ RecordRange(ParseTypes(b)[1], index) = Err
  BY <1>1, <1>5, <1>12, <1>13
<1> QED BY ONLY <1>14 DEF TypesIndexed

-----------------------------------------------------------------------------
(***************************************************************************)
(* Streams of symbols.                                                     *)
(***************************************************************************)
(* A symbol that is not too long for its record.                           *)
ShortSymbols == {e \in [kind : Word, fields : Seq(Seq(Octets))] : 2 + Len(Payload(e)) + 3 \in Word}

PadOf(stream, payload) ==
  SubSeq(<<241, 242, 243>>, 1,
         (Len(stream) + 4 + Len(payload)) % 4)

SymbolRecord(stream, e) == [kind |-> e.kind, data |-> Payload(e) \o PadOf(stream, Payload(e))]

LEMMA WordMod == \A x \in Word : x % 65536 = x
BY SMT DEF Word

LEMMA PayloadIs ==
  ASSUME NEW e \in ShortSymbols
  PROVE  /\ Payload(e) \in Seq(Octets) /\ Len(Payload(e)) \in Nat /\ e.kind \in Word
         /\ 2 + Len(Payload(e)) + 3 \in Word
<1>1. e.fields \in Seq(Seq(Octets)) /\ e.kind \in Word /\ 2 + Len(Payload(e)) + 3 \in Word
  BY DEF ShortSymbols
<1>2. PICK parts : parts = e.fields
  OBVIOUS
<1>3. FlattenSeq(parts) \in Seq(Octets)
  <2>1. \E P \in [0 .. Len(parts) -> Seq(Octets)] : FlattenSeq(parts) = P[Len(parts)]
    BY <1>1, <1>2, FlattenPrefixes
  <2>2. Len(parts) \in 0 .. Len(parts)
    BY <1>1, <1>2
  <2> QED BY <2>1, <2>2
<1>4. Payload(e) \in Seq(Octets)
  BY <1>2, <1>3 DEF Payload
<1> QED BY <1>1, <1>4, LenProperties

(* The padding is never longer than three bytes.                           *)
LEMMA PadIs ==
  ASSUME NEW s \in Seq(Octets), NEW d \in Seq(Octets)
  PROVE  /\ PadOf(s, d) \in Seq(Octets) /\ Len(PadOf(s, d)) \in 0 .. 3
<1>1. PICK n \in Nat : n = Len(s) + 4 + Len(d)
  OBVIOUS
<1>2. PICK m : m = n % 4
  OBVIOUS
<1>3. m \in 0 .. 3
  BY <1>1, <1>2
<1>4. PICK f : f = <<241, 242, 243>>
  OBVIOUS
<1>5. f \in Seq(Octets) /\ Len(f) = 3
  <2>1. 241 \in Octets /\ 242 \in Octets /\ 243 \in Octets
    BY DEF Octets
  <2> QED BY <1>4, <2>1
<1>6. SubSeq(f, 1, m) \in Seq(Octets) /\ Len(SubSeq(f, 1, m)) = m
  <2>1. m \in 0 .. Len(f)
    BY <1>3, <1>5
  <2> QED BY <1>5, <2>1, FirstPart
<1>7. PadOf(s, d) = SubSeq(f, 1, m)
  BY <1>1, <1>2, <1>4 DEF PadOf
<1> QED BY <1>1, <1>3, <1>6, <1>7

LEMMA BuildIs ==
  ASSUME NEW s \in Seq(Octets), NEW e \in ShortSymbols
  PROVE  /\ SymbolRecord(s, e) \in ShortRecords
         /\ Build(s, e.kind, Payload(e)) = s \o RecordBytes(SymbolRecord(s, e))
         /\ Build(s, e.kind, Payload(e)) \in Seq(Octets)
         /\ Len(Build(s, e.kind, Payload(e))) = Len(s) + 4 + Len(SymbolRecord(s, e).data)
<1>1. PICK d \in Seq(Octets), l \in Nat : d = Payload(e) /\ l = Len(d) /\ 2 + l + 3 \in Word
  BY PayloadIs
<1>2. PICK pad \in Seq(Octets), m \in 0 .. 3 : pad = PadOf(s, d) /\ m = Len(pad)
  BY PadIs
<1>4. PICK x \in Seq(Octets) : x = d \o pad
  <2>1. d \o pad \in Seq(Octets)
    BY ConcatIs
  <2> QED BY <2>1
<1>5. Len(x) = l + m
  <2>1. Len(d \o pad) = Len(d) + Len(pad)
    BY ConcatIs
  <2> QED BY <1>1, <1>2, <1>4, <2>1
<1>6. 2 + l + m \in Word /\ 2 + Len(x) = 2 + l + m
  <2>1. m \in 0 .. 3 /\ l \in Nat /\ 2 + l + 3 \in Word
    BY <1>1
  <2>2. 2 + l + m \in Word
    BY ONLY <2>1, SMT DEF Word
  <2> QED BY <1>5, <2>2
<1>7. PICK r : r = SymbolRecord(s, e)
  OBVIOUS
<1>8. r = [kind |-> e.kind, data |-> x]
  BY <1>1, <1>2, <1>4, <1>7 DEF SymbolRecord
<1>9. r \in ShortRecords
  <2>1. e.kind \in Word /\ e.kind \in Nat
    <3>1. \A y \in Word : y \in Nat
      BY SMT DEF Word
    <3> QED BY <3>1, PayloadIs
  <2>2. r \in Records
    BY <1>8, <2>1 DEF Records
  <2> QED BY <1>6, <1>8, <2>1, <2>2 DEF ShortRecords
<1>10. PICK a, c : a = PutU16(2 + l + m) /\ c = PutU16(e.kind)
  OBVIOUS
<1>11. a \in Seq(Octets) /\ c \in Seq(Octets)
  BY <1>6, <1>10, PayloadIs, WordPut
<1>12. Build(s, e.kind, d) = s \o a \o c \o d \o pad
  <2>1. (2 + l + m) % 65536 = 2 + l + m
    <3>1. PICK w \in Word : w = 2 + l + m
      BY ONLY <1>6
    <3>2. w % 65536 = w
      BY ONLY WordMod, w \in Word
    <3> QED BY ONLY <3>1, <3>2
  <2>2. Build(s, e.kind, d) = s \o PutU16((2 + Len(d) + Len(pad)) % 65536) \o PutU16(e.kind) \o d \o pad
    <3>1. Build(s, e.kind, d) =
            s \o PutU16((2 + Len(d) + Len(PadOf(s, d))) % 65536) \o PutU16(e.kind) \o d \o PadOf(s, d)
      BY ONLY SMT DEF Build, PadOf
    <3> QED BY ONLY <1>2, <3>1, SMT
  <2>3. (2 + Len(d) + Len(pad)) % 65536 = 2 + l + m
    BY <1>1, <1>2, <2>1, SMT
  <2>4. Build(s, e.kind, d) = s \o PutU16(2 + l + m) \o PutU16(e.kind) \o d \o pad
    BY <2>2, <2>3, SMT
  <2> QED BY <1>10, <2>4
<1>13. RecordBytes(r) = (a \o c) \o x
  BY <1>6, <1>8, <1>10 DEF RecordBytes
<1>14. s \o a \o c \o d \o pad = s \o ((a \o c) \o (d \o pad))
  <2>1. PICK y : y = a \o c
    OBVIOUS
  <2>2. y \in Seq(Octets) /\ d \in Seq(Octets) /\ pad \in Seq(Octets) /\ s \in Seq(Octets)
    <3>1. a \o c \in Seq(Octets)
      BY ONLY <1>11, ConcatIs
    <3> QED BY <2>1, <3>1
  <2>3. s \o a \o c = s \o y
    BY ONLY <1>11, <2>1, <2>2, ConcatAssociative, SMTT(30)
  <2>4. s \o y \o d \o pad = (s \o y) \o (d \o pad)
    <3>1. s \o y \in Seq(Octets)
      BY ONLY <2>2, ConcatIs
    <3>2. PICK w : w = s \o y
      OBVIOUS
    <3>3. w \in Seq(Octets) /\ d \in Seq(Octets) /\ pad \in Seq(Octets)
      BY <3>1, <3>2
    <3>4. w \o d \o pad = w \o (d \o pad)
      BY ONLY <3>3, ConcatAssociative, SMTT(30)
    <3> QED BY <3>2, <3>4
  <2>5. (s \o y) \o (d \o pad) = s \o (y \o (d \o pad))
    <3>1. d \o pad \in Seq(Octets)
      BY ONLY <2>2, ConcatIs
    <3> QED BY ONLY <2>2, <3>1, ConcatAssociative, SMTT(30)
  <2> QED BY <2>1, <2>3, <2>4, <2>5
<1>15. Build(s, e.kind, d) = s \o RecordBytes(r)
  BY <1>4, <1>12, <1>13, <1>14
<1>16. RecordBytes(r) \in Seq(Octets) /\ Len(RecordBytes(r)) = 4 + Len(x)
  BY <1>8, <1>9, RecordBytesIs
<1>17. /\ s \o RecordBytes(r) \in Seq(Octets)
       /\ Len(s \o RecordBytes(r)) = Len(s) + Len(RecordBytes(r))
  BY <1>16, ConcatIs
<1>18. Len(s) + (4 + (l + m)) = Len(s) + 4 + (l + m)
  <2>1. Len(s) \in Nat /\ l \in Nat /\ m \in Nat
    BY LenProperties
  <2> QED BY ONLY <2>1
<1>19. PICK q : q = Build(s, e.kind, d)
  OBVIOUS
<1>20. q \in Seq(Octets) /\ Len(q) = Len(s) + (4 + (l + m)) /\ q = s \o RecordBytes(r)
  BY <1>5, <1>15, <1>16, <1>17, <1>19
<1>21. Len(SymbolRecord(s, e).data) = l + m
  BY <1>5, <1>7, <1>8
<1>22. Build(s, e.kind, Payload(e)) = q
  BY <1>1, <1>19
<1>23. Len(q) = Len(s) + 4 + Len(SymbolRecord(s, e).data) 
  BY <1>18, <1>20, <1>21
<1> QED BY <1>7, <1>9, <1>20, <1>22, <1>23

SymbolSteps(h, entries) ==
  [s \in SUBSET (DOMAIN entries) |->
     IF s = {} THEN <<>>
     ELSE Build(h[s \ {Max(s)}], entries[Max(s)].kind, Payload(entries[Max(s)]))]

(* Symbols are written one after another.                                  *)
LEMMA StreamIs ==
  ASSUME NEW entries \in Seq(ShortSymbols)
  PROVE  \E S \in [0 .. Len(entries) -> Seq(Octets)] :
           /\ S[0] = <<>>
           /\ \A i \in 1 .. Len(entries) :
                S[i] = Build(S[i - 1], entries[i].kind, Payload(entries[i]))
           /\ Stream(entries) = S[Len(entries)]
<1>1. PICK n \in Nat : n = Len(entries) /\ DOMAIN entries = 1 .. n
                      /\ \A i \in 1 .. n : entries[i] \in ShortSymbols
  BY LenProperties
<1> DEFINE V == Seq(Octets)
           Put(v, i) == Build(v, entries[i].kind, Payload(entries[i]))
           next == [p \in V \X (1 .. n) |-> Put(p[1], p[2])]
           g == CHOOSE h : h = SymbolSteps(h, entries)
<1>2. next \in [V \X (1 .. n) -> V] /\ \A v \in V, i \in 1 .. n : next[v, i] = Put(v, i)
  <2>1. ASSUME NEW v \in V, NEW i \in 1 .. n PROVE Put(v, i) \in V
    BY <1>1, BuildIs
  <2> HIDE DEF Put, V
  <2>2. \A p \in V \X (1 .. n) : p[1] \in V /\ p[2] \in 1 .. n
    OBVIOUS
  <2>3. \A p \in V \X (1 .. n) : Put(p[1], p[2]) \in V
    BY <2>1, <2>2
  <2> QED BY <2>3
<1>3. Stream(entries) = g[1 .. n]
  BY <1>1 DEF Stream, FoldLeft, MapThenFoldSet, SymbolSteps
<1> HIDE DEF next
<1>4. n \in Nat /\ FoldsInto(n, V, <<>>, next)
  <2>1. n \in Nat /\ <<>> \in V
    OBVIOUS
  <2> HIDE DEF Put, V
  <2> QED BY <1>2, <2>1, Zenon DEF FoldsInto
<1>5. g = SymbolSteps(g, entries)
  <2>1. PICK h \in [SUBSET (1 .. n) -> V] : h = FoldSteps(h, n, <<>>, next)
    <3>1. HasFold(n, V, <<>>, next)
      BY <1>4, FoldExists, Zenon
    <3> QED BY <3>1, Zenon DEF HasFold
  <2>2. ASSUME NEW s \in SUBSET (1 .. n), s # {} PROVE Max(s) \in 1 .. n /\ s \ {Max(s)} \in SUBSET (1 .. n)
    BY <2>2, MaxOfSome
  <2>3. h = [s \in SUBSET (1 .. n) |-> IF s = {} THEN <<>> ELSE next[h[s \ {Max(s)}], Max(s)]]
    BY <2>1 DEF FoldSteps
  <2> HIDE DEF V
  <2>4. ASSUME NEW s \in SUBSET (1 .. n), s # {}
        PROVE  next[h[s \ {Max(s)}], Max(s)] = Put(h[s \ {Max(s)}], Max(s))
    <3>1. PICK r \in SUBSET (1 .. n), m \in 1 .. n : r = s \ {Max(s)} /\ m = Max(s)
      BY <2>2, <2>4
    <3>2. h[r] \in V
      OBVIOUS
    <3> HIDE DEF Put
    <3> QED BY <1>2, <3>1, <3>2
  <2>5. h = [s \in SUBSET (1 .. n) |-> IF s = {} THEN <<>> ELSE Put(h[s \ {Max(s)}], Max(s))]
    <3> HIDE DEF Put
    <3> QED BY <2>3, <2>4
  <2>6. h = SymbolSteps(h, entries)
    BY <1>1, <2>5 DEF SymbolSteps
  <2> QED BY <2>6
<1> HIDE DEF g
<1>6. \A s \in SUBSET (1 .. n) : g[s] = IF s = {} THEN <<>> ELSE Put(g[s \ {Max(s)}], Max(s))
  BY <1>1, <1>5 DEF SymbolSteps
<1>7. FoldsOn(g, n, V, <<>>, next)
  <2> HIDE DEF Put, V
  <2>1. g[{}] = <<>>
    BY <1>6
  <2>2. ASSUME NEW i \in 1 .. n, NEW v \in V, g[1 .. (i - 1)] = v PROVE g[1 .. i] = next[v, i]
    <3>1. 1 .. i \in SUBSET (1 .. n) /\ i \in Nat \ {0}
      OBVIOUS
    <3>2. g[1 .. i] = Put(g[1 .. (i - 1)], i)
      BY <1>6, <3>1, FirstIndices
    <3> QED BY <1>2, <2>2, <3>2
  <2> QED BY <2>1, <2>2 DEF FoldsOn
<1>8. PICK P \in [0 .. n -> V] : /\ P[0] = <<>>
                                 /\ \A i \in 1 .. n : P[i] = next[P[i - 1], i]
                                 /\ \A i \in 0 .. n : P[i] = g[1 .. i]
  <2>1. LoopGives(g, n, V, <<>>, next)
    <3> HIDE DEF V
    <3> QED BY <1>4, <1>7, FoldValues, Zenon
  <2> QED BY <2>1, Zenon DEF LoopGives
<1>9. \A i \in 1 .. n : P[i] = Put(P[i - 1], i)
  <2> HIDE DEF Put, V
  <2>1. \A i \in 1 .. n : P[i - 1] \in V
    OBVIOUS
  <2> QED BY <1>2, <1>8, <2>1
<1>10. P[n] = g[1 .. n]
  <2>1. n \in 0 .. n
    OBVIOUS
  <2> QED BY <1>8, <2>1
<1> QED BY <1>1, <1>3, <1>8, <1>9, <1>10

(* The records of a stream have the bytes of its symbols and their padding. *)
RecordsOf(entries, rs) ==
  /\ Len(rs) = Len(entries)
  /\ \A i \in 1 .. Len(rs) :
       /\ rs[i].kind = entries[i].kind
       /\ \E pad \in Seq(Octets) :
            rs[i].data = Payload(entries[i]) \o pad /\ Len(pad) \in 0 .. 3

LEMMA SymbolsWritten ==
  ASSUME NEW entries \in Seq(ShortSymbols)
  PROVE  /\ Stream(entries) \in Seq(Octets)
         /\ \E rs \in Seq(Records) :
              /\ RecordsOf(entries, rs)
              /\ \E P : /\ RecordPlaces(Stream(entries), rs, P)
                       /\ Len(Stream(entries)) = P[Len(rs)]
<1>1. PICK k \in Nat : k = Len(entries) /\ \A i \in 1 .. k : entries[i] \in ShortSymbols
  BY LenProperties
<1>2. PICK S \in [0 .. k -> Seq(Octets)] :
           /\ S[0] = <<>>
           /\ \A i \in 1 .. k : S[i] = Build(S[i - 1], entries[i].kind, Payload(entries[i]))
           /\ Stream(entries) = S[k]
  <2>1. \E S \in [0 .. Len(entries) -> Seq(Octets)] :
           /\ S[0] = <<>>
           /\ \A i \in 1 .. Len(entries) :
                S[i] = Build(S[i - 1], entries[i].kind, Payload(entries[i]))
           /\ Stream(entries) = S[Len(entries)]
    BY StreamIs
  <2> QED BY <1>1, <2>1
<1> DEFINE rs == [i \in 1 .. k |-> SymbolRecord(S[i - 1], entries[i])]
<1>3. ASSUME NEW i \in 1 .. k
      PROVE  /\ rs[i] \in ShortRecords
             /\ S[i - 1] \in Seq(Octets) /\ S[i] = S[i - 1] \o RecordBytes(rs[i])
             /\ Len(S[i]) = Len(S[i - 1]) + 4 + Len(rs[i].data)
  <2>1. PICK s \in Seq(Octets), e \in ShortSymbols : s = S[i - 1] /\ e = entries[i]
    <3>1. i - 1 \in 0 .. k
      OBVIOUS
    <3> QED BY <1>1, <3>1
  <2>2. rs[i] = SymbolRecord(s, e)
    BY <2>1
  <2>3. S[i] = Build(s, e.kind, Payload(e))
    BY <1>2, <2>1
  <2>4. /\ SymbolRecord(s, e) \in ShortRecords
        /\ Build(s, e.kind, Payload(e)) = s \o RecordBytes(SymbolRecord(s, e))
        /\ Len(Build(s, e.kind, Payload(e))) = Len(s) + 4 + Len(SymbolRecord(s, e).data)
    BY BuildIs
  <2> HIDE DEF rs
  <2> QED BY <2>1, <2>2, <2>3, <2>4
<1>4. rs \in Seq(ShortRecords) /\ Len(rs) = k /\ DOMAIN rs = 1 .. k
  <2>1. rs = [i \in 1 .. k |-> rs[i]]
    OBVIOUS
  <2> HIDE DEF rs
  <2>2. rs \in [1 .. k -> ShortRecords]
    BY <1>3, <2>1
  <2> QED BY <2>2, FunctionLen
<1>5. ASSUME NEW i \in 1 .. k
      PROVE  /\ rs[i].kind = entries[i].kind
             /\ \E pad \in Seq(Octets) :
                  rs[i].data = Payload(entries[i]) \o pad /\ Len(pad) \in 0 .. 3
  <2>1. PICK s \in Seq(Octets), e \in ShortSymbols : s = S[i - 1] /\ e = entries[i]
    <3>1. i - 1 \in 0 .. k
      OBVIOUS
    <3> QED BY <1>1, <3>1
  <2>2. rs[i] = SymbolRecord(s, e)
    BY <2>1
  <2>3. PICK d \in Seq(Octets) : d = Payload(e)
    BY PayloadIs
  <2>4. PICK pad \in Seq(Octets) : pad = PadOf(s, d) /\ Len(pad) \in 0 .. 3
    BY PadIs
  <2>5. rs[i].kind = e.kind /\ rs[i].data = d \o pad
    BY <2>2, <2>3, <2>4 DEF SymbolRecord
  <2> HIDE DEF rs
  <2> QED BY <2>1, <2>3, <2>4, <2>5
<1> HIDE DEF rs
<1>6. PICK b : b = S[k]
  OBVIOUS
<1>7. b = FlattenSeq(Written(rs)) \o <<>>
  <2>1. PICK parts : parts = Written(rs)
    OBVIOUS
  <2>2. parts \in Seq(Seq(Octets)) /\ Len(parts) = k /\ \A i \in 1 .. k : parts[i] = RecordBytes(rs[i])
    <3>1. parts = [i \in 1 .. k |-> RecordBytes(rs[i])]
      BY <1>4, <2>1 DEF Written
    <3>2. \A i \in 1 .. k : RecordBytes(rs[i]) \in Seq(Octets)
      BY <1>3, RecordBytesIs
    <3>3. parts \in [1 .. k -> Seq(Octets)]
      BY <3>1, <3>2
    <3> QED BY <3>1, <3>3, FunctionLen
  <2>3. PICK Q \in [0 .. k -> Seq(Octets)] :
             /\ Q[0] = <<>>
             /\ \A i \in 1 .. k : Q[i] = Q[i - 1] \o parts[i]
             /\ FlattenSeq(parts) = Q[k]
    <3>1. \E Q \in [0 .. Len(parts) -> Seq(Octets)] :
             /\ Q[0] = <<>>
             /\ \A i \in 1 .. Len(parts) : Q[i] = Q[i - 1] \o parts[i]
             /\ FlattenSeq(parts) = Q[Len(parts)]
      BY <2>2, FlattenPrefixes
    <3> QED BY <2>2, <3>1
  <2>4. ASSUME NEW i \in 1 .. k, S[i - 1] = Q[i - 1] PROVE S[i] = Q[i]
    BY <1>3, <2>2, <2>3, <2>4
  <2>5. S[k] = Q[k]
    <3>1. S[0] = Q[0]
      BY <1>2, <2>3
    <3>2. k \in Nat
      BY <1>2
    <3> QED BY <2>4, <3>1, <3>2, SameByStep
  <2>6. Q[k] \in Seq(Octets)
    <3>1. k \in 0 .. k
      OBVIOUS
    <3> QED BY <3>1
  <2>7. Q[k] = Q[k] \o <<>>
    BY <2>6, ConcatEmptySeq
  <2> QED BY <1>6, <2>1, <2>3, <2>5, <2>7
<1>8. PICK P : /\ RecordPlaces(b, rs, P) /\ Len(b) = P[Len(rs)] + Len(<<>>)
  <2>1. <<>> \in Seq(Octets)
    OBVIOUS
  <2>2. \E P : JoinedPlaces(b, rs, <<>>, P)
    BY <1>4, <1>7, <2>1, RecordsJoined
  <2> QED BY <2>2 DEF JoinedPlaces
<1>9. b \in Seq(Octets) /\ rs \in Seq(Records)
  <2>1. <<>> \in Seq(Octets)
    OBVIOUS
  <2> QED BY <1>4, <1>7, <2>1, RecordsJoined
<1>10. P \in [0 .. k -> Nat] /\ P[0] = 0 /\ \A i \in 1 .. k : P[i] = P[i - 1] + 4 + Len(rs[i].data)
  BY <1>4, <1>8 DEF RecordPlaces
<1>11. Len(b) = P[k]
  <2>1. P[k] \in Nat
    <3>1. k \in 0 .. k
      OBVIOUS
    <3> QED BY <1>10, <3>1
  <2>2. Len(<<>>) = 0
    OBVIOUS
  <2> QED BY <1>4, <1>8, <2>1, <2>2
<1>12. RecordsOf(entries, rs)
  BY <1>1, <1>4, <1>5 DEF RecordsOf
<1> QED BY <1>2, <1>4, <1>6, <1>8, <1>9, <1>11, <1>12

(* syms/builder.rs, syms/iter.rs, globals/gss.rs: whatever symbols are     *)
(* built into a stream, if none is too long for the length in its record,  *)
(* the iterators and the reader at an offset give their records, and of a  *)
(* stream that is cut those that are whole.                                *)
THEOREM SymbolsAlwaysWalked ==
  ASSUME NEW entries \in Seq(ShortSymbols)
  PROVE  RecordsWalked(entries)
<1>1. PICK data \in Seq(Octets), rs \in Seq(Records) :
           /\ data = Stream(entries) /\ RecordsOf(entries, rs)
           /\ \E P : RecordPlaces(data, rs, P) /\ Len(data) = P[Len(rs)]
  BY SymbolsWritten
<1>2. PICK P : RecordPlaces(data, rs, P) /\ Len(data) = P[Len(rs)]
  BY <1>1
<1>3. PICK k \in Nat, l \in Nat : k = Len(rs) /\ k = Len(entries) /\ l = Len(data)
  BY <1>1 DEF RecordsOf
<1>4. P \in [0 .. k -> Nat] /\ P[0] = 0 /\ P[k] = l /\ \A i \in 1 .. k : P[i] <= l
  <2>1. P \in [0 .. k -> Nat] /\ P[0] = 0 /\ \A i \in 1 .. k : P[i] <= P[k]
    BY <1>2, <1>3 DEF RecordPlaces
  <2> QED BY <1>2, <1>3, <2>1
<1>5. SymAt(data, P[k]) = Err
  <2>1. Drop(data, l) = <<>>
    <3>1. l + 1 > l
      OBVIOUS
    <3> QED BY <1>3, <3>1 DEF Drop
  <2>2. Len(Drop(data, l)) < 4
    BY <2>1
  <2> QED BY <1>4, <2>2 DEF SymAt
<1>6. PICK syms : syms = SymsFrom(data, 0)
  OBVIOUS
<1>7. syms = [i \in 1 .. k |-> RecordAt(rs, P, i)]
  BY <1>2, <1>3, <1>5, <1>6, RecordsFound
<1>8. Len(syms) = k /\ DOMAIN syms = 1 .. k /\ \A i \in 1 .. k : syms[i] = RecordAt(rs, P, i)
  <2>1. syms \in [1 .. k -> {RecordAt(rs, P, i) : i \in 1 .. k}]
    BY <1>7
  <2> QED BY <1>7, <2>1, FunctionLen
<1>9. \A i \in 1 .. k : /\ syms[i].at = P[i - 1] /\ syms[i].end = P[i]
                        /\ syms[i].kind = rs[i].kind /\ syms[i].data = rs[i].data
  BY <1>8 DEF RecordAt
<1>10. syms # <<>> => syms[1].at = 0 /\ syms[Len(syms)].end = Len(data)
  <2>1. CASE k = 0
    <3>1. syms = <<>>
      BY <1>7, <2>1
    <3> QED BY <3>1
  <2>2. CASE k # 0
    <3>1. 1 \in 1 .. k /\ k \in 1 .. k /\ 1 - 1 = 0
      BY <2>2
    <3> QED BY <1>3, <1>4, <1>8, <1>9, <3>1
  <2> QED BY <2>1, <2>2
<1>11. ASSUME NEW i \in 1 .. k
       PROVE  /\ i > 1 => syms[i].at = syms[i - 1].end
              /\ syms[i].kind = entries[i].kind
              /\ Take(syms[i].data, Len(Payload(entries[i]))) = Payload(entries[i])
              /\ Len(syms[i].data) - Len(Payload(entries[i])) \in 0 .. 3
              /\ GetSymAt(data, syms[i].at) = <<syms[i]>>
              /\ MutSymAt(data, syms[i].at) = <<syms[i]>>
  <2>1. i - 1 \in 0 .. k /\ i \in 1 .. Len(rs) /\ i - 1 \in 0 .. Len(rs)
    BY <1>3
  <2>3. i > 1 => syms[i].at = syms[i - 1].end
    <3>1. i > 1 => i - 1 \in 1 .. k
      OBVIOUS
    <3> QED BY <1>9, <3>1
  <2>4. syms[i].kind = entries[i].kind
    BY <1>1, <1>9, <2>1 DEF RecordsOf
  <2>5. PICK pad \in Seq(Octets) : syms[i].data = Payload(entries[i]) \o pad /\ Len(pad) \in 0 .. 3
    BY <1>1, <1>9, <2>1 DEF RecordsOf
  <2>6. PICK d \in Seq(Octets) : d = Payload(entries[i])
    <3>1. entries[i] \in ShortSymbols
      BY <1>3
    <3> QED BY <3>1, PayloadIs
  <2>7. PICK x : x = syms[i].data /\ x = d \o pad
    BY <2>5, <2>6
  <2>8. x \in Seq(Octets) /\ Len(x) = Len(d) + Len(pad) /\ \A j \in 1 .. Len(d) : x[j] = d[j]
    BY <2>7, ConcatIs
  <2>9. Take(x, Len(d)) = d /\ Len(x) - Len(d) \in 0 .. 3
    <3>0. Len(d) \in Nat
      BY <2>6
    <3>1. PICK m \in Nat, p \in 0 .. 3 : m = Len(d) /\ p = Len(pad)
      BY <2>5, <3>0
    <3>2. Len(x) = m + p /\ m \in 0 .. Len(x) /\ Len(x) - m = p
      BY <2>8, <3>1
    <3>3. PICK y : y = SubSeq(x, 1, m)
      OBVIOUS
    <3>4. y \in Seq(Octets) /\ Len(y) = m /\ \A j \in 1 .. m : y[j] = x[j]
      BY <2>8, <3>2, <3>3, FirstPart
    <3>5. y = d
      BY <2>8, <3>1, <3>4, SeqEqual
    <3> QED BY <3>1, <3>2, <3>3, <3>5 DEF Take
  <2>10. SymAt(data, P[i - 1]) = <<syms[i]>> /\ MutSymAt(data, P[i - 1]) = <<syms[i]>>
    BY <1>2, <1>8, <2>1, RecordFound
  <2>11. P[i - 1] <= l /\ P[i - 1] \in Nat
    <3>1. i - 1 = 0 \/ i - 1 \in 1 .. k
      BY <2>1
    <3>2. P[i - 1] \in Nat
      BY <1>4, <2>1
    <3> QED BY <1>4, <3>1, <3>2
  <2>12. GetSymAt(data, P[i - 1]) = <<syms[i]>>
    BY <1>3, <2>10, <2>11 DEF GetSymAt
  <2> QED BY <1>9, <2>3, <2>4, <2>6, <2>7, <2>9, <2>10, <2>12
<1>12. ASSUME NEW n \in 0 .. l
       PROVE  SymsFrom(Take(data, n), 0)
                = Take(syms, Cardinality({i \in DOMAIN syms : syms[i].end <= n}))
  <2>1. PICK c : c = Cardinality({i \in 1 .. k : P[i] <= n})
    OBVIOUS
  <2>2. {i \in DOMAIN syms : syms[i].end <= n} = {i \in 1 .. k : P[i] <= n}
    BY <1>8, <1>9
  <2>3. c \in 0 .. k /\ SymsFrom(Take(data, n), 0) = [i \in 1 .. c |-> RecordAt(rs, P, i)]
    <3>1. n \in 0 .. Len(data) /\ P[Len(rs)] = Len(data) /\ RecordPlaces(data, rs, P)
      BY <1>2, <1>3
    <3>2. c = Cardinality({i \in 1 .. Len(rs) : P[i] <= n})
      BY <1>3, <2>1
    <3>3. c \in 0 .. Len(rs) /\ SymsFrom(Take(data, n), 0) = [i \in 1 .. c |-> RecordAt(rs, P, i)]
      BY <1>2, <3>1, <3>2, RecordsCut
    <3> QED BY <1>3, <3>3
  <2>4. PICK T : T = {RecordAt(rs, P, i) : i \in 1 .. k}
    OBVIOUS
  <2>5. syms \in Seq(T)
    <3>1. syms \in [1 .. k -> T]
      BY <1>7, <2>4
    <3> QED BY <3>1, FunctionLen
  <2>6. PICK y : y = SubSeq(syms, 1, c)
    OBVIOUS
  <2>7. y \in Seq(T) /\ Len(y) = c /\ \A i \in 1 .. c : y[i] = syms[i]
    BY <1>8, <2>3, <2>5, <2>6, FirstPart
  <2>8. PICK z : z = [i \in 1 .. c |-> RecordAt(rs, P, i)]
    OBVIOUS
  <2>9. z \in Seq(T) /\ Len(z) = c /\ \A i \in 1 .. c : z[i] = RecordAt(rs, P, i)
    <3>1. z \in [1 .. c -> T]
      BY <2>3, <2>4, <2>8
    <3> QED BY <2>3, <2>8, <3>1, FunctionLen
  <2>10. \A i \in 1 .. c : y[i] = z[i]
    <3>1. \A i \in 1 .. c : i \in 1 .. k
      BY <2>3
    <3> QED BY <1>8, <2>7, <2>9, <3>1
  <2>11. y = z
    BY <2>7, <2>9, <2>10, SeqEqual
  <2> QED BY <2>1, <2>2, <2>3, <2>6, <2>8, <2>11 DEF Take
<1> QED BY <1>1, <1>3, <1>6, <1>8, <1>10, <1>11, <1>12 DEF RecordsWalked

-----------------------------------------------------------------------------
(***************************************************************************)
(* A name index, written and read back.                                    *)
(***************************************************************************)
EntryOrder(E) == {p \in E \X E : EntryBefore(p[1], p[2])}

BucketEntries(n) == [hash : 0 .. n - 1, offset : Nat]

(* Entries are sorted by their buckets.                                    *)
LEMMA SortedByHash ==
  ASSUME NEW n \in Nat, NEW E \in SUBSET BucketEntries(n), IsFiniteSet(E)
  PROVE  /\ Cardinality(E) \in Nat
         /\ SortedSeq(E, EntryBefore) \in [1 .. Cardinality(E) -> E]
         /\ Len(SortedSeq(E, EntryBefore)) = Cardinality(E)
         /\ \A i \in 1 .. Cardinality(E), j \in 1 .. Cardinality(E) :
              i <= j => SortedSeq(E, EntryBefore)[i].hash <= SortedSeq(E, EntryBefore)[j].hash
         /\ \A x \in E : \E i \in 1 .. Cardinality(E) : SortedSeq(E, EntryBefore)[i] = x
<1> DEFINE r == [x \in E |-> Cardinality({y \in E : EntryBefore(y, x)})]
           R == EntryOrder(E)
<1>1. r = Places(E, R)
  <2>1. ASSUME NEW x \in E PROVE {y \in E : EntryBefore(y, x)} = {y \in E : <<y, x>> \in R}
    BY DEF EntryOrder
  <2> QED BY <2>1 DEF Places
<1>2. SortedSeq(E, EntryBefore) = ByPlace(E, R)
  <2>1. SortedSeq(E, EntryBefore) = ByRank(E, r)
    BY DEF SortedSeq
  <2> HIDE DEF r, R
  <2>2. ByRank(E, r) = PlacedBy(E, r)
    BY DEF ByRank, PlacedBy
  <2> QED BY <1>1, <2>1, <2>2 DEF ByPlace
<1>3. \A x \in E : x.hash \in Int /\ x.offset \in Int /\ x = [hash |-> x.hash, offset |-> x.offset]
  BY DEF BucketEntries
<1>4. StrictlyOrders(R, E)
  <2>1. \A x \in E, y \in E : <<x, y>> \in R <=> EntryBefore(x, y)
    BY DEF EntryOrder
  <2>2. \A x \in E : ~EntryBefore(x, x)
    BY <1>3 DEF EntryBefore
  <2>3. \A x \in E, y \in E, z \in E : EntryBefore(x, y) /\ EntryBefore(y, z) => EntryBefore(x, z)
    BY <1>3 DEF EntryBefore
  <2>4. ASSUME NEW x \in E, NEW y \in E PROVE x = y \/ EntryBefore(x, y) \/ EntryBefore(y, x)
    <3>1. x.hash = y.hash /\ x.offset = y.offset => x = y
      BY <1>3
    <3> QED BY <1>3, <3>1 DEF EntryBefore
  <2> HIDE DEF R
  <2> QED BY <2>1, <2>2, <2>3, <2>4 DEF StrictlyOrders
<1> HIDE DEF R
<1>5. PICK f, m : f = ByPlace(E, R) /\ m = Cardinality(E)
  OBVIOUS
<1>6. /\ m \in Nat /\ f \in [1 .. m -> E]
      /\ \A i \in 1 .. m, j \in 1 .. m : i < j => <<f[i], f[j]>> \in R
      /\ \A x \in E : \E i \in 1 .. m : f[i] = x
  <2>1. /\ Cardinality(E) \in Nat
        /\ ByPlace(E, R) \in [1 .. Cardinality(E) -> E]
        /\ \A i \in 1 .. Cardinality(E), j \in 1 .. Cardinality(E) :
             i < j => <<ByPlace(E, R)[i], ByPlace(E, R)[j]>> \in R
        /\ \A x \in E : \E i \in 1 .. Cardinality(E) : ByPlace(E, R)[i] = x
    BY <1>4, OrderedByPlace
  <2> QED BY <1>5, <2>1
<1>7. Len(f) = m
  BY <1>6, FunctionLen
<1>8. ASSUME NEW i \in 1 .. m, NEW j \in 1 .. m, i <= j PROVE f[i].hash <= f[j].hash
  <2>1. PICK x \in E, y \in E : x = f[i] /\ y = f[j]
    BY <1>6
  <2>2. x.hash \in Int /\ y.hash \in Int
    BY <1>3
  <2>3. CASE i = j
    BY <2>1, <2>2, <2>3
  <2>4. CASE i # j
    <3>1. i < j
      BY <1>8, <2>4
    <3>2. EntryBefore(x, y)
      BY <1>6, <2>1, <3>1 DEF R, EntryOrder
    <3> QED BY <2>1, <2>2, <3>2 DEF EntryBefore
  <2> QED BY <2>3, <2>4
<1> QED BY <1>2, <1>5, <1>6, <1>7, <1>8

(* What a name index of these entries is: each bucket is the range of its  *)
(* entries.                                                                *)
HoldsEntries(index, entries, n) ==
  /\ DOMAIN index.buckets = 0 .. n
  /\ index.records = [i \in DOMAIN entries |-> entries[i].offset]
  /\ \A b \in 0 .. n :
       /\ index.buckets[b] \in 0 .. Len(entries)
       /\ \A i \in 1 .. Len(entries) : i > index.buckets[b] <=> entries[i].hash >= b

HashesAscend(entries, n) ==
  /\ entries \in Seq(BucketEntries(n))
  /\ \A i \in 1 .. Len(entries), j \in 1 .. Len(entries) :
       i <= j => entries[i].hash <= entries[j].hash

LEMMA TableReadBack ==
  ASSUME NEW n \in Nat, NEW entries, HashesAscend(entries, n)
  PROVE  /\ ParseTable(EncodeTable(entries), n) # Err
         /\ HoldsEntries(ParseTable(EncodeTable(entries), n)[1], entries, n)
<1>1. PICK m \in Nat : m = Len(entries) /\ DOMAIN entries = 1 .. m
  BY LenProperties DEF HashesAscend
<1> DEFINE h(i) == entries[i].hash
           S == {entries[i].hash : i \in DOMAIN entries}
           U == SortedSeq(S, <)
           First(b) == Min({i \in DOMAIN entries : entries[i].hash = b})
           ptr == [j \in DOMAIN U |-> HashRecordCalcLen * (First(U[j]) - 1)]
           records == [i \in DOMAIN entries |-> entries[i].offset]
<1>2. EncodeTable(entries) = [records |-> records, bitmap |-> S, pointers |-> ptr]
  BY DEF EncodeTable
<1>3. \A i \in 1 .. m : h(i) \in 0 .. n - 1 /\ entries[i].offset \in Nat
  <2>1. \A i \in 1 .. m : entries[i] \in BucketEntries(n)
    BY <1>1 DEF HashesAscend
  <2> QED BY <2>1 DEF BucketEntries
<1>4. \A i \in 1 .. m, j \in 1 .. m : i <= j => h(i) <= h(j)
  BY <1>1 DEF HashesAscend
<1>5. S \subseteq 0 .. n - 1 /\ IsFiniteSet(S) /\ S \subseteq Int
  <2>1. S \subseteq 0 .. n - 1
    BY <1>1, <1>3
  <2>2. IsFiniteSet(0 .. n - 1)
    BY FS_Interval
  <2> HIDE DEF S
  <2>3. IsFiniteSet(S)
    BY <2>1, <2>2, FS_Subset
  <2> QED BY <2>1, <2>3
<1>6. PICK u \in Nat : /\ u = Cardinality(S) /\ u = Len(U) /\ U \in [1 .. u -> S]
                       /\ \A i \in 1 .. u, j \in 1 .. u : i < j => U[i] < U[j]
                       /\ \A x \in S : \E i \in 1 .. u : U[i] = x
  <2> HIDE DEF S
  <2> QED BY <1>5, SortedNumbers
<1>7. \A i \in 1 .. m : h(i) \in S
  BY <1>1
<1>8. ASSUME NEW x \in S
      PROVE  /\ First(x) \in 1 .. m /\ h(First(x)) = x
             /\ \A i \in 1 .. m : h(i) = x => First(x) <= i
  <2> DEFINE T == {i \in DOMAIN entries : entries[i].hash = x}
  <2>1. T \subseteq Nat /\ T # {}
    BY <1>1
  <2>2. PICK k \in T : \A y \in T : k <= y
    <3> HIDE DEF T
    <3> QED BY <2>1, LeastOf
  <2>3. Min(T) = k
    <3> HIDE DEF T
    <3>1. T \subseteq Int
      BY <2>1
    <3> QED BY <2>2, <3>1, MinIs
  <2> QED BY <1>1, <2>2, <2>3
<1> HIDE DEF S, U, First
<1>9. ASSUME NEW x \in S, NEW i \in 1 .. m PROVE (i >= First(x) <=> h(i) >= x)
  <2>1. PICK f \in 1 .. m : f = First(x) /\ h(f) = x /\ \A j \in 1 .. m : h(j) = x => f <= j
    BY <1>8
  <2>2. PICK a \in Int, c \in Int : a = h(i) /\ c = x
    BY <1>3, <1>5
  <2>3. i >= f => a >= c
    BY <1>4, <2>1, <2>2
  <2>4. ~(i >= f) => ~(a >= c)
    <3>1. i <= f => a <= c
      BY <1>4, <2>1, <2>2
    <3>2. a = c => f <= i
      BY <2>1, <2>2
    <3> QED BY <2>1, <2>2, <3>1, <3>2
  <2> QED BY <2>1, <2>2, <2>3, <2>4
<1>10. DOMAIN U = 1 .. u /\ \A j \in 1 .. u : U[j] \in S /\ U[j] \in Int
  BY <1>5, <1>6
<1>11. ptr \in [1 .. u -> Int] /\ \A j \in 1 .. u : ptr[j] = 12 * (First(U[j]) - 1)
  <2>1. \A j \in 1 .. u : First(U[j]) \in Int
    BY <1>8, <1>10
  <2>2. \A j \in 1 .. u : 12 * (First(U[j]) - 1) \in Int
    BY <2>1
  <2> QED BY <1>10, <2>2 DEF HashRecordCalcLen
<1>12. Len(ptr) = u
  <2> HIDE DEF ptr
  <2> QED BY <1>11, FunctionLen
<1>13. Len(records) = m
  <2>1. records \in [1 .. m -> Nat]
    BY <1>1, <1>3
  <2> HIDE DEF records
  <2> QED BY <2>1, FunctionLen
<1> HIDE DEF ptr, records
<1>14. PointersValid(ptr, u, m)
  <2>1. ASSUME NEW j \in 1 .. u
        PROVE  /\ ptr[j] >= 0 /\ ptr[j] % 12 = 0 /\ ptr[j] \div 12 < m
               /\ IF j = 1 THEN ptr[j] = 0 ELSE ptr[j] >= ptr[j - 1]
    <3>1. PICK f \in 1 .. m : f = First(U[j]) /\ ptr[j] = 12 * (f - 1) /\ h(f) = U[j]
      BY <1>8, <1>10, <1>11
    <3>2. ptr[j] >= 0 /\ ptr[j] % 12 = 0 /\ ptr[j] \div 12 < m
      BY <3>1
    <3>3. CASE j = 1
      <4>1. h(1) \in S /\ 1 \in 1 .. m
        BY <1>7, <3>1
      <4>2. PICK k \in 1 .. u : U[k] = h(1)
        BY <1>6, <4>1
      <4>3. h(1) >= U[1]
        <5>1. k = 1 \/ 1 < k
          OBVIOUS
        <5>2. U[1] \in Int /\ U[k] \in Int
          BY <1>10, <3>3
        <5> QED BY <1>6, <3>3, <4>2, <5>1, <5>2
      <4>4. 1 >= f
        BY <1>9, <1>10, <3>1, <3>3, <4>1, <4>3
      <4>5. f = 1
        BY <4>4
      <4> QED BY <3>1, <3>2, <3>3, <4>5
    <3>4. CASE j # 1
      <4>1. j - 1 \in 1 .. u /\ j - 1 < j
        BY <3>4
      <4>2. PICK e \in 1 .. m : e = First(U[j - 1]) /\ ptr[j - 1] = 12 * (e - 1) /\ h(e) = U[j - 1]
        BY <1>8, <1>10, <1>11, <4>1
      <4>3. U[j] >= U[j - 1]
        BY <1>6, <1>10, <4>1
      <4>4. f >= e
        BY <1>9, <1>10, <3>1, <4>1, <4>2, <4>3
      <4> QED BY <3>1, <3>2, <3>4, <4>2, <4>4
    <3> QED BY <3>2, <3>3, <3>4
  <2> QED BY <2>1 DEF PointersValid, HashRecordCalcLen
<1>15. ~(u < Min({u, n}))
  <2> DEFINE T == {u, n}
  <2>1. T \subseteq Nat /\ T # {} /\ u \in T
    OBVIOUS
  <2>2. PICK k \in T : \A y \in T : k <= y
    <3> HIDE DEF T
    <3> QED BY <2>1, LeastOf
  <2>3. Min(T) = k
    <3> HIDE DEF T
    <3>1. T \subseteq Int
      BY <2>1
    <3> QED BY <2>2, <3>1, MinIs
  <2>4. k \in Nat /\ k <= u
    BY <2>1, <2>2
  <2> QED BY <2>3, <2>4
<1> DEFINE From(b) == {j \in DOMAIN U : U[j] >= b}
           F == [b \in 0 .. n |-> IF From(b) = {} THEN m ELSE ptr[Min(From(b))] \div HashRecordCalcLen]
<1>16. ExpandBuckets(S, ptr, n, m) = <<F>>
  <2>1. S \cap 0 .. n - 1 = S
    BY <1>5
  <2>2. ~(Len(ptr) < Min({Cardinality(S), n}))
    BY <1>6, <1>12, <1>15
  <2>3. PointersValid(ptr, Len(U), m)
    BY <1>6, <1>14
  <2> QED BY <2>1, <2>2, <2>3 DEF ExpandBuckets, U
<1>17. ASSUME NEW b \in 0 .. n
       PROVE  F[b] \in 0 .. m /\ \A i \in 1 .. m : i > F[b] <=> h(i) >= b
  <2>1. CASE From(b) = {}
    <3>1. F[b] = m
      BY <2>1
    <3>2. ASSUME NEW i \in 1 .. m PROVE ~(h(i) >= b)
      <4>1. PICK k \in 1 .. u : U[k] = h(i)
        BY <1>6, <1>7
      <4> QED BY <1>10, <2>1, <4>1
    <3>3. \A i \in 1 .. m : ~(i > m)
      OBVIOUS
    <3> HIDE DEF F
    <3> QED BY <3>1, <3>2, <3>3
  <2>2. CASE From(b) # {}
    <3> DEFINE T == From(b)
    <3>1. T \subseteq Nat /\ T # {} /\ T \subseteq 1 .. u
      BY <1>10, <2>2
    <3>2. PICK k \in T : \A y \in T : k <= y
      <4> HIDE DEF T
      <4> QED BY <3>1, LeastOf
    <3>3. Min(T) = k
      <4> HIDE DEF T
      <4>1. T \subseteq Int
        BY <3>1
      <4> QED BY <3>2, <4>1, MinIs
    <3>4. k \in 1 .. u /\ U[k] >= b /\ \A j \in 1 .. u : U[j] >= b => k <= j
      BY <1>10, <3>2
    <3>5. PICK f \in 1 .. m : f = First(U[k]) /\ ptr[k] = 12 * (f - 1) /\ h(f) = U[k]
      BY <1>8, <1>10, <1>11, <3>4
    <3>6. F[b] = ptr[k] \div 12
      BY <2>2, <3>3 DEF HashRecordCalcLen
    <3>7. F[b] = f - 1
      <4> HIDE DEF F
      <4>1. (12 * (f - 1)) \div 12 = f - 1
        OBVIOUS
      <4> QED BY <3>5, <3>6, <4>1
    <3> HIDE DEF F, T, From
    <3>8. ASSUME NEW i \in 1 .. m PROVE i > f - 1 <=> h(i) >= b
      <4>1. PICK a \in Int, c \in Int : a = h(i) /\ c = U[k] /\ c >= b
        BY <1>3, <1>10, <3>4
      <4>2. i >= f <=> a >= c
        BY <1>9, <1>10, <3>4, <3>5, <4>1
      <4>3. a >= b => a >= c
        <5>1. SUFFICES ASSUME a >= b, ~(a >= c) PROVE FALSE
          OBVIOUS
        <5>2. PICK j \in 1 .. u : U[j] = a
          BY <1>6, <1>7, <4>1
        <5>3. k <= j
          BY <3>4, <5>1, <5>2
        <5>4. k = j \/ k < j
          BY <3>4, <5>3
        <5>5. c = a \/ c < a
          BY <1>6, <3>4, <4>1, <5>2, <5>4
        <5> QED BY <5>1, <5>5
      <4>4. i > f - 1 <=> i >= f
        OBVIOUS
      <4> QED BY <4>1, <4>2, <4>3, <4>4
    <3>9. f - 1 \in 0 .. m
      OBVIOUS
    <3> QED BY <3>7, <3>8, <3>9
  <2> QED BY <2>1, <2>2
<1> HIDE DEF F
<1>18. DOMAIN F = 0 .. n
  BY DEF F
<1>19. ParseTable(EncodeTable(entries), n) = <<[records |-> records, buckets |-> F]>>
  <2>1. <<F>> # Err
    BY DEF Err
  <2> QED BY <1>2, <1>13, <1>16, <2>1 DEF ParseTable
<1>20. HoldsEntries([records |-> records, buckets |-> F], entries, n)
  BY <1>1, <1>17, <1>18 DEF HoldsEntries, records
<1> QED BY <1>19, <1>20 DEF Err

-----------------------------------------------------------------------------
(***************************************************************************)
(* Hashes of names: the case of a letter does not change them.             *)
(***************************************************************************)
(* The case of a letter is one bit of it.                                  *)
LEMMA BitOfLower ==
  ASSUME NEW x \in Octets, NEW q \in 0 .. 7, q # 5
  PROVE  (Lower(x) \div 2 ^ q) % 2 = (x \div 2 ^ q) % 2
<1>1. CASE x \notin 65 .. 90
  BY <1>1 DEF Lower
<1>2. CASE x \in 65 .. 90
  <2>1. Lower(x) = x + 32
    BY <1>2 DEF Lower
  <2>2. CASE q = 0
    <3>1. 2 ^ 0 = 1
      OBVIOUS
    <3>2. ((x + 32) \div 1) % 2 = (x \div 1) % 2
      BY <1>2
    <3> QED BY <2>1, <2>2, <3>1, <3>2
  <2>3. CASE q = 1
    <3>1. 2 ^ 1 = 2
      OBVIOUS
    <3>2. ((x + 32) \div 2) % 2 = (x \div 2) % 2
      BY <1>2
    <3> QED BY <2>1, <2>3, <3>1, <3>2
  <2>4. CASE q = 2
    <3>1. 2 ^ 2 = 4
      OBVIOUS
    <3>2. ((x + 32) \div 4) % 2 = (x \div 4) % 2
      BY <1>2
    <3> QED BY <2>1, <2>4, <3>1, <3>2
  <2>5. CASE q = 3
    <3>1. 2 ^ 3 = 8
      OBVIOUS
    <3>2. ((x + 32) \div 8) % 2 = (x \div 8) % 2
      BY <1>2
    <3> QED BY <2>1, <2>5, <3>1, <3>2
  <2>6. CASE q = 4
    <3>1. 2 ^ 4 = 16
      OBVIOUS
    <3>2. ((x + 32) \div 16) % 2 = (x \div 16) % 2
      BY <1>2
    <3> QED BY <2>1, <2>6, <3>1, <3>2
  <2>7. CASE q = 6
    <3>1. 2 ^ 6 = 64
      OBVIOUS
    <3>2. ((x + 32) \div 64) % 2 = (x \div 64) % 2
      BY <1>2
    <3> QED BY <2>1, <2>7, <3>1, <3>2
  <2>8. CASE q = 7
    <3>1. 2 ^ 7 = 128
      OBVIOUS
    <3>2. ((x + 32) \div 128) % 2 = (x \div 128) % 2
      BY <1>2
    <3> QED BY <2>1, <2>8, <3>1, <3>2
  <2> QED BY <2>2, <2>3, <2>4, <2>5, <2>6, <2>7, <2>8
<1> QED BY <1>1, <1>2

LEMMA BitsOfLower ==
  ASSUME NEW x \in Octets, NEW y \in Octets, Lower(x) = Lower(y), NEW lane \in 0 .. 3,
         NEW i \in 0 .. 31, i \notin {5, 13, 21, 29}, i \in BitsAt(x, lane)
  PROVE  i \in BitsAt(y, lane)
<1>1. PICK q \in 0 .. 7 : (x \div 2 ^ q) % 2 = 1 /\ i = q + 8 * lane
  BY DEF BitsAt
<1>2. q # 5
  BY <1>1
<1>3. (x \div 2 ^ q) % 2 = (y \div 2 ^ q) % 2
  <2>1. (Lower(x) \div 2 ^ q) % 2 = (x \div 2 ^ q) % 2
    BY <1>2, BitOfLower
  <2>2. (Lower(y) \div 2 ^ q) % 2 = (y \div 2 ^ q) % 2
    BY <1>2, BitOfLower
  <2> QED BY <2>1, <2>2
<1> QED BY <1>1, <1>3 DEF BitsAt

(* pdb/src/hash.rs: names that differ in case only have the same hash.     *)
LEMMA SameHash ==
  ASSUME NEW a \in Seq(Octets), NEW c \in Seq(Octets), SameName(a, c)
  PROVE  HashU32(a) = HashU32(c)
<1>1. PICK n \in Nat : n = Len(a) /\ DOMAIN a = 1 .. n /\ \A i \in 1 .. n : a[i] \in Octets
  BY LenProperties
<1>2. Len(c) \in Nat /\ DOMAIN c = 1 .. Len(c) /\ \A i \in 1 .. Len(c) : c[i] \in Octets
  BY LenProperties
<1>3. DOMAIN a = DOMAIN c /\ \A i \in DOMAIN a : Lower(a[i]) = Lower(c[i])
  <2>1. [i \in DOMAIN a |-> Lower(a[i])] = [i \in DOMAIN c |-> Lower(c[i])]
    BY DEF SameName, LowerCase
  <2>2. DOMAIN [i \in DOMAIN a |-> Lower(a[i])] = DOMAIN a
    OBVIOUS
  <2>3. DOMAIN [i \in DOMAIN c |-> Lower(c[i])] = DOMAIN c
    OBVIOUS
  <2>4. \A i \in DOMAIN a : [j \in DOMAIN a |-> Lower(a[j])][i] = Lower(a[i])
    OBVIOUS
  <2>5. \A i \in DOMAIN c : [j \in DOMAIN c |-> Lower(c[j])][i] = Lower(c[i])
    OBVIOUS
  <2> QED BY <2>1, <2>2, <2>3, <2>4, <2>5
<1>4. Len(c) = n
  <2>1. PICK l \in Nat : l = Len(c)
    BY <1>2
  <2>2. 1 .. l = 1 .. n
    BY <1>1, <1>2, <1>3, <2>1
  <2>3. \A i \in Nat : i \in 1 .. l <=> i \in 1 .. n
    BY <2>2
  <2>4. (n >= 1 => n <= l) /\ (l >= 1 => l <= n)
    BY <2>3
  <2> QED BY <2>1, <2>4
<1>5. ASSUME NEW k \in 0 .. n - 1 PROVE Lane(a, k) = Lane(c, k) /\ Lane(a, k) \in 0 .. 3
  <2>1. PICK w \in Int : w = 4 * (n \div 4)
    OBVIOUS
  <2>2. Lane(a, k) = IF k < w THEN k % 4 ELSE (k - w) % 2
    BY <1>1, <2>1 DEF Lane
  <2>3. Lane(c, k) = IF k < w THEN k % 4 ELSE (k - w) % 2
    BY <1>4, <2>1 DEF Lane
  <2>4. k % 4 \in 0 .. 3 /\ (k - w) % 2 \in 0 .. 3
    OBVIOUS
  <2> QED BY <2>2, <2>3, <2>4
<1> DEFINE Ones(pb, i) == {k \in 0 .. Len(pb) - 1 : i \in BitsAt(pb[k + 1], Lane(pb, k))}
           Read(pb) == {i \in 0 .. 31 : Cardinality(Ones(pb, i)) % 2 = 1}
           Mixed(pb) == SymDiff(CaseFolded(Read(pb)), ShiftedRight(CaseFolded(Read(pb)), 11))
<1>6. ASSUME NEW i \in 0 .. 31, i \notin {5, 13, 21, 29} PROVE Ones(a, i) = Ones(c, i)
  <2>1. ASSUME NEW k \in 0 .. n - 1
        PROVE  i \in BitsAt(a[k + 1], Lane(a, k)) <=> i \in BitsAt(c[k + 1], Lane(c, k))
    <3>1. PICK l \in 0 .. 3 : l = Lane(a, k) /\ l = Lane(c, k)
      BY <1>5
    <3>2. PICK x \in Octets, y \in Octets : x = a[k + 1] /\ y = c[k + 1] /\ Lower(x) = Lower(y)
      <4>1. k + 1 \in 1 .. n
        OBVIOUS
      <4> QED BY <1>1, <1>2, <1>3, <1>4, <4>1
    <3>3. i \in BitsAt(x, l) <=> i \in BitsAt(y, l)
      BY <1>6, <3>2, BitsOfLower
    <3> QED BY <3>1, <3>2, <3>3
  <2> QED BY <1>1, <1>4, <2>1
<1> HIDE DEF Ones
<1>7. CaseFolded(Read(a)) = CaseFolded(Read(c))
  BY <1>6 DEF CaseFolded
<1>8. \A pb : HashU32(pb) = SymDiff(Mixed(pb), ShiftedRight(Mixed(pb), 16))
  BY DEF HashU32, Ones
<1>9. Mixed(a) = Mixed(c)
  BY <1>7
<1> HIDE DEF Mixed
<1> QED BY <1>8, <1>9

(* A hash is the number of a bucket.                                       *)
LEMMA HashIsBucket ==
  ASSUME NEW pb, NEW n \in Nat \ {0}
  PROVE  HashModU32(pb, n) \in 0 .. n - 1
<1>1. PICK h : h = HashU32(pb) /\ h \in SUBSET (0 .. 31)
  BY HashU32Bits
<1>2. h \in SUBSET Nat /\ IsFiniteSet(h)
  <2>1. 0 \in Int /\ 31 \in Int
    OBVIOUS
  <2>2. IsFiniteSet(0 .. 31)
    BY <2>1, FS_Interval
  <2>3. IsFiniteSet(h)
    BY <1>1, <2>2, FS_Subset
  <2> QED BY <1>1, <2>3
<1>3. Remainder(h, n) \in 0 .. n - 1
  BY <1>2, RemainderIsLess
<1> QED BY <1>1, <1>3 DEF HashModU32

-----------------------------------------------------------------------------
(***************************************************************************)
(* Fields of global symbols: each takes its bytes from what is left.       *)
(***************************************************************************)
LEMMA BytesTaken ==
  ASSUME NEW b \in Seq(Octets), NEW n \in Nat, TakeBytes(b, n) # Err
  PROVE  /\ n <= Len(b) /\ TakeBytes(b, n) = <<Take(b, n), Drop(b, n)>>
         /\ Take(b, n) \in Seq(Octets) /\ Len(Take(b, n)) = n
         /\ Drop(b, n) \in Seq(Octets)
<1>1. ~(Len(b) < n) /\ TakeBytes(b, n) = <<Take(b, n), Drop(b, n)>>
  BY DEF TakeBytes
<1>2. n \in 0 .. Len(b)
  BY <1>1
<1>3. Take(b, n) \in Seq(Octets) /\ Len(Take(b, n)) = n
  BY <1>2, FirstPart DEF Take
<1>4. Drop(b, n) \in Seq(Octets)
  BY <1>2, DropIs
<1> QED BY <1>1, <1>2, <1>3, <1>4

(* A string that is taken, and what is left behind its NUL.                *)
LEMMA StrzTaken ==
  ASSUME NEW b \in Seq(Octets), TakeStrz(b) # Err
  PROVE  \E v \in Seq(Octets), r \in Seq(Octets) :
           TakeStrz(b) = <<v, r>> /\ Len(r) < Len(b)
<1> DEFINE Ends == {i \in DOMAIN b : b[i] = 0}
<1>1. PICK n \in Nat : n = Len(b) /\ DOMAIN b = 1 .. n
  BY LenProperties
<1>2. Ends # {} /\ TakeStrz(b) = <<Take(b, Min(Ends) - 1), Drop(b, Min(Ends))>>
  BY DEF TakeStrz
<1>3. Ends \subseteq Nat /\ Ends \subseteq 1 .. n
  BY <1>1
<1> HIDE DEF Ends
<1>4. PICK m \in Ends : \A y \in Ends : m <= y
  BY <1>2, <1>3, LeastOf
<1>5. Min(Ends) = m
  <2>1. Ends \subseteq Int
    BY <1>3
  <2> QED BY <1>4, <2>1, MinIs
<1>6. m \in 1 .. n /\ m - 1 \in 0 .. Len(b) /\ m \in 0 .. Len(b)
  BY <1>1, <1>3, <1>4
<1>7. Take(b, m - 1) \in Seq(Octets)
  BY <1>6, FirstPart DEF Take
<1>8. Drop(b, m) \in Seq(Octets) /\ Len(Drop(b, m)) = Len(b) - m
  BY <1>6, DropIs
<1> QED BY <1>1, <1>2, <1>5, <1>6, <1>7, <1>8

LEMMA TailIs == \A tag : NumberTail(tag) # -1 => NumberTail(tag) \in Nat
BY DEF NumberTail

LEMMA NumberTaken ==
  ASSUME NEW b \in Seq(Octets), TakeNumber(b) # Err
  PROVE  \E n \in Nat : TakeNumber(b) = TakeBytes(b, n)
<1>1. ~(Len(b) < 2)
  BY DEF TakeNumber
<1>2. PICK tag \in Nat : tag = U16At(b, 0)
  <2>1. 0 + 0 + 2 <= Len(b) /\ 0 \in Nat
    BY <1>1
  <2>2. Len(b) \in Nat
    OBVIOUS
  <2>3. U16At(b, 0) \in Nat
    <3>1. b[1] \in Octets /\ b[2] \in Octets
      <4>1. 1 \in 1 .. Len(b) /\ 2 \in 1 .. Len(b)
        BY <1>1, <2>2
      <4> QED BY <4>1
    <3>2. b[1] \in Nat /\ b[2] \in Nat
      BY <3>1, OctetIsNat
    <3> QED BY <3>2 DEF U16At
  <2> QED BY <2>3
<1> DEFINE Text == TakeStrz(Drop(b, 2))
<1>3. CASE tag < \h8000
  BY <1>1, <1>2, <1>3 DEF TakeNumber
<1>4. CASE ~(tag < \h8000) /\ tag = VarString
  <2>1. ~(Len(b) < 4) /\ TakeNumber(b) = TakeBytes(b, 4 + U16At(b, 2))
    BY <1>1, <1>2, <1>4 DEF TakeNumber
  <2>2. b[3] \in Octets /\ b[4] \in Octets
    <3>1. Len(b) \in Nat
      OBVIOUS
    <3>2. 3 \in 1 .. Len(b) /\ 4 \in 1 .. Len(b)
      BY <2>1, <3>1
    <3> QED BY <3>2
  <2>3. b[3] \in Nat /\ b[4] \in Nat
    BY <2>2, OctetIsNat
  <2>4. U16At(b, 2) = b[3] + 256 * b[4]
    BY DEF U16At
  <2>5. 4 + U16At(b, 2) \in Nat
    BY <2>3, <2>4
  <2> QED BY <2>1, <2>5
<1>5. CASE ~(tag < \h8000) /\ tag # VarString /\ tag = Utf8String
  <2>1. Text # Err /\ TakeNumber(b) = TakeBytes(b, Len(b) - Len(Text[2]))
    BY <1>1, <1>2, <1>5 DEF TakeNumber
  <2>2. 2 \in 0 .. Len(b)
    BY <1>1
  <2>3. Drop(b, 2) \in Seq(Octets) /\ Len(Drop(b, 2)) = Len(b) - 2
    BY <2>2, DropIs
  <2>4. PICK v, r \in Seq(Octets) : Text = <<v, r>> /\ Len(r) < Len(Drop(b, 2))
    BY <2>1, <2>3, StrzTaken
  <2>5. Len(b) - Len(r) \in Nat /\ Text[2] = r
    BY <2>3, <2>4
  <2> QED BY <2>1, <2>5
<1>6. CASE ~(tag < \h8000) /\ tag # VarString /\ tag # Utf8String
  <2>1. NumberTail(tag) # -1 /\ TakeNumber(b) = TakeBytes(b, 2 + NumberTail(tag))
    BY <1>1, <1>2, <1>6 DEF TakeNumber
  <2> QED BY <2>1, TailIs
<1> QED BY <1>3, <1>4, <1>5, <1>6

(* The roles of the fields in global symbols.                              *)
GlobalRoles ==
  {"u8", "u16", "u32", "flags", "type", "token", "number", "checksum", "symbolOffset",
   "module", "parent", "end", "next", "length", "offset", "segment", "name"}

LEMMA WidthIs ==
  \A role \in GlobalRoles : Width(role) \in Nat
BY DEF Width

LEMMA FieldTaken ==
  ASSUME NEW role \in GlobalRoles, NEW b \in Seq(Octets), TakeField(role, b) # Err
  PROVE  \E v \in Seq(Octets), r \in Seq(Octets) :
           /\ TakeField(role, b) = <<v, r>>
           /\ role \notin {"name", "number"} => Len(v) = Width(role)
<1>1. CASE role = "name"
  <2>1. TakeField(role, b) = TakeStrz(b)
    BY <1>1 DEF TakeField
  <2> QED BY <1>1, <2>1, StrzTaken
<1>2. CASE role = "number"
  <2>1. TakeField(role, b) = TakeNumber(b)
    BY <1>2 DEF TakeField
  <2>2. PICK n \in Nat : TakeNumber(b) = TakeBytes(b, n)
    BY <2>1, NumberTaken
  <2> QED BY <1>2, <2>1, <2>2, BytesTaken
<1>3. CASE role \notin {"name", "number"}
  <2>1. TakeField(role, b) = TakeBytes(b, Width(role))
    BY <1>3 DEF TakeField, GlobalRoles
  <2>2. Width(role) \in Nat
    BY WidthIs
  <2> QED BY <2>1, <2>2, BytesTaken
<1> QED BY <1>1, <1>2, <1>3

LEMMA LayoutsAre ==
  ASSUME NEW kind
  PROVE  GlobalLayout(kind) \in Seq(GlobalRoles)
<1> USE DEF GlobalRoles
<1>1. OffsetSegment \in Seq(GlobalRoles) /\ BlockHeader \in Seq(GlobalRoles)
  BY DEF OffsetSegment, BlockHeader
<1>2. <<"flags">> \in Seq(GlobalRoles) /\ <<"name">> \in Seq(GlobalRoles) /\ <<"type">> \in Seq(GlobalRoles)
      /\ <<"next", "length", "u32", "u32", "token">> \in Seq(GlobalRoles)
      /\ <<"u8", "u8", "u16", "name">> \in Seq(GlobalRoles)
  OBVIOUS
<1>3. Constant \in Seq(GlobalRoles) /\ RefSym2 \in Seq(GlobalRoles) /\ Udt \in Seq(GlobalRoles) /\ <<>> \in Seq(GlobalRoles)
  BY DEF Constant, RefSym2, Udt
<1> USE DEF GlobalRoles
<1> HIDE DEF GlobalRoles
<1>4. \A x \in Seq(GlobalRoles), y \in Seq(GlobalRoles) : x \o y \in Seq(GlobalRoles)
  OBVIOUS
<1>5. Pub \in Seq(GlobalRoles) /\ Data \in Seq(GlobalRoles) /\ ThreadStorageData \in Seq(GlobalRoles)
      /\ ManProcSym \in Seq(GlobalRoles)
  BY <1>1, <1>2, <1>4 DEF Pub, Data, ThreadStorageData, ManProcSym
<1> QED BY <1>3, <1>5 DEF GlobalLayout

ParsedField == [role : GlobalRoles, at : Int, value : Seq(Octets)]

Parsed0 == {<<>>} \cup (Seq(ParsedField) \X Seq(Octets))

FieldAfter(data, acc, role, field) ==
  IF field = <<>> THEN <<>>
  ELSE <<Append(acc[1], [role |-> role, at |-> Len(data) - Len(acc[2]), value |-> field[1]]),
         field[2]>>

FieldStep(data, acc, role) ==
  IF acc = <<>> THEN <<>> ELSE FieldAfter(data, acc, role, TakeField(role, acc[2]))

FieldSteps(h, layout, data) ==
  [s \in SUBSET (DOMAIN layout) |->
     IF s = {} THEN << <<>>, data >>
     ELSE FieldStep(data, h[s \ {Max(s)}], layout[Max(s)])]

LEMMA FieldStepIs ==
  ASSUME NEW data \in Seq(Octets), NEW acc \in Parsed0, NEW role \in GlobalRoles
  PROVE  /\ FieldStep(data, acc, role) \in Parsed0
         /\ FieldStep(data, acc, role) # <<>> =>
              \E f \in ParsedField :
                /\ f.role = role
                /\ role \notin {"name", "number"} => Len(f.value) = Width(role)
                /\ acc # <<>> /\ FieldStep(data, acc, role)[1] = Append(acc[1], f)
<1>1. CASE acc = <<>>
  BY <1>1 DEF FieldStep, Parsed0
<1>2. CASE acc # <<>>
  <2>1. PICK fs \in Seq(ParsedField), b \in Seq(Octets) : acc = <<fs, b>>
    BY <1>2 DEF Parsed0
  <2>2. FieldStep(data, acc, role) = FieldAfter(data, acc, role, TakeField(role, b))
    BY <1>2, <2>1 DEF FieldStep
  <2>3. CASE TakeField(role, b) = <<>>
    BY <2>2, <2>3 DEF FieldAfter, Parsed0
  <2>4. CASE TakeField(role, b) # <<>>
    <3>1. PICK v \in Seq(Octets), r \in Seq(Octets) :
             /\ TakeField(role, b) = <<v, r>>
             /\ role \notin {"name", "number"} => Len(v) = Width(role)
      BY <2>4, FieldTaken DEF Err
    <3>2. PICK f : f = [role |-> role, at |-> Len(data) - Len(b), value |-> v]
      OBVIOUS
    <3>3. f \in ParsedField /\ f.role = role /\ f.value = v
      <4>1. Len(data) \in Nat /\ Len(b) \in Nat
        OBVIOUS
      <4>2. Len(data) - Len(b) \in Int
        BY <4>1
      <4> QED BY <3>2, <4>2 DEF ParsedField
    <3>4. FieldStep(data, acc, role) = <<Append(fs, f), r>>
      <4>1. acc[1] = fs /\ acc[2] = b
        BY <2>1
      <4>2. PICK t : t = TakeField(role, b) /\ t # <<>> /\ t[1] = v /\ t[2] = r
        BY <2>4, <3>1
      <4>3. FieldStep(data, acc, role) = FieldAfter(data, acc, role, t)
        BY <2>2, <4>2
      <4> QED BY <3>2, <4>1, <4>2, <4>3 DEF FieldAfter
    <3>5. Append(fs, f) \in Seq(ParsedField)
      BY <3>3
    <3>6. FieldStep(data, acc, role) \in Parsed0
      <4>1. PICK q \in Seq(ParsedField) : q = Append(fs, f)
        BY <3>5
      <4>2. <<q, r>> \in Parsed0
        BY DEF Parsed0
      <4> QED BY <3>4, <4>1, <4>2
    <3>7. FieldStep(data, acc, role)[1] = Append(acc[1], f)
      <4>1. acc[1] = fs
        BY <2>1
      <4> QED BY <3>4, <4>1
    <3> QED BY <1>2, <3>1, <3>3, <3>6, <3>7
  <2> QED BY <2>3, <2>4
<1> QED BY <1>1, <1>2

(* The loop of the parser: P[i] is what there is after i fields.           *)
LEMMA ParsingIs ==
  ASSUME NEW layout \in Seq(GlobalRoles), NEW data \in Seq(Octets)
  PROVE  \E P \in [0 .. Len(layout) -> Parsed0] :
           /\ P[0] = << <<>>, data >>
           /\ \A i \in 1 .. Len(layout) : P[i] = FieldStep(data, P[i - 1], layout[i])
           /\ ParseFields(layout, data) = P[Len(layout)]
<1>1. PICK n \in Nat : n = Len(layout) /\ DOMAIN layout = 1 .. n
                      /\ \A i \in 1 .. n : layout[i] \in GlobalRoles
  BY LenProperties
<1> DEFINE V == Parsed0
           base == << <<>>, data >>
           Put(v, i) == FieldStep(data, v, layout[i])
           next == [p \in V \X (1 .. n) |-> Put(p[1], p[2])]
           g == CHOOSE h : h = FieldSteps(h, layout, data)
<1>2. next \in [V \X (1 .. n) -> V] /\ \A v \in V, i \in 1 .. n : next[v, i] = Put(v, i)
  <2>1. ASSUME NEW v \in V, NEW i \in 1 .. n PROVE Put(v, i) \in V
    BY <1>1, FieldStepIs
  <2> HIDE DEF Put, V
  <2>2. \A p \in V \X (1 .. n) : p[1] \in V /\ p[2] \in 1 .. n
    OBVIOUS
  <2>3. \A p \in V \X (1 .. n) : Put(p[1], p[2]) \in V
    BY <2>1, <2>2
  <2> QED BY <2>3
<1>3. ParseFields(layout, data) = g[1 .. n]
  BY <1>1 DEF ParseFields, FoldLeft, MapThenFoldSet, FieldSteps, FieldStep, FieldAfter, Err
<1> HIDE DEF next
<1>4. n \in Nat /\ FoldsInto(n, V, base, next)
  <2>1. n \in Nat /\ base \in V
    <3>1. <<>> \in Seq(ParsedField)
      OBVIOUS
    <3> QED BY <3>1 DEF Parsed0
  <2> HIDE DEF Put, V, base
  <2> QED BY <1>2, <2>1, Zenon DEF FoldsInto
<1>5. g = FieldSteps(g, layout, data)
  <2>1. PICK h \in [SUBSET (1 .. n) -> V] : h = FoldSteps(h, n, base, next)
    <3>1. HasFold(n, V, base, next)
      BY <1>4, FoldExists, Zenon
    <3> QED BY <3>1, Zenon DEF HasFold
  <2>2. ASSUME NEW s \in SUBSET (1 .. n), s # {} PROVE Max(s) \in 1 .. n /\ s \ {Max(s)} \in SUBSET (1 .. n)
    BY <2>2, MaxOfSome
  <2>3. h = [s \in SUBSET (1 .. n) |-> IF s = {} THEN base ELSE next[h[s \ {Max(s)}], Max(s)]]
    BY <2>1 DEF FoldSteps
  <2> HIDE DEF V, base
  <2>4. ASSUME NEW s \in SUBSET (1 .. n), s # {}
        PROVE  next[h[s \ {Max(s)}], Max(s)] = Put(h[s \ {Max(s)}], Max(s))
    <3>1. PICK r \in SUBSET (1 .. n), m \in 1 .. n : r = s \ {Max(s)} /\ m = Max(s)
      BY <2>2, <2>4
    <3>2. h[r] \in V
      OBVIOUS
    <3> HIDE DEF Put
    <3> QED BY <1>2, <3>1, <3>2
  <2>5. h = [s \in SUBSET (1 .. n) |-> IF s = {} THEN base ELSE Put(h[s \ {Max(s)}], Max(s))]
    <3> HIDE DEF Put
    <3> QED BY <2>3, <2>4
  <2>6. h = FieldSteps(h, layout, data)
    BY <1>1, <2>5 DEF FieldSteps, base
  <2> QED BY <2>6
<1> HIDE DEF g
<1>6. \A s \in SUBSET (1 .. n) : g[s] = IF s = {} THEN base ELSE Put(g[s \ {Max(s)}], Max(s))
  BY <1>1, <1>5 DEF FieldSteps
<1>7. FoldsOn(g, n, V, base, next)
  <2> HIDE DEF Put, V, base
  <2>1. g[{}] = base
    BY <1>6
  <2>2. ASSUME NEW i \in 1 .. n, NEW v \in V, g[1 .. (i - 1)] = v PROVE g[1 .. i] = next[v, i]
    <3>1. 1 .. i \in SUBSET (1 .. n) /\ i \in Nat \ {0}
      OBVIOUS
    <3>2. g[1 .. i] = Put(g[1 .. (i - 1)], i)
      BY <1>6, <3>1, FirstIndices
    <3> QED BY <1>2, <2>2, <3>2
  <2> QED BY <2>1, <2>2 DEF FoldsOn
<1>8. PICK P \in [0 .. n -> V] : /\ P[0] = base
                                 /\ \A i \in 1 .. n : P[i] = next[P[i - 1], i]
                                 /\ \A i \in 0 .. n : P[i] = g[1 .. i]
  <2>1. LoopGives(g, n, V, base, next)
    <3> HIDE DEF V, base
    <3> QED BY <1>4, <1>7, FoldValues, Zenon
  <2> HIDE DEF base
  <2> QED BY <2>1, Zenon DEF LoopGives
<1>9. \A i \in 1 .. n : P[i] = Put(P[i - 1], i)
  <2> HIDE DEF Put, V
  <2>1. \A i \in 1 .. n : P[i - 1] \in V
    OBVIOUS
  <2> QED BY <1>2, <1>8, <2>1
<1>10. P[n] = g[1 .. n]
  <2>1. n \in 0 .. n
    OBVIOUS
  <2> QED BY <1>8, <2>1
<1> QED BY <1>1, <1>3, <1>8, <1>9, <1>10

(* Every field of a layout is parsed, in its place.                        *)
FieldsOf(fields, layout) ==
  /\ fields \in Seq(ParsedField) /\ Len(fields) = Len(layout)
  /\ \A i \in 1 .. Len(layout) :
       /\ fields[i].role = layout[i]
       /\ layout[i] \notin {"name", "number"} => Len(fields[i].value) = Width(layout[i])

LEMMA FieldsParsed ==
  ASSUME NEW layout \in Seq(GlobalRoles), NEW data \in Seq(Octets),
         ParseFields(layout, data) # Err
  PROVE  FieldsOf(ParseFields(layout, data)[1], layout)
<1>1. PICK n \in Nat : n = Len(layout) /\ \A i \in 1 .. n : layout[i] \in GlobalRoles
  BY LenProperties
<1>2. PICK P \in [0 .. n -> Parsed0] :
         /\ P[0] = << <<>>, data >>
         /\ \A i \in 1 .. n : P[i] = FieldStep(data, P[i - 1], layout[i])
         /\ ParseFields(layout, data) = P[n]
  BY <1>1, ParsingIs
<1> DEFINE Good(fields, m) ==
             /\ fields \in Seq(ParsedField) /\ Len(fields) = m
             /\ \A i \in 1 .. m :
                  /\ fields[i].role = layout[i]
                  /\ layout[i] \notin {"name", "number"} => Len(fields[i].value) = Width(layout[i])
           B == {m \in 0 .. n : P[m] # <<>> => Good(P[m][1], m)}
<1>3. 0 \in B
  <2>1. P[0][1] = <<>> /\ 0 \in 0 .. n
    BY <1>2
  <2>2. <<>> \in Seq(ParsedField) /\ Len(<<>>) = 0
    OBVIOUS
  <2>3. Good(<<>>, 0)
    BY <2>2
  <2> HIDE DEF Good
  <2> QED BY <2>1, <2>3
<1>4. ASSUME NEW m \in 1 .. n, m - 1 \in B PROVE m \in B
  <2>1. SUFFICES ASSUME P[m] # <<>> PROVE Good(P[m][1], m)
    <3> HIDE DEF Good
    <3> QED BY <2>1
  <2>2. P[m] = FieldStep(data, P[m - 1], layout[m]) /\ P[m - 1] \in Parsed0 /\ layout[m] \in GlobalRoles
    <3>1. m - 1 \in 0 .. n
      OBVIOUS
    <3> QED BY <1>1, <1>2, <3>1
  <2>3. PICK f \in ParsedField :
           /\ f.role = layout[m]
           /\ layout[m] \notin {"name", "number"} => Len(f.value) = Width(layout[m])
           /\ P[m - 1] # <<>> /\ P[m][1] = Append(P[m - 1][1], f)
    <3>1. PICK acc \in Parsed0, role \in GlobalRoles : acc = P[m - 1] /\ role = layout[m]
      BY <2>2
    <3>2. FieldStep(data, acc, role) # <<>> /\ FieldStep(data, acc, role) = P[m]
      BY <2>1, <2>2, <3>1
    <3>3. PICK f \in ParsedField :
             /\ f.role = role
             /\ role \notin {"name", "number"} => Len(f.value) = Width(role)
             /\ acc # <<>> /\ FieldStep(data, acc, role)[1] = Append(acc[1], f)
      BY <3>2, FieldStepIs
    <3>4. /\ f.role = layout[m]
          /\ layout[m] \notin {"name", "number"} => Len(f.value) = Width(layout[m])
      BY <3>1, <3>3
    <3>5. P[m - 1] # <<>> /\ P[m][1] = Append(P[m - 1][1], f)
      BY <3>1, <3>2, <3>3
    <3> QED BY <3>4, <3>5
  <2>4. Good(P[m - 1][1], m - 1)
    <3> HIDE DEF Good
    <3> QED BY <1>4, <2>3
  <2>5. PICK fs \in Seq(ParsedField) : fs = P[m - 1][1] /\ Good(fs, m - 1)
    BY <2>4
  <2>6. PICK gs : gs = Append(fs, f) /\ gs = P[m][1]
    BY <2>3, <2>5
  <2>7. gs \in Seq(ParsedField) /\ Len(gs) = m /\ gs[m] = f /\ \A i \in 1 .. m - 1 : gs[i] = fs[i]
    <3>1. Len(fs) = m - 1
      BY <2>5
    <3>2. /\ Append(fs, f) \in Seq(ParsedField) /\ Len(Append(fs, f)) = Len(fs) + 1
          /\ \A i \in 1 .. Len(fs) : Append(fs, f)[i] = fs[i]
          /\ Append(fs, f)[Len(fs) + 1] = f
      BY AppendProperties
    <3>3. Len(fs) + 1 = m
      BY <3>1
    <3> HIDE DEF Good
    <3> QED BY <2>6, <3>1, <3>2, <3>3
  <2>8. ASSUME NEW i \in 1 .. m
        PROVE  /\ gs[i].role = layout[i]
               /\ layout[i] \notin {"name", "number"} => Len(gs[i].value) = Width(layout[i])
    <3>1. CASE i = m
      BY <2>3, <2>7, <3>1
    <3>2. CASE i # m
      <4>1. i \in 1 .. m - 1
        BY <3>2
      <4> QED BY <2>5, <2>7, <4>1
    <3> QED BY <3>1, <3>2
  <2> QED BY <2>6, <2>7, <2>8
<1>5. n \in B
  <2>1. 0 .. n \subseteq B
    <3> HIDE DEF B
    <3> QED BY <1>3, <1>4, StepByStep
  <2> HIDE DEF B
  <2> QED BY <2>1
<1>6. Good(P[n][1], n)
  <2> HIDE DEF Good
  <2> QED BY <1>2, <1>5 DEF Err
<1> QED BY <1>1, <1>2, <1>6 DEF FieldsOf

(* The value of a field is that of the first one with its role.            *)
LEMMA FieldIs ==
  ASSUME NEW layout \in Seq(GlobalRoles), NEW fields, FieldsOf(fields, layout),
         NEW role, \E i \in 1 .. Len(layout) : layout[i] = role
  PROVE  /\ Field(fields, role) \in Seq(Octets)
         /\ role \notin {"name", "number"} => Len(Field(fields, role)) = Width(role)
<1>1. PICK n \in Nat : n = Len(layout) /\ n = Len(fields) /\ DOMAIN fields = 1 .. n
  BY LenProperties DEF FieldsOf
<1> DEFINE T == {i \in 1 .. n : layout[i] = role}
           First(i) == fields[i].role = role /\ \A j \in 1 .. i - 1 : fields[j].role # role
<1>2. PICK m \in T : \A y \in T : m <= y
  <2>1. T \subseteq Nat /\ T # {}
    BY <1>1
  <2> HIDE DEF T
  <2> QED BY <2>1, LeastOf
<1>3. \A i \in 1 .. n : fields[i].role = layout[i]
  BY <1>1 DEF FieldsOf
<1>4. First(m)
  <2>1. ASSUME NEW j \in 1 .. m - 1 PROVE fields[j].role # role
    <3>1. j \in 1 .. n /\ ~(m <= j)
      BY <1>2
    <3> QED BY <1>2, <1>3, <3>1
  <2>2. fields[m].role = role
    BY <1>3
  <2> QED BY <2>1, <2>2
<1>5. PICK k : k = CHOOSE i \in DOMAIN fields : First(i)
  OBVIOUS
<1>6. k \in 1 .. n /\ First(k)
  <2>1. m \in DOMAIN fields
    BY <1>1
  <2>2. \E i \in DOMAIN fields : First(i)
    BY <1>4, <2>1
  <2> HIDE DEF First
  <2> QED BY <1>1, <1>5, <2>2
<1>7. Field(fields, role) = fields[k].value
  BY <1>5 DEF Field
<1>8. layout[k] = role
  BY <1>3, <1>6
<1>9. fields[k] \in ParsedField /\ (layout[k] \notin {"name", "number"} => Len(fields[k].value) = Width(layout[k]))
  BY <1>1, <1>6 DEF FieldsOf
<1>10. fields[k].value \in Seq(Octets)
  BY <1>9 DEF ParsedField
<1> QED BY <1>7, <1>8, <1>9, <1>10

HasRole(layout, role) == \E i \in 1 .. Len(layout) : layout[i] = role

LEMMA RolesJoin ==
  ASSUME NEW a \in Seq(GlobalRoles), NEW c \in Seq(GlobalRoles), NEW role,
         HasRole(a, role) \/ HasRole(c, role)
  PROVE  HasRole(a \o c, role)
<1>1. PICK l \in Nat, m \in Nat : l = Len(a) /\ m = Len(c)
  OBVIOUS
<1>2. /\ Len(a \o c) = l + m
      /\ \A i \in 1 .. l : (a \o c)[i] = a[i]
      /\ \A j \in 1 .. m : (a \o c)[l + j] = c[j]
  BY <1>1, ConcatIs
<1>3. CASE HasRole(a, role)
  <2>1. PICK i \in 1 .. l : a[i] = role
    BY <1>1, <1>3 DEF HasRole
  <2>2. i \in 1 .. l + m
    BY <1>1
  <2> QED BY <1>2, <2>1, <2>2 DEF HasRole
<1>4. CASE HasRole(c, role)
  <2>1. PICK j \in 1 .. m : c[j] = role
    BY <1>1, <1>4 DEF HasRole
  <2>2. l + j \in 1 .. l + m
    BY <1>1
  <2> QED BY <1>2, <2>1, <2>2 DEF HasRole
<1> QED BY <1>3, <1>4

(* The name is in every layout, and the address in that of a public.       *)
LEMMA LayoutsHave ==
  ASSUME NEW kind, GlobalLayout(kind) # <<>>
  PROVE  HasRole(GlobalLayout(kind), "name")
<1>1. HasRole(<<"name">>, "name") /\ <<"name">> \in Seq(GlobalRoles)
  <2>1. Len(<<"name">>) = 1 /\ <<"name">>[1] = "name"
    OBVIOUS
  <2> QED BY <2>1 DEF HasRole, GlobalRoles
<1>2. <<"u8", "u8", "u16", "name">> \in Seq(GlobalRoles) /\ HasRole(<<"u8", "u8", "u16", "name">>, "name")
  <2>1. PICK l : l = <<"u8", "u8", "u16", "name">>
    OBVIOUS
  <2>2. Len(l) = 4 /\ l[4] = "name" /\ l \in Seq(GlobalRoles)
    BY <2>1 DEF GlobalRoles
  <2> QED BY <2>1, <2>2 DEF HasRole
<1>3. /\ <<"flags">> \o OffsetSegment \in Seq(GlobalRoles)
      /\ <<"type">> \o OffsetSegment \in Seq(GlobalRoles)
      /\ BlockHeader \o <<"next", "length", "u32", "u32", "token">> \o OffsetSegment \in Seq(GlobalRoles)
  <2>1. /\ <<"flags">> \in Seq(GlobalRoles) /\ <<"type">> \in Seq(GlobalRoles)
        /\ OffsetSegment \in Seq(GlobalRoles) /\ BlockHeader \in Seq(GlobalRoles)
        /\ <<"next", "length", "u32", "u32", "token">> \in Seq(GlobalRoles)
    BY DEF GlobalRoles, OffsetSegment, BlockHeader
  <2>2. \A x \in Seq(GlobalRoles), y \in Seq(GlobalRoles) : x \o y \in Seq(GlobalRoles)
    OBVIOUS
  <2> QED BY <2>1, <2>2
<1>4. HasRole(Pub, "name") /\ HasRole(Data, "name") /\ HasRole(ThreadStorageData, "name")
  BY <1>1, <1>3, RolesJoin DEF Pub, Data, ThreadStorageData
<1>5. HasRole(ManProcSym, "name")
  BY <1>2, <1>3, RolesJoin DEF ManProcSym
<1>6. HasRole(Constant, "name")
  <2>1. Len(Constant) = 3 /\ Constant[3] = "name"
    BY DEF Constant
  <2> QED BY <2>1 DEF HasRole
<1>7. HasRole(RefSym2, "name")
  <2>1. Len(RefSym2) = 4 /\ RefSym2[4] = "name"
    BY DEF RefSym2
  <2> QED BY <2>1 DEF HasRole
<1>8. HasRole(Udt, "name")
  <2>1. Len(Udt) = 2 /\ Udt[2] = "name"
    BY DEF Udt
  <2> QED BY <2>1 DEF HasRole
<1>9. GlobalLayout(kind) \in {Pub, Constant, RefSym2, Udt, Data, ThreadStorageData, ManProcSym, <<>>}
  BY Zenon DEF GlobalLayout
<1> QED BY <1>4, <1>5, <1>6, <1>7, <1>8, <1>9

LEMMA PublicsHave ==
  /\ Pub \in Seq(GlobalRoles) /\ GlobalLayout(Kind.S_PUB32) = Pub
  /\ HasRole(Pub, "name") /\ HasRole(Pub, "segment") /\ HasRole(Pub, "offset")
<1>1. GlobalLayout(Kind.S_PUB32) = Pub
  <2>1. PICK k : k = Kind.S_PUB32
    OBVIOUS
  <2>2. k # Kind.S_CONSTANT /\ k # Kind.S_UDT
    BY <2>1 DEF Kind
  <2>3. k \notin RefKinds
    BY <2>1 DEF Kind, RefKinds
  <2>4. k \notin DataKinds /\ k \notin ThreadKinds /\ k \notin ManProcKinds
    BY <2>1 DEF Kind, DataKinds, ThreadKinds, ManProcKinds
  <2> QED BY <2>1, <2>2, <2>3, <2>4 DEF GlobalLayout
<1>2. <<"flags">> \in Seq(GlobalRoles) /\ OffsetSegment \in Seq(GlobalRoles) /\ <<"name">> \in Seq(GlobalRoles)
  BY DEF GlobalRoles, OffsetSegment
<1>3. HasRole(OffsetSegment, "segment") /\ HasRole(OffsetSegment, "offset") /\ HasRole(<<"name">>, "name")
  <2>1. Len(OffsetSegment) = 2 /\ OffsetSegment[1] = "offset" /\ OffsetSegment[2] = "segment"
    BY DEF OffsetSegment
  <2>2. Len(<<"name">>) = 1 /\ <<"name">>[1] = "name"
    OBVIOUS
  <2> QED BY <2>1, <2>2 DEF HasRole
<1>4. <<"flags">> \o OffsetSegment \in Seq(GlobalRoles)
  BY <1>2, ConcatIs
<1>5. HasRole(<<"flags">> \o OffsetSegment, "segment") /\ HasRole(<<"flags">> \o OffsetSegment, "offset")
  BY <1>2, <1>3, RolesJoin
<1>6. HasRole(Pub, "name") /\ HasRole(Pub, "segment") /\ HasRole(Pub, "offset")
  BY <1>2, <1>3, <1>4, <1>5, RolesJoin DEF Pub
<1>7. Pub \in Seq(GlobalRoles)
  BY <1>2, <1>4, ConcatIs DEF Pub
<1> QED BY <1>1, <1>6, <1>7

(* globals.rs: what get_global_symbol_name returns.                        *)
LEMMA GlobalNameIs ==
  ASSUME NEW s, s.data \in Seq(Octets)
  PROVE  \/ GlobalName(s) = Err \/ GlobalName(s) = NoName
         \/ /\ GlobalName(s) # Err /\ GlobalName(s) # NoName
            /\ GlobalName(s) = <<"name", GlobalName(s)[2]>> /\ GlobalName(s)[2] \in Seq(Octets)
<1>1. CASE GlobalLayout(s.kind) = <<>>
  BY <1>1 DEF GlobalName
<1>2. CASE GlobalLayout(s.kind) # <<>>
  <2>1. PICK layout, d, p : layout = GlobalLayout(s.kind) /\ d = s.data /\ p = ParseFields(layout, d)
    OBVIOUS
  <2>2. CASE p = Err
    BY <1>2, <2>1, <2>2 DEF GlobalName
  <2>3. CASE p # Err
    <3>1. GlobalName(s) = <<"name", Field(p[1], "name")>>
      BY <1>2, <2>1, <2>3 DEF GlobalName
    <3>2. layout \in Seq(GlobalRoles) /\ d \in Seq(Octets)
      BY <2>1, LayoutsAre
    <3>3. FieldsOf(p[1], layout)
      BY <2>1, <2>3, <3>2, FieldsParsed
    <3>4. \E i \in 1 .. Len(layout) : layout[i] = "name"
      BY <1>2, <2>1, LayoutsHave DEF HasRole
    <3>5. Field(p[1], "name") \in Seq(Octets)
      BY <3>2, <3>3, <3>4, FieldIs
    <3>6. GlobalName(s) # Err /\ GlobalName(s) # NoName
      BY <3>1 DEF Err, NoName
    <3> QED BY <3>1, <3>5, <3>6
  <2> QED BY <2>2, <2>3
<1> QED BY <1>1, <1>2

-----------------------------------------------------------------------------
(* All that a walk gives is at one of its places.                          *)
LEMMA WalkGives ==
  ASSUME NEW n \in Nat, NEW I, GoesForward(n, I), NEW T,
         \A at \in 0 .. n : I[at] \in Seq(T)
  PROVE  \A at \in 0 .. n : ItemWalk(n, I)[at] \in Seq(T)
<1> DEFINE W(at) == ItemWalk(n, I)[at]
           B == {m \in 0 .. n : \A at \in n - m .. n : W(at) \in Seq(T)}
<1>1. \A at \in 0 .. n : W(at) = IF I[at] = <<>> THEN <<>> ELSE I[at] \o W(I[at][1].end)
  BY WalkExists
<1> HIDE DEF W
<1>2. <<>> \in Seq(T)
  OBVIOUS
<1>3. 0 \in B
  <2>1. ASSUME NEW at \in n - 0 .. n PROVE W(at) \in Seq(T)
    <3>1. at = n /\ at \in 0 .. n /\ ~(I[at][1].end \in at + 1 .. n)
      OBVIOUS
    <3>2. I[at] = <<>>
      BY <3>1 DEF GoesForward
    <3> QED BY <1>1, <1>2, <3>1, <3>2
  <2> QED BY <2>1
<1>4. ASSUME NEW m \in 1 .. n, m - 1 \in B PROVE m \in B
  <2>1. ASSUME NEW at \in n - m .. n PROVE W(at) \in Seq(T)
    <3>1. at \in 0 .. n
      OBVIOUS
    <3>2. CASE I[at] = <<>>
      BY <1>1, <1>2, <3>1, <3>2
    <3>3. CASE I[at] # <<>>
      <4>1. I[at][1].end \in at + 1 .. n
        BY <3>1, <3>3 DEF GoesForward
      <4>2. I[at][1].end \in n - (m - 1) .. n
        BY <4>1
      <4>3. W(I[at][1].end) \in Seq(T) /\ I[at] \in Seq(T)
        BY <1>4, <3>1, <4>2
      <4>4. W(at) = I[at] \o W(I[at][1].end)
        BY <1>1, <3>1, <3>3
      <4> QED BY <4>3, <4>4
    <3> QED BY <3>2, <3>3
  <2> QED BY <2>1
<1>5. 0 .. n \subseteq B
  <2> HIDE DEF B
  <2> QED BY <1>3, <1>4, StepByStep
<1>6. \A at \in 0 .. n : at \in n - n .. n /\ n \in 0 .. n
  OBVIOUS
<1>7. \A at \in 0 .. n : W(at) \in Seq(T)
  BY <1>5, <1>6
<1> QED BY <1>7 DEF W

(* A symbol of a stream: what lies at its offset.                          *)
IsSymbolOf(b, s) ==
  /\ s.at \in 0 .. Len(b) /\ s.data \in Seq(Octets)
  /\ SymAt(b, s.at) = <<s>> /\ GetSymAt(b, s.at) = <<s>>

SymbolsOf(b) == {SymAt(b, at)[1] : at \in {p \in 0 .. Len(b) : SymAt(b, p) # Err}}

LEMMA SymbolIs ==
  ASSUME NEW b \in Seq(Octets), NEW s \in SymbolsOf(b)
  PROVE  IsSymbolOf(b, s)
<1>1. PICK at \in 0 .. Len(b) : SymAt(b, at) # Err /\ s = SymAt(b, at)[1]
  BY DEF SymbolsOf
<1>2. PICK r : r = Drop(b, at)
  OBVIOUS
<1>3. ~(Len(r) < 4 \/ U16At(r, 0) < 2 \/ Len(r) < 2 + U16At(r, 0))
  BY <1>1, <1>2 DEF SymAt
<1>4. SymAt(b, at) = <<[at |-> at, end |-> at + 2 + U16At(r, 0),
                        kind |-> U16At(r, 2), data |-> SubSeq(r, 5, 2 + U16At(r, 0))]>>
  BY <1>2, <1>3 DEF SymAt
<1>5. s.at = at /\ SymAt(b, at) = <<s>> /\ s.data = SubSeq(r, 5, 2 + U16At(r, 0))
  BY <1>1, <1>4
<1>6. r \in Seq(Octets) /\ Len(r) = Len(b) - at
  BY <1>2, DropIs
<1>7. PICK u \in Nat : u = U16At(r, 0)
  <2>1. at + 0 + 2 <= Len(b) /\ 0 \in Nat /\ at \in Nat
    BY <1>3, <1>6
  <2>2. U16At(Drop(b, at), 0) \in Nat
    BY <2>1, U16InRest
  <2> QED BY <1>2, <2>2
<1>8. SubSeq(r, 5, 2 + u) \in Seq(Octets)
  <2>1. 5 \in Int /\ 2 + u \in Int /\ 2 + u <= Len(r)
    BY <1>3, <1>6, <1>7
  <2>2. \A i \in 5 .. 2 + u : r[i] \in Octets
    <3>1. PICK k \in Nat : k = Len(r) /\ \A i \in 1 .. k : r[i] \in Octets
      BY <1>6, LenProperties
    <3>2. \A i \in 5 .. 2 + u : i \in 1 .. k
      BY <2>1, <3>1
    <3> QED BY <3>1, <3>2
  <2> QED BY <2>1, <2>2, SubSeqProperties
<1>9. GetSymAt(b, at) = <<s>>
  <2>1. ~(at > Len(b))
    OBVIOUS
  <2> QED BY <1>5, <2>1 DEF GetSymAt
<1> QED BY <1>5, <1>7, <1>8, <1>9 DEF IsSymbolOf

LEMMA SymbolsAreFound ==
  ASSUME NEW b \in Seq(Octets)
  PROVE  ToSet(SymsFrom(b, 0)) \subseteq SymbolsOf(b) /\ IsFiniteSet(SymbolsOf(b))
<1>1. PICK n \in Nat : n = Len(b)
  OBVIOUS
<1> DEFINE I == [at \in 0 .. n |-> SymAt(b, at)]
<1>2. SymsFrom(b, 0) = ItemWalk(n, I)[0]
  <2>1. SymsFrom(b, 0) =
          (CHOOSE g : g = [at \in 0 .. n |-> IF SymAt(b, at) = <<>> THEN <<>>
                                             ELSE SymAt(b, at) \o g[SymAt(b, at)[1].end]])[0]
    BY <1>1 DEF SymsFrom, ItemsFrom, Err
  <2>2. \A g : [at \in 0 .. n |-> IF SymAt(b, at) = <<>> THEN <<>>
                                  ELSE SymAt(b, at) \o g[SymAt(b, at)[1].end]]
               = WalkSteps(g, n, I)
    BY DEF WalkSteps
  <2> HIDE DEF I
  <2> QED BY <2>1, <2>2 DEF ItemWalk
<1>3. GoesForward(n, I)
  <2>1. ASSUME NEW at \in 0 .. n, SymAt(b, at) # <<>> PROVE SymAt(b, at)[1].end \in at + 1 .. n
    BY <1>1, <2>1, RecordOrNone DEF Err
  <2> QED BY <2>1 DEF GoesForward
<1>4. ASSUME NEW at \in 0 .. n PROVE I[at] \in Seq(SymbolsOf(b))
  <2>1. CASE SymAt(b, at) = <<>>
    BY <2>1
  <2>2. CASE SymAt(b, at) # <<>>
    <3>1. SymAt(b, at)[1] \in SymbolsOf(b)
      BY <1>1, <2>2 DEF SymbolsOf, Err
    <3>2. PICK x \in SymbolsOf(b) : x = SymAt(b, at)[1]
      BY <3>1
    <3>3. x.at = at
      <4>1. PICK r : r = Drop(b, at)
        OBVIOUS
      <4>2. SymAt(b, at) = <<[at |-> at, end |-> at + 2 + U16At(r, 0),
                            kind |-> U16At(r, 2), data |-> SubSeq(r, 5, 2 + U16At(r, 0))]>>
        BY <2>2, <4>1 DEF SymAt, Err
      <4> QED BY <3>2, <4>2
    <3>4. SymAt(b, at) = <<x>>
      BY <3>3, SymbolIs DEF IsSymbolOf
    <3>5. <<x>> \in Seq(SymbolsOf(b))
      OBVIOUS
    <3> QED BY <3>4, <3>5
  <2> QED BY <2>1, <2>2
<1> HIDE DEF I
<1>5. SymsFrom(b, 0) \in Seq(SymbolsOf(b))
  <2>1. 0 \in 0 .. n
    OBVIOUS
  <2>2. \A at \in 0 .. n : ItemWalk(n, I)[at] \in Seq(SymbolsOf(b))
    BY <1>3, <1>4, WalkGives
  <2> QED BY <1>2, <2>1, <2>2
<1>6. ToSet(SymsFrom(b, 0)) \subseteq SymbolsOf(b)
  <2>1. PICK q \in Seq(SymbolsOf(b)) : q = SymsFrom(b, 0)
    BY <1>5
  <2>2. \A i \in DOMAIN q : q[i] \in SymbolsOf(b)
    OBVIOUS
  <2> QED BY <2>1, <2>2 DEF ToSet
<1>7. IsFiniteSet(SymbolsOf(b))
  <2> DEFINE Q == {p \in 0 .. n : SymAt(b, p) # Err}
             f == [p \in Q |-> SymAt(b, p)[1]]
  <2>1. IsFiniteSet(Q)
    <3>1. 0 \in Int /\ n \in Int
      OBVIOUS
    <3>2. IsFiniteSet(0 .. n)
      BY <3>1, FS_Interval
    <3>3. Q \in SUBSET (0 .. n)
      OBVIOUS
    <3> HIDE DEF Q
    <3> QED BY <3>2, <3>3, FS_Subset
  <2> HIDE DEF Q
  <2>2. SymbolsOf(b) = {SymAt(b, p)[1] : p \in Q}
    BY <1>1 DEF SymbolsOf, Q
  <2>3. f \in Surjection(Q, SymbolsOf(b))
    BY <2>2 DEF Surjection
  <2> HIDE DEF f
  <2> QED BY <2>1, <2>3, FS_Surjection
<1> QED BY <1>6, <1>7

-----------------------------------------------------------------------------
(***************************************************************************)
(* The search of a bucket for a name.                                      *)
(***************************************************************************)
FoundOf(S) == {<<"none">>} \cup {<<"found", s>> : s \in S}

FindOutcome(name, sym, symName) ==
  IF sym = <<>> \/ symName = <<>> THEN <<>>
  ELSE IF symName # NoName /\ SameName(symName[2], name) THEN <<"found", sym[1]>>
  ELSE <<"none">>

FindStep(gss, name, answer, record) ==
  IF answer # <<"none">> \/ record = 0 THEN answer
  ELSE FindOutcome(name, GetSymAt(gss, record - 1), GlobalName(GetSymAt(gss, record - 1)[1]))

FindSteps(h, gss, name, records) ==
  [s \in SUBSET (DOMAIN records) |->
     IF s = {} THEN <<"none">>
     ELSE FindStep(gss, name, h[s \ {Max(s)}], records[Max(s)])]

(* Symbols with a name that can be read.                                   *)
NamedSymbols(S, gss) ==
  /\ S \subseteq SymbolsOf(gss)
  /\ \A s \in S : GlobalName(s) # Err /\ GlobalName(s) # NoName

(* Records that lead to symbols.                                           *)
LeadTo(records, S) ==
  /\ records \in Seq(Nat)
  /\ \A i \in 1 .. Len(records) : \E s \in S : records[i] = s.at + 1

LEMMA FindStepIs ==
  ASSUME NEW gss \in Seq(Octets), NEW S, NamedSymbols(S, gss), NEW name,
         NEW answer \in FoundOf(S), NEW s \in S
  PROVE  FindStep(gss, name, answer, s.at + 1)
           = IF answer # <<"none">> THEN answer
             ELSE IF SameName(GlobalName(s)[2], name) THEN <<"found", s>> ELSE <<"none">>
<1>1. IsSymbolOf(gss, s) /\ GlobalName(s) # Err /\ GlobalName(s) # NoName
  BY SymbolIs DEF NamedSymbols
<1>2. PICK at \in Nat : at = s.at /\ s.at + 1 # 0 /\ s.at + 1 - 1 = at
  BY <1>1 DEF IsSymbolOf
<1>3. GetSymAt(gss, at) = <<s>>
  BY <1>1, <1>2 DEF IsSymbolOf
<1>4. FindOutcome(name, <<s>>, GlobalName(s)) =
        IF SameName(GlobalName(s)[2], name) THEN <<"found", s>> ELSE <<"none">>
  BY <1>1 DEF FindOutcome, Err
<1>5. FindStep(gss, name, answer, s.at + 1) =
        IF answer # <<"none">> THEN answer
        ELSE FindOutcome(name, GetSymAt(gss, at), GlobalName(GetSymAt(gss, at)[1]))
  BY <1>2 DEF FindStep
<1>6. GetSymAt(gss, at)[1] = s
  BY <1>3
<1> QED BY <1>3, <1>4, <1>5, <1>6

LEMMA FindStepTyped ==
  ASSUME NEW gss \in Seq(Octets), NEW S, NamedSymbols(S, gss), NEW name,
         NEW answer \in FoundOf(S), NEW s \in S
  PROVE  FindStep(gss, name, answer, s.at + 1) \in FoundOf(S)
<1>1. FindStep(gss, name, answer, s.at + 1)
        = IF answer # <<"none">> THEN answer
          ELSE IF SameName(GlobalName(s)[2], name) THEN <<"found", s>> ELSE <<"none">>
  BY FindStepIs
<1>2. <<"found", s>> \in FoundOf(S) /\ <<"none">> \in FoundOf(S)
  BY DEF FoundOf
<1> QED BY <1>1, <1>2

(* The loop of the search.                                                 *)
SearchLoop(gss, S, index, name, records, P) ==
  /\ P \in [0 .. Len(records) -> FoundOf(S)] /\ P[0] = <<"none">>
  /\ \A i \in 1 .. Len(records) : P[i] = FindStep(gss, name, P[i - 1], records[i])
  /\ FindSymbol(index, gss, name) = P[Len(records)]

LEMMA FindingIs ==
  ASSUME NEW gss \in Seq(Octets), NEW S, NamedSymbols(S, gss), NEW index, NEW name,
         NEW records, records = RecordsForName(index, name), LeadTo(records, S)
  PROVE  \E P : SearchLoop(gss, S, index, name, records, P)
<1>1. PICK n \in Nat : /\ n = Len(records) /\ DOMAIN records = 1 .. n
                       /\ \A i \in 1 .. n : \E s \in S : records[i] = s.at + 1
  BY LenProperties DEF LeadTo
<1> DEFINE V == FoundOf(S)
           base == <<"none">>
           Put(v, i) == FindStep(gss, name, v, records[i])
           next == [p \in V \X (1 .. n) |-> Put(p[1], p[2])]
           g == CHOOSE h : h = FindSteps(h, gss, name, records)
<1>2. next \in [V \X (1 .. n) -> V] /\ \A v \in V, i \in 1 .. n : next[v, i] = Put(v, i)
  <2>1. ASSUME NEW v \in V, NEW i \in 1 .. n PROVE Put(v, i) \in V
    <3>1. PICK s \in S : records[i] = s.at + 1
      BY <1>1
    <3>2. FindStep(gss, name, v, s.at + 1) \in V
      BY FindStepTyped
    <3> HIDE DEF V
    <3> QED BY <3>1, <3>2
  <2> HIDE DEF Put, V
  <2>2. \A p \in V \X (1 .. n) : p[1] \in V /\ p[2] \in 1 .. n
    OBVIOUS
  <2>3. \A p \in V \X (1 .. n) : Put(p[1], p[2]) \in V
    BY <2>1, <2>2
  <2> QED BY <2>3
<1>3. FindSymbol(index, gss, name) = g[1 .. n]
  BY <1>1 DEF FindSymbol, FoldLeft, MapThenFoldSet, FindSteps, FindStep, FindOutcome, Err
<1> HIDE DEF next
<1>4. n \in Nat /\ FoldsInto(n, V, base, next)
  <2>1. n \in Nat /\ base \in V
    BY DEF FoundOf
  <2> HIDE DEF Put, V, base
  <2> QED BY <1>2, <2>1, Zenon DEF FoldsInto
<1>5. g = FindSteps(g, gss, name, records)
  <2>1. PICK h \in [SUBSET (1 .. n) -> V] : h = FoldSteps(h, n, base, next)
    <3>1. HasFold(n, V, base, next)
      BY <1>4, FoldExists, Zenon
    <3> QED BY <3>1, Zenon DEF HasFold
  <2>2. ASSUME NEW s \in SUBSET (1 .. n), s # {} PROVE Max(s) \in 1 .. n /\ s \ {Max(s)} \in SUBSET (1 .. n)
    BY <2>2, MaxOfSome
  <2>3. h = [s \in SUBSET (1 .. n) |-> IF s = {} THEN base ELSE next[h[s \ {Max(s)}], Max(s)]]
    BY <2>1 DEF FoldSteps
  <2> HIDE DEF V, base
  <2>4. ASSUME NEW s \in SUBSET (1 .. n), s # {}
        PROVE  next[h[s \ {Max(s)}], Max(s)] = Put(h[s \ {Max(s)}], Max(s))
    <3>1. PICK r \in SUBSET (1 .. n), m \in 1 .. n : r = s \ {Max(s)} /\ m = Max(s)
      BY <2>2, <2>4
    <3>2. h[r] \in V
      OBVIOUS
    <3> HIDE DEF Put
    <3> QED BY <1>2, <3>1, <3>2
  <2>5. h = [s \in SUBSET (1 .. n) |-> IF s = {} THEN base ELSE Put(h[s \ {Max(s)}], Max(s))]
    <3> HIDE DEF Put
    <3> QED BY <2>3, <2>4
  <2>6. h = FindSteps(h, gss, name, records)
    BY <1>1, <2>5 DEF FindSteps, base
  <2> QED BY <2>6
<1> HIDE DEF g
<1>6. \A s \in SUBSET (1 .. n) : g[s] = IF s = {} THEN base ELSE Put(g[s \ {Max(s)}], Max(s))
  BY <1>1, <1>5 DEF FindSteps
<1>7. FoldsOn(g, n, V, base, next)
  <2> HIDE DEF Put, V, base
  <2>1. g[{}] = base
    BY <1>6
  <2>2. ASSUME NEW i \in 1 .. n, NEW v \in V, g[1 .. (i - 1)] = v PROVE g[1 .. i] = next[v, i]
    <3>1. 1 .. i \in SUBSET (1 .. n) /\ i \in Nat \ {0}
      OBVIOUS
    <3>2. g[1 .. i] = Put(g[1 .. (i - 1)], i)
      BY <1>6, <3>1, FirstIndices
    <3> QED BY <1>2, <2>2, <3>2
  <2> QED BY <2>1, <2>2 DEF FoldsOn
<1>8. PICK P \in [0 .. n -> V] : /\ P[0] = base
                                 /\ \A i \in 1 .. n : P[i] = next[P[i - 1], i]
                                 /\ \A i \in 0 .. n : P[i] = g[1 .. i]
  <2>1. LoopGives(g, n, V, base, next)
    <3> HIDE DEF V, base
    <3> QED BY <1>4, <1>7, FoldValues, Zenon
  <2> HIDE DEF base
  <2> QED BY <2>1, Zenon DEF LoopGives
<1>9. \A i \in 1 .. n : P[i] = Put(P[i - 1], i)
  <2> HIDE DEF Put, V
  <2>1. \A i \in 1 .. n : P[i - 1] \in V
    OBVIOUS
  <2> QED BY <1>2, <1>8, <2>1
<1>10. P[n] = g[1 .. n]
  <2>1. n \in 0 .. n
    OBVIOUS
  <2> QED BY <1>8, <2>1
<1> QED BY <1>1, <1>3, <1>8, <1>9, <1>10 DEF SearchLoop

(* The search finds a symbol of the name, if any record leads to one.      *)
LEMMA SearchFinds ==
  ASSUME NEW gss \in Seq(Octets), NEW S, NamedSymbols(S, gss), NEW index, NEW name,
         NEW records, records = RecordsForName(index, name), LeadTo(records, S)
  PROVE  \/ /\ FindSymbol(index, gss, name) = <<"none">>
            /\ \A i \in 1 .. Len(records), s \in S :
                 records[i] = s.at + 1 => ~SameName(GlobalName(s)[2], name)
         \/ \E s \in S : /\ FindSymbol(index, gss, name) = <<"found", s>>
                         /\ SameName(GlobalName(s)[2], name)
<1>1. PICK n \in Nat : n = Len(records) /\ \A i \in 1 .. n : \E s \in S : records[i] = s.at + 1
  BY LenProperties DEF LeadTo
<1>2. PICK P \in [0 .. n -> FoundOf(S)] :
         /\ P[0] = <<"none">>
         /\ \A i \in 1 .. n : P[i] = FindStep(gss, name, P[i - 1], records[i])
         /\ FindSymbol(index, gss, name) = P[n]
  <2>1. PICK P : SearchLoop(gss, S, index, name, records, P)
    BY FindingIs
  <2> QED BY <1>1, <2>1 DEF SearchLoop
<1> DEFINE Missed(i) == \A s \in S : records[i] = s.at + 1 => ~SameName(GlobalName(s)[2], name)
           Right(m) == \/ P[m] = <<"none">> /\ \A i \in 1 .. m : Missed(i)
                       \/ \E s \in S : P[m] = <<"found", s>> /\ SameName(GlobalName(s)[2], name)
           B == {m \in 0 .. n : Right(m)}
<1>3. 0 \in B
  BY <1>2
<1>4. ASSUME NEW m \in 1 .. n, m - 1 \in B PROVE m \in B
  <2>1. PICK s \in S : records[m] = s.at + 1
    BY <1>1
  <2>2. P[m - 1] \in FoundOf(S)
    <3>1. m - 1 \in 0 .. n
      OBVIOUS
    <3> QED BY <1>2, <3>1
  <2>3. P[m] = IF P[m - 1] # <<"none">> THEN P[m - 1]
               ELSE IF SameName(GlobalName(s)[2], name) THEN <<"found", s>> ELSE <<"none">>
    <3>1. PICK answer \in FoundOf(S) : answer = P[m - 1]
      BY <2>2
    <3>2. FindStep(gss, name, answer, s.at + 1)
            = IF answer # <<"none">> THEN answer
              ELSE IF SameName(GlobalName(s)[2], name) THEN <<"found", s>> ELSE <<"none">>
      BY FindStepIs
    <3>3. P[m] = FindStep(gss, name, answer, s.at + 1)
      BY <1>2, <2>1, <3>1
    <3> QED BY <3>1, <3>2, <3>3
  <2>4. Right(m - 1)
    <3> HIDE DEF Right
    <3> QED BY <1>4
  <2>5. CASE P[m - 1] # <<"none">>
    <3>1. \E t \in S : P[m - 1] = <<"found", t>> /\ SameName(GlobalName(t)[2], name)
      BY <2>4, <2>5
    <3>2. Right(m)
      BY <2>3, <2>5, <3>1
    <3> HIDE DEF Right
    <3> QED BY <3>2
  <2>6. CASE P[m - 1] = <<"none">> /\ SameName(GlobalName(s)[2], name)
    <3>1. P[m] = <<"found", s>>
      BY <2>3, <2>6
    <3>2. Right(m)
      BY <2>6, <3>1
    <3> HIDE DEF Right
    <3> QED BY <3>2
  <2>7. CASE P[m - 1] = <<"none">> /\ ~SameName(GlobalName(s)[2], name)
    <3>1. P[m] = <<"none">>
      BY <2>3, <2>7
    <3>2. \A i \in 1 .. m - 1 : Missed(i)
      <4>1. \A t : <<"none">> # <<"found", t>>
        OBVIOUS
      <4> HIDE DEF Missed
      <4> QED BY <2>4, <2>7, <4>1
    <3>3. Missed(m)
      <4>1. ASSUME NEW t \in S, records[m] = t.at + 1 PROVE t = s
        <5>1. IsSymbolOf(gss, t) /\ IsSymbolOf(gss, s)
          BY SymbolIs DEF NamedSymbols
        <5>2. t.at \in Int /\ s.at \in Int
          BY <5>1 DEF IsSymbolOf
        <5>3. t.at = s.at
          BY <2>1, <4>1, <5>2
        <5>4. <<t>> = <<s>>
          BY <5>1, <5>3 DEF IsSymbolOf
        <5> QED BY <5>4
      <4> QED BY <2>7, <4>1
    <3>4. \A i \in 1 .. m : Missed(i)
      <4>1. \A i \in 1 .. m : i = m \/ i \in 1 .. m - 1
        OBVIOUS
      <4> HIDE DEF Missed
      <4> QED BY <3>2, <3>3, <4>1
    <3>5. Right(m)
      <4> HIDE DEF Missed
      <4> QED BY <3>1, <3>4
    <3> HIDE DEF Right
    <3> QED BY <3>5
  <2> QED BY <2>5, <2>6, <2>7
<1>5. n \in B
  <2>1. 0 .. n \subseteq B
    <3> HIDE DEF B
    <3> QED BY <1>3, <1>4, StepByStep
  <2> HIDE DEF B
  <2> QED BY <2>1
<1>6. Right(n)
  <2> HIDE DEF Right
  <2> QED BY <1>5
<1> QED BY <1>1, <1>2, <1>6

-----------------------------------------------------------------------------
(***************************************************************************)
(* An index of named symbols.                                              *)
(***************************************************************************)
InBucket(entries, b, x) ==
  \E i \in 1 .. Len(entries) : entries[i].hash = b /\ entries[i].offset = x

InRecords(records, x) == \E i \in 1 .. Len(records) : records[i] = x

(* The records of a bucket are those of its entries.                       *)
LEMMA BucketIs ==
  ASSUME NEW n \in Nat, NEW entries, HashesAscend(entries, n),
         NEW index, HoldsEntries(index, entries, n), NEW b \in 0 .. n - 1
  PROVE  /\ RecordsForBucket(index, b) \in Seq(Nat)
         /\ \A x : InRecords(RecordsForBucket(index, b), x) <=> InBucket(entries, b, x)
<1>1. PICK m \in Nat : m = Len(entries) /\ DOMAIN entries = 1 .. m
                      /\ \A i \in 1 .. m : entries[i] \in BucketEntries(n)
  BY LenProperties DEF HashesAscend
<1>2. \A i \in 1 .. m : entries[i].hash \in Int /\ entries[i].offset \in Nat
  BY <1>1 DEF BucketEntries
<1>3. PICK rs, F : rs = index.records /\ F = index.buckets
  OBVIOUS
<1>4. rs \in Seq(Nat) /\ Len(rs) = m /\ \A i \in 1 .. m : rs[i] = entries[i].offset
  <2>1. rs = [i \in 1 .. m |-> entries[i].offset]
    BY <1>1, <1>3 DEF HoldsEntries
  <2>2. rs \in [1 .. m -> Nat]
    BY <1>2, <2>1
  <2> QED BY <2>1, <2>2, FunctionLen
<1>5. PICK lo \in 0 .. m, hi \in 0 .. m :
         /\ lo = F[b] /\ hi = F[b + 1]
         /\ \A i \in 1 .. m : i > lo <=> entries[i].hash >= b
         /\ \A i \in 1 .. m : i > hi <=> entries[i].hash >= b + 1
  <2>1. b \in 0 .. n /\ b + 1 \in 0 .. n
    OBVIOUS
  <2> QED BY <1>1, <1>3, <2>1 DEF HoldsEntries
<1>6. \A i \in 1 .. m : entries[i].hash = b <=> i \in lo + 1 .. hi
  <2>1. ASSUME NEW i \in 1 .. m PROVE entries[i].hash = b <=> i \in lo + 1 .. hi
    <3>1. PICK h \in Int : h = entries[i].hash
      BY <1>2
    <3>2. (i > lo <=> h >= b) /\ (i > hi <=> h >= b + 1)
      BY <1>5, <3>1
    <3> QED BY <3>1, <3>2
  <2> QED BY <2>1
<1>7. PICK q : q = RecordsForBucket(index, b) /\ q = SubSeq(rs, lo + 1, hi)
  BY <1>3, <1>5 DEF RecordsForBucket
<1>8. CASE hi < lo + 1
  <2>1. q = <<>>
    BY <1>7, <1>8
  <2>2. \A i \in 1 .. m : entries[i].hash # b
    BY <1>6, <1>8
  <2>3. \A x : ~InBucket(entries, b, x)
    BY <1>1, <2>2 DEF InBucket
  <2>4. \A x : ~InRecords(<<>>, x)
    BY DEF InRecords
  <2>5. <<>> \in Seq(Nat)
    OBVIOUS
  <2> QED BY <1>7, <2>1, <2>3, <2>4, <2>5
<1>9. CASE ~(hi < lo + 1)
  <2>1. q \in Seq(Nat) /\ Len(q) = hi - lo /\ \A j \in 1 .. hi - lo : q[j] = rs[lo + j]
    <3>1. lo + 1 \in Int /\ hi \in Int /\ lo + 1 <= hi
      BY <1>9
    <3>2. \A i \in lo + 1 .. hi : rs[i] \in Nat
      <4>1. \A i \in lo + 1 .. hi : i \in 1 .. m
        OBVIOUS
      <4> QED BY <1>2, <1>4, <4>1
    <3>3. /\ SubSeq(rs, lo + 1, hi) \in Seq(Nat)
          /\ Len(SubSeq(rs, lo + 1, hi)) = hi - (lo + 1) + 1
          /\ \A i \in 1 .. hi - (lo + 1) + 1 : SubSeq(rs, lo + 1, hi)[i] = rs[lo + 1 + i - 1]
      BY <3>1, <3>2, SubSeqProperties
    <3>4. hi - (lo + 1) + 1 = hi - lo /\ \A i \in Int : lo + 1 + i - 1 = lo + i
      OBVIOUS
    <3> QED BY <1>7, <3>3, <3>4
  <2>2. ASSUME NEW x PROVE InRecords(q, x) <=> InBucket(entries, b, x)
    <3>1. ASSUME NEW j \in 1 .. hi - lo, q[j] = x PROVE InBucket(entries, b, x)
      <4>1. PICK i \in 1 .. m : i = lo + j /\ i \in lo + 1 .. hi
        OBVIOUS
      <4>2. entries[i].hash = b /\ entries[i].offset = x
        BY <1>4, <1>6, <2>1, <3>1, <4>1
      <4> QED BY <1>1, <4>2 DEF InBucket
    <3>2. ASSUME NEW i \in 1 .. m, entries[i].hash = b, entries[i].offset = x PROVE InRecords(q, x)
      <4>1. i \in lo + 1 .. hi
        BY <1>6, <3>2
      <4>2. PICK j \in 1 .. hi - lo : lo + j = i
        <5>1. i - lo \in 1 .. hi - lo /\ lo + (i - lo) = i
          BY <4>1
        <5> QED BY <5>1
      <4>3. q[j] = x
        BY <1>4, <2>1, <3>2, <4>2
      <4> QED BY <2>1, <4>3 DEF InRecords
    <3> QED BY <1>1, <2>1, <3>1, <3>2 DEF InRecords, InBucket
  <2> QED BY <1>7, <2>1, <2>2
<1> QED BY <1>8, <1>9

(* The entries of symbols.                                                 *)
SymbolEntry(s, n) == [hash |-> HashModU32(GlobalName(s)[2], n), offset |-> s.at + 1]

NameTableOf(S, n) ==
  SortedEntries({[at |-> s.at, name |-> GlobalName(s)[2]] : s \in S}, n)

IndexOf(S, n) == ParseTable(EncodeTable(NameTableOf(S, n)), n)

LEMMA NameTableIs ==
  ASSUME NEW gss \in Seq(Octets), NEW S, NamedSymbols(S, gss), NEW n \in Nat \ {0}
  PROVE  /\ HashesAscend(NameTableOf(S, n), n)
         /\ \A i \in 1 .. Len(NameTableOf(S, n)) : \E s \in S : NameTableOf(S, n)[i] = SymbolEntry(s, n)
         /\ \A s \in S : \E i \in 1 .. Len(NameTableOf(S, n)) : NameTableOf(S, n)[i] = SymbolEntry(s, n)
<1> DEFINE E == {SymbolEntry(s, n) : s \in S}
           f == [s \in S |-> SymbolEntry(s, n)]
<1>1. NameTableOf(S, n) = SortedSeq(E, EntryBefore)
  <2> DEFINE Q == {[at |-> s.at, name |-> GlobalName(s)[2]] : s \in S}
             D == {[hash |-> HashModU32(t.name, n), offset |-> t.at + 1] : t \in Q}
  <2>1. D = E
    <3>1. ASSUME NEW x \in D PROVE x \in E
      <4>1. PICK t \in Q : x = [hash |-> HashModU32(t.name, n), offset |-> t.at + 1]
        OBVIOUS
      <4>2. PICK s \in S : t = [at |-> s.at, name |-> GlobalName(s)[2]]
        OBVIOUS
      <4>3. t.at = s.at /\ t.name = GlobalName(s)[2]
        BY <4>2
      <4>4. x = SymbolEntry(s, n)
        BY <4>1, <4>3 DEF SymbolEntry
      <4> QED BY <4>4
    <3>2. ASSUME NEW x \in E PROVE x \in D
      <4>1. PICK s \in S : x = SymbolEntry(s, n)
        OBVIOUS
      <4>2. PICK t \in Q : t = [at |-> s.at, name |-> GlobalName(s)[2]]
        OBVIOUS
      <4>3. t.at = s.at /\ t.name = GlobalName(s)[2]
        BY <4>2
      <4>4. x = [hash |-> HashModU32(t.name, n), offset |-> t.at + 1]
        BY <4>1, <4>3 DEF SymbolEntry
      <4> QED BY <4>4
    <3> HIDE DEF D, E
    <3> QED BY <3>1, <3>2
  <2>2. NameTableOf(S, n) = SortedSeq(D, EntryBefore)
    BY DEF NameTableOf, SortedEntries
  <2> HIDE DEF D, E
  <2> QED BY <2>1, <2>2
<1>2. IsFiniteSet(E)
  <2>1. IsFiniteSet(S)
    <3>1. S \in SUBSET SymbolsOf(gss)
      BY DEF NamedSymbols
    <3> QED BY <3>1, SymbolsAreFound, FS_Subset
  <2>2. f \in Surjection(S, E)
    BY DEF Surjection
  <2> HIDE DEF f, E
  <2> QED BY <2>1, <2>2, FS_Surjection
<1>3. E \in SUBSET BucketEntries(n)
  <2>1. ASSUME NEW s \in S PROVE SymbolEntry(s, n) \in BucketEntries(n)
    <3>1. s.at + 1 \in Nat
      <4>1. s.at \in Nat
        BY SymbolIs DEF NamedSymbols, IsSymbolOf
      <4> QED BY <4>1
    <3>2. HashModU32(GlobalName(s)[2], n) \in 0 .. n - 1
      BY HashIsBucket
    <3> QED BY <3>1, <3>2 DEF SymbolEntry, BucketEntries
  <2> QED BY <2>1
<1> HIDE DEF E
<1>9. PICK e, m : e = SortedSeq(E, EntryBefore) /\ m = Cardinality(E)
  OBVIOUS
<1>4. /\ m \in Nat /\ e \in [1 .. m -> E] /\ Len(e) = m
      /\ \A i \in 1 .. m, j \in 1 .. m : i <= j => e[i].hash <= e[j].hash
      /\ \A x \in E : \E i \in 1 .. m : e[i] = x
  <2>1. n \in Nat
    OBVIOUS
  <2> QED BY <1>2, <1>3, <1>9, <2>1, SortedByHash
<1>5. e \in Seq(BucketEntries(n))
  <2>1. e \in [1 .. m -> BucketEntries(n)]
    BY <1>3, <1>4
  <2> QED BY <1>4, <2>1, FunctionLen
<1>6. HashesAscend(e, n)
  BY <1>4, <1>5 DEF HashesAscend
<1>7. \A i \in 1 .. m : \E s \in S : e[i] = SymbolEntry(s, n)
  <2>1. \A i \in 1 .. m : e[i] \in E
    BY <1>4
  <2> QED BY <2>1 DEF E
<1>8. \A s \in S : \E i \in 1 .. m : e[i] = SymbolEntry(s, n)
  <2>1. \A s \in S : SymbolEntry(s, n) \in E
    BY DEF E
  <2> QED BY <1>4, <2>1
<1> QED BY <1>1, <1>4, <1>6, <1>7, <1>8, <1>9

(* What an index is after it has been written and read.                    *)
IsIndex(index, S, n) ==
  /\ NumBuckets(index) = n
  /\ \A b \in 0 .. n - 1 :
       /\ LeadTo(RecordsForBucket(index, b), S)
       /\ \A s \in S :
            InRecords(RecordsForBucket(index, b), s.at + 1) <=> HashModU32(GlobalName(s)[2], n) = b

LEMMA IndexIs ==
  ASSUME NEW gss \in Seq(Octets), NEW S, NamedSymbols(S, gss), NEW n \in Nat \ {0}
  PROVE  IndexOf(S, n) # Err /\ IsIndex(IndexOf(S, n)[1], S, n)
<1>1. PICK e, index : e = NameTableOf(S, n) /\ index = IndexOf(S, n)[1]
  OBVIOUS
<1>2. /\ HashesAscend(e, n)
      /\ \A i \in 1 .. Len(e) : \E s \in S : e[i] = SymbolEntry(s, n)
      /\ \A s \in S : \E i \in 1 .. Len(e) : e[i] = SymbolEntry(s, n)
  BY <1>1, NameTableIs
<1>3. IndexOf(S, n) # Err /\ HoldsEntries(index, e, n)
  BY <1>1, <1>2, TableReadBack DEF IndexOf
<1>4. NumBuckets(index) = n
  <2>1. DOMAIN index.buckets = 0 .. n
    BY <1>3 DEF HoldsEntries
  <2>2. Cardinality(0 .. n) = n + 1
    <3>1. 0 \in Int /\ n \in Int
      OBVIOUS
    <3>2. Cardinality(0 .. n) = IF 0 > n THEN 0 ELSE n - 0 + 1
      BY <3>1, FS_Interval
    <3> QED BY <3>2
  <2> QED BY <2>1, <2>2 DEF NumBuckets
<1>5. ASSUME NEW b \in 0 .. n - 1
      PROVE  /\ LeadTo(RecordsForBucket(index, b), S)
             /\ \A s \in S : InRecords(RecordsForBucket(index, b), s.at + 1)
                               <=> HashModU32(GlobalName(s)[2], n) = b
  <2>1. PICK rs : rs = RecordsForBucket(index, b)
    OBVIOUS
  <2>2. rs \in Seq(Nat) /\ \A x : InRecords(rs, x) <=> InBucket(e, b, x)
    BY <1>2, <1>3, <2>1, BucketIs
  <2>3. ASSUME NEW x, InBucket(e, b, x)
        PROVE  \E s \in S : x = s.at + 1 /\ HashModU32(GlobalName(s)[2], n) = b
    <3>1. PICK i \in 1 .. Len(e) : e[i].hash = b /\ e[i].offset = x
      BY <2>3 DEF InBucket
    <3>2. PICK s \in S : e[i] = SymbolEntry(s, n)
      BY <1>2
    <3> QED BY <3>1, <3>2 DEF SymbolEntry
  <2>4. LeadTo(rs, S)
    <3>1. ASSUME NEW i \in 1 .. Len(rs) PROVE \E s \in S : rs[i] = s.at + 1
      <4>1. InRecords(rs, rs[i])
        BY DEF InRecords
      <4> QED BY <2>2, <2>3, <4>1
    <3> QED BY <2>2, <3>1 DEF LeadTo
  <2>5. ASSUME NEW s \in S, InRecords(rs, s.at + 1) PROVE HashModU32(GlobalName(s)[2], n) = b
    <3>1. PICK t \in S : s.at + 1 = t.at + 1 /\ HashModU32(GlobalName(t)[2], n) = b
      BY <2>2, <2>3, <2>5
    <3>2. IsSymbolOf(gss, s) /\ IsSymbolOf(gss, t)
      BY SymbolIs DEF NamedSymbols
    <3>3. s.at \in Int /\ t.at \in Int
      BY <3>2 DEF IsSymbolOf
    <3>4. s.at = t.at
      BY <3>1, <3>3
    <3>5. <<s>> = <<t>>
      BY <3>2, <3>4 DEF IsSymbolOf
    <3> QED BY <3>1, <3>5
  <2>6. ASSUME NEW s \in S, HashModU32(GlobalName(s)[2], n) = b PROVE InRecords(rs, s.at + 1)
    <3>1. PICK i \in 1 .. Len(e) : e[i] = SymbolEntry(s, n)
      BY <1>2
    <3>2. e[i].hash = b /\ e[i].offset = s.at + 1
      BY <2>6, <3>1 DEF SymbolEntry
    <3>3. InBucket(e, b, s.at + 1)
      BY <3>2 DEF InBucket
    <3> QED BY <2>2, <3>3
  <2> QED BY <2>1, <2>4, <2>5, <2>6
<1> QED BY <1>1, <1>3, <1>4, <1>5 DEF IsIndex

(* Every name is found by an index of named symbols, and no other.         *)
LEMMA IndexFinds ==
  ASSUME NEW gss \in Seq(Octets), NEW S, NamedSymbols(S, gss), NEW n \in Nat \ {0},
         NEW index, IsIndex(index, S, n), NEW queries \in SUBSET Seq(Octets)
  PROVE  FindsExactly(index, gss, S, queries)
<1> SUFFICES ASSUME NEW name \in queries
             PROVE  LET same == {s \in S : SameName(GlobalName(s)[2], name)}
                        answer == FindSymbol(index, gss, name)
                    IN IF same = {} THEN answer = <<"none">>
                       ELSE answer # Err /\ answer # <<"none">> /\ answer[2] \in same
  BY DEF FindsExactly
<1>1. PICK rs : rs = RecordsForName(index, name)
  OBVIOUS
<1>2. PICK h \in 0 .. n - 1 : h = HashModU32(name, n)
  BY HashIsBucket
<1>3. rs = RecordsForBucket(index, h)
  BY <1>1, <1>2 DEF RecordsForName, IsIndex
<1>4. LeadTo(rs, S)
  BY <1>3 DEF IsIndex
<1>5. ASSUME NEW s \in S, SameName(GlobalName(s)[2], name)
      PROVE  \E i \in 1 .. Len(rs) : rs[i] = s.at + 1
  <2>1. IsSymbolOf(gss, s) /\ GlobalName(s) # Err /\ GlobalName(s) # NoName
    BY SymbolIs DEF NamedSymbols
  <2>2. GlobalName(s)[2] \in Seq(Octets)
    BY <2>1, GlobalNameIs DEF IsSymbolOf
  <2>3. HashU32(GlobalName(s)[2]) = HashU32(name)
    BY <1>5, <2>2, SameHash
  <2>4. HashModU32(GlobalName(s)[2], n) = h
    BY <1>2, <2>3 DEF HashModU32
  <2>5. InRecords(rs, s.at + 1)
    BY <1>3, <2>4 DEF IsIndex
  <2> QED BY <2>5 DEF InRecords
<1>6. \/ /\ FindSymbol(index, gss, name) = <<"none">>
         /\ \A i \in 1 .. Len(rs), s \in S :
              rs[i] = s.at + 1 => ~SameName(GlobalName(s)[2], name)
      \/ \E s \in S : /\ FindSymbol(index, gss, name) = <<"found", s>>
                      /\ SameName(GlobalName(s)[2], name)
  BY <1>1, <1>4, SearchFinds
<1>7. CASE \E s \in S : /\ FindSymbol(index, gss, name) = <<"found", s>>
                        /\ SameName(GlobalName(s)[2], name)
  <2>1. PICK s \in S : /\ FindSymbol(index, gss, name) = <<"found", s>>
                       /\ SameName(GlobalName(s)[2], name)
    BY <1>7
  <2>2. PICK a : a = <<"found", s>>
    OBVIOUS
  <2>3. a # Err /\ a # <<"none">> /\ a[2] = s
    BY <2>2 DEF Err
  <2> QED BY <2>1, <2>2, <2>3
<1>8. CASE /\ FindSymbol(index, gss, name) = <<"none">>
           /\ \A i \in 1 .. Len(rs), s \in S :
                rs[i] = s.at + 1 => ~SameName(GlobalName(s)[2], name)
  <2>1. \A s \in S : ~SameName(GlobalName(s)[2], name)
    BY <1>5, <1>8
  <2> QED BY <1>8, <2>1
<1> QED BY <1>6, <1>7, <1>8

-----------------------------------------------------------------------------
(***************************************************************************)
(* The indices of a stream of global symbols.                              *)
(***************************************************************************)
GlobalsIn(gss) ==
  {s \in ToSet(SymsFrom(gss, 0)) :
     s.kind \notin {Kind.S_PUB32, Kind.S_DATAREF} /\ GlobalName(s) # NoName}

PublicsIn(gss) == {s \in ToSet(SymsFrom(gss, 0)) : s.kind = Kind.S_PUB32}

AddressOf(s) ==
  [at |-> s.at, segment |-> FieldU16(ParseFields(Pub, s.data)[1], "segment"),
   offset |-> FieldU32(ParseFields(Pub, s.data)[1], "offset")]

AddressesIn(gss) == SortedAddresses({AddressOf(s) : s \in PublicsIn(gss)})

LEMMA KindsDiffer ==
  /\ Kind.S_PUB32 \notin {Kind.S_TOKENREF, Kind.S_DATAREF}
  /\ GlobalLayout(Kind.S_TOKENREF) = <<>>
<1>1. PICK k : k = Kind.S_TOKENREF
  OBVIOUS
<1>2. k # Kind.S_PUB32 /\ k # Kind.S_CONSTANT /\ k # Kind.S_UDT
  BY <1>1 DEF Kind
<1>3. k \notin RefKinds
  BY <1>1 DEF Kind, RefKinds
<1>4. k \notin DataKinds /\ k \notin ThreadKinds /\ k \notin ManProcKinds
  BY <1>1 DEF Kind, DataKinds, ThreadKinds, ManProcKinds
<1>5. Kind.S_PUB32 \notin {Kind.S_TOKENREF, Kind.S_DATAREF}
  BY DEF Kind
<1> QED BY <1>1, <1>2, <1>3, <1>4, <1>5 DEF GlobalLayout

LEMMA PublicName ==
  ASSUME NEW s, s.kind = Kind.S_PUB32
  PROVE  GlobalName(s) = IF ParseFields(Pub, s.data) = Err THEN Err
                         ELSE <<"name", Field(ParseFields(Pub, s.data)[1], "name")>>
<1>1. GlobalLayout(s.kind) = Pub /\ Pub # <<>>
  <2>1. ~HasRole(<<>>, "name")
    BY DEF HasRole
  <2> QED BY <2>1, PublicsHave
<1> QED BY <1>1 DEF GlobalName

(* The indices are built of these symbols.                                 *)
LEMMA BuiltIndexes ==
  ASSUME NEW gss \in Seq(Octets), NEW n, BuildIndexes(gss, n) # Err
  PROVE  /\ NamedSymbols(GlobalsIn(gss), gss) /\ NamedSymbols(PublicsIn(gss), gss)
         /\ BuildIndexes(gss, n)[1].gsi = EncodeTable(NameTableOf(GlobalsIn(gss), n))
         /\ BuildIndexes(gss, n)[1].psi = EncodeTable(NameTableOf(PublicsIn(gss), n))
         /\ BuildIndexes(gss, n)[1].addresses
              = [i \in DOMAIN AddressesIn(gss) |-> AddressesIn(gss)[i].at]
<1>1. PICK syms : syms = ToSet(SymsFrom(gss, 0))
  OBVIOUS
<1> DEFINE kept == {s \in syms : s.kind \notin {Kind.S_TOKENREF, Kind.S_DATAREF}}
           publics == {s \in kept : s.kind = Kind.S_PUB32}
           globals == {s \in kept \ publics : GlobalName(s) # NoName}
           addresses == SortedAddresses({AddressOf(s) : s \in publics})
<1>2. /\ ~\E s \in kept : GlobalName(s) = Err
      /\ BuildIndexes(gss, n) = <<[gsi |-> EncodeTable(NameTableOf(globals, n)),
                                   psi |-> EncodeTable(NameTableOf(publics, n)),
                                   addresses |-> [i \in DOMAIN addresses |-> addresses[i].at]]>>
  BY <1>1 DEF BuildIndexes, NameTableOf, AddressOf
<1>3. publics = PublicsIn(gss)
  BY <1>1, KindsDiffer DEF PublicsIn
<1>4. globals = GlobalsIn(gss)
  <2>1. ASSUME NEW s, s.kind = Kind.S_TOKENREF PROVE GlobalName(s) = NoName
    BY <2>1, KindsDiffer DEF GlobalName
  <2> QED BY <1>1, <2>1 DEF GlobalsIn
<1>5. syms \subseteq SymbolsOf(gss)
  BY <1>1, SymbolsAreFound
<1>6. NamedSymbols(globals, gss)
  BY <1>2, <1>5 DEF NamedSymbols
<1>7. NamedSymbols(publics, gss)
  <2>1. ASSUME NEW s \in publics PROVE GlobalName(s) # NoName
    <3>1. GlobalName(s) # Err /\ s.kind = Kind.S_PUB32
      BY <1>2
    <3>2. GlobalName(s) = <<"name", Field(ParseFields(Pub, s.data)[1], "name")>>
      BY <3>1, PublicName
    <3> QED BY <3>2 DEF NoName
  <2> QED BY <1>2, <1>5, <2>1 DEF NamedSymbols
<1> HIDE DEF publics, globals
<1>8. addresses = AddressesIn(gss)
  BY <1>3 DEF AddressesIn
<1> HIDE DEF addresses
<1> QED BY <1>2, <1>3, <1>4, <1>6, <1>7, <1>8

(* The names of the publics are in the buckets of their hashes.            *)
LEMMA NoWrongBuckets ==
  ASSUME NEW gss \in Seq(Octets), NEW S, NamedSymbols(S, gss),
         \A s \in S : s.kind = Kind.S_PUB32,
         NEW n \in Nat \ {0}, NEW index, IsIndex(index, S, n)
  PROVE  WrongBuckets(index, gss) = {}
<1>1. NumBuckets(index) = n
  BY DEF IsIndex
<1> SUFFICES ASSUME NEW b \in 0 .. n - 1, NEW i \in DOMAIN RecordsForBucket(index, b),
                    GetPubAt(gss, RecordsForBucket(index, b)[i] - 1) # Err
             PROVE  HashModU32(Field(GetPubAt(gss, RecordsForBucket(index, b)[i] - 1)[1], "name"), n) = b
  BY <1>1 DEF WrongBuckets
<1>2. PICK rs \in Seq(Nat) : rs = RecordsForBucket(index, b) /\ LeadTo(rs, S)
  BY DEF IsIndex, LeadTo
<1>3. i \in 1 .. Len(rs)
  BY <1>2
<1>4. PICK s \in S : rs[i] = s.at + 1
  BY <1>2, <1>3 DEF LeadTo
<1>5. HashModU32(GlobalName(s)[2], n) = b
  <2>1. InRecords(rs, s.at + 1)
    BY <1>3, <1>4 DEF InRecords
  <2> QED BY <1>2, <2>1 DEF IsIndex
<1>6. IsSymbolOf(gss, s) /\ GlobalName(s) # Err /\ s.kind = Kind.S_PUB32
  BY SymbolIs DEF NamedSymbols
<1>7. rs[i] - 1 = s.at
  <2>1. s.at \in Int
    BY <1>6 DEF IsSymbolOf
  <2> QED BY <1>4, <2>1
<1>8. GetPubAt(gss, s.at) = ParseFields(Pub, s.data)
  <2>1. GetSymAt(gss, s.at) = <<s>> /\ <<s>> # Err /\ <<s>>[1] = s
    BY <1>6 DEF IsSymbolOf, Err
  <2> QED BY <1>6, <2>1 DEF GetPubAt
<1>9. GlobalName(s)[2] = Field(ParseFields(Pub, s.data)[1], "name")
  BY <1>6, PublicName
<1> QED BY <1>2, <1>5, <1>7, <1>8, <1>9

(* globals.rs, globals/name_table.rs: whatever is in the stream of global  *)
(* symbols, if the indices can be built, each symbol is found by its name, *)
(* in any case, in the index that it belongs to, and nothing else is; each *)
(* public is in the bucket of its name.                                    *)
THEOREM GlobalsAlwaysFound ==
  ASSUME NEW gss \in Seq(Octets), NEW n \in Nat \ {0}, NEW queries \in SUBSET Seq(Octets)
  PROVE  GlobalsFound(gss, n, queries)
<1> DEFINE syms == {s \in ToSet(SymsFrom(gss, 0)) : GlobalName(s) # NoName}
           inGsi == {s \in syms : s.kind \notin {Kind.S_PUB32, Kind.S_DATAREF}}
           inPsi == {s \in syms : s.kind = Kind.S_PUB32}
<1>1. SUFFICES ASSUME BuildIndexes(gss, n) # Err,
                      NEW gsi, gsi = ParseTable(BuildIndexes(gss, n)[1].gsi, n),
                      NEW psi, psi = ParseTable(BuildIndexes(gss, n)[1].psi, n)
               PROVE  /\ gsi # Err /\ FindsExactly(gsi[1], gss, inGsi, queries)
                      /\ psi # Err /\ FindsExactly(psi[1], gss, inPsi, queries)
                      /\ WrongBuckets(psi[1], gss) = {}
  BY DEF GlobalsFound
<1>2. /\ NamedSymbols(GlobalsIn(gss), gss) /\ NamedSymbols(PublicsIn(gss), gss)
      /\ gsi = IndexOf(GlobalsIn(gss), n) /\ psi = IndexOf(PublicsIn(gss), n)
  BY <1>1, BuiltIndexes DEF IndexOf
<1>3. inGsi = GlobalsIn(gss)
  BY DEF GlobalsIn
<1>4. inPsi = PublicsIn(gss)
  BY <1>2 DEF PublicsIn, NamedSymbols
<1> HIDE DEF inGsi, inPsi
<1>5. gsi # Err /\ IsIndex(gsi[1], GlobalsIn(gss), n)
  BY <1>2, IndexIs
<1>6. psi # Err /\ IsIndex(psi[1], PublicsIn(gss), n)
  BY <1>2, IndexIs
<1>7. FindsExactly(gsi[1], gss, GlobalsIn(gss), queries)
  BY <1>2, <1>5, IndexFinds
<1>8. FindsExactly(psi[1], gss, PublicsIn(gss), queries)
  BY <1>2, <1>6, IndexFinds
<1>9. WrongBuckets(psi[1], gss) = {}
  <2>1. \A s \in PublicsIn(gss) : s.kind = Kind.S_PUB32
    BY DEF PublicsIn
  <2> QED BY <1>2, <1>6, <2>1, NoWrongBuckets
<1> QED BY <1>3, <1>4, <1>5, <1>6, <1>7, <1>8, <1>9

-----------------------------------------------------------------------------
(***************************************************************************)
(* A binary search over n places: at a place it stops (a hit), goes on     *)
(* with those before it (low) or with those after it.                      *)
(***************************************************************************)
Slices(n) == {s \in (0 .. n) \X (0 .. n) : s[1] <= s[2]}

Middle(s) == s[1] + (s[2] - s[1]) \div 2

SearchAt(g, hits, low, none, found, s) ==
  IF s[1] = s[2] THEN none
  ELSE IF Middle(s) + 1 \in hits THEN found[Middle(s) + 1]
  ELSE IF Middle(s) + 1 \in low THEN g[<<s[1], Middle(s)>>]
  ELSE g[<<Middle(s) + 1, s[2]>>]

BinarySteps(g, n, hits, low, none, found) ==
  [s \in Slices(n) |-> SearchAt(g, hits, low, none, found, s)]

LEMMA Halves ==
  ASSUME NEW n \in Nat, NEW s \in Slices(n), s[1] # s[2]
  PROVE  /\ s[1] \in 0 .. n /\ s[2] \in 0 .. n /\ s[1] < s[2]
         /\ Middle(s) \in s[1] .. s[2] - 1 /\ Middle(s) \in Int
         /\ <<s[1], Middle(s)>> \in Slices(n) /\ <<Middle(s) + 1, s[2]>> \in Slices(n)
<1>1. PICK l \in 0 .. n, h \in 0 .. n : s[1] = l /\ s[2] = h /\ l < h
  BY DEF Slices
<1>2. PICK m \in Int : m = Middle(s) /\ m = l + (h - l) \div 2
  BY <1>1 DEF Middle
<1>3. m \in l .. h - 1
  BY <1>1, <1>2
<1>4. <<l, m>> \in Slices(n) /\ <<m + 1, h>> \in Slices(n)
  BY <1>1, <1>3 DEF Slices
<1> QED BY <1>1, <1>2, <1>3, <1>4

(* The recursive function of the search is defined.                        *)
LEMMA BinaryExists ==
  ASSUME NEW n \in Nat, NEW hits, NEW low, NEW none, NEW found
  PROVE  \E g : g = BinarySteps(g, n, hits, low, none, found)
<1> DEFINE Small(m) == {s \in Slices(n) : s[2] - s[1] <= m}
           At(g, s) == SearchAt(g, hits, low, none, found, s)
           Right(g, m) == \A s \in Small(m) : g[s] = At(g, s)
           B == {m \in 0 .. n : \E g : Right(g, m)}
<1>1. ASSUME NEW s \in Slices(n), NEW f, NEW g,
             s[1] # s[2] => /\ f[<<s[1], Middle(s)>>] = g[<<s[1], Middle(s)>>]
                            /\ f[<<Middle(s) + 1, s[2]>>] = g[<<Middle(s) + 1, s[2]>>]
      PROVE  At(f, s) = At(g, s)
  BY <1>1 DEF SearchAt
<1> HIDE DEF At
<1>2. 0 \in B
  <2> DEFINE g == [s \in Slices(n) |-> none]
  <2>1. ASSUME NEW s \in Small(0) PROVE g[s] = At(g, s)
    <3>1. s[1] = s[2]
      BY DEF Slices
    <3> QED BY <3>1 DEF At, SearchAt
  <2> HIDE DEF g, Small
  <2> QED BY <2>1
<1>3. ASSUME NEW m \in 1 .. n, m - 1 \in B PROVE m \in B
  <2>1. PICK g : Right(g, m - 1)
    BY <1>3
  <2> DEFINE h == [s \in Slices(n) |-> At(g, s)]
  <2>2. \A s \in Small(m - 1) : h[s] = g[s]
    BY <2>1
  <2>3. ASSUME NEW s \in Small(m) PROVE h[s] = At(h, s)
    <3>1. s \in Slices(n) /\ h[s] = At(g, s)
      OBVIOUS
    <3>2. CASE s[1] = s[2]
      <4> HIDE DEF h
      <4> QED BY <1>1, <3>1, <3>2
    <3>3. CASE s[1] # s[2]
      <4>1. /\ s[1] \in 0 .. n /\ s[2] \in 0 .. n /\ s[1] < s[2]
            /\ Middle(s) \in s[1] .. s[2] - 1
            /\ <<s[1], Middle(s)>> \in Slices(n) /\ <<Middle(s) + 1, s[2]>> \in Slices(n)
        BY <3>1, <3>3, Halves
      <4>2. <<s[1], Middle(s)>> \in Small(m - 1) /\ <<Middle(s) + 1, s[2]>> \in Small(m - 1)
        BY <4>1
      <4> HIDE DEF h, Small
      <4> QED BY <1>1, <2>2, <3>1, <4>2
    <3> QED BY <3>2, <3>3
  <2> HIDE DEF h, Small
  <2> QED BY <2>3
<1>4. n \in B
  <2>1. 0 .. n \subseteq B
    <3> HIDE DEF B
    <3> QED BY <1>2, <1>3, StepByStep
  <2> HIDE DEF B
  <2> QED BY <2>1
<1>5. PICK g : Right(g, n)
  BY <1>4
<1>6. \A s \in Slices(n) : s \in Small(n)
  BY DEF Slices
<1> DEFINE h == [s \in Slices(n) |-> g[s]]
<1>7. h = [s \in Slices(n) |-> At(h, s)]
  <2>1. ASSUME NEW s \in Slices(n) PROVE h[s] = At(h, s)
    <3>1. h[s] = At(g, s)
      BY <1>5, <1>6
    <3>2. s[1] # s[2] => <<s[1], Middle(s)>> \in Slices(n) /\ <<Middle(s) + 1, s[2]>> \in Slices(n)
      BY Halves
    <3>3. \A t \in Slices(n) : h[t] = g[t]
      OBVIOUS
    <3> HIDE DEF h
    <3> QED BY <1>1, <3>1, <3>2, <3>3
  <2>2. h = [s \in Slices(n) |-> h[s]]
    OBVIOUS
  <2> HIDE DEF h
  <2> QED BY <2>1, <2>2
<1> HIDE DEF h
<1> QED BY <1>7 DEF BinarySteps, At

(* All hits are on the side on which the search goes on.                   *)
LeadsToHits(n, hits, low) ==
  /\ hits \subseteq 1 .. n
  /\ \A i \in low, j \in hits : i \in 1 .. n => j <= i
  /\ \A i \in (1 .. n) \ (low \cup hits), j \in hits : i <= j

LEMMA BinaryFinds ==
  ASSUME NEW n \in Nat, NEW hits, NEW low, LeadsToHits(n, hits, low), NEW none, NEW found,
         NEW g, g = BinarySteps(g, n, hits, low, none, found)
  PROVE  IF hits = {} THEN g[<<0, n>>] = none ELSE \E k \in hits : g[<<0, n>>] = found[k]
<1> DEFINE Small(m) == {s \in Slices(n) : s[2] - s[1] <= m}
           Ends(s) == \/ g[s] = none /\ \A k \in hits : ~(s[1] < k /\ k <= s[2])
                      \/ \E k \in hits : g[s] = found[k]
           B == {m \in 0 .. n : \A s \in Small(m) : Ends(s)}
<1>1. \A s \in Slices(n) : g[s] = SearchAt(g, hits, low, none, found, s)
  BY DEF BinarySteps
<1>2. \A s \in Slices(n) : s[1] \in 0 .. n /\ s[2] \in 0 .. n
  BY DEF Slices
<1>3. hits \subseteq 1 .. n
  BY DEF LeadsToHits
<1>4. ASSUME NEW s \in Slices(n), s[1] = s[2] PROVE Ends(s)
  <2>1. g[s] = none
    BY <1>1, <1>4 DEF SearchAt
  <2>2. \A k \in hits : ~(s[1] < k /\ k <= s[2])
    BY <1>2, <1>3, <1>4
  <2> QED BY <2>1, <2>2
<1>5. 0 \in B
  <2>1. ASSUME NEW s \in Small(0) PROVE Ends(s)
    <3>1. s \in Slices(n) /\ s[1] = s[2]
      BY DEF Slices
    <3> HIDE DEF Ends
    <3> QED BY <1>4, <3>1
  <2> HIDE DEF Ends, Small
  <2> QED BY <2>1
<1>6. ASSUME NEW m \in 1 .. n, m - 1 \in B PROVE m \in B
  <2>1. ASSUME NEW s \in Small(m) PROVE Ends(s)
    <3>1. CASE s[1] = s[2]
      <4> HIDE DEF Ends
      <4> QED BY <1>4, <3>1
    <3>2. CASE s[1] # s[2]
      <4>10. s \in Slices(n) /\ s[2] - s[1] <= m
        OBVIOUS
      <4>11. PICK l \in 0 .. n, h \in 0 .. n, c \in Int :
              l = s[1] /\ h = s[2] /\ c - 1 = Middle(s) /\ c = Middle(s) + 1
        <5>1. s[1] \in 0 .. n /\ s[2] \in 0 .. n /\ Middle(s) \in Int
          BY <3>2, <4>10, Halves
        <5>2. Middle(s) + 1 \in Int /\ Middle(s) + 1 - 1 = Middle(s)
          BY <5>1
        <5> QED BY <5>1, <5>2
      <4>1. /\ l = s[1] /\ h = s[2] /\ l < c /\ c <= h
            /\ <<l, c - 1>> \in Small(m - 1) /\ <<c, h>> \in Small(m - 1)
        <5>1. /\ l < h /\ Middle(s) \in l .. h - 1
              /\ <<l, Middle(s)>> \in Slices(n) /\ <<Middle(s) + 1, h>> \in Slices(n)
          BY <3>2, <4>10, <4>11, Halves
        <5>2. l < c /\ c <= h /\ h - l <= m
          BY <4>10, <4>11, <5>1
        <5>3. <<l, c - 1>> \in Slices(n) /\ <<c, h>> \in Slices(n)
          BY <4>11, <5>1
        <5> QED BY <4>11, <5>2, <5>3
      <4>2. c \in 1 .. n
        BY <4>1
      <4>3. \A t \in Small(m - 1) : Ends(t)
        BY <1>6
      <4>5. g[s] = IF c \in hits THEN found[c]
                   ELSE IF c \in low THEN g[<<l, c - 1>>] ELSE g[<<c, h>>]
        <5>1. s \in Slices(n)
          OBVIOUS
        <5> HIDE DEF Small
        <5> QED BY <1>1, <3>2, <4>1, <4>11, <5>1 DEF SearchAt
      <4>6. CASE c \in hits
        BY <4>5, <4>6
      <4>7. CASE c \notin hits /\ c \in low
        <5>1. g[s] = g[<<l, c - 1>>] /\ Ends(<<l, c - 1>>)
          <6> HIDE DEF Small, Ends
          <6> QED BY <4>1, <4>3, <4>5, <4>7
        <5>2. CASE \A k \in hits : ~(l < k /\ k <= c - 1)
          <6>1. \A k \in hits : k <= c /\ k # c
            BY <4>2, <4>7 DEF LeadsToHits
          <6>2. \A k \in hits : ~(l < k /\ k <= h)
            BY <1>3, <4>1, <5>2, <6>1
          <6> QED BY <4>1, <5>1, <6>2
        <5> QED BY <5>1, <5>2
      <4>8. CASE c \notin hits /\ c \notin low
        <5>1. g[s] = g[<<c, h>>] /\ Ends(<<c, h>>)
          <6> HIDE DEF Small, Ends
          <6> QED BY <4>1, <4>3, <4>5, <4>8
        <5>2. CASE \A k \in hits : ~(c < k /\ k <= h)
          <6>1. \A k \in hits : c <= k /\ k # c
            BY <4>2, <4>8 DEF LeadsToHits
          <6>2. \A k \in hits : ~(l < k /\ k <= h)
            BY <1>3, <4>1, <5>2, <6>1
          <6> QED BY <4>1, <5>1, <6>2
        <5> QED BY <5>1, <5>2
      <4> QED BY <4>6, <4>7, <4>8
    <3> QED BY <3>1, <3>2
  <2> HIDE DEF Ends, Small
  <2> QED BY <2>1
<1>7. n \in B
  <2>1. 0 .. n \subseteq B
    <3> HIDE DEF B
    <3> QED BY <1>5, <1>6, StepByStep
  <2> HIDE DEF B
  <2> QED BY <2>1
<1>8. PICK s : s = <<0, n>> /\ s[1] = 0 /\ s[2] = n
  <2>1. <<0, n>>[1] = 0 /\ <<0, n>>[2] = n
    OBVIOUS
  <2> QED BY <2>1
<1>9. s \in Small(n)
  BY <1>8 DEF Slices
<1>10. Ends(s)
  <2> HIDE DEF Small, Ends
  <2> QED BY <1>7, <1>9
<1>11. \A k \in hits : s[1] < k /\ k <= s[2]
  BY <1>3, <1>8
<1> QED BY <1>8, <1>10, <1>11

-----------------------------------------------------------------------------
(***************************************************************************)
(* The address map.                                                        *)
(***************************************************************************)
AddressRecords == [at : Nat, segment : Nat, offset : Nat]

AddressOrder(A) == {p \in A \X A : AddressBefore(p[1], p[2])}

(* x is not after y.                                                       *)
AddressUpTo(x, y) ==
  x.segment < y.segment \/ (x.segment = y.segment /\ x.offset <= y.offset)

(* Addresses are sorted by segment and by offset.                          *)
LEMMA SortedByAddress ==
  ASSUME NEW A \in SUBSET AddressRecords, IsFiniteSet(A)
  PROVE  /\ Cardinality(A) \in Nat
         /\ SortedAddresses(A) \in [1 .. Cardinality(A) -> A]
         /\ \A i \in 1 .. Cardinality(A), j \in 1 .. Cardinality(A) :
              i <= j => AddressUpTo(SortedAddresses(A)[i], SortedAddresses(A)[j])
         /\ \A x \in A : \E i \in 1 .. Cardinality(A) : SortedAddresses(A)[i] = x
<1> DEFINE r == [x \in A |-> Cardinality({y \in A : AddressBefore(y, x)})]
           R == AddressOrder(A)
<1>1. r = Places(A, R)
  <2>1. ASSUME NEW x \in A PROVE {y \in A : AddressBefore(y, x)} = {y \in A : <<y, x>> \in R}
    BY DEF AddressOrder
  <2> QED BY <2>1 DEF Places
<1>2. SortedAddresses(A) = ByPlace(A, R)
  <2>1. SortedAddresses(A) = ByRank(A, r)
    BY DEF SortedAddresses, SortedSeq
  <2> HIDE DEF r, R
  <2>2. ByRank(A, r) = PlacedBy(A, r)
    BY DEF ByRank, PlacedBy
  <2> QED BY <1>1, <2>1, <2>2 DEF ByPlace
<1>3. \A x \in A : /\ x.at \in Int /\ x.segment \in Int /\ x.offset \in Int
                   /\ x = [at |-> x.at, segment |-> x.segment, offset |-> x.offset]
  BY DEF AddressRecords
<1>4. StrictlyOrders(R, A)
  <2>1. \A x \in A, y \in A : <<x, y>> \in R <=> AddressBefore(x, y)
    BY DEF AddressOrder
  <2>2. \A x \in A : ~AddressBefore(x, x)
    BY <1>3 DEF AddressBefore
  <2>3. \A x \in A, y \in A, z \in A :
          AddressBefore(x, y) /\ AddressBefore(y, z) => AddressBefore(x, z)
    BY <1>3 DEF AddressBefore
  <2>4. ASSUME NEW x \in A, NEW y \in A PROVE x = y \/ AddressBefore(x, y) \/ AddressBefore(y, x)
    <3>1. x.at = y.at /\ x.segment = y.segment /\ x.offset = y.offset => x = y
      BY <1>3
    <3> QED BY <1>3, <3>1 DEF AddressBefore
  <2> HIDE DEF R
  <2> QED BY <2>1, <2>2, <2>3, <2>4 DEF StrictlyOrders
<1> HIDE DEF R
<1>5. PICK f, m : f = ByPlace(A, R) /\ m = Cardinality(A)
  OBVIOUS
<1>6. /\ m \in Nat /\ f \in [1 .. m -> A]
      /\ \A i \in 1 .. m, j \in 1 .. m : i < j => <<f[i], f[j]>> \in R
      /\ \A x \in A : \E i \in 1 .. m : f[i] = x
  <2>1. /\ Cardinality(A) \in Nat
        /\ ByPlace(A, R) \in [1 .. Cardinality(A) -> A]
        /\ \A i \in 1 .. Cardinality(A), j \in 1 .. Cardinality(A) :
             i < j => <<ByPlace(A, R)[i], ByPlace(A, R)[j]>> \in R
        /\ \A x \in A : \E i \in 1 .. Cardinality(A) : ByPlace(A, R)[i] = x
    BY <1>4, OrderedByPlace
  <2> QED BY <1>5, <2>1
<1>7. ASSUME NEW i \in 1 .. m, NEW j \in 1 .. m, i <= j PROVE AddressUpTo(f[i], f[j])
  <2>1. PICK x \in A, y \in A : x = f[i] /\ y = f[j]
    BY <1>6
  <2>2. x.segment \in Int /\ x.offset \in Int /\ y.segment \in Int /\ y.offset \in Int
    BY <1>3
  <2>3. CASE i = j
    BY <2>1, <2>2, <2>3 DEF AddressUpTo
  <2>4. CASE i # j
    <3>1. i < j
      BY <1>7, <2>4
    <3>2. AddressBefore(x, y)
      BY <1>6, <2>1, <3>1 DEF R, AddressOrder
    <3> QED BY <2>1, <2>2, <3>2 DEF AddressBefore, AddressUpTo
  <2> QED BY <2>3, <2>4
<1> QED BY <1>2, <1>5, <1>6, <1>7

-----------------------------------------------------------------------------
(* A public symbol: what is read at its offset, and its address.           *)
IsPublic(gss, s) ==
  /\ IsSymbolOf(gss, s) /\ ParseFields(Pub, s.data) # Err
  /\ GetPubAt(gss, s.at) = ParseFields(Pub, s.data)
  /\ AddressOf(s) \in AddressRecords

LEMMA PublicIs ==
  ASSUME NEW gss \in Seq(Octets), NamedSymbols(PublicsIn(gss), gss), NEW s \in PublicsIn(gss)
  PROVE  IsPublic(gss, s)
<1>1. IsSymbolOf(gss, s) /\ GlobalName(s) # Err /\ s.kind = Kind.S_PUB32
  BY SymbolIs DEF NamedSymbols, PublicsIn
<1>2. ParseFields(Pub, s.data) # Err
  BY <1>1, PublicName
<1>3. GetPubAt(gss, s.at) = ParseFields(Pub, s.data)
  <2>1. GetSymAt(gss, s.at) = <<s>> /\ <<s>> # Err /\ <<s>>[1] = s
    BY <1>1 DEF IsSymbolOf, Err
  <2> QED BY <1>1, <2>1 DEF GetPubAt
<1>4. PICK fields : fields = ParseFields(Pub, s.data)[1]
  OBVIOUS
<1>5. FieldsOf(fields, Pub)
  <2>1. s.data \in Seq(Octets)
    BY <1>1 DEF IsSymbolOf
  <2> QED BY <1>2, <1>4, <2>1, FieldsParsed, PublicsHave
<1>6. PICK seg, off : seg = Field(fields, "segment") /\ off = Field(fields, "offset")
  OBVIOUS
<1>7. seg \in Seq(Octets) /\ Len(seg) = 2 /\ off \in Seq(Octets) /\ Len(off) = 4
  <2>1. Width("segment") = 2 /\ Width("offset") = 4
    BY DEF Width
  <2>2. \E i \in 1 .. Len(Pub) : Pub[i] = "segment"
    BY PublicsHave DEF HasRole
  <2>3. \E i \in 1 .. Len(Pub) : Pub[i] = "offset"
    BY PublicsHave DEF HasRole
  <2>4. Pub \in Seq(GlobalRoles)
    BY PublicsHave
  <2>5. seg \in Seq(Octets) /\ Len(seg) = 2
    BY <1>5, <1>6, <2>1, <2>2, <2>4, FieldIs
  <2>6. off \in Seq(Octets) /\ Len(off) = 4
    BY <1>5, <1>6, <2>1, <2>3, <2>4, FieldIs
  <2> QED BY <2>5, <2>6
<1>8. U16At(seg, 0) \in Nat
  <2>1. 0 + 1 = 1 /\ 0 + 2 = 2 /\ 1 \in 1 .. 2 /\ 2 \in 1 .. 2
    OBVIOUS
  <2>2. \A i \in 1 .. Len(seg) : seg[i] \in Octets
    BY <1>7, LenProperties
  <2>3. PICK a \in 0 .. 255, c \in 0 .. 255 : a = seg[1] /\ c = seg[2]
    BY <1>7, <2>1, <2>2 DEF Octets
  <2>4. U16At(seg, 0) = a + 256 * c
    BY <2>1, <2>3 DEF U16At
  <2> QED BY <2>4
<1>9. U32At(off, 0) \in Nat
  <2>1. /\ 0 + 1 = 1 /\ 0 + 2 = 2 /\ 2 + 1 = 3 /\ 2 + 2 = 4
        /\ 1 \in 1 .. 4 /\ 2 \in 1 .. 4 /\ 3 \in 1 .. 4 /\ 4 \in 1 .. 4
    OBVIOUS
  <2>2. \A i \in 1 .. Len(off) : off[i] \in Octets
    BY <1>7, LenProperties
  <2>3. PICK a \in 0 .. 255, c \in 0 .. 255, d \in 0 .. 255, e \in 0 .. 255 :
          a = off[1] /\ c = off[2] /\ d = off[3] /\ e = off[4]
    BY <1>7, <2>1, <2>2 DEF Octets
  <2>4. U16At(off, 0) = a + 256 * c /\ U16At(off, 2) = d + 256 * e
    BY <2>1, <2>3 DEF U16At
  <2>5. U32At(off, 0) = (a + 256 * c) + 65536 * (d + 256 * e)
    BY <2>1, <2>4 DEF U32At
  <2> QED BY <2>5
<1>10. s.at \in Nat
  BY <1>1 DEF IsSymbolOf
<1>11. AddressOf(s) = [at |-> s.at, segment |-> U16At(seg, 0), offset |-> U32At(off, 0)]
  BY <1>4, <1>6 DEF AddressOf, FieldU16, FieldU32
<1>12. AddressOf(s) \in AddressRecords
  BY <1>8, <1>9, <1>10, <1>11 DEF AddressRecords
<1> QED BY <1>1, <1>2, <1>3, <1>12 DEF IsPublic

(* The address map: map lists the places of the publics by their address,  *)
(* which is what is found there.                                           *)
IsAddressMap(map, sorted, gss) ==
  /\ Len(map) \in Nat /\ DOMAIN map = 1 .. Len(map)
  /\ \A i \in 1 .. Len(map) :
       \E s \in PublicsIn(gss) : sorted[i] = AddressOf(s) /\ map[i] = s.at /\ IsPublic(gss, s)
  /\ \A i \in 1 .. Len(map), j \in 1 .. Len(map) : i <= j => AddressUpTo(sorted[i], sorted[j])
  /\ \A s \in PublicsIn(gss) : \E i \in 1 .. Len(map) : sorted[i] = AddressOf(s)

LEMMA AddressMapIs ==
  ASSUME NEW gss \in Seq(Octets), NamedSymbols(PublicsIn(gss), gss),
         NEW map, map = [i \in DOMAIN AddressesIn(gss) |-> AddressesIn(gss)[i].at]
  PROVE  IsAddressMap(map, AddressesIn(gss), gss)
<1> DEFINE P == PublicsIn(gss)
           A == {AddressOf(s) : s \in P}
           f == [s \in P |-> AddressOf(s)]
<1>1. \A s \in P : IsPublic(gss, s)
  BY PublicIs
<1>2. A \subseteq AddressRecords
  BY <1>1 DEF IsPublic
<1>3. IsFiniteSet(A)
  <2>1. IsFiniteSet(P)
    BY SymbolsAreFound, FS_Subset DEF NamedSymbols
  <2> HIDE DEF P
  <2>2. f \in Surjection(P, A)
    BY DEF Surjection
  <2> HIDE DEF f, A
  <2> QED BY <2>1, <2>2, FS_Surjection
<1> DEFINE sorted == AddressesIn(gss)
           m == Cardinality(A)
<1>4. /\ m \in Nat /\ sorted \in [1 .. m -> A]
      /\ \A i \in 1 .. m, j \in 1 .. m : i <= j => AddressUpTo(sorted[i], sorted[j])
      /\ \A x \in A : \E i \in 1 .. m : sorted[i] = x
  <2>1. AddressesIn(gss) = SortedAddresses(A)
    BY DEF AddressesIn
  <2> HIDE DEF A
  <2> QED BY <1>2, <1>3, <2>1, SortedByAddress
<1> HIDE DEF sorted, m
<1>5. map \in [1 .. m -> Nat] /\ \A i \in 1 .. m : map[i] = sorted[i].at
  <2>1. map = [i \in 1 .. m |-> sorted[i].at]
    BY <1>4 DEF sorted
  <2>2. \A i \in 1 .. m : sorted[i].at \in Nat
    BY <1>2, <1>4 DEF AddressRecords
  <2> QED BY <2>1, <2>2
<1>6. Len(map) = m /\ DOMAIN map = 1 .. m
  BY <1>4, <1>5, FunctionLen
<1>7. ASSUME NEW i \in 1 .. m
      PROVE  \E s \in P : sorted[i] = AddressOf(s) /\ map[i] = s.at /\ IsPublic(gss, s)
  <2>1. PICK s \in P : sorted[i] = AddressOf(s)
    BY <1>4
  <2>2. sorted[i].at = s.at
    BY <2>1 DEF AddressOf
  <2> QED BY <1>1, <1>5, <2>1, <2>2
<1>8. \A s \in P : \E i \in 1 .. m : sorted[i] = AddressOf(s)
  BY <1>4
<1> QED BY <1>4, <1>6, <1>7, <1>8 DEF IsAddressMap, sorted

IsAt(x, seg, off) == x.segment = seg /\ x.offset = off

AddressLow(x, seg, off) == seg < x.segment \/ (seg = x.segment /\ off < x.offset)

(* The search of an address map stops at the address that is asked for.    *)
LEMMA AddressSearch ==
  ASSUME NEW gss \in Seq(Octets), NEW map, NEW sorted, IsAddressMap(map, sorted, gss),
         NEW seg \in Int, NEW off \in Int
  PROVE  \/ /\ FindByAddress(map, gss, seg, off) = <<"none">>
            /\ \A s \in PublicsIn(gss) : ~IsAt(AddressOf(s), seg, off)
         \/ \E s \in PublicsIn(gss) : /\ FindByAddress(map, gss, seg, off) = <<"found", s.at>>
                                      /\ IsAt(AddressOf(s), seg, off)
<1>1. PICK n \in Nat :
        /\ n = Len(map) /\ DOMAIN map = 1 .. n
        /\ \A i \in 1 .. n :
             \E s \in PublicsIn(gss) : sorted[i] = AddressOf(s) /\ map[i] = s.at /\ IsPublic(gss, s)
        /\ \A i \in 1 .. n, j \in 1 .. n : i <= j => AddressUpTo(sorted[i], sorted[j])
        /\ \A s \in PublicsIn(gss) : \E i \in 1 .. n : sorted[i] = AddressOf(s)
  BY DEF IsAddressMap
<1> DEFINE hits == {i \in 1 .. n : IsAt(sorted[i], seg, off)}
           low == {i \in 1 .. n : AddressLow(sorted[i], seg, off)}
           found == [i \in 1 .. n |-> <<"found", map[i]>>]
<1>2. \A i \in 1 .. n : sorted[i] \in AddressRecords
  BY <1>1 DEF IsPublic
<1>3. LeadsToHits(n, hits, low)
  <2>1. ASSUME NEW i \in 1 .. n, NEW j \in hits PROVE
          /\ i \in low => j <= i
          /\ i \notin low /\ i \notin hits => i <= j
    <3>1. PICK x \in AddressRecords, y \in AddressRecords : x = sorted[i] /\ y = sorted[j]
      BY <1>2
    <3>2. IsAt(y, seg, off) /\ j \in 1 .. n
      BY <3>1
    <3>3. /\ i <= j => AddressUpTo(x, y)
          /\ j <= i => AddressUpTo(y, x)
      BY <1>1, <3>1, <3>2
    <3>4. /\ x.segment \in Int /\ x.offset \in Int
      BY DEF AddressRecords
    <3>5. CASE i \in low
      <4>1. AddressLow(x, seg, off)
        BY <3>1, <3>5
      <4>2. ~AddressUpTo(x, y)
        BY <3>2, <3>4, <4>1 DEF AddressLow, AddressUpTo, IsAt
      <4>3. j <= i
        BY <3>2, <3>3, <4>2
      <4> QED BY <3>5, <4>3
    <3>6. CASE i \notin low /\ i \notin hits
      <4>1. ~AddressLow(x, seg, off) /\ ~IsAt(x, seg, off)
        BY <3>1, <3>6
      <4>2. ~AddressUpTo(y, x)
        BY <3>2, <3>4, <4>1 DEF AddressLow, AddressUpTo, IsAt
      <4>3. i <= j
        BY <3>2, <3>3, <4>2
      <4> QED BY <3>6, <4>3
    <3> QED BY <3>5, <3>6
  <2> HIDE DEF low
  <2>2. hits \subseteq 1 .. n
    OBVIOUS
  <2> HIDE DEF hits
  <2> QED BY <2>1, <2>2 DEF LeadsToHits
<1>4. ASSUME NEW i \in 1 .. n
      PROVE  /\ GetPubAt(gss, map[i]) # Err
             /\ FieldU16(GetPubAt(gss, map[i])[1], "segment") = sorted[i].segment
             /\ FieldU32(GetPubAt(gss, map[i])[1], "offset") = sorted[i].offset
  <2>1. PICK s \in PublicsIn(gss) : sorted[i] = AddressOf(s) /\ map[i] = s.at /\ IsPublic(gss, s)
    BY <1>1
  <2> QED BY <2>1 DEF IsPublic, AddressOf
<1> DEFINE none == <<"none">>
           F(g, s) == IF s[1] = s[2] THEN none
                      ELSE IF GetPubAt(gss, map[Middle(s) + 1]) = Err THEN Err
                      ELSE IF /\ seg = FieldU16(GetPubAt(gss, map[Middle(s) + 1])[1], "segment")
                              /\ off = FieldU32(GetPubAt(gss, map[Middle(s) + 1])[1], "offset")
                           THEN <<"found", map[Middle(s) + 1]>>
                      ELSE IF \/ seg < FieldU16(GetPubAt(gss, map[Middle(s) + 1])[1], "segment")
                              \/ /\ seg = FieldU16(GetPubAt(gss, map[Middle(s) + 1])[1], "segment")
                                 /\ off < FieldU32(GetPubAt(gss, map[Middle(s) + 1])[1], "offset")
                           THEN g[<<s[1], Middle(s)>>] ELSE g[<<Middle(s) + 1, s[2]>>]
           search == CHOOSE g : g = BinarySteps(g, n, hits, low, none, found)
<1>5. FindByAddress(map, gss, seg, off) = (CHOOSE g : g = [s \in Slices(n) |-> F(g, s)])[<<0, n>>]
  BY <1>1 DEF FindByAddress, Slices, Middle
<1>6. ASSUME NEW g, NEW s \in Slices(n) PROVE F(g, s) = SearchAt(g, hits, low, none, found, s)
  <2>1. CASE s[1] = s[2]
    BY <2>1 DEF SearchAt
  <2>2. CASE s[1] # s[2]
    <3>1. PICK i \in 1 .. n : i = Middle(s) + 1
      <4>1. /\ s[1] \in 0 .. n /\ s[2] \in 0 .. n /\ s[1] < s[2]
            /\ Middle(s) \in s[1] .. s[2] - 1 /\ Middle(s) \in Int
        BY <2>2, Halves
      <4>2. Middle(s) + 1 \in 1 .. n
        BY <4>1
      <4> QED BY <4>2
    <3>2. /\ GetPubAt(gss, map[i]) # Err
          /\ FieldU16(GetPubAt(gss, map[i])[1], "segment") = sorted[i].segment
          /\ FieldU32(GetPubAt(gss, map[i])[1], "offset") = sorted[i].offset
      BY <1>4
    <3>3. F(g, s) = IF seg = sorted[i].segment /\ off = sorted[i].offset
                    THEN <<"found", map[i]>>
                    ELSE IF AddressLow(sorted[i], seg, off)
                    THEN g[<<s[1], Middle(s)>>] ELSE g[<<Middle(s) + 1, s[2]>>]
      BY <2>2, <3>1, <3>2 DEF AddressLow
    <3> HIDE DEF F, none
    <3>4. /\ i \in hits <=> seg = sorted[i].segment /\ off = sorted[i].offset
          /\ i \in low <=> AddressLow(sorted[i], seg, off)
          /\ found[i] = <<"found", map[i]>>
      BY DEF IsAt
    <3> HIDE DEF hits, low, found
    <3>5. SearchAt(g, hits, low, none, found, s) =
            IF i \in hits THEN found[i]
            ELSE IF i \in low THEN g[<<s[1], Middle(s)>>] ELSE g[<<Middle(s) + 1, s[2]>>]
      BY <2>2, <3>1 DEF SearchAt
    <3> QED BY <3>3, <3>4, <3>5
  <2> QED BY <2>1, <2>2
<1> HIDE DEF F, hits, low, found, none
<1>7. \A g : [s \in Slices(n) |-> F(g, s)] = BinarySteps(g, n, hits, low, none, found)
  BY <1>6 DEF BinarySteps
<1>8. FindByAddress(map, gss, seg, off) = search[<<0, n>>]
  BY <1>5, <1>7
<1>9. search = BinarySteps(search, n, hits, low, none, found)
  BY BinaryExists
<1> HIDE DEF search
<1>10. IF hits = {} THEN search[<<0, n>>] = none ELSE \E k \in hits : search[<<0, n>>] = found[k]
  BY <1>3, <1>9, BinaryFinds
<1>11. CASE hits = {}
  <2>1. ASSUME NEW s \in PublicsIn(gss) PROVE ~IsAt(AddressOf(s), seg, off)
    <3>1. PICK i \in 1 .. n : sorted[i] = AddressOf(s)
      BY <1>1
    <3> QED BY <1>11, <3>1 DEF hits
  <2> QED BY <1>8, <1>10, <1>11, <2>1 DEF none
<1>12. CASE hits # {}
  <2>1. PICK k \in hits : search[<<0, n>>] = found[k]
    BY <1>10, <1>12
  <2>2. k \in 1 .. n /\ IsAt(sorted[k], seg, off) /\ found[k] = <<"found", map[k]>>
    BY DEF hits, found
  <2>3. PICK s \in PublicsIn(gss) : sorted[k] = AddressOf(s) /\ map[k] = s.at
    BY <1>1, <2>2
  <2> QED BY <1>8, <2>1, <2>2, <2>3
<1> QED BY <1>11, <1>12

LEMMA AddressesAscend ==
  ASSUME NEW gss \in Seq(Octets), NEW map, NEW sorted, IsAddressMap(map, sorted, gss)
  PROVE  AddressesInOrder(map, gss)
<1>1. ASSUME NEW i \in 1 .. Len(map)
      PROVE  /\ FieldU16(GetPubAt(gss, map[i])[1], "segment") = sorted[i].segment
             /\ FieldU32(GetPubAt(gss, map[i])[1], "offset") = sorted[i].offset
  <2>1. PICK s \in PublicsIn(gss) : sorted[i] = AddressOf(s) /\ map[i] = s.at /\ IsPublic(gss, s)
    BY DEF IsAddressMap
  <2> QED BY <2>1 DEF IsPublic, AddressOf
<1>2. ASSUME NEW i \in 2 .. Len(map)
      PROVE  /\ i \in 1 .. Len(map) /\ i - 1 \in 1 .. Len(map)
             /\ AddressUpTo(sorted[i - 1], sorted[i])
  <2>1. Len(map) \in Nat
    BY DEF IsAddressMap
  <2>2. i \in 1 .. Len(map) /\ i - 1 \in 1 .. Len(map) /\ i - 1 <= i
    BY <2>1
  <2> QED BY <2>2 DEF IsAddressMap
<1> QED BY <1>1, <1>2 DEF AddressesInOrder, AddressUpTo

(* globals/psi.rs: whatever is in the stream of global symbols, if the     *)
(* indices can be built, the address map is in order and leads from the    *)
(* address of each public symbol to one that is there, and from no other   *)
(* address to any.                                                         *)
THEOREM PublicsAlwaysFound ==
  ASSUME NEW gss \in Seq(Octets), NEW n, NEW addresses \in SUBSET (Int \X Int)
  PROVE  PublicsFoundByAddress(gss, n, addresses)
<1> DEFINE publics == {s \in ToSet(SymsFrom(gss, 0)) : s.kind = Kind.S_PUB32}
           At(a) == {s.at : s \in {p \in publics :
                       /\ FieldU16(ParseFields(Pub, p.data)[1], "segment") = a[1]
                       /\ FieldU32(ParseFields(Pub, p.data)[1], "offset") = a[2]}}
<1>1. SUFFICES ASSUME BuildIndexes(gss, n) # Err,
                      NEW map, map = BuildIndexes(gss, n)[1].addresses
               PROVE  /\ AddressesInOrder(map, gss)
                      /\ \A a \in addresses :
                           IF At(a) = {} THEN FindByAddress(map, gss, a[1], a[2]) = <<"none">>
                           ELSE /\ FindByAddress(map, gss, a[1], a[2]) # Err
                                /\ FindByAddress(map, gss, a[1], a[2])[1] = "found"
                                /\ FindByAddress(map, gss, a[1], a[2])[2] \in At(a)
  BY DEF PublicsFoundByAddress
<1>2. IsAddressMap(map, AddressesIn(gss), gss)
  BY <1>1, BuiltIndexes, AddressMapIs
<1>3. AddressesInOrder(map, gss)
  BY <1>2, AddressesAscend
<1>4. ASSUME NEW a \in addresses
      PROVE  IF At(a) = {} THEN FindByAddress(map, gss, a[1], a[2]) = <<"none">>
             ELSE /\ FindByAddress(map, gss, a[1], a[2]) # Err
                  /\ FindByAddress(map, gss, a[1], a[2])[1] = "found"
                  /\ FindByAddress(map, gss, a[1], a[2])[2] \in At(a)
  <2>1. PICK seg \in Int, off \in Int : seg = a[1] /\ off = a[2]
    OBVIOUS
  <2> DEFINE found == FindByAddress(map, gss, a[1], a[2])
  <2>2. At(a) = {s.at : s \in {p \in PublicsIn(gss) : IsAt(AddressOf(p), seg, off)}}
    BY <2>1 DEF PublicsIn, IsAt, AddressOf
  <2> HIDE DEF At, found
  <2>3. \/ /\ found = <<"none">>
           /\ \A s \in PublicsIn(gss) : ~IsAt(AddressOf(s), seg, off)
        \/ \E s \in PublicsIn(gss) : found = <<"found", s.at>> /\ IsAt(AddressOf(s), seg, off)
    BY <1>2, <2>1, AddressSearch DEF found
  <2>4. CASE /\ found = <<"none">>
             /\ \A s \in PublicsIn(gss) : ~IsAt(AddressOf(s), seg, off)
    <3>1. At(a) = {}
      BY <2>2, <2>4
    <3> QED BY <2>4, <3>1 DEF found
  <2>5. CASE \E s \in PublicsIn(gss) : found = <<"found", s.at>> /\ IsAt(AddressOf(s), seg, off)
    <3>1. PICK s \in PublicsIn(gss) : found = <<"found", s.at>> /\ IsAt(AddressOf(s), seg, off)
      BY <2>5
    <3>2. s.at \in At(a)
      BY <2>2, <3>1
    <3>3. found # Err /\ found[1] = "found" /\ found[2] = s.at
      BY <3>1 DEF Err
    <3> QED BY <3>2, <3>3 DEF found
  <2> QED BY <2>3, <2>4, <2>5
<1> QED BY <1>3, <1>4

-----------------------------------------------------------------------------
(***************************************************************************)
(* The streams of symbols of the inputs that are checked.                  *)
(***************************************************************************)
(* Byte strings that are short.                                            *)
ShortBytes(k) == {b \in Seq(Octets) : Len(b) <= k}

LEMMA ShortJoin ==
  ASSUME NEW k \in Nat, NEW m \in Nat, NEW a \in ShortBytes(k), NEW c \in ShortBytes(m)
  PROVE  a \o c \in ShortBytes(k + m)
<1>1. a \o c \in Seq(Octets) /\ Len(a \o c) = Len(a) + Len(c)
  BY ConcatIs DEF ShortBytes
<1>2. Len(a) \in Nat /\ Len(c) \in Nat /\ Len(a) <= k /\ Len(c) <= m
  BY DEF ShortBytes
<1> QED BY <1>1, <1>2 DEF ShortBytes

LEMMA ShortNumbers ==
  ASSUME NEW w \in Word
  PROVE  PutU16(w) \in ShortBytes(2) /\ PutU32(w) \in ShortBytes(4)
<1>1. w \in Nat /\ w % 65536 = w /\ w \div 65536 = 0 /\ 0 \in Word
  BY DEF Word
<1>2. \A x \in Word : PutU16(x) \in ShortBytes(2)
  <2>1. ASSUME NEW x \in Word PROVE PutU16(x) \in ShortBytes(2)
    <3>1. PICK y : y = PutU16(x)
      OBVIOUS
    <3>2. y \in Seq(Octets) /\ Len(y) = 2
      BY <3>1, WordPut
    <3>3. Len(y) <= 2
      BY <3>2
    <3> QED BY <3>1, <3>2, <3>3 DEF ShortBytes
  <2> QED BY <2>1
<1>3. PutU32(w) = PutU16(w) \o PutU16(0)
  BY <1>1 DEF PutU32
<1>4. PutU16(w) \o PutU16(0) \in ShortBytes(2 + 2)
  BY <1>1, <1>2, ShortJoin
<1> QED BY <1>2, <1>3, <1>4

LEMMA ShortNames ==
  ASSUME NEW b \in ShortBytes(1)
  PROVE  PutStrz(b) \in ShortBytes(2)
<1>1. b \in Seq(Octets) /\ Len(b) <= 1 /\ Len(b) \in Nat /\ 0 \in Octets
  BY DEF ShortBytes, Octets
<1>2. Append(b, 0) \in Seq(Octets) /\ Len(Append(b, 0)) = Len(b) + 1
  BY <1>1
<1> QED BY <1>1, <1>2 DEF PutStrz, ShortBytes

(* A symbol of a few short fields is not too long for its record.          *)
LEMMA FewFields ==
  ASSUME NEW e, e.kind \in Word, e = [kind |-> e.kind, fields |-> e.fields],
         e.fields \in Seq(ShortBytes(100)), Len(e.fields) <= 4
  PROVE  e \in ShortSymbols
<1>1. PICK parts : parts = e.fields
  OBVIOUS
<1>2. parts \in Seq(ShortBytes(100)) /\ Len(parts) <= 4
  BY <1>1
<1>3. PICK n \in 0 .. 4 : n = Len(parts) /\ \A i \in 1 .. n : parts[i] \in ShortBytes(100)
  <2>1. Len(parts) \in Nat /\ \A i \in 1 .. Len(parts) : parts[i] \in ShortBytes(100)
    BY <1>2, LenProperties
  <2>2. PICK l \in Nat : l = Len(parts) /\ l <= 4
    BY <1>2, <2>1
  <2>3. l \in 0 .. 4
    BY <2>2
  <2> QED BY <2>1, <2>2, <2>3
<1>4. parts \in Seq(Seq(Octets))
  <2>1. DOMAIN parts = 1 .. n /\ \A i \in 1 .. n : parts[i] \in Seq(Octets)
    BY <1>2, <1>3, LenProperties DEF ShortBytes
  <2>2. parts \in [1 .. n -> Seq(Octets)]
    <3>1. parts \in [1 .. n -> ShortBytes(100)]
      BY <1>2, <1>3, LenProperties
    <3> QED BY <2>1, <3>1
  <2> QED BY <2>2, FunctionLen
<1>5. PICK P \in [0 .. n -> Seq(Octets)] :
        /\ P[0] = <<>>
        /\ \A i \in 1 .. n : P[i] = P[i - 1] \o parts[i]
        /\ FlattenSeq(parts) = P[n]
  BY <1>3, <1>4, FlattenPrefixes
<1> DEFINE B == {i \in 0 .. n : P[i] \in ShortBytes(100 * i)}
<1>6. 0 \in B
  BY <1>5 DEF ShortBytes
<1>7. ASSUME NEW i \in 1 .. n, i - 1 \in B PROVE i \in B
  <2>1. PICK j \in Nat : j = i - 1 /\ 100 * j + 100 = 100 * i /\ 100 * j \in Nat
    OBVIOUS
  <2>2. P[j] \in ShortBytes(100 * j)
    BY <1>7, <2>1
  <2>3. P[j] \o parts[i] \in ShortBytes(100 * j + 100)
    BY <1>3, <2>1, <2>2, ShortJoin
  <2>4. P[i] \in ShortBytes(100 * i)
    BY <1>5, <2>1, <2>3
  <2> QED BY <2>4
<1>8. n \in B
  <2>1. 0 .. n \subseteq B
    <3> HIDE DEF B
    <3> QED BY <1>6, <1>7, StepByStep
  <2> HIDE DEF B
  <2> QED BY <2>1
<1>9. Payload(e) \in ShortBytes(100 * n)
  BY <1>1, <1>5, <1>8 DEF Payload
<1>10. 2 + Len(Payload(e)) + 3 \in Word
  <2>1. Len(Payload(e)) \in Nat /\ Len(Payload(e)) <= 100 * n
    BY <1>9 DEF ShortBytes
  <2> QED BY <2>1 DEF Word
<1> QED BY <1>1, <1>4, <1>10 DEF ShortSymbols

LEMMA ShortPub ==
  ASSUME NEW a \in Word, NEW c \in Word, NEW d \in Word, NEW name \in ShortBytes(1)
  PROVE  PubPayload(a, c, d, name) \in ShortBytes(100)
<1>1. /\ PutU32(a) \in ShortBytes(4) /\ PutU32(c) \in ShortBytes(4)
      /\ PutU16(d) \in ShortBytes(2) /\ PutStrz(name) \in ShortBytes(2)
  BY ShortNumbers, ShortNames
<1>2. PutU32(a) \o PutU32(c) \in ShortBytes(4 + 4)
  BY <1>1, ShortJoin
<1>3. PutU32(a) \o PutU32(c) \o PutU16(d) \in ShortBytes(4 + 4 + 2)
  BY <1>1, <1>2, ShortJoin
<1>4. PutU32(a) \o PutU32(c) \o PutU16(d) \o PutStrz(name) \in ShortBytes(4 + 4 + 2 + 2)
  BY <1>1, <1>3, ShortJoin
<1>5. PubPayload(a, c, d, name) \in ShortBytes(12)
  BY <1>4 DEF PubPayload
<1> QED BY <1>5 DEF ShortBytes

LEMMA KindsAreWords ==
  /\ Kind.S_PUB32 \in Word /\ Kind.S_UDT \in Word /\ Kind.S_PROCREF \in Word
  /\ Kind.S_DATAREF \in Word /\ Kind.S_TOKENREF \in Word /\ Kind.S_END \in Word
BY DEF Kind, Word

(* The symbols of the inputs that are checked.                             *)
LEMMA InputSymbols ==
  ASSUME NEW g \in Globals
  PROVE  GlobalEntry(g) \in ShortSymbols
<1>1. /\ g.kind \in {Kind.S_PUB32, Kind.S_UDT, Kind.S_PROCREF, Kind.S_DATAREF,
                     Kind.S_TOKENREF, Kind.S_END}
      /\ g.name \in {<<97>>, <<65>>, <<98>>}
      /\ g.kind = Kind.S_PUB32 => g.address \in {<<1, 4>>, <<1, 8>>, <<2, 0>>}
  <2>1. Kind.S_PUB32 \notin {Kind.S_UDT, Kind.S_PROCREF, Kind.S_DATAREF, Kind.S_TOKENREF,
                            Kind.S_END}
    BY DEF Kind
  <2> QED BY <2>1 DEF Globals, Spellings, Addresses
<1>2. g.kind \in Word
  BY <1>1, KindsAreWords
<1>3. g.name \in ShortBytes(1)
  <2>1. 97 \in Octets /\ 65 \in Octets /\ 98 \in Octets
    BY DEF Octets
  <2>2. \A x \in Octets : <<x>> \in ShortBytes(1)
    BY DEF ShortBytes
  <2> QED BY <1>1, <2>1, <2>2
<1>4. PICK e : e = GlobalEntry(g)
  OBVIOUS
<1>5. e.kind = g.kind /\ e = [kind |-> e.kind, fields |-> e.fields]
  BY <1>4 DEF GlobalEntry
<1>6. \A n \in 0 .. 4 : n \in Word
  BY DEF Word
<1> DEFINE pub == PubPayload(2, g.address[2], g.address[1], g.name)
           udt == UdtPayload(116, g.name)
<1>7. e.fields = CASE g.kind = Kind.S_PUB32 -> <<pub>>
                   [] g.kind = Kind.S_UDT -> <<udt>>
                   [] g.kind = Kind.S_END -> <<>>
                   [] OTHER -> <<PutU32(0), PutU32(4), PutU16(1), PutStrz(g.name)>>
  BY <1>4 DEF GlobalEntry
<1> HIDE DEF pub, udt
<1>8. \A k \in 0 .. 100 : ShortBytes(k) \subseteq ShortBytes(100)
  BY DEF ShortBytes
<1>9. e.fields \in Seq(ShortBytes(100)) /\ Len(e.fields) <= 4
  <2>1. CASE g.kind = Kind.S_PUB32
    <3>1. g.address[1] \in Word /\ g.address[2] \in Word /\ 2 \in Word
      BY <1>1, <2>1 DEF Word
    <3>2. pub \in ShortBytes(100)
      BY <1>3, <3>1, ShortPub DEF pub
    <3>3. g.kind # Kind.S_UDT /\ g.kind # Kind.S_END
      BY <2>1 DEF Kind
    <3>4. e.fields = <<pub>>
      BY <1>7, <2>1, <3>3
    <3> QED BY <3>2, <3>4
  <2>2. CASE g.kind = Kind.S_UDT
    <3>1. 116 \in Word
      BY DEF Word
    <3>2. PutU32(116) \in ShortBytes(4) /\ PutStrz(g.name) \in ShortBytes(2)
      BY <1>3, <3>1, ShortNumbers, ShortNames
    <3>3. UdtPayload(116, g.name) \in ShortBytes(4 + 2)
      BY <3>2, ShortJoin DEF UdtPayload
    <3>4. udt \in ShortBytes(100)
      BY <1>8, <3>3 DEF udt
    <3>5. g.kind # Kind.S_PUB32 /\ g.kind # Kind.S_END
      BY <2>2 DEF Kind
    <3>6. e.fields = <<udt>>
      BY <1>7, <2>2, <3>5
    <3> QED BY <3>4, <3>6
  <2>3. CASE g.kind = Kind.S_END
    <3>1. g.kind # Kind.S_PUB32 /\ g.kind # Kind.S_UDT
      BY <2>3 DEF Kind
    <3>2. e.fields = <<>>
      BY <1>7, <2>3, <3>1
    <3> QED BY <3>2
  <2>4. CASE g.kind \notin {Kind.S_PUB32, Kind.S_UDT, Kind.S_END}
    <3>1. /\ PutU32(0) \in ShortBytes(4) /\ PutU32(4) \in ShortBytes(4)
          /\ PutU16(1) \in ShortBytes(2) /\ PutStrz(g.name) \in ShortBytes(2)
      BY <1>3, <1>6, ShortNumbers, ShortNames
    <3>2. PICK a \in ShortBytes(100), c \in ShortBytes(100), d \in ShortBytes(100), h \in ShortBytes(100) :
            a = PutU32(0) /\ c = PutU32(4) /\ d = PutU16(1) /\ h = PutStrz(g.name)
      BY <1>8, <3>1
    <3>3. e.fields = <<a, c, d, h>>
      BY <1>7, <2>4, <3>2
    <3> QED BY <3>3
  <2> QED BY <2>1, <2>2, <2>3, <2>4
<1>10. e \in ShortSymbols
  BY <1>2, <1>5, <1>9, FewFields
<1> QED BY <1>4, <1>10

(* globals: of the inputs that are checked, every global symbol but data   *)
(* and token references is found by its name, every public symbol by its   *)
(* very address, and nothing is found that is not there.                   *)
THEOREM SymbolsStayIndexed == Spec => []SymbolsIndexed
<1>1. InputInv => SymbolsIndexed
  <2> SUFFICES ASSUME InputInv, table = "globals", input # <<>>,
                      NEW x, x = input[1], NEW gss, gss = GssOf(x.symbols)
               PROVE  /\ GlobalsFound(gss, x.buckets, Spellings \cup {<<>>, <<66>>})
                      /\ PublicsFoundByAddress(gss, x.buckets, (0 .. 3) \X {0, 4, 6, 8})
    BY DEF SymbolsIndexed
  <2>1. x \in GlobalInputs
    BY DEF InputInv, InputsOf
  <2>2. x.symbols \in SeqOf(Globals, MaxSyms) /\ x.buckets \in Nat \ {0}
    BY <2>1 DEF GlobalInputs
  <2>3. PICK symbols \in Seq(Globals) : symbols = x.symbols
    BY <2>2, SeqOfIsSeq, BoundsAssumption
  <2>4. PICK n \in Nat : n = Len(symbols) /\ DOMAIN symbols = 1 .. n /\ \A i \in 1 .. n : symbols[i] \in Globals
    BY LenProperties
  <2> DEFINE entries == [i \in 1 .. n |-> GlobalEntry(symbols[i])]
  <2>5. entries \in Seq(ShortSymbols)
    <3>1. entries \in [1 .. n -> ShortSymbols]
      BY <2>4, InputSymbols
    <3> HIDE DEF entries
    <3> QED BY <3>1, FunctionLen
  <2>6. gss = Stream(entries)
    BY <2>3, <2>4 DEF GssOf
  <2> HIDE DEF entries
  <2>7. gss \in Seq(Octets)
    BY <2>5, <2>6, SymbolsWritten
  <2>8. Spellings \cup {<<>>, <<66>>} \subseteq Seq(Octets)
    <3>1. 97 \in Octets /\ 65 \in Octets /\ 98 \in Octets /\ 66 \in Octets
      BY DEF Octets
    <3>2. <<>> \in Seq(Octets) /\ \A y \in Octets : <<y>> \in Seq(Octets)
      OBVIOUS
    <3> QED BY <3>1, <3>2 DEF Spellings
  <2>9. (0 .. 3) \X {0, 4, 6, 8} \subseteq Int \X Int
    OBVIOUS
  <2> QED BY <2>2, <2>7, <2>8, <2>9, GlobalsAlwaysFound, PublicsAlwaysFound
<1> QED BY <1>1, InputInvariant, PTL
=============================================================================

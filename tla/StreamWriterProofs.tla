-------------------------- MODULE StreamWriterProofs --------------------------
(***************************************************************************)
(* Proof that a StreamWriter writes what it is given where it is given:    *)
(* for every page size, layout of the file, offset and length.             *)
(***************************************************************************)
EXTENDS StreamWriterInvariant, PageAllocatorProofs, SequenceTheorems, WellFoundedInduction

-----------------------------------------------------------------------------
(***************************************************************************)
(* Bytes and pages.                                                        *)
(***************************************************************************)
(* The offset at which the page in a slot begins.                          *)
Base(t) == PageSize * (t - 1)

(* A byte's offset is that of its page and its place on the page.          *)
LEMMA ByteAddress ==
  ASSUME NEW x \in Nat
  PROVE  /\ Slot(x) \in Nat \ {0} /\ Phase(x) \in 0 .. (PageSize - 1)
         /\ Base(Slot(x)) \in Nat /\ x = Base(Slot(x)) + Phase(x)
<1>1. PageSize \in Nat \ {0}
  BY PageSizeAssumption
<1>2. /\ x % PageSize \in 0 .. (PageSize - 1) /\ x \div PageSize \in Nat
      /\ x = PageSize * (x \div PageSize) + (x % PageSize)
  BY <1>1, DivMod
<1>3. Slot(x) - 1 = x \div PageSize /\ Slot(x) \in Nat \ {0}
  BY <1>2 DEF Slot
<1>4. PageSize * (x \div PageSize) \in Nat
  BY <1>1, <1>2
<1>5. Base(Slot(x)) = PageSize * (x \div PageSize)
  BY <1>3 DEF Base
<1> QED BY <1>2, <1>3, <1>4, <1>5 DEF Phase

(* A slot and an offset in its page determine the byte, and the other way. *)
LEMMA SlotUnique ==
  ASSUME NEW x \in Nat, NEW t \in Nat \ {0}, NEW r \in 0 .. (PageSize - 1),
         x = Base(t) + r
  PROVE  Slot(x) = t /\ Phase(x) = r
<1> DEFINE k == t - 1
<1>1. PageSize \in Nat \ {0} /\ k \in Nat /\ x = PageSize * k + r
  BY PageSizeAssumption DEF Base
<1> HIDE DEF k
<1>2. x % PageSize = r /\ x \div PageSize = k
  BY <1>1, DivModUnique, ZenonT(30)
<1> QED BY <1>2 DEF Slot, Phase, k

(* Slots begin a page size apart.                                          *)
LEMMA BaseAfter ==
  ASSUME NEW t \in Nat \ {0}, NEW k \in Nat
  PROVE  /\ Base(t + k) = Base(t) + k * PageSize
         /\ Base(t) \in Nat /\ k * PageSize \in Nat /\ (k >= 1 => k * PageSize >= PageSize)
<1>1. PageSize \in Nat \ {0}
  BY PageSizeAssumption
<1>2. PageSize * (t + k - 1) = PageSize * (t - 1) + k * PageSize
  BY <1>1
<1>3. k >= 1 => k * PageSize >= PageSize
  <2>1. k >= 1 => k * PageSize = PageSize + (k - 1) * PageSize
    BY <1>1
  <2>2. k >= 1 => (k - 1) * PageSize >= 0
    BY <1>1
  <2>3. k * PageSize \in Nat /\ (k - 1) * PageSize \in Int
    BY <1>1
  <2> QED BY <1>1, <2>1, <2>2, <2>3
<1>4. PageSize * (t - 1) \in Nat /\ k * PageSize \in Nat
  BY <1>1
<1> QED BY <1>2, <1>3, <1>4 DEF Base

(* A page ends before the next one begins.                                 *)
LEMMA BaseOrder ==
  ASSUME NEW t \in Nat \ {0}, NEW u \in Nat \ {0}
  PROVE  /\ Base(t) \in Nat /\ Base(u) \in Nat
         /\ t < u => Base(t) + PageSize <= Base(u)
<1>1. Base(t) \in Nat /\ Base(u) \in Nat
  BY BaseAfter, PageSizeAssumption DEF Base
<1>2. ASSUME t < u PROVE Base(t) + PageSize <= Base(u)
  <2> DEFINE k == u - t
  <2>1. k \in Nat /\ k >= 1 /\ t + k = u
    BY <1>2
  <2> HIDE DEF k
  <2>2. Base(u) = Base(t) + k * PageSize /\ k * PageSize >= PageSize /\ k * PageSize \in Nat
    BY <2>1, BaseAfter
  <2> QED BY <1>1, <2>2, PageSizeAssumption
<1> QED BY <1>1, <1>2

(* The byte at x is on a page before u exactly if x is before its start.   *)
LEMMA BeforeSlot ==
  ASSUME NEW x \in Nat, NEW u \in Nat \ {0}
  PROVE  /\ Slot(x) < u <=> x < Base(u)
         /\ Slot(x) >= u => x - Base(u) >= Phase(x)
         /\ Slot(x) = u <=> x >= Base(u) /\ x < Base(u) + PageSize
         /\ Base(u) \in Nat
<1> DEFINE t == Slot(x)
           r == Phase(x)
<1>1. t \in Nat \ {0} /\ r \in 0 .. (PageSize - 1) /\ Base(t) \in Nat /\ x = Base(t) + r
  BY ByteAddress
<1> HIDE DEF t, r
<1>2. Base(u) \in Nat /\ (t < u => Base(t) + PageSize <= Base(u))
      /\ (u < t => Base(u) + PageSize <= Base(t))
  BY <1>1, BaseOrder
<1>3. (t < u <=> x < Base(u)) /\ (t >= u => x - Base(u) >= r)
      /\ (t = u <=> x >= Base(u) /\ x < Base(u) + PageSize)
  BY <1>1, <1>2, PageSizeAssumption
<1> QED BY <1>2, <1>3 DEF t, r

(* How many pages n bytes take.                                            *)
LEMMA PagesNeeded ==
  ASSUME NEW n \in Nat, NEW c \in Nat
  PROVE  /\ PageCount(n) \in Nat
         /\ Base(c + 1) \in Nat
         /\ PageCount(n) = c <=> n <= Base(c + 1) /\ (c = 0 \/ n > Base(c))
<1> DEFINE x == n + PageSize - 1
           q == x \div PageSize
           r == x % PageSize
<1>1. PageSize \in Nat \ {0} /\ x \in Nat /\ PageCount(n) = q
  BY PageSizeAssumption DEF PageCount, CeilDiv
<1> HIDE DEF x
<1>2. q \in Nat /\ r \in 0 .. (PageSize - 1) /\ x = PageSize * q + r
  BY <1>1, DivMod
<1>3. x = n + PageSize - 1
  BY DEF x
<1> HIDE DEF q, r
<1>4. PageSize * q \in Nat /\ Base(q + 1) = PageSize * q /\ Base(c + 1) = PageSize * c
      /\ PageSize * c \in Nat
  BY <1>1, <1>2 DEF Base
<1>5. ASSUME q = c PROVE n <= Base(c + 1) /\ (c = 0 \/ n > Base(c))
  <2>1. n <= Base(c + 1)
    BY <1>1, <1>2, <1>3, <1>4, <1>5
  <2>2. ASSUME c # 0 PROVE n > Base(c)
    <3>1. Base(c + 1) = Base(c) + PageSize /\ Base(c) \in Nat
      <4>1. c \in Nat \ {0} /\ 1 \in Nat
        BY <2>2
      <4>2. Base(c + 1) = Base(c) + 1 * PageSize /\ Base(c) \in Nat
        BY <4>1, BaseAfter
      <4> QED BY <4>2, <1>1
    <3> QED BY <1>1, <1>2, <1>3, <1>4, <1>5, <3>1
  <2> QED BY <2>1, <2>2
<1>6. ASSUME n <= Base(c + 1), c = 0 \/ n > Base(c) PROVE q = c
  <2>1. CASE c = 0
    <3>1. n = 0
      BY <1>1, <1>4, <1>6, <2>1
    <3>2. x = PageSize * 0 + (PageSize - 1)
      BY <1>1, <1>3, <3>1
    <3> QED BY <1>1, <2>1, <3>2, DivModUnique DEF q
  <2>2. CASE c # 0
    <3> DEFINE d == n - Base(c) - 1
    <3>1. Base(c + 1) = Base(c) + PageSize /\ Base(c) \in Nat
      <4>1. c \in Nat \ {0} /\ 1 \in Nat
        BY <2>2
      <4>2. Base(c + 1) = Base(c) + 1 * PageSize /\ Base(c) \in Nat
        BY <4>1, BaseAfter
      <4> QED BY <4>2, <1>1
    <3>2. d \in 0 .. (PageSize - 1) /\ x = PageSize * c + d
      BY <1>1, <1>3, <1>4, <1>6, <2>2, <3>1
    <3> HIDE DEF d
    <3> QED BY <1>1, <3>2, DivModUnique DEF q
  <2> QED BY <2>1, <2>2
<1> QED BY <1>1, <1>2, <1>4, <1>5, <1>6

-----------------------------------------------------------------------------
(***************************************************************************)
(* What the writes do to the pages of the stream.                          *)
(***************************************************************************)
(* The bytes of the stream on the pages in other slots stay.               *)
OthersKept(slot) ==
  \A t \in DOMAIN pages : t # slot => file'[pages'[t]] = file[pages[t]]

(* A page takes the place of another: it was no page of the stream.        *)
LEMMA PageReplaced ==
  ASSUME Storage, NEW slot \in DOMAIN pages, NEW p \in DOMAIN file,
         ReplacePage(pages[slot], p), pages' = [pages EXCEPT ![slot] = p],
         DOMAIN file' = DOMAIN file, \A q \in DOMAIN file : q # p => file'[q] = file[q],
         file'[p] = [j \in 1 .. PageSize |-> file'[p][j]]
  PROVE  /\ Storage' /\ Len(pages') = Len(pages) /\ DOMAIN pages' = DOMAIN pages
         /\ pages'[slot] = p /\ OthersKept(slot)
<1> DEFINE old == pages[slot]
<1>1. /\ AllocatorTyped /\ AllocatorConsistent /\ p \in Nat /\ MaxPages \in Nat
      /\ DOMAIN file = 0 .. (MaxPages - 1) /\ pages \in Seq(DOMAIN file)
      /\ Len(pages) \in Nat /\ DOMAIN pages = 1 .. Len(pages)
  BY MaxPagesAssumption DEF Storage, AllocatorTyped
<1>2. /\ AllocPages(1, p, 1) /\ freed' = freed \cup {old}
  BY DEF ReplacePage
<1>3. \A t \in DOMAIN pages :
        /\ pages[t] \in DOMAIN file /\ pages[t] \in Nat /\ pages[t] < numPages
        /\ ~IsSpecialPage(pages[t]) /\ pages[t] \notin free \cup freed
        /\ t # slot => pages[t] # old
  BY <1>1 DEF Storage, PagesOwned
<1>4. numPages \in Nat
  BY <1>1 DEF AllocatorTyped
<1> HIDE DEF old
<1>5. /\ AllocatorTyped' /\ AllocatorConsistent'
      /\ numPages' \in numPages .. MaxPages /\ free' \subseteq free
      /\ p < numPages' /\ ~IsSpecialPage(p) /\ (p \in free \/ p >= numPages)
      /\ p \notin free' /\ p \notin freed
  <2> DEFINE n == 1
             gone == {old}
  <2>1. n \in Nat \ {0} /\ n \in Nat /\ AllocPages(n, p, n) /\ p \in Pages(p, n)
    BY <1>1, <1>2 DEF Pages
  <2>2. /\ freed' = freed \cup gone /\ gone \cap free = {}
        /\ \A q \in gone : q \in Nat /\ q < numPages /\ ~IsSpecialPage(q)
    BY <1>2, <1>3 DEF old
  <2> HIDE DEF n, gone
  <2>3. AllocatorTyped' /\ AllocatorConsistent'
    BY <1>1, <2>1, <2>2, AllocPagesConsistent
  <2>4. /\ numPages' \in numPages .. MaxPages /\ free' \subseteq free
        /\ p < numPages' /\ ~IsSpecialPage(p) /\ (p \in free \/ p >= numPages)
        /\ p \notin free' /\ p \notin freed
    BY <1>1, <2>1, AllocPagesEffect
  <2> QED BY <2>3, <2>4
<1>6. \A t \in DOMAIN pages : pages[t] # p
  BY <1>3, <1>4, <1>5
<1>7. /\ DOMAIN pages' = DOMAIN pages /\ pages'[slot] = p
      /\ \A t \in DOMAIN pages : t # slot => pages'[t] = pages[t]
      /\ pages' \in Seq(DOMAIN file) /\ Len(pages') = Len(pages)
  BY <1>1, ExceptSeq
<1>8. PagesOwned'
  <2>1. ASSUME NEW i \in DOMAIN pages, NEW j \in DOMAIN pages, pages'[i] = pages'[j]
        PROVE  i = j
    BY <1>6, <1>7, <2>1 DEF Storage, PagesOwned
  <2>2. ASSUME NEW i \in DOMAIN pages
        PROVE  pages'[i] < numPages' /\ ~IsSpecialPage(pages'[i])
               /\ pages'[i] \notin free' \cup freed'
    <3>1. CASE i = slot
      <4>1. p # old
        BY <1>6 DEF old
      <4> QED BY <1>2, <1>5, <1>7, <3>1, <4>1
    <3>2. CASE i # slot
      <4>1. pages'[i] = pages[i] /\ pages[i] # old
        BY <1>3, <1>7, <3>2
      <4>2. pages[i] < numPages'
        BY <1>1, <1>3, <1>4, <1>5
      <4> QED BY <1>2, <1>3, <1>5, <4>1, <4>2
    <3> QED BY <3>1, <3>2
  <2> QED BY <1>7, <2>1, <2>2 DEF PagesOwned, IsSpecialPage, IsFpmPage, Phase
<1>9. \A t \in DOMAIN pages : t # slot => file'[pages'[t]] = file[pages[t]]
  BY <1>3, <1>6, <1>7
<1>10. \A q \in DOMAIN file' : file'[q] = [j \in 1 .. PageSize |-> file'[q][j]]
  <2> TAKE q \in DOMAIN file'
  <2>1. CASE q = p
    BY <2>1
  <2>2. CASE q # p
    BY <2>2 DEF Storage
  <2> QED BY <2>1, <2>2
<1>11. Storage'
  BY <1>1, <1>5, <1>7, <1>8, <1>10 DEF Storage, AllocatorTyped
<1> QED BY <1>7, <1>9, <1>11 DEF OthersKept

(* Products of numbers in order.                                           *)
LEMMA ProductOrder ==
  ASSUME NEW a \in Int, NEW k \in Nat, NEW b \in Nat
  PROVE  /\ a * b \in Int /\ k * b \in Nat
         /\ a < 0 => a * b <= -b
         /\ a >= k => a * b >= k * b
<1>1. a * b \in Int /\ k * b \in Nat
  OBVIOUS
<1>2. ASSUME a < 0 PROVE a * b <= -b
  <2> DEFINE c == -a - 1
  <2>1. c \in Nat /\ c * b \in Nat
    BY <1>2
  <2>2. a * b = -b - c * b
    OBVIOUS
  <2> HIDE DEF c
  <2> QED BY <1>1, <2>1, <2>2
<1>3. ASSUME a >= k PROVE a * b >= k * b
  <2> DEFINE c == a - k
  <2>1. c \in Nat /\ c * b \in Nat
    BY <1>3
  <2>2. a * b = k * b + c * b
    OBVIOUS
  <2> HIDE DEF c
  <2> QED BY <1>1, <2>1, <2>2
<1> QED BY <1>1, <1>2, <1>3

(* A write of w bytes to k adjacent pages, g being the file after it.      *)
PagesTyped(f) ==
  \A q \in DOMAIN f : q \in Nat /\ f[q] = [j \in 1 .. PageSize |-> f[q][j]]

RunIn(g, f, first, data, w) ==
  \A q \in DOMAIN f :
    /\ g[q] = [j \in 1 .. PageSize |-> g[q][j]]
    /\ \A j \in 1 .. PageSize :
         g[q][j] = IF (q - first) * PageSize + j \in 1 .. w
                     THEN data[(q - first) * PageSize + j] ELSE f[q][j]

RunFrom(g, f, first, k, data, w) ==
  /\ \A q \in DOMAIN f : q \notin Pages(first, k) => g[q] = f[q]
  /\ \A m \in 1 .. k : first + m - 1 \in DOMAIN f =>
       \A j \in 1 .. PageSize : (m - 1) * PageSize + j <= w =>
         g[first + m - 1][j] = data[(m - 1) * PageSize + j]

(* The run of k pages from `first` holds the first w bytes of the data.    *)
LEMMA RunBytes ==
  ASSUME NEW f, PagesTyped(f), NEW first \in Nat, NEW k \in Nat, NEW data,
         NEW w \in 0 .. (k * PageSize), NEW g, RunIn(g, f, first, data, w)
  PROVE  RunFrom(g, f, first, k, data, w)
<1> USE DEF PagesTyped, RunIn
<1>1. PageSize \in Nat
  BY PageSizeAssumption
<1>2. ASSUME NEW q \in DOMAIN f, q \notin Pages(first, k) PROVE g[q] = f[q]
  <2>1. q - first \in Int /\ (q - first < 0 \/ q - first >= k)
    BY <1>2 DEF Pages
  <2> DEFINE a == q - first
  <2>2. a * PageSize \in Int /\ (a * PageSize <= -PageSize \/ a * PageSize >= k * PageSize)
    BY <1>1, <2>1, ProductOrder
  <2>3. k * PageSize \in Nat
    BY <1>1
  <2>4. \A j \in 1 .. PageSize : a * PageSize + j \notin 1 .. w
    BY <1>1, <2>2, <2>3
  <2>5. \A j \in 1 .. PageSize : g[q][j] = f[q][j]
    BY <2>4
  <2>6. g[q] = [j \in 1 .. PageSize |-> g[q][j]] /\ f[q] = [j \in 1 .. PageSize |-> f[q][j]]
    OBVIOUS
  <2> QED BY ONLY <2>5, <2>6
<1>3. ASSUME NEW m \in 1 .. k, first + m - 1 \in DOMAIN f,
             NEW j \in 1 .. PageSize, (m - 1) * PageSize + j <= w
      PROVE  g[first + m - 1][j] = data[(m - 1) * PageSize + j]
  <2> DEFINE q == first + m - 1
             a == m - 1
             o == a * PageSize + j
  <2>1. q - first = a /\ a \in Nat /\ a * PageSize \in Nat
    BY <1>1
  <2>2. o \in 1 .. w
    <3> DEFINE b == a * PageSize
               c == k * PageSize
    <3>1. b \in Nat /\ c \in Nat /\ w \in 0 .. c /\ b + j <= w
      BY <1>1, <1>3, <2>1
    <3> HIDE DEF b, c
    <3> QED BY <3>1 DEF b
  <2>3. g[q][j] = IF (q - first) * PageSize + j \in 1 .. w
                    THEN data[(q - first) * PageSize + j] ELSE f[q][j]
    BY <1>3
  <2> QED BY <2>1, <2>2, <2>3
<1> QED BY <1>2, <1>3 DEF RunFrom

(* New pages at the end of the stream, of which w bytes are written.       *)
LEMMA PagesAdded ==
  ASSUME Storage, NEW n \in Nat \ {0}, NEW p \in DOMAIN file, NEW k \in DOMAIN file,
         AddPages(n, p, k), NEW data, NEW w \in 0 .. (k * PageSize), WriteRun(p, data, w)
  PROVE  /\ Storage' /\ k \in 1 .. n /\ Len(pages') = Len(pages) + k
         /\ Len(pages) \in Nat /\ DOMAIN pages = 1 .. Len(pages)
         /\ DOMAIN pages' = 1 .. (Len(pages) + k)
         /\ \A t \in DOMAIN pages : file'[pages'[t]] = file[pages[t]]
         /\ \A m \in 1 .. k : \A j \in 1 .. PageSize : (m - 1) * PageSize + j <= w =>
              file'[pages'[Len(pages) + m]][j] = data[(m - 1) * PageSize + j]
<1> DEFINE Q == [i \in 1 .. k |-> p + i - 1]
           L == Len(pages)
<1>1. /\ AllocatorTyped /\ AllocatorConsistent /\ p \in Nat /\ k \in Nat
      /\ MaxPages \in Nat /\ DOMAIN file = 0 .. (MaxPages - 1)
      /\ pages \in Seq(DOMAIN file) /\ L \in Nat /\ DOMAIN pages = 1 .. L
  BY MaxPagesAssumption DEF Storage, AllocatorTyped
<1>2. /\ AllocPages(n, p, k) /\ pages' = pages \o Q /\ freed' = freed
  BY DEF AddPages
<1>3. /\ k # 0 /\ numPages' \in numPages .. MaxPages /\ free' \subseteq free
      /\ \A q \in Pages(p, k) :
           /\ q \in Nat /\ q < numPages' /\ ~IsSpecialPage(q)
           /\ q \in free \/ q >= numPages
           /\ q \notin free' /\ q \notin freed
      /\ numPages \in Nat
  BY <1>1, <1>2, AllocPagesEffect DEF AllocatorTyped
<1>4. k \in 1 .. n
  BY <1>1, <1>2, <1>3 DEF AllocPages, FreeRun, GrownRun
<1>5. AllocatorTyped' /\ AllocatorConsistent'
  <2> DEFINE gone == {}
  <2>1. /\ freed' = freed \cup gone /\ gone \cap free = {}
        /\ \A q \in gone : q \in Nat /\ q < numPages /\ ~IsSpecialPage(q)
    BY <1>2
  <2> HIDE DEF gone
  <2> QED BY <1>1, <1>2, <2>1, AllocPagesConsistent
<1>6. \A q \in Pages(p, k) : q \in DOMAIN file
  <2> TAKE q \in Pages(p, k)
  <2> DEFINE v == numPages'
  <2>1. q \in Nat /\ q < v /\ v \in numPages .. MaxPages /\ numPages \in Nat
    BY <1>3
  <2> HIDE DEF v
  <2>2. q \in 0 .. (MaxPages - 1)
    BY ONLY <1>1, <2>1
  <2> QED BY <1>1, <2>2
<1>7. /\ Q \in Seq(DOMAIN file) /\ Len(Q) = k
      /\ \A m \in 1 .. k : Q[m] = p + m - 1 /\ Q[m] \in Pages(p, k)
  <2>1. \A m \in 1 .. k : p + m - 1 \in Pages(p, k)
    BY <1>1 DEF Pages
  <2>2. Q \in [1 .. k -> DOMAIN file]
    BY <1>6, <2>1
  <2>3. Q \in Seq(DOMAIN file)
    BY <1>1, <2>2, SeqDef
  <2>4. Len(Q) = k
    BY <1>1, <2>2, <2>3, LenProperties
  <2> QED BY <2>1, <2>3, <2>4
<1> HIDE DEF Q, L
<1>8. /\ pages' \in Seq(DOMAIN file) /\ Len(pages') = L + k /\ DOMAIN pages' = 1 .. (L + k)
      /\ \A t \in 1 .. L : pages'[t] = pages[t]
      /\ \A m \in 1 .. k : pages'[L + m] = p + m - 1 /\ pages'[L + m] \in Pages(p, k)
  <2>1. /\ pages' \in Seq(DOMAIN file) /\ Len(pages') = L + k
        /\ \A i \in 1 .. (L + k) : pages'[i] = IF i <= L THEN pages[i] ELSE Q[i - L]
    BY <1>1, <1>2, <1>7, ConcatProperties DEF L
  <2>2. DOMAIN pages' = 1 .. (L + k)
    BY <2>1
  <2>3. ASSUME NEW t \in 1 .. L PROVE pages'[t] = pages[t]
    <3>1. t \in 1 .. (L + k) /\ t <= L
      BY <1>1
    <3> QED BY <2>1, <3>1
  <2>4. ASSUME NEW m \in 1 .. k PROVE pages'[L + m] = Q[m]
    <3>1. L + m \in 1 .. (L + k) /\ ~(L + m <= L) /\ (L + m) - L = m
      BY <1>1
    <3> QED BY <2>1, <3>1
  <2> QED BY <1>7, <2>1, <2>2, <2>3, <2>4
<1>9. \A t \in 1 .. L :
        /\ pages[t] \in DOMAIN file /\ pages[t] \in Nat /\ pages[t] < numPages
        /\ ~IsSpecialPage(pages[t]) /\ pages[t] \notin free \cup freed
        /\ pages[t] \notin Pages(p, k)
  <2> TAKE t \in 1 .. L
  <2>1. pages[t] \in DOMAIN file /\ pages[t] \in Nat
    BY <1>1, ElementOfSeq DEF L
  <2>2. /\ pages[t] < numPages /\ ~IsSpecialPage(pages[t])
        /\ pages[t] \notin free \cup freed
    BY <1>1 DEF Storage, PagesOwned
  <2>3. pages[t] \notin Pages(p, k)
    BY <1>3, <2>1, <2>2
  <2> QED BY <2>1, <2>2, <2>3
<1>10. /\ DOMAIN file' = DOMAIN file
       /\ \A q \in DOMAIN file : file'[q] = [j \in 1 .. PageSize |-> file'[q][j]]
       /\ \A q \in DOMAIN file : q \notin Pages(p, k) => file'[q] = file[q]
       /\ \A m \in 1 .. k : p + m - 1 \in DOMAIN file =>
            \A j \in 1 .. PageSize : (m - 1) * PageSize + j <= w =>
              file'[p + m - 1][j] = data[(m - 1) * PageSize + j]
  <2> DEFINE f == file
             g == file'
  <2>1. PagesTyped(f)
    <3>1. \A q \in DOMAIN file : file[q] = [j \in 1 .. PageSize |-> file[q][j]]
      BY DEF Storage
    <3>2. DOMAIN file \subseteq Nat
      BY <1>1
    <3> QED BY <3>1, <3>2 DEF PagesTyped
  <2>2. /\ DOMAIN g = DOMAIN f
        /\ \A q \in DOMAIN f : g[q] = [j \in 1 .. PageSize |-> g[q][j]]
        /\ RunIn(g, f, p, data, w)
    BY DEF WriteRun, RunIn
  <2> HIDE DEF f, g
  <2>3. RunFrom(g, f, p, k, data, w)
    BY <1>1, <2>1, <2>2, RunBytes
  <2> QED BY <2>2, <2>3 DEF f, g, RunFrom
<1>11. PagesOwned'
  <2>1. ASSUME NEW i \in 1 .. (L + k), NEW j \in 1 .. (L + k), pages'[i] = pages'[j]
        PROVE  i = j
    <3>1. \A x \in 1 .. (L + k) :
            \/ x \in 1 .. L /\ pages'[x] = pages[x] /\ pages'[x] \notin Pages(p, k)
            \/ x = L + (x - L) /\ x - L \in 1 .. k /\ x \notin 1 .. L
               /\ pages'[x] = p + (x - L) - 1 /\ pages'[x] \in Pages(p, k)
      <4> TAKE x \in 1 .. (L + k)
      <4>1. CASE x \in 1 .. L
        BY <1>8, <1>9, <4>1
      <4>2. CASE x \notin 1 .. L
        <5> DEFINE m == x - L
        <5>1. m \in 1 .. k /\ x = L + m
          BY <1>1, <4>2
        <5> HIDE DEF m
        <5>2. pages'[L + m] = p + m - 1 /\ pages'[L + m] \in Pages(p, k)
          BY <1>8, <5>1
        <5> QED BY <4>2, <5>1, <5>2 DEF m
      <4> QED BY <4>1, <4>2
    <3>2. CASE i \in 1 .. L
      <4>1. j \in 1 .. L /\ pages[i] = pages[j]
        BY <2>1, <3>1, <3>2
      <4> QED BY <1>1, <3>2, <4>1 DEF Storage, PagesOwned
    <3>3. CASE i \notin 1 .. L
      <4>1. j \notin 1 .. L /\ pages'[i] = p + (i - L) - 1 /\ pages'[j] = p + (j - L) - 1
        BY <2>1, <3>1, <3>3
      <4>2. p + (i - L) - 1 = p + (j - L) - 1
        BY <2>1, <4>1
      <4>3. L \in Nat /\ k \in Nat /\ p \in Nat
        BY <1>1
      <4>4. i \in Nat /\ j \in Nat
        BY <2>1, <4>3
      <4> QED BY ONLY <4>2, <4>3, <4>4
    <3> QED BY <3>2, <3>3
  <2>2. ASSUME NEW i \in 1 .. (L + k)
        PROVE  pages'[i] < numPages' /\ ~IsSpecialPage(pages'[i])
               /\ pages'[i] \notin free' \cup freed'
    <3>1. CASE i \in 1 .. L
      <4>1. pages'[i] = pages[i]
        BY <1>8, <3>1
      <4>2. pages[i] < numPages'
        BY <1>1, <1>3, <1>9, <3>1
      <4> QED BY <1>2, <1>3, <1>9, <3>1, <4>1, <4>2
    <3>2. CASE i \notin 1 .. L
      <4> DEFINE m == i - L
      <4>1. m \in 1 .. k /\ i = L + m
        BY <1>1, <3>2
      <4> HIDE DEF m
      <4>2. pages'[i] \in Pages(p, k)
        BY <1>8, <4>1
      <4> QED BY <1>2, <1>3, <4>2
    <3> QED BY <3>1, <3>2
  <2> QED BY <1>8, <2>1, <2>2 DEF PagesOwned, IsSpecialPage, IsFpmPage, Phase
<1>12. Storage'
  BY <1>1, <1>5, <1>8, <1>10, <1>11 DEF Storage, AllocatorTyped
<1>13. \A t \in 1 .. L : file'[pages'[t]] = file[pages[t]]
  BY <1>8, <1>9, <1>10
<1>14. ASSUME NEW m \in 1 .. k, NEW j \in 1 .. PageSize, (m - 1) * PageSize + j <= w
       PROVE  file'[pages'[L + m]][j] = data[(m - 1) * PageSize + j]
  <2>1. pages'[L + m] = p + m - 1 /\ p + m - 1 \in DOMAIN file
    BY <1>6, <1>8
  <2> QED BY <1>10, <1>14, <2>1
<1> QED BY <1>1, <1>4, <1>8, <1>12, <1>13, <1>14 DEF L

(* The k pages from `slot` on are adjacent in the file.                    *)
Adjacent(slot, k) == \A i \in 1 .. (k - 1) : pages[slot + i] = pages[slot] + i

(* They hold the first w bytes of data, and the other pages what they held. *)
RunInPlace(slot, k, data, w) ==
  /\ \A t \in DOMAIN pages : t < slot \/ t >= slot + k =>
       file'[pages[t]] = file[pages[t]]
  /\ \A m \in 1 .. k : \A j \in 1 .. PageSize : (m - 1) * PageSize + j <= w =>
       file'[pages[slot + m - 1]][j] = data[(m - 1) * PageSize + j]

(* A run of adjacent pages of the stream is written in place.              *)
LEMMA RunOverwritten ==
  ASSUME Storage, UNCHANGED <<allocVars, pages>>,
         NEW slot \in Nat \ {0}, NEW k \in Nat \ {0}, slot + k - 1 <= Len(pages),
         Adjacent(slot, k),
         NEW data, NEW w \in 0 .. (k * PageSize), WriteRun(pages[slot], data, w)
  PROVE  /\ Storage' /\ Len(pages) \in Nat /\ DOMAIN pages = 1 .. Len(pages)
         /\ RunInPlace(slot, k, data, w)
<1> DEFINE L == Len(pages)
           p == pages[slot]
<1>1. /\ pages \in Seq(DOMAIN file) /\ L \in Nat /\ DOMAIN pages = 1 .. L
      /\ DOMAIN file \subseteq Nat
  BY MaxPagesAssumption DEF Storage
<1>2. \A t \in 1 .. L : pages[t] \in DOMAIN file /\ pages[t] \in Nat
  BY <1>1, ElementOfSeq DEF L
<1>3. \A m \in 1 .. k : slot + m - 1 \in 1 .. L /\ pages[slot + m - 1] = p + m - 1
  <2> TAKE m \in 1 .. k
  <2>1. slot + m - 1 \in 1 .. L
    BY <1>1 DEF L
  <2>2. CASE m = 1
    <3>1. slot + m - 1 = slot /\ slot \in 1 .. L
      BY <1>1, <2>1, <2>2
    <3>2. pages[slot] \in Nat
      BY <1>2, <3>1
    <3> QED BY <2>1, <2>2, <3>1, <3>2
  <2>3. CASE m # 1
    <3> DEFINE i == m - 1
    <3>1. i \in 1 .. (k - 1) /\ slot + m - 1 = slot + i
      BY <2>3
    <3>2. pages[slot + i] = p + i
      BY <3>1 DEF Adjacent
    <3>3. p \in Nat
      BY <1>1, <1>2
    <3> QED BY <2>1, <3>1, <3>2, <3>3
  <2> QED BY <2>2, <2>3
<1>4. p \in Nat /\ slot \in 1 .. L
  BY <1>1, <1>2 DEF L
<1> HIDE DEF L, p
<1>5. \A t \in 1 .. L : t < slot \/ t >= slot + k => pages[t] \notin Pages(p, k)
  <2> TAKE t \in 1 .. L
  <2>1. ASSUME pages[t] \in Pages(p, k) PROVE t >= slot /\ t < slot + k
    <3> DEFINE m == pages[t] - p + 1
    <3>1. m \in 1 .. k /\ pages[t] = p + m - 1
      <4>1. pages[t] \in Nat
        BY <1>2
      <4> QED BY ONLY <1>4, <2>1, <4>1, k \in Nat \ {0} DEF Pages
    <3> HIDE DEF m
    <3>2. slot + m - 1 \in 1 .. L /\ pages[slot + m - 1] = pages[t]
      BY <1>3, <3>1
    <3>3. t = slot + m - 1
      BY <1>1, <3>2 DEF Storage, PagesOwned
    <3> QED BY <3>1, <3>3
  <2> QED BY <1>1, <2>1
<1>6. /\ DOMAIN file' = DOMAIN file
      /\ \A q \in DOMAIN file : file'[q] = [j \in 1 .. PageSize |-> file'[q][j]]
      /\ \A q \in DOMAIN file : q \notin Pages(p, k) => file'[q] = file[q]
      /\ \A m \in 1 .. k : p + m - 1 \in DOMAIN file =>
           \A j \in 1 .. PageSize : (m - 1) * PageSize + j <= w =>
             file'[p + m - 1][j] = data[(m - 1) * PageSize + j]
  <2> DEFINE f == file
             g == file'
  <2>1. PagesTyped(f)
    <3>1. \A q \in DOMAIN file : file[q] = [j \in 1 .. PageSize |-> file[q][j]]
      BY DEF Storage
    <3>2. DOMAIN file \subseteq Nat
      BY <1>1
    <3> QED BY <3>1, <3>2 DEF PagesTyped
  <2>2. /\ DOMAIN g = DOMAIN f
        /\ \A q \in DOMAIN f : g[q] = [j \in 1 .. PageSize |-> g[q][j]]
        /\ RunIn(g, f, p, data, w)
    BY DEF WriteRun, RunIn, p
  <2> HIDE DEF f, g
  <2>3. RunFrom(g, f, p, k, data, w)
    BY <1>4, <2>1, <2>2, RunBytes
  <2> QED BY <2>2, <2>3 DEF f, g, RunFrom
<1>7. Storage'
  BY <1>6 DEF Storage, allocVars, AllocatorConsistent, PagesOwned, IsSpecialPage,
              IsFpmPage, Phase
<1>8. \A t \in DOMAIN pages : t < slot \/ t >= slot + k =>
        file'[pages[t]] = file[pages[t]]
  BY <1>1, <1>2, <1>5, <1>6
<1>9. ASSUME NEW m \in 1 .. k, NEW j \in 1 .. PageSize, (m - 1) * PageSize + j <= w
      PROVE  file'[pages[slot + m - 1]][j] = data[(m - 1) * PageSize + j]
  <2>1. pages[slot + m - 1] = p + m - 1 /\ p + m - 1 \in DOMAIN file
    BY <1>2, <1>3
  <2> QED BY <1>6, <1>9, <2>1
<1> QED BY <1>1, <1>7, <1>8, <1>9 DEF L, RunInPlace

-----------------------------------------------------------------------------
(***************************************************************************)
(* Sequences of bytes.                                                     *)
(***************************************************************************)
(* A function on 1 .. n is a sequence of length n.                         *)
LEMMA FunctionLen ==
  ASSUME NEW n \in Nat, NEW F, F = [i \in 1 .. n |-> F[i]]
  PROVE  Len(F) = n /\ DOMAIN F = 1 .. n /\ IsSeq(F) /\ \E S : F \in Seq(S)
<1> DEFINE S == {F[i] : i \in 1 .. n}
<1>1. F \in [1 .. n -> S]
  OBVIOUS
<1> HIDE DEF S
<1>2. F \in Seq(S)
  BY <1>1, SeqDef
<1>3. DOMAIN F = 1 .. n
  OBVIOUS
<1>4. Len(F) \in Nat /\ DOMAIN F = 1 .. Len(F)
  BY <1>2, LenProperties
<1>5. Len(F) = n
  BY <1>3, <1>4
<1> QED BY <1>2, <1>3, <1>5 DEF IsSeq

(* What Drop leaves.                                                       *)
LEMMA Dropped ==
  ASSUME NEW b, IsSeq(b), NEW n \in 0 .. Len(b)
  PROVE  /\ Len(b) \in Nat /\ DOMAIN b = 1 .. Len(b)
         /\ IsSeq(Drop(b, n)) /\ Len(Drop(b, n)) = Len(b) - n
         /\ \A i \in 1 .. (Len(b) - n) : Drop(b, n)[i] = b[n + i]
         /\ Drop(b, n) = <<>> <=> n = Len(b)
<1>1. Len(b) \in Nat /\ b = [i \in 1 .. Len(b) |-> b[i]]
  BY DEF IsSeq
<1>2. PICK S : b \in Seq(S)
  <2> DEFINE m == Len(b)
  <2>1. m \in Nat /\ b = [i \in 1 .. m |-> b[i]]
    BY <1>1
  <2> HIDE DEF m
  <2> QED BY <2>1, FunctionLen
<1>3. /\ Drop(b, n) = SubSeq(b, n + 1, Len(b)) /\ DOMAIN b = 1 .. Len(b)
  BY <1>1, <1>2 DEF Drop
<1>4. /\ SubSeq(b, n + 1, Len(b)) \in Seq(S)
      /\ Len(SubSeq(b, n + 1, Len(b))) = Len(b) - n
      /\ \A i \in 1 .. (Len(b) - n) : SubSeq(b, n + 1, Len(b))[i] = b[n + i]
  BY <1>1, <1>2
<1> DEFINE D == Drop(b, n)
<1>5. /\ D \in Seq(S) /\ Len(D) = Len(b) - n
      /\ \A i \in 1 .. (Len(b) - n) : D[i] = b[n + i]
  BY <1>3, <1>4
<1> HIDE DEF D
<1>6. Len(D) \in Nat /\ D = [i \in 1 .. Len(D) |-> D[i]]
  BY <1>5
<1>7. D = <<>> <=> n = Len(b)
  BY <1>1, <1>5, <1>6
<1> QED BY <1>1, <1>3, <1>5, <1>6, <1>7 DEF D, IsSeq

(* Nothing is dropped.                                                     *)
LEMMA DropNone ==
  ASSUME NEW b, IsSeq(b)
  PROVE  Drop(b, 0) = b
<1> DEFINE m == Len(b)
<1>1. m \in Nat /\ b = [i \in 1 .. m |-> b[i]]
  BY DEF IsSeq
<1> HIDE DEF m
<1>2. PICK S : b \in Seq(S)
  BY <1>1, FunctionLen
<1> QED BY <1>2 DEF Drop

(* The first bytes of the data.                                            *)
LEMMA FirstBytes ==
  ASSUME NEW b, IsSeq(b), NEW n \in 0 .. Len(b)
  PROVE  /\ Len(SubSeq(b, 1, n)) = n /\ n \in Nat
         /\ \A m \in 1 .. n : SubSeq(b, 1, n)[m] = b[m]
<1> DEFINE l == Len(b)
<1>1. l \in Nat /\ b = [i \in 1 .. l |-> b[i]] /\ Len(b) = l
  BY DEF IsSeq
<1> HIDE DEF l
<1>2. PICK S : b \in Seq(S)
  BY <1>1, FunctionLen
<1>3. n \in Nat /\ n <= Len(b)
  BY <1>1
<1> QED BY <1>1, <1>2, <1>3

-----------------------------------------------------------------------------
(***************************************************************************)
(* The stream, byte by byte.                                               *)
(***************************************************************************)
Byte(i) == file[pages[Slot(i - 1)]][Phase(i - 1) + 1]

(* Every byte below the size has a page.                                   *)
LEMMA BytePage ==
  ASSUME size \in Nat, pages \in Seq(DOMAIN file), Len(pages) = PageCount(size),
         NEW i \in 1 .. size
  PROVE  /\ i - 1 \in Nat /\ Slot(i - 1) \in 1 .. Len(pages) /\ Slot(i - 1) \in DOMAIN pages
         /\ Phase(i - 1) + 1 \in 1 .. PageSize
<1> DEFINE x == i - 1
           c == Len(pages)
<1>1. x \in Nat /\ c \in Nat /\ DOMAIN pages = 1 .. c /\ x < size
  OBVIOUS
<1>2. size <= Base(c + 1) /\ Base(c + 1) \in Nat
  BY <1>1, PagesNeeded
<1>3. PageSize \in Nat
  BY PageSizeAssumption
<1> HIDE DEF x, c
<1>4. Slot(x) \in Nat \ {0} /\ Phase(x) \in 0 .. (PageSize - 1)
  BY <1>1, ByteAddress
<1>5. Slot(x) < c + 1
  <2>1. c + 1 \in Nat \ {0} /\ x < Base(c + 1)
    BY <1>1, <1>2
  <2> QED BY <1>1, <2>1, BeforeSlot
<1>6. Slot(x) \in 1 .. c /\ Phase(x) + 1 \in 1 .. PageSize
  BY <1>1, <1>3, <1>4, <1>5
<1> QED BY <1>1, <1>6 DEF x, c

(* The contents are made of the bytes of the stream's pages.               *)
LEMMA ContentsBytes ==
  ASSUME size \in Nat, pages \in Seq(DOMAIN file), Len(pages) = PageCount(size)
  PROVE  /\ Len(Contents) = size /\ IsSeq(Contents) /\ DOMAIN Contents = 1 .. size
         /\ \A i \in 1 .. size : Contents[i] = Byte(i)
<1> DEFINE C == Contents
<1>1. DOMAIN C = 1 .. size /\ C = [i \in 1 .. size |-> C[i]]
  BY DEF Contents
<1>2. \A i \in 1 .. size : Slot(i - 1) \in DOMAIN pages
  BY BytePage
<1>3. \A i \in 1 .. size : C[i] = Byte(i)
  BY <1>2 DEF Contents, Byte
<1> HIDE DEF C
<1>4. Len(C) = size /\ IsSeq(C)
  BY <1>1, FunctionLen
<1> QED BY <1>1, <1>3, <1>4 DEF C

(* The same after a step.                                                  *)
LEMMA BytesAfter ==
  /\ \A i : Byte(i)' = file'[pages'[Slot(i - 1)]][Phase(i - 1) + 1]
  /\ size' \in Nat /\ pages' \in Seq(DOMAIN file') /\ Len(pages') = PageCount(size') =>
       /\ Len(Contents') = size' /\ IsSeq(Contents') /\ DOMAIN Contents' = 1 .. size'
       /\ \A i \in 1 .. size' : Contents'[i] = Byte(i)'
<1>1. \A i : Byte(i)' = file'[pages'[Slot(i - 1)]][Phase(i - 1) + 1]
  BY DEF Byte, Slot, Phase
<1>2. /\ size' \in Nat /\ pages' \in Seq(DOMAIN file') /\ Len(pages') = PageCount(size') =>
         /\ Len(Contents') = size' /\ IsSeq(Contents') /\ DOMAIN Contents' = 1 .. size'
         /\ \A i \in 1 .. size' : Contents'[i] = Byte(i)'
  <2>1. (size \in Nat /\ pages \in Seq(DOMAIN file) /\ Len(pages) = PageCount(size) =>
           /\ Len(Contents) = size /\ IsSeq(Contents) /\ DOMAIN Contents = 1 .. size
           /\ \A i \in 1 .. size : Contents[i] = Byte(i))'
    BY ContentsBytes, PTL
  <2> QED BY <2>1 DEF IsSeq, PageCount, CeilDiv
<1> QED BY <1>1, <1>2

-----------------------------------------------------------------------------
(***************************************************************************)
(* Where write_core goes: each function finds what it expects.             *)
(***************************************************************************)
(* With a whole page of data within the stream, there is one to overwrite. *)
LEMMA PagesLeft ==
  ASSUME NEW s \in Nat, NEW p \in Nat, p < s, NEW m \in Nat, m >= PageSize
  PROVE  /\ Lesser(PageCount(s) - p \div PageSize, m \div PageSize) \in Nat \ {0}
         /\ PageCount(s) - p \div PageSize \in Nat \ {0}
         /\ m \div PageSize \in Nat \ {0}
<1>1. PageSize \in Nat \ {0}
  BY PageSizeAssumption
<1> DEFINE c == PageCount(s)
           k == p \div PageSize
           d == m \div PageSize
<1>2. c \in Nat /\ s <= Base(c + 1) /\ Base(c + 1) \in Nat
  <2>1. c \in Nat
    BY PagesNeeded
  <2> HIDE DEF c
  <2>2. c = PageCount(s)
    BY DEF c
  <2> QED BY <2>1, <2>2, PagesNeeded
<1>3. k \in Nat /\ Slot(p) = k + 1
  BY <1>1, DivMod DEF Slot
<1>4. d \in Nat /\ d # 0
  <2>1. d \in Nat /\ m % PageSize \in 0 .. (PageSize - 1) /\ m = PageSize * d + (m % PageSize)
    BY <1>1, DivMod
  <2> HIDE DEF d
  <2>2. ASSUME d = 0 PROVE FALSE
    <3>1. m = m % PageSize
      BY <1>1, <2>1, <2>2
    <3> QED BY <1>1, <2>1, <3>1
  <2> QED BY <2>1, <2>2
<1> HIDE DEF c, k, d
<1>5. k + 1 < c + 1
  <2>1. c + 1 \in Nat \ {0} /\ p < Base(c + 1)
    BY <1>2
  <2>2. Slot(p) < c + 1
    BY <2>1, BeforeSlot
  <2> QED BY <1>3, <2>2
<1>6. c - k \in Nat \ {0} /\ d \in Nat \ {0} /\ Lesser(c - k, d) \in Nat \ {0}
  BY <1>2, <1>3, <1>4, <1>5 DEF Lesser
<1> QED BY <1>6 DEF c, k, d

(* What is known of the stream by the function write_core goes to.         *)
LEMMA RouteFound ==
  ASSUME NEW s \in Nat, NEW p \in Nat, NEW b, IsSeq(b), NEW f, f = Route(s, p, b)
  PROVE  /\ f \in WritePhases \cup {"idle"} /\ f # "ow_runs"
         /\ f = "idle" <=> b = <<>>
         /\ f = "zx_start" => s < p /\ Phase(s) # 0
         /\ f = "zx_pages" => s < p /\ Phase(s) = 0 /\ p - s >= PageSize
         /\ f = "zx_end" => s < p /\ Phase(s) = 0 /\ p - s < PageSize
         /\ f = "ow_start" => p < s /\ Phase(p) # 0
         /\ f = "ow_fresh" => p < s /\ Phase(p) = 0 /\ Len(b) >= PageSize
         /\ f = "ow_tail" => p < s /\ Phase(p) = 0 /\ Len(b) < PageSize
         /\ f = "ap_start" => p = s /\ Phase(p) # 0
         /\ f = "ap_pages" => p = s /\ Phase(p) = 0 /\ Len(b) >= PageSize
         /\ f = "ap_final" => p = s /\ Phase(p) = 0 /\ Len(b) < PageSize
<1>1. PageSize \in Nat /\ Len(b) \in Nat
  BY PageSizeAssumption DEF IsSeq
<1>2. p - s \in Int /\ (s < p \/ p < s \/ p = s)
  OBVIOUS
<1>3. (p - s >= PageSize \/ p - s < PageSize) /\ (Len(b) >= PageSize \/ Len(b) < PageSize)
  BY <1>1, <1>2
<1>4. ~(s < p /\ p < s) /\ (p = s => ~(s < p) /\ ~(p < s))
      /\ ~(p - s >= PageSize /\ p - s < PageSize)
      /\ ~(Len(b) >= PageSize /\ Len(b) < PageSize)
  BY <1>1, <1>2
<1> DEFINE lt == s < p
           gt == p < s
           eq == p = s
           far == p - s >= PageSize
           near == p - s < PageSize
           long == Len(b) >= PageSize
           short == Len(b) < PageSize
           ps == Phase(s) = 0
           pp == Phase(p) = 0
           none == b = <<>>
<1>5. f = CASE none -> "idle"
            [] ~none /\ lt /\ ~ps -> "zx_start"
            [] ~none /\ lt /\ ps /\ far -> "zx_pages"
            [] ~none /\ lt /\ ps /\ near -> "zx_end"
            [] ~none /\ gt /\ ~pp -> "ow_start"
            [] ~none /\ gt /\ pp /\ long -> "ow_fresh"
            [] ~none /\ gt /\ pp /\ short -> "ow_tail"
            [] ~none /\ eq /\ ~pp -> "ap_start"
            [] ~none /\ eq /\ pp /\ long -> "ap_pages"
            [] ~none /\ eq /\ pp /\ short -> "ap_final"
  BY DEF Route
<1>6. (lt \/ gt \/ eq) /\ (far \/ near) /\ (long \/ short)
  BY <1>2, <1>3
<1>7. ~(lt /\ gt) /\ (eq => ~lt /\ ~gt) /\ ~(far /\ near) /\ ~(long /\ short)
  BY <1>4
<1> HIDE DEF lt, gt, eq, far, near, long, short, ps, pp, none
<1>8. /\ f \in WritePhases \cup {"idle"} /\ f # "ow_runs"
      /\ f = "idle" <=> none
      /\ f = "zx_start" => lt /\ ~ps
      /\ f = "zx_pages" => lt /\ ps /\ far
      /\ f = "zx_end" => lt /\ ps /\ near
      /\ f = "ow_start" => gt /\ ~pp
      /\ f = "ow_fresh" => gt /\ pp /\ long
      /\ f = "ow_tail" => gt /\ pp /\ short
      /\ f = "ap_start" => eq /\ ~pp
      /\ f = "ap_pages" => eq /\ pp /\ long
      /\ f = "ap_final" => eq /\ pp /\ short
  BY <1>5, <1>6, <1>7 DEF WritePhases
<1> QED BY <1>8 DEF lt, gt, eq, far, near, long, short, ps, pp, none

(* So the function finds what it expects.                                  *)
LEMMA Routed ==
  ASSUME size' \in Nat, pos' \in Nat, IsSeq(buf'), phase' = Route(size', pos', buf'),
         done' = 0, buf' # <<>> => pos' + Len(buf') <= MaxLen
  PROVE  /\ AtPhase' /\ phase' \in WritePhases \cup {"idle"}
         /\ phase' = "idle" <=> buf' = <<>>
<1> DEFINE s == size'
           p == pos'
           b == buf'
           f == phase'
<1>1. s \in Nat /\ p \in Nat /\ IsSeq(b) /\ f = Route(s, p, b) /\ Len(b) \in Nat
  BY DEF Route, Phase, IsSeq
<1> HIDE DEF s, p, b, f
<1>2. /\ f \in WritePhases \cup {"idle"} /\ f # "ow_runs"
      /\ f = "idle" <=> b = <<>>
      /\ f = "zx_start" => s < p /\ Phase(s) # 0
      /\ f = "zx_pages" => s < p /\ Phase(s) = 0 /\ p - s >= PageSize
      /\ f = "zx_end" => s < p /\ Phase(s) = 0 /\ p - s < PageSize
      /\ f = "ow_start" => p < s /\ Phase(p) # 0
      /\ f = "ow_fresh" => p < s /\ Phase(p) = 0 /\ Len(b) >= PageSize
      /\ f = "ow_tail" => p < s /\ Phase(p) = 0 /\ Len(b) < PageSize
      /\ f = "ap_start" => p = s /\ Phase(p) # 0
      /\ f = "ap_pages" => p = s /\ Phase(p) = 0 /\ Len(b) >= PageSize
      /\ f = "ap_final" => p = s /\ Phase(p) = 0 /\ Len(b) < PageSize
  BY <1>1, RouteFound
<1>3. f = "ow_fresh" =>
        Lesser(PageCount(s) - p \div PageSize, Len(b) \div PageSize) \in Nat \ {0}
  BY <1>1, <1>2, PagesLeft
<1>4. f = "ow_fresh" => 0 < Lesser(PageCount(s) - p \div PageSize, Len(b) \div PageSize)
  BY <1>3
<1>5. f \notin {"panicked"} \cup GrowPhases
  BY <1>2 DEF WritePhases, GrowPhases
<1>6. PagesToOverwrite' = Lesser(PageCount(s) - p \div PageSize, Len(b) \div PageSize)
  BY DEF PagesToOverwrite, s, p, b, PageCount, CeilDiv, Lesser
<1>7. f \in WritePhases => b # <<>> /\ p + Len(b) <= MaxLen
  BY <1>2 DEF WritePhases, b, p
<1>8. AtPhase'
  BY <1>2, <1>4, <1>5, <1>6, <1>7 DEF AtPhase, GrowPhases, WritePhases, s, p, b, f, Phase
<1> QED BY <1>2, <1>8 DEF f, b

-----------------------------------------------------------------------------
(***************************************************************************)
(* A function of write_core returns.                                       *)
(***************************************************************************)
(* From the stream c to d: n bytes of b went where they belong, and what   *)
(* b does not cover is as it was, with zeroes behind its end.              *)
Progress(c, d, p, b, n) ==
  \A i \in 1 .. Len(d) :
    /\ i \in (p + 1) .. (p + n) => d[i] = b[i - p]
    /\ i \notin (p + 1) .. (p + Len(b)) => d[i] = IF i <= Len(c) THEN c[i] ELSE Zero

(* What the stream is to become is not changed by making some of it so.    *)
LEMMA FinishedAfter ==
  ASSUME NEW c, IsSeq(c), NEW d, IsSeq(d), NEW b, IsSeq(b), NEW p \in Nat,
         NEW n \in 0 .. Len(b), Len(d) >= Len(c), Len(d) <= Greater(Len(c), p + Len(b)),
         n > 0 => p + n <= Len(d), Progress(c, d, p, b, n)
  PROVE  /\ Finished(d, p + n, Drop(b, n)) = Finished(c, p, b)
         /\ n > 0 /\ n = Len(b) => d = Finished(c, p, b)
<1> DEFINE e == Drop(b, n)
           q == p + n
           N == Greater(Len(c), p + Len(b))
<1>1. /\ Len(c) \in Nat /\ Len(d) \in Nat /\ Len(b) \in Nat /\ q \in Nat /\ N \in Nat
      /\ Len(e) = Len(b) - n /\ \A i \in 1 .. (Len(b) - n) : e[i] = b[n + i]
  <2>1. Len(c) \in Nat /\ Len(d) \in Nat /\ Len(b) \in Nat
    BY DEF IsSeq
  <2>2. Len(e) = Len(b) - n /\ \A i \in 1 .. (Len(b) - n) : e[i] = b[n + i]
    BY Dropped
  <2>3. q \in Nat /\ N \in Nat
    BY <2>1 DEF Greater
  <2> QED BY <2>1, <2>2, <2>3
<1>2. Greater(Len(d), q + Len(e)) = N
  BY <1>1 DEF Greater
<1> HIDE DEF e, N
<1>3. ASSUME NEW i \in 1 .. N
      PROVE  (IF i \in (q + 1) .. (q + Len(e)) THEN e[i - q]
              ELSE IF i <= Len(d) THEN d[i] ELSE Zero)
           = (IF i \in (p + 1) .. (p + Len(b)) THEN b[i - p]
              ELSE IF i <= Len(c) THEN c[i] ELSE Zero)
  <2>1. CASE i \in (q + 1) .. (q + Len(e))
    <3> DEFINE m == i - q
    <3>1. m \in 1 .. (Len(b) - n) /\ n + m = i - p /\ i \in (p + 1) .. (p + Len(b))
      <4> DEFINE l == Len(b)
                 v == Len(e)
      <4>1. l \in Nat /\ v = l - n /\ i \in (q + 1) .. (q + v) /\ q \in Nat /\ n \in 0 .. l
        BY <1>1, <2>1
      <4> HIDE DEF l, v
      <4>2. m \in 1 .. (l - n) /\ n + m = i - p /\ i \in (p + 1) .. (p + l)
        BY <4>1
      <4> QED BY <4>2 DEF l
    <3>2. e[m] = b[n + m]
      BY <1>1, <3>1
    <3> HIDE DEF m
    <3>3. e[m] = b[i - p]
      BY <3>1, <3>2
    <3> QED BY <2>1, <3>1, <3>3 DEF m
  <2>2. CASE i \notin (q + 1) .. (q + Len(e)) /\ i \in (p + 1) .. (p + Len(b))
    <3>1. i \in (p + 1) .. (p + n) /\ i \in 1 .. Len(d)
      BY <1>1, <2>2
    <3>2. d[i] = b[i - p]
      BY <3>1 DEF Progress
    <3> QED BY <2>2, <3>1, <3>2
  <2>3. CASE i \notin (q + 1) .. (q + Len(e)) /\ i \notin (p + 1) .. (p + Len(b))
    <3>1. CASE i <= Len(d)
      <4>1. i \in 1 .. Len(d)
        BY <1>1, <3>1
      <4>2. d[i] = IF i <= Len(c) THEN c[i] ELSE Zero
        BY <2>3, <4>1 DEF Progress
      <4> QED BY <2>3, <3>1, <4>2
    <3>2. CASE ~(i <= Len(d))
      <4>1. ~(i <= Len(c))
        BY <1>1, <3>2
      <4> QED BY <2>3, <3>2, <4>1
    <3> QED BY <3>1, <3>2
  <2> QED BY <2>1, <2>2, <2>3
<1>4. Finished(d, q, e) = Finished(c, p, b)
  BY <1>2, <1>3 DEF Finished, N
<1>5. ASSUME n > 0, n = Len(b) PROVE d = Finished(c, p, b)
  <2>1. Len(d) = N
    <3>1. Len(d) >= Len(c) /\ Len(d) >= p + Len(b) /\ Len(d) <= Greater(Len(c), p + Len(b))
      BY <1>5
    <3>2. PICK x \in Nat, y \in Nat, z \in Nat : x = Len(c) /\ y = Len(d) /\ z = p + Len(b)
      <4>1. Len(c) \in Nat /\ Len(d) \in Nat /\ p + Len(b) \in Nat
        BY <1>1
      <4> QED BY ONLY <4>1
    <3>3. N = IF x > z THEN x ELSE z
      BY <3>2 DEF N, Greater
    <3>4. y >= x /\ y >= z /\ (y <= x \/ y <= z)
      BY <3>1, <3>2 DEF Greater
    <3>5. y = IF x > z THEN x ELSE z
      BY ONLY <3>2, <3>4
    <3> QED BY <3>2, <3>3, <3>5
  <2>2. ASSUME NEW i \in 1 .. N
        PROVE  d[i] = IF i \in (p + 1) .. (p + Len(b)) THEN b[i - p]
                      ELSE IF i <= Len(c) THEN c[i] ELSE Zero
    BY <1>5, <2>1 DEF Progress
  <2>3. d = [i \in 1 .. N |-> d[i]]
    BY <2>1 DEF IsSeq
  <2>4. d = [i \in 1 .. N |-> IF i \in (p + 1) .. (p + Len(b)) THEN b[i - p]
                              ELSE IF i <= Len(c) THEN c[i] ELSE Zero]
    BY <2>2, <2>3
  <2> QED BY <2>4 DEF Finished, N
<1> QED BY <1>4, <1>5 DEF e

(* What must be so when a turn of write_core has put n bytes in place.      *)
LEMMA Consumed ==
  ASSUME WriterInv, phase \in WritePhases,
         Storage', Len(pages') = PageCount(size'), AtPhase', done' \in Nat,
         UNCHANGED callVars,
         phase' \in WritePhases \cup {"idle"}, phase' = "idle" <=> buf' = <<>>,
         NEW s \in Nat, NEW n \in 0 .. Len(buf),
         size' = s, pos' = pos + n, buf' = Drop(buf, n),
         s >= size, s <= Greater(size, pos + Len(buf)), n > 0 => pos + n <= s,
         ~ShortWrites =>
           \A i \in 1 .. s :
             /\ i \in (pos + 1) .. (pos + n) => Byte(i)' = buf[i - pos]
             /\ i \notin (pos + 1) .. (pos + Len(buf)) =>
                  Byte(i)' = IF i <= size THEN Byte(i) ELSE Zero
  PROVE  WriterInv'
<1>1. /\ size \in Nat /\ size <= MaxLen /\ pos \in Nat /\ MaxLen \in Nat
      /\ IsSeq(buf) /\ Len(buf) \in Nat /\ pos + Len(buf) <= MaxLen
      /\ pages \in Seq(DOMAIN file) /\ Len(pages) = PageCount(size)
      /\ buf # <<>> /\ phase # "idle"
  BY WriterAssumption DEF WriterInv, WriterTyped, Storage, AtPhase, IsSeq, WritePhases
<1>2. /\ size' = s /\ pos' = pos + n /\ buf' = Drop(buf, n)
      /\ callVars' = callVars
  OBVIOUS
<1> DEFINE b == buf
           p == pos
           e == Drop(b, n)
<1>3. /\ IsSeq(e) /\ Len(e) = Len(b) - n /\ Len(e) \in Nat
      /\ e = <<>> <=> n = Len(b)
      /\ p \in Nat /\ Len(b) \in Nat /\ IsSeq(b) /\ n \in 0 .. Len(b)
  <2>1. IsSeq(b) /\ n \in 0 .. Len(b)
    BY <1>1
  <2> HIDE DEF b
  <2>2. /\ Len(b) \in Nat /\ IsSeq(e) /\ Len(e) = Len(b) - n
        /\ e = <<>> <=> n = Len(b)
    BY <2>1, Dropped
  <2>3. Len(e) \in Nat
    BY <2>1, <2>2
  <2> QED BY <1>1, <2>1, <2>2, <2>3
<1>4. s <= MaxLen /\ p + n \in 0 .. MaxLen /\ (e # <<>> => (p + n) + Len(e) <= MaxLen)
  <2> HIDE DEF e
  <2> QED BY <1>1, <1>3 DEF Greater, b, p
<1>5. AtPhase' /\ phase' \in WritePhases \cup {"idle"} /\ (phase' = "idle" <=> buf' = <<>>)
  OBVIOUS
<1>6. WriterTyped'
  <2>1. /\ size' \in 0 .. MaxLen /\ pos' \in 0 .. MaxLen /\ done' \in Nat
        /\ IsSeq(buf') /\ IsSeq(before')
        /\ phase' \in WritePhases \cup GrowPhases \cup {"idle", "panicked"}
    BY <1>1, <1>2, <1>3, <1>4, <1>5 DEF b, p, e, callVars, WriterInv, WriterTyped
  <2> QED BY <2>1 DEF WriterTyped, IsSeq, WritePhases, GrowPhases
<1>7. ASSUME ~ShortWrites
      PROVE  /\ phase' = "idle" => Contents' = Expected'
             /\ phase' \in WritePhases => Finished(Contents', pos', buf') = Expected'
  <2> DEFINE c == Contents
             d == Contents'
  <2>1. /\ IsSeq(c) /\ Len(c) = size /\ \A i \in 1 .. size : c[i] = Byte(i)
    BY <1>1, ContentsBytes
  <2>2. /\ IsSeq(d) /\ Len(d) = s /\ \A i \in 1 .. s : d[i] = Byte(i)'
    <3>1. /\ size' \in Nat /\ pages' \in Seq(DOMAIN file')
          /\ Len(pages') = PageCount(size')
      BY <1>2 DEF Storage
    <3> QED BY <1>2, <3>1, BytesAfter
  <2>3. Expected' = Expected
    BY <1>2 DEF callVars, Expected, Greater
  <2>4. Finished(c, p, b) = Expected
    BY <1>7 DEF WriterInv, OnTheWay
  <2>5. Progress(c, d, p, b, n)
    BY <1>1, <1>7, <2>1, <2>2 DEF Progress
  <2> HIDE DEF c, d, e, b, p
  <2>6. /\ Finished(d, p + n, e) = Finished(c, p, b)
        /\ n > 0 /\ n = Len(b) => d = Finished(c, p, b)
    <3>1. Len(d) >= Len(c) /\ Len(d) <= Greater(Len(c), p + Len(b))
          /\ (n > 0 => p + n <= Len(d))
      BY <2>1, <2>2 DEF b, p
    <3>2. IsSeq(c) /\ IsSeq(d) /\ IsSeq(b) /\ p \in Nat /\ n \in 0 .. Len(b)
      BY <1>3, <2>1, <2>2
    <3> QED BY ONLY <2>5, <3>1, <3>2, FinishedAfter DEF e
  <2>7. n = Len(b) => n > 0
    <3>1. Drop(b, 0) = <<>> <=> 0 = Len(b)
      BY <1>3, Dropped
    <3>2. b = <<>> <=> Len(b) = 0
      BY <1>3 DEF IsSeq
    <3> QED BY <1>1, <1>3, <3>2 DEF b
  <2> QED BY <1>2, <1>3, <1>5, <2>3, <2>4, <2>6, <2>7 DEF b, p, e, d
<1>8. OnTheWay'
  <2>1. Finished(Contents, pos, buf)' = Finished(Contents', pos', buf')
    BY DEF Finished, Greater
  <2>2. phase' \notin GrowPhases
    BY <1>5 DEF WritePhases, GrowPhases
  <2> QED BY <1>7, <2>1, <2>2 DEF OnTheWay, WritePhases, GrowPhases
<1>9. Len(pages)' = PageCount(size)'
  BY DEF PageCount, CeilDiv
<1> QED BY <1>5, <1>6, <1>8, <1>9 DEF WriterInv

(* The same when a function has returned.                                  *)
LEMMA Returned ==
  ASSUME WriterInv, phase \in WritePhases, done = 0,
         Storage', Len(pages') = PageCount(size'),
         NEW s \in Nat, NEW n \in 0 .. Len(buf), Return(s, pos + n, Drop(buf, n)),
         s >= size, s <= Greater(size, pos + Len(buf)), n > 0 => pos + n <= s,
         ~ShortWrites =>
           \A i \in 1 .. s :
             /\ i \in (pos + 1) .. (pos + n) => Byte(i)' = buf[i - pos]
             /\ i \notin (pos + 1) .. (pos + Len(buf)) =>
                  Byte(i)' = IF i <= size THEN Byte(i) ELSE Zero
  PROVE  WriterInv'
<1>1. /\ size' = s /\ pos' = pos + n /\ buf' = Drop(buf, n) /\ done' = 0
      /\ phase' = Route(size', pos', buf') /\ UNCHANGED callVars
  BY DEF Return
<1>2. /\ pos \in Nat /\ IsSeq(buf) /\ Len(buf) \in Nat /\ pos + Len(buf) <= MaxLen
      /\ MaxLen \in Nat
  BY WriterAssumption DEF WriterInv, WriterTyped, AtPhase, IsSeq
<1> DEFINE b == buf
           e == Drop(b, n)
           p == pos
<1>3. IsSeq(e) /\ Len(e) = Len(b) - n
  <2>1. IsSeq(b) /\ n \in 0 .. Len(b)
    BY <1>2
  <2> HIDE DEF b
  <2> QED BY <2>1, Dropped
<1>4. p + n \in Nat /\ (p + n) + Len(e) <= MaxLen
  <2> HIDE DEF e
  <2> QED BY <1>2, <1>3 DEF b, p
<1>5. AtPhase' /\ phase' \in WritePhases \cup {"idle"} /\ (phase' = "idle" <=> buf' = <<>>)
  <2>1. /\ size' \in Nat /\ pos' \in Nat /\ IsSeq(buf')
        /\ buf' # <<>> => pos' + Len(buf') <= MaxLen
    BY <1>1, <1>3, <1>4 DEF b, p, e
  <2> QED BY <1>1, <2>1, Routed
<1> QED BY <1>1, <1>5, Consumed

-----------------------------------------------------------------------------
(***************************************************************************)
(* Writes to a page of the stream.                                         *)
(***************************************************************************)
(* cow_page_and_write: one page of the stream is written, in place or not. *)
LEMMA PageWritten ==
  ASSUME Storage, NEW slot \in DOMAIN pages, NEW page,
         page = [j \in 1 .. PageSize |-> page[j]], CowAndWrite(slot, page)
  PROVE  /\ Storage' /\ Len(pages') = Len(pages) /\ DOMAIN pages' = DOMAIN pages
         /\ file'[pages'[slot]] = page
         /\ OthersKept(slot)
<1>1. /\ pages \in Seq(DOMAIN file) /\ pages[slot] \in DOMAIN file
      /\ \A t \in DOMAIN pages : pages[t] \in DOMAIN file
      /\ \A i, j \in DOMAIN pages : pages[i] = pages[j] => i = j
  <2>1. pages \in Seq(DOMAIN file)
    BY DEF Storage
  <2>2. \A t \in DOMAIN pages : pages[t] \in DOMAIN file
    BY <2>1
  <2> QED BY <2>1, <2>2 DEF Storage, PagesOwned
<1>2. CASE /\ file' = [file EXCEPT ![pages[slot]] = page]
           /\ UNCHANGED <<allocVars, pages>>
  <2>1. /\ DOMAIN file' = DOMAIN file /\ file'[pages[slot]] = page
        /\ \A q \in DOMAIN file : q # pages[slot] => file'[q] = file[q]
    BY <1>1, <1>2
  <2>2. \A q \in DOMAIN file' : file'[q] = [j \in 1 .. PageSize |-> file'[q][j]]
    <3> TAKE q \in DOMAIN file'
    <3>1. CASE q = pages[slot]
      BY <2>1, <3>1
    <3>2. CASE q # pages[slot]
      BY <2>1, <3>2 DEF Storage
    <3> QED BY <3>1, <3>2
  <2>3. Storage'
    BY <1>2, <2>1, <2>2 DEF Storage, allocVars, AllocatorConsistent, PagesOwned,
                            IsSpecialPage, IsFpmPage, Phase
  <2> QED BY <1>1, <1>2, <2>1, <2>3 DEF OthersKept
<1>3. ASSUME NEW p \in DOMAIN file, ReplacePage(pages[slot], p),
             pages' = [pages EXCEPT ![slot] = p], file' = [file EXCEPT ![p] = page]
      PROVE  /\ Storage' /\ Len(pages') = Len(pages) /\ DOMAIN pages' = DOMAIN pages
             /\ file'[pages'[slot]] = page
             /\ OthersKept(slot)
  <2>1. /\ DOMAIN file' = DOMAIN file /\ file'[p] = page
        /\ \A q \in DOMAIN file : q # p => file'[q] = file[q]
        /\ file'[p] = [j \in 1 .. PageSize |-> file'[p][j]]
    BY <1>3
  <2> QED BY <1>3, <2>1, PageReplaced
<1> QED BY <1>2, <1>3 DEF CowAndWrite

(* The bytes when one page of the stream was written.                      *)
LEMMA BytesOfPage ==
  ASSUME size \in Nat, pages \in Seq(DOMAIN file), Len(pages) = PageCount(size),
         NEW s \in Nat, s >= size, PageCount(s) = Len(pages),
         NEW slot \in DOMAIN pages, NEW page, file'[pages'[slot]] = page,
         OthersKept(slot), s > size => slot = Len(pages), NEW i \in 1 .. s
  PROVE  /\ Slot(i - 1) = slot => Byte(i)' = page[Phase(i - 1) + 1]
         /\ Slot(i - 1) # slot => i <= size /\ Byte(i)' = Byte(i)
<1> DEFINE x == i - 1
           c == Len(pages)
<1>1. x \in Nat /\ c \in Nat /\ DOMAIN pages = 1 .. c /\ x < s
  OBVIOUS
<1>2. Slot(x) \in 1 .. c /\ (c = 0 \/ size > Base(c)) /\ Base(c) \in Int
      /\ (i > size => x >= size)
  <2>1. s <= Base(c + 1) /\ Base(c + 1) \in Nat /\ (c = 0 \/ size > Base(c))
    BY <1>1, PagesNeeded
  <2> HIDE DEF x, c
  <2>2. Slot(x) \in Nat \ {0}
    BY <1>1, ByteAddress
  <2>3. Slot(x) < c + 1
    <3>1. c + 1 \in Nat \ {0} /\ x < Base(c + 1)
      BY <1>1, <2>1
    <3> QED BY <1>1, <3>1, BeforeSlot
  <2>4. Base(c) \in Int
    BY <1>1, PageSizeAssumption DEF Base
  <2> QED BY <1>1, <2>1, <2>2, <2>3, <2>4 DEF x
<1>3. Byte(i)' = file'[pages'[Slot(x)]][Phase(x) + 1]
  BY BytesAfter
<1>4. ASSUME Slot(x) # slot PROVE i <= size
  <2>1. CASE s > size
    <3>1. Slot(x) < c /\ slot = c /\ c \in Nat \ {0}
      BY <1>1, <1>2, <1>4, <2>1
    <3> HIDE DEF x, c
    <3>2. x < Base(c)
      BY <1>1, <3>1, BeforeSlot
    <3> QED BY <1>1, <1>2, <3>1, <3>2 DEF x
  <2>2. CASE ~(s > size)
    BY <2>2
  <2> QED BY <2>1, <2>2
<1> QED BY <1>1, <1>2, <1>3, <1>4 DEF Byte, OthersKept

(* Offsets on the same page, or not.                                       *)
LEMMA SamePage ==
  ASSUME NEW x \in Nat, NEW y \in Nat
  PROVE  /\ Slot(x) = Slot(y) => x - y = Phase(x) - Phase(y)
         /\ x >= y /\ x - y < PageSize - Phase(y) => Slot(x) = Slot(y)
         /\ Phase(x) \in 0 .. (PageSize - 1) /\ Phase(y) \in 0 .. (PageSize - 1)
         /\ Slot(x) \in Nat \ {0} /\ Slot(y) \in Nat \ {0}
<1> DEFINE t == Slot(x)
           u == Slot(y)
           r == Phase(x)
           v == Phase(y)
<1>1. /\ t \in Nat \ {0} /\ r \in 0 .. (PageSize - 1) /\ Base(t) \in Nat /\ x = Base(t) + r
      /\ u \in Nat \ {0} /\ v \in 0 .. (PageSize - 1) /\ Base(u) \in Nat /\ y = Base(u) + v
  BY ByteAddress
<1>2. t = u <=> x >= Base(u) /\ x < Base(u) + PageSize
  BY <1>1, BeforeSlot
<1> HIDE DEF t, u, r, v
<1>3. t = u => x - y = r - v
  BY <1>1
<1>4. x >= y /\ x - y < PageSize - v => t = u
  BY <1>1, <1>2, PageSizeAssumption
<1> QED BY <1>1, <1>3, <1>4 DEF t, u, r, v

(* A stream of size s ends on its last page.                               *)
LEMMA LastPage ==
  ASSUME NEW s \in Nat
  PROVE  /\ PageCount(s) \in Nat
         /\ Phase(s) # 0 => Slot(s) = PageCount(s)
         /\ Phase(s) = 0 => s = Base(PageCount(s) + 1)
         /\ \A x \in Nat : x < s => Slot(x) \in 1 .. PageCount(s)
         /\ \A n \in Nat : Slot(s) <= PageCount(s) /\ n <= PageSize - Phase(s) =>
              PageCount(s + n) = PageCount(s)
<1> DEFINE c == PageCount(s)
           t == Slot(s)
           r == Phase(s)
<1>1. c \in Nat /\ Base(c + 1) \in Nat /\ s <= Base(c + 1) /\ (c = 0 \/ s > Base(c))
      /\ (c # 0 => Base(c) \in Nat /\ Base(c + 1) = Base(c) + PageSize)
  <2>1. c \in Nat
    BY PagesNeeded
  <2> DEFINE d == c
  <2>2. d \in Nat /\ PageCount(s) = d
    BY <2>1
  <2> HIDE DEF d
  <2>3. Base(d + 1) \in Nat /\ s <= Base(d + 1) /\ (d = 0 \/ s > Base(d))
    BY <2>2, PagesNeeded
  <2>4. ASSUME d # 0 PROVE Base(d) \in Nat /\ Base(d + 1) = Base(d) + PageSize
    <3>1. d \in Nat \ {0} /\ 1 \in Nat
      BY <2>2, <2>4
    <3>2. Base(d) \in Nat /\ Base(d + 1) = Base(d) + 1 * PageSize
      BY <3>1, BaseAfter
    <3> QED BY <3>2, PageSizeAssumption
  <2> QED BY <2>1, <2>3, <2>4 DEF d
<1>2. t \in Nat \ {0} /\ r \in 0 .. (PageSize - 1) /\ Base(t) \in Nat /\ s = Base(t) + r
      /\ PageSize \in Nat
  BY ByteAddress, PageSizeAssumption
<1>3. /\ t < c + 1 <=> s < Base(c + 1)
      /\ t < c <=> c # 0 /\ s < Base(c)
  <2>1. c + 1 \in Nat \ {0} /\ (c # 0 => c \in Nat \ {0})
    BY <1>1
  <2>2. c = 0 => ~(t < c)
    BY <1>2
  <2> HIDE DEF c
  <2> QED BY <2>1, <2>2, BeforeSlot
<1>4. t < c + 1 => Base(t) + PageSize <= Base(c + 1)
  <2>1. c + 1 \in Nat \ {0}
    BY <1>1
  <2> HIDE DEF c, t
  <2> QED BY <1>2, <2>1, BaseOrder
<1>5. ASSUME NEW x \in Nat, x < s PROVE Slot(x) \in 1 .. c
  <2> HIDE DEF c
  <2>1. c + 1 \in Nat \ {0} /\ x < Base(c + 1)
    BY <1>1, <1>5
  <2>2. Slot(x) < c + 1
    BY <2>1, BeforeSlot
  <2>3. Slot(x) \in Nat \ {0}
    BY ByteAddress
  <2> QED BY <1>1, <2>2, <2>3
<1>6. Base(t) = Base(c + 1) <=> t = c + 1
  <2>1. c + 1 \in Nat \ {0}
    BY <1>1
  <2> DEFINE u == c + 1
  <2>2. (t < u => Base(t) + PageSize <= Base(u)) /\ (u < t => Base(u) + PageSize <= Base(t))
        /\ Base(u) \in Nat
    BY <1>2, <2>1, BaseOrder
  <2>3. u \in Nat
    BY <2>1
  <2> HIDE DEF u, t
  <2>4. Base(t) = Base(u) <=> t = u
    BY <1>2, <2>2, <2>3, PageSizeAssumption
  <2> QED BY <2>4 DEF u
<1> HIDE DEF t, r, c
<1>7. (r # 0 => t = c) /\ (r = 0 => s = Base(c + 1))
  <2>1. ASSUME r # 0 PROVE t = c
    <3>1. s # Base(c + 1)
      <4>1. CASE t < c + 1
        BY <1>1, <1>2, <1>4, <4>1
      <4>2. CASE ~(t < c + 1)
        <5>1. s = Base(c + 1) /\ t > c
          BY <1>1, <1>2, <1>3, <4>2
        <5>2. SUFFICES ASSUME t > c + 1 PROVE FALSE
          BY <1>1, <1>2, <1>6, <2>1, <5>1
        <5>3. Base(c + 1) + PageSize <= Base(t)
          <6>1. c + 1 \in Nat \ {0}
            BY <1>1
          <6> QED BY <1>2, <5>2, <6>1, BaseOrder
        <5> QED BY <1>1, <1>2, <5>1, <5>3, PageSizeAssumption
      <4> QED BY <4>1, <4>2
    <3> QED BY <1>1, <1>2, <1>3, <3>1
  <2>2. ASSUME r = 0 PROVE s = Base(c + 1)
    <3>1. SUFFICES ASSUME t < c + 1 PROVE FALSE
      BY <1>1, <1>2, <1>3
    <3>2. c # 0
      BY <1>1, <1>2, <3>1
    <3>3. t <= c
      BY <1>1, <1>2, <3>1
    <3>4. t < c => s < Base(c)
      BY <1>3
    <3>5. t = c => s = Base(c)
      BY <1>2, <2>2
    <3> QED BY <1>1, <1>2, <3>2, <3>3, <3>4, <3>5
  <2> QED BY <2>1, <2>2
<1>8. ASSUME NEW n \in Nat, t <= c, n <= PageSize - r PROVE PageCount(s + n) = c
  <2>1. s + n <= Base(t) + PageSize /\ s + n \in Nat
    BY <1>2, <1>8
  <2>2. Base(t) + PageSize <= Base(c + 1)
    BY <1>1, <1>2, <1>4, <1>8
  <2>3. s + n <= Base(c + 1) /\ (c = 0 \/ s + n > Base(c))
    <3>1. c # 0 => s + n > Base(c)
      BY <1>1, <1>8
    <3> QED BY <1>1, <1>2, <2>1, <2>2, <3>1
  <2> DEFINE z == s + n
  <2>4. z \in Nat /\ c \in Nat /\ z <= Base(c + 1) /\ (c = 0 \/ z > Base(c))
    BY <1>1, <2>1, <2>3
  <2> HIDE DEF z
  <2>5. PageCount(z) = c
    BY <2>4, PagesNeeded
  <2> QED BY <2>5 DEF z
<1> QED BY <1>1, <1>5, <1>7, <1>8 DEF c, t, r

(* The lesser of two numbers is one of them.                               *)
LEMMA LesserIs ==
  ASSUME NEW a \in Nat, NEW b \in Nat, NEW n, n = Lesser(a, b)
  PROVE  n \in Nat /\ n <= a /\ n <= b /\ (n = a \/ n = b)
BY DEF Lesser

(* The bytes copied over a page, and those around them.                    *)
LEMMA CopiedByte ==
  ASSUME NEW old, NEW r, NEW h, NEW j \in 1 .. PageSize
  PROVE  CopyInto(old, r, h)[j] = IF j > r /\ j <= r + Len(h) THEN h[j - r] ELSE old[j]
BY DEF CopyInto

(* The page a size's last byte is on.                                      *)
LEMMA SizeWithinPage ==
  ASSUME NEW z \in Nat, NEW s \in Nat, s >= z, NEW p \in Nat, NEW n \in Nat,
         n <= PageSize - Phase(p), s = z \/ (s = p + n /\ Slot(p) = PageCount(z))
  PROVE  PageCount(s) = PageCount(z)
<1> DEFINE c == PageCount(z)
           t == Slot(p)
           r == Phase(p)
<1>1. CASE s = z
  BY <1>1
<1>2. CASE s = p + n /\ t = c
  <2>1. t \in Nat \ {0} /\ r \in 0 .. (PageSize - 1) /\ Base(t) \in Nat /\ p = Base(t) + r
    BY ByteAddress
  <2>2. Base(t + 1) = Base(t) + PageSize
    <3>1. 1 \in Nat
      OBVIOUS
    <3> HIDE DEF t
    <3>2. Base(t + 1) = Base(t) + 1 * PageSize
      BY <2>1, <3>1, BaseAfter
    <3> QED BY <3>2, PageSizeAssumption
  <2>3. c = 0 \/ z > Base(c)
    <3>1. c \in Nat
      BY PagesNeeded
    <3> DEFINE d == c
    <3>2. d \in Nat /\ PageCount(z) = d
      BY <3>1
    <3> HIDE DEF d
    <3>3. d = 0 \/ z > Base(d)
      BY <3>2, PagesNeeded
    <3> QED BY <3>3 DEF d
  <2> HIDE DEF t, r, c
  <2>4. s <= Base(t + 1) /\ s > Base(t)
    BY <1>2, <2>1, <2>2, <2>3, PageSizeAssumption DEF r
  <2>5. PageCount(s) = t
    BY <2>1, <2>4, PagesNeeded
  <2> QED BY <1>2, <2>5 DEF c
<1> QED BY <1>1, <1>2

(* The first part of the data is written to the page it starts on.         *)
LEMMA PartWritten ==
  ASSUME WriterInv, phase \in WritePhases, done = 0, Slot(pos) \in DOMAIN pages,
         NEW old, NEW n, n = Lesser(PageSize - Phase(pos), Len(buf)),
         CowAndWrite(Slot(pos), CopyInto(old, Phase(pos), SubSeq(buf, 1, n))),
         NEW s, s = Greater(size, pos + n), Return(s, pos + n, Drop(buf, n)),
         s # size => Slot(pos) = PageCount(size),
         \A i \in 1 .. s :
           Slot(i - 1) = Slot(pos) /\ i \notin (pos + 1) .. (pos + Len(buf)) =>
             old[Phase(i - 1) + 1] = IF i <= size THEN Byte(i) ELSE Zero
  PROVE  WriterInv'
<1> DEFINE b == buf
           p == pos
           r == Phase(p)
           t == Slot(p)
           head == SubSeq(b, 1, n)
           page == CopyInto(old, r, head)
<1>1. /\ size \in Nat /\ p \in Nat /\ IsSeq(b) /\ Len(b) \in Nat /\ b # <<>>
      /\ pages \in Seq(DOMAIN file) /\ Len(pages) = PageCount(size) /\ Storage
      /\ PageSize \in Nat /\ t \in DOMAIN pages
  BY PageSizeAssumption DEF WriterInv, WriterTyped, Storage, AtPhase, IsSeq
<1>2. r \in 0 .. (PageSize - 1)
  BY <1>1, ByteAddress
<1>3. Len(b) # 0
  <2> HIDE DEF b
  <2> QED BY <1>1 DEF IsSeq
<1> HIDE DEF t, r
<1>4. /\ n \in 0 .. Len(b) /\ n > 0 /\ n <= PageSize - r
      /\ n = PageSize - r \/ n = Len(b)
  <2> DEFINE a == PageSize - r
             l == Len(b)
  <2>1. n = Lesser(a, l)
    BY DEF r
  <2>2. a \in Nat /\ a > 0 /\ l \in Nat /\ l > 0
    <3> HIDE DEF b
    <3> QED BY <1>1, <1>2, <1>3
  <2> HIDE DEF a, l
  <2>3. n \in Nat /\ n <= a /\ n <= l /\ (n = a \/ n = l)
    BY <2>1, <2>2, LesserIs
  <2>4. n \in 0 .. l /\ n > 0
    BY <2>2, <2>3
  <2> QED BY <2>3, <2>4 DEF a, l
<1>5. Len(head) = n /\ \A m \in 1 .. n : head[m] = b[m]
  <2> HIDE DEF b
  <2> QED BY <1>1, <1>4, FirstBytes
<1>6. /\ s \in Nat /\ s >= size /\ s >= p + n /\ s <= Greater(size, p + Len(b))
      /\ s = size \/ s = p + n
  <2> HIDE DEF b
  <2>1. s = Greater(size, p + n)
    OBVIOUS
  <2> HIDE DEF p
  <2> QED BY <1>1, <1>4, <2>1 DEF Greater
<1>7. page = [j \in 1 .. PageSize |-> page[j]]
  BY DEF CopyInto
<1>8. CowAndWrite(t, page)
  BY DEF t, r
<1> HIDE DEF page
<1>9. /\ Storage' /\ Len(pages') = Len(pages) /\ file'[pages'[t]] = page
      /\ OthersKept(t)
  BY <1>1, <1>7, <1>8, PageWritten
<1>10. PageCount(s) = Len(pages)
  <2>1. s = size \/ (s = p + n /\ Slot(p) = PageCount(size))
    BY <1>6
  <2>2. n \in Nat /\ n <= PageSize - Phase(p)
    BY <1>1, <1>4 DEF r
  <2> HIDE DEF p, b
  <2>3. PageCount(s) = PageCount(size)
    BY <1>1, <1>6, <2>1, <2>2, SizeWithinPage
  <2> QED BY <1>1, <2>3
<1>11. s > size => t = Len(pages)
  BY <1>1, <1>6 DEF t
<1>12. \A i \in 1 .. s :
         /\ Slot(i - 1) = t => Byte(i)' = page[Phase(i - 1) + 1]
         /\ Slot(i - 1) # t => i <= size /\ Byte(i)' = Byte(i)
  <2> TAKE i \in 1 .. s
  <2> HIDE DEF p, b
  <2> QED BY <1>1, <1>6, <1>9, <1>10, <1>11, BytesOfPage
<1>13. \A i \in 1 .. s :
         /\ i \in (p + 1) .. (p + n) => Byte(i)' = b[i - p]
         /\ i \notin (p + 1) .. (p + Len(b)) =>
              Byte(i)' = IF i <= size THEN Byte(i) ELSE Zero
  <2> TAKE i \in 1 .. s
  <2> DEFINE x == i - 1
             v == Phase(x)
  <2>1. x \in Nat /\ v \in 0 .. (PageSize - 1)
        /\ (Slot(x) = t => x - p = v - r)
        /\ (x >= p /\ x - p < PageSize - r => Slot(x) = t)
    <3>1. x \in Nat
      BY <1>6
    <3> HIDE DEF x, p
    <3> QED BY <1>1, <3>1, SamePage DEF t, r
  <2>2. Slot(x) = t =>
          page[v + 1] = IF v + 1 > r /\ v + 1 <= r + n THEN head[(v + 1) - r] ELSE old[v + 1]
    <3>1. v + 1 \in 1 .. PageSize
      BY <1>1, <2>1
    <3> DEFINE j == v + 1
    <3>2. j \in 1 .. PageSize
      BY <3>1
    <3> HIDE DEF v, x, head, j
    <3>3. page[j] = IF j > r /\ j <= r + Len(head) THEN head[j - r] ELSE old[j]
      BY <3>2, CopiedByte DEF page
    <3>4. Len(head) = n
      BY <1>5
    <3>5. page[j] = IF j > r /\ j <= r + n THEN head[j - r] ELSE old[j]
      BY ONLY <3>3, <3>4
    <3> QED BY <3>5 DEF j
  <2>3. ASSUME i \in (p + 1) .. (p + n) PROVE Byte(i)' = b[i - p]
    <3>1. x >= p /\ x - p < PageSize - r
      <4> HIDE DEF b
      <4> QED BY <1>1, <1>2, <1>4, <1>6, <2>3
    <3>2. Slot(x) = t /\ x - p = v - r
      BY <2>1, <3>1
    <3>3. v + 1 > r /\ v + 1 <= r + n /\ (v + 1) - r = i - p /\ i - p \in 1 .. n
      <4>1. x = i - 1 /\ i \in Int /\ n \in Int
        BY <1>4, <1>6
      <4> HIDE DEF x, v, b, p
      <4>2. /\ v \in Int /\ r \in Int /\ p \in Int /\ x - p = v - r
            /\ i >= p + 1 /\ i <= p + n
        BY <1>1, <1>2, <1>4, <2>1, <2>3, <3>2
      <4> QED BY ONLY <4>1, <4>2
    <3>4. page[v + 1] = head[i - p]
      BY <2>2, <3>2, <3>3
    <3>5. head[i - p] = b[i - p]
      BY <1>5, <3>3
    <3> QED BY <1>12, <3>2, <3>4, <3>5
  <2>4. ASSUME i \notin (p + 1) .. (p + Len(b))
        PROVE  Byte(i)' = IF i <= size THEN Byte(i) ELSE Zero
    <3>1. CASE Slot(x) = t
      <4>1. ~(v + 1 > r /\ v + 1 <= r + n)
        <5>1. x = i - 1 /\ i \in Int /\ n \in Int /\ n <= Len(b)
          BY <1>4, <1>6
        <5> HIDE DEF x, v, b, p
        <5> QED BY <1>1, <1>2, <2>1, <2>4, <3>1, <5>1
      <4>2. Byte(i)' = old[v + 1]
        BY <1>12, <2>2, <3>1, <4>1
      <4>3. old[v + 1] = IF i <= size THEN Byte(i) ELSE Zero
        BY <2>4, <3>1 DEF t
      <4> QED BY <4>2, <4>3
    <3>2. CASE Slot(x) # t
      BY <1>12, <3>2
    <3> QED BY <3>1, <3>2
  <2> QED BY <2>3, <2>4
<1>14. Len(pages') = PageCount(size')
  BY <1>9, <1>10 DEF Return
<1> QED BY <1>4, <1>6, <1>9, <1>13, <1>14, Returned

(* What the invariant says of the stream's pages.                          *)
LEMMA WriterFacts ==
  ASSUME WriterInv
  PROVE  /\ size \in Nat /\ pos \in Nat /\ IsSeq(buf) /\ Len(buf) \in Nat
         /\ Storage /\ pages \in Seq(DOMAIN file) /\ Len(pages) = PageCount(size)
         /\ PageCount(size) \in Nat /\ DOMAIN pages = 1 .. PageCount(size)
         /\ PageSize \in Nat
<1>1. /\ size \in Nat /\ pos \in Nat /\ IsSeq(buf) /\ Len(buf) \in Nat
      /\ Storage /\ pages \in Seq(DOMAIN file) /\ Len(pages) = PageCount(size)
      /\ PageSize \in Nat
  BY PageSizeAssumption DEF WriterInv, WriterTyped, Storage, IsSeq
<1>2. PageCount(size) \in Nat
  BY <1>1, LastPage
<1>3. DOMAIN pages = 1 .. PageCount(size)
  BY <1>1
<1> QED BY <1>1, <1>2, <1>3

(* The page of the bytes that are written is as it was around them.        *)
LEMMA StartWritten ==
  ASSUME WriterInv, phase \in WritePhases, done = 0, pos <= size,
         Slot(pos) \in DOMAIN pages,
         NEW n, n = Lesser(PageSize - Phase(pos), Len(buf)),
         CowAndWrite(Slot(pos),
           CopyInto(file[pages[Slot(pos)]], Phase(pos), SubSeq(buf, 1, n))),
         Return(Greater(size, pos + n), pos + n, Drop(buf, n))
  PROVE  WriterInv'
<1> DEFINE s == Greater(size, pos + n)
           old == file[pages[Slot(pos)]]
           a == PageSize - Phase(pos)
           l == Len(buf)
<1>1. /\ size \in Nat /\ pos \in Nat /\ l \in Nat /\ PageSize \in Nat
      /\ DOMAIN pages = 1 .. PageCount(size) /\ PageCount(size) \in Nat
  BY WriterFacts
<1>2. Phase(pos) \in 0 .. (PageSize - 1)
  BY <1>1, ByteAddress
<1>3. a \in Nat /\ n = Lesser(a, l)
  BY <1>1, <1>2
<1> HIDE DEF a, l
<1>4. n \in Nat /\ n <= a /\ n <= l
  BY <1>1, <1>3, LesserIs
<1>5. s \in Nat /\ (s = size \/ (s = pos + n /\ s > size))
  BY <1>1, <1>4 DEF Greater
<1>6. s # size => Slot(pos) = PageCount(size)
  <2>1. SUFFICES ASSUME s = pos + n, s > size, Slot(pos) # PageCount(size) PROVE FALSE
    BY <1>5
  <2>2. Slot(pos) + 1 <= PageCount(size) /\ Slot(pos) \in Nat \ {0}
    BY <1>1, <2>1
  <2> DEFINE t == Slot(pos)
             c == PageCount(size)
  <2>3. /\ t \in Nat \ {0} /\ c \in Nat /\ t < c
    BY <1>1, <2>2
  <2>4. pos = Base(t) + Phase(pos) /\ Base(t) \in Nat
    BY <1>1, ByteAddress
  <2>5. size > Base(c)
    <3>1. c = PageCount(size) /\ c \in Nat /\ c # 0
      BY <2>3
    <3> HIDE DEF c, t
    <3> QED BY <1>1, <3>1, PagesNeeded
  <2>6. Base(t) + PageSize <= Base(c) /\ Base(c) \in Nat
    <3>1. c \in Nat \ {0}
      BY <2>3
    <3> HIDE DEF c, t
    <3> QED BY <2>3, <3>1, BaseOrder
  <2> DEFINE g == Base(t)
             h == Base(c)
             v == Phase(pos)
  <2>7. /\ g \in Nat /\ h \in Nat /\ v \in Int /\ pos = g + v /\ g + PageSize <= h
        /\ size > h /\ n <= PageSize - v /\ size \in Nat /\ n \in Nat /\ PageSize \in Nat
        /\ s = pos + n /\ s > size
    BY <1>1, <1>2, <1>4, <2>1, <2>4, <2>5, <2>6 DEF a
  <2> HIDE DEF g, h, v, s
  <2> QED BY ONLY <2>7
<1>7. ASSUME NEW i \in 1 .. s, Slot(i - 1) = Slot(pos),
             i \notin (pos + 1) .. (pos + Len(buf))
      PROVE  old[Phase(i - 1) + 1] = IF i <= size THEN Byte(i) ELSE Zero
  <2>1. i <= size
    BY <1>1, <1>4, <1>5, <1>7 DEF l
  <2> QED BY <1>7, <2>1 DEF Byte
<1>8. n = Lesser(PageSize - Phase(pos), Len(buf)) /\ s = Greater(size, pos + n)
      /\ Return(s, pos + n, Drop(buf, n))
  OBVIOUS
<1> HIDE DEF s
<1> QED BY <1>6, <1>7, <1>8, PartWritten

(* write_overwrite_unaligned_start: the end of a page is overwritten.      *)
LEMMA OverwriteStartKeeps ==
  ASSUME WriterInv, OverwriteStart
  PROVE  WriterInv'
<1>1. phase = "ow_start" /\ phase \in WritePhases /\ done = 0 /\ pos < size
  BY DEF OverwriteStart, WriterInv, AtPhase, WritePhases
<1>2. /\ size \in Nat /\ pos \in Nat /\ DOMAIN pages = 1 .. PageCount(size)
  BY WriterFacts
<1>3. Slot(pos) \in DOMAIN pages /\ pos <= size
  BY <1>1, <1>2, LastPage
<1> DEFINE n == Lesser(PageSize - Phase(pos), Len(buf))
<1>4. /\ CowAndWrite(Slot(pos),
           CopyInto(file[pages[Slot(pos)]], Phase(pos), SubSeq(buf, 1, n)))
      /\ Return(Greater(size, pos + n), pos + n, Drop(buf, n))
  BY DEF OverwriteStart
<1>5. n = Lesser(PageSize - Phase(pos), Len(buf))
  OBVIOUS
<1> HIDE DEF n
<1> QED BY <1>1, <1>3, <1>4, <1>5, StartWritten

(* write_unaligned_start_page: the stream's last page is filled up.        *)
LEMMA AppendStartKeeps ==
  ASSUME WriterInv, AppendStart
  PROVE  WriterInv'
<1>1. phase = "ap_start" /\ phase \in WritePhases /\ done = 0 /\ pos = size /\ Phase(pos) # 0
  BY DEF AppendStart, WriterInv, AtPhase, WritePhases
<1>2. /\ size \in Nat /\ pos \in Nat /\ DOMAIN pages = 1 .. PageCount(size)
  BY WriterFacts
<1>3. Slot(pos) \in DOMAIN pages /\ pos <= size
  <2>1. Slot(size) = PageCount(size)
    BY <1>1, <1>2, LastPage
  <2>2. Slot(pos) \in Nat \ {0}
    BY <1>2, ByteAddress
  <2> QED BY <1>1, <1>2, <2>1, <2>2
<1> DEFINE n == Lesser(PageSize - Phase(pos), Len(buf))
<1>4. /\ CowAndWrite(Slot(pos),
           CopyInto(file[pages[Slot(pos)]], Phase(pos), SubSeq(buf, 1, n)))
      /\ Return(Greater(size, pos + n), pos + n, Drop(buf, n))
  BY DEF AppendStart
<1>5. n = Lesser(PageSize - Phase(pos), Len(buf))
  OBVIOUS
<1> HIDE DEF n
<1> QED BY <1>1, <1>3, <1>4, <1>5, StartWritten

(* The data end within a page of the stream, whose other bytes are kept.   *)
LEMMA OverwriteTailKeeps ==
  ASSUME WriterInv, OverwriteTail
  PROVE  WriterInv'
<1>1. /\ phase = "ow_tail" /\ phase \in WritePhases /\ done = 0 /\ pos < size
      /\ Phase(pos) = 0 /\ Len(buf) < PageSize
  BY DEF OverwriteTail, WriterInv, AtPhase, WritePhases
<1>2. /\ size \in Nat /\ pos \in Nat /\ DOMAIN pages = 1 .. PageCount(size)
      /\ IsSeq(buf) /\ Len(buf) \in Nat /\ PageSize \in Nat /\ PageCount(size) \in Nat
  BY WriterFacts
<1>3. Slot(pos) \in DOMAIN pages
  BY <1>1, <1>2, LastPage
<1> DEFINE b == buf
           n == Len(b)
           old == IF size - pos > Len(buf) THEN file[pages[Slot(pos)]] ELSE Zeros(PageSize)
           s == Greater(size, pos + n)
<1>4. n = Lesser(PageSize - Phase(pos), Len(buf))
  BY <1>1, <1>2 DEF Lesser
<1>5. Drop(b, n) = <<>> /\ SubSeq(b, 1, n) = b
  <2>1. IsSeq(b) /\ n \in 0 .. Len(b) /\ n = Len(b) /\ n \in Nat
    BY <1>2
  <2>2. PICK S : b \in Seq(S)
    <3> HIDE DEF n
    <3>1. n \in Nat /\ b = [i \in 1 .. n |-> b[i]]
      BY <2>1 DEF IsSeq
    <3> HIDE DEF b
    <3> QED BY <3>1, FunctionLen
  <2> HIDE DEF b, n
  <2>3. Drop(b, n) = <<>>
    BY <2>1, Dropped
  <2>4. SubSeq(b, 1, n) = b
    BY <2>1, <2>2
  <2> QED BY <2>3, <2>4
<1>6. /\ CowAndWrite(Slot(pos), CopyInto(old, Phase(pos), SubSeq(buf, 1, n)))
      /\ Return(s, pos + n, Drop(buf, n))
  BY <1>1, <1>5 DEF OverwriteTail
<1>7. s \in Nat /\ (s = size \/ (s = pos + n /\ s > size))
  BY <1>2 DEF Greater
<1>8. s # size => Slot(pos) = PageCount(size)
  <2>1. SUFFICES ASSUME s = pos + n, s > size, Slot(pos) # PageCount(size) PROVE FALSE
    BY <1>7
  <2> DEFINE t == Slot(pos)
             c == PageCount(size)
  <2>2. t \in Nat \ {0} /\ c \in Nat \ {0} /\ t < c
    BY <1>2, <1>3, <2>1
  <2>3. pos = Base(t) + Phase(pos) /\ Base(t) \in Nat
    BY <1>2, ByteAddress
  <2>4. size > Base(c)
    <3>1. c = PageCount(size) /\ c \in Nat /\ c # 0
      BY <2>2
    <3> HIDE DEF c, t
    <3> QED BY <1>2, <3>1, PagesNeeded
  <2>5. Base(t) + PageSize <= Base(c) /\ Base(c) \in Nat
    <3> HIDE DEF c, t
    <3> QED BY <2>2, BaseOrder
  <2> HIDE DEF c, t
  <2> QED BY <1>1, <1>2, <2>1, <2>3, <2>4, <2>5
<1>9. ASSUME NEW i \in 1 .. s, Slot(i - 1) = Slot(pos),
             i \notin (pos + 1) .. (pos + Len(buf))
      PROVE  old[Phase(i - 1) + 1] = IF i <= size THEN Byte(i) ELSE Zero
  <2>1. i <= size
    BY <1>1, <1>2, <1>7, <1>9
  <2> DEFINE x == i - 1
  <2>2. x - pos = Phase(x) - Phase(pos) /\ Phase(x) \in 0 .. (PageSize - 1)
    <3>1. x \in Nat /\ Slot(x) = Slot(pos)
      BY <1>9, <1>7
    <3> HIDE DEF x
    <3> QED BY <1>2, <3>1, SamePage
  <2>3. size - pos > Len(buf)
    BY <1>1, <1>2, <1>9, <2>1, <2>2
  <2> QED BY <1>9, <2>1, <2>3 DEF Byte
<1>10. n = Lesser(PageSize - Phase(pos), Len(buf)) /\ s = Greater(size, pos + n)
  BY <1>4
<1> HIDE DEF s, n, old, b
<1> QED BY <1>1, <1>3, <1>6, <1>8, <1>9, <1>10, PartWritten

(* The page the stream ends on, with zeroes behind its bytes.              *)
LEMMA ZeroExtendStartKeeps ==
  ASSUME WriterInv, ZeroExtendStart
  PROVE  WriterInv'
<1>1. /\ phase = "zx_start" /\ phase \in WritePhases /\ done = 0 /\ size < pos
      /\ Phase(size) # 0
  BY DEF ZeroExtendStart, WriterInv, AtPhase, WritePhases
<1>2. /\ size \in Nat /\ pos \in Nat /\ DOMAIN pages = 1 .. PageCount(size)
      /\ pages \in Seq(DOMAIN file) /\ Len(pages) = PageCount(size)
      /\ Len(buf) \in Nat /\ PageSize \in Nat /\ PageCount(size) \in Nat /\ Storage
  BY WriterFacts
<1> DEFINE t == Slot(size)
           end == Phase(size)
           old == Prefix(file[pages[t]], end)
           n == Lesser(PageSize - Phase(pos), Len(buf))
<1>3. /\ t = PageCount(size) /\ t \in DOMAIN pages /\ end \in 1 .. (PageSize - 1)
      /\ Phase(pos) \in 0 .. (PageSize - 1)
  <2>1. Slot(size) = PageCount(size)
    BY <1>1, <1>2, LastPage
  <2>2. Slot(size) \in Nat \ {0} /\ Phase(size) \in 0 .. (PageSize - 1)
        /\ Phase(pos) \in 0 .. (PageSize - 1)
    BY <1>2, ByteAddress
  <2> QED BY <1>1, <1>2, <2>1, <2>2
<1>4. \A j \in 1 .. PageSize :
        old[j] = IF j <= end THEN file[pages[t]][j] ELSE Zero
  BY DEF Prefix
<1>5. \/ /\ t = Slot(pos)
         /\ CowAndWrite(t, CopyInto(old, Phase(pos), SubSeq(buf, 1, n)))
         /\ Return(pos + n, pos + n, Drop(buf, n))
      \/ /\ t # Slot(pos)
         /\ CowAndWrite(t, old)
         /\ Return(size + PageSize - end, pos, buf)
  BY DEF ZeroExtendStart
<1>6. ASSUME NEW i \in Nat \ {0}, Slot(i - 1) = t
      PROVE  old[Phase(i - 1) + 1] = IF i <= size THEN Byte(i) ELSE Zero
  <2> DEFINE x == i - 1
             v == Phase(x)
  <2>1. x - size = v - end /\ v \in 0 .. (PageSize - 1)
    <3>1. x \in Nat /\ Slot(x) = Slot(size)
      BY <1>6
    <3> HIDE DEF x
    <3> QED BY <1>2, <3>1, SamePage
  <2>2. v + 1 \in 1 .. PageSize /\ (v + 1 <= end <=> i <= size)
    <3>1. x = i - 1 /\ i \in Nat
      OBVIOUS
    <3> HIDE DEF x, v, end
    <3> QED BY <1>2, <1>3, <2>1, <3>1
  <2>3. old[v + 1] = IF v + 1 <= end THEN file[pages[t]][v + 1] ELSE Zero
    <3> HIDE DEF v, x, end, old, t
    <3> QED BY <1>4, <2>2
  <2>4. Byte(i) = file[pages[t]][v + 1]
    BY <1>6 DEF Byte
  <2> QED BY <2>2, <2>3, <2>4
<1>7. CASE /\ t = Slot(pos)
           /\ CowAndWrite(t, CopyInto(old, Phase(pos), SubSeq(buf, 1, n)))
           /\ Return(pos + n, pos + n, Drop(buf, n))
  <2> DEFINE s == Greater(size, pos + n)
  <2>1. n \in Nat
    BY <1>2, <1>3 DEF Lesser
  <2>2. s = pos + n /\ s \in Nat
    BY <1>1, <1>2, <2>1 DEF Greater
  <2>3. \A i \in 1 .. s :
          Slot(i - 1) = Slot(pos) /\ i \notin (pos + 1) .. (pos + Len(buf)) =>
            old[Phase(i - 1) + 1] = IF i <= size THEN Byte(i) ELSE Zero
    BY <1>6, <1>7, <2>2
  <2>4. /\ n = Lesser(PageSize - Phase(pos), Len(buf)) /\ s = Greater(size, pos + n)
        /\ CowAndWrite(Slot(pos), CopyInto(old, Phase(pos), SubSeq(buf, 1, n)))
        /\ Return(s, pos + n, Drop(buf, n))
        /\ Slot(pos) \in DOMAIN pages /\ Slot(pos) = PageCount(size)
    BY <1>3, <1>7, <2>2
  <2> HIDE DEF s, n, old
  <2> QED BY <1>1, <2>3, <2>4, PartWritten
<1>8. CASE /\ t # Slot(pos)
           /\ CowAndWrite(t, old)
           /\ Return(size + PageSize - end, pos, buf)
  <2> DEFINE s == size + (PageSize - end)
             b == buf
  <2>1. s \in Nat /\ s > size /\ s = size + PageSize - end
    BY <1>2, <1>3
  <2>2. s <= pos
    <3>1. SUFFICES ASSUME pos - size < PageSize - Phase(size) PROVE FALSE
      BY <1>2, <1>3
    <3>2. Slot(pos) = Slot(size)
      BY <1>1, <1>2, <3>1, SamePage
    <3> QED BY <1>8, <3>2
  <2>3. PageCount(s) = Len(pages)
    <3>1. PageSize - end \in Nat /\ PageSize - end <= PageSize - Phase(size)
          /\ Slot(size) <= PageCount(size)
      BY <1>2, <1>3
    <3> QED BY <1>2, <3>1, LastPage
  <2>4. old = [j \in 1 .. PageSize |-> old[j]]
    BY DEF Prefix
  <2>5. s > size => t = Len(pages)
    BY <1>2, <1>3
  <2>6. t \in DOMAIN pages /\ CowAndWrite(t, old) /\ Return(s, pos, buf)
        /\ (t = Slot(size))
    BY <1>3, <1>8, <2>1
  <2> HIDE DEF old, t, s
  <2>7. /\ Storage' /\ Len(pages') = Len(pages) /\ file'[pages'[t]] = old
        /\ OthersKept(t)
    BY <1>2, <2>4, <2>6, PageWritten
  <2>8. ASSUME NEW i \in 1 .. s
        PROVE  Byte(i)' = IF i <= size THEN Byte(i) ELSE Zero
    <3>1. /\ Slot(i - 1) = t => Byte(i)' = old[Phase(i - 1) + 1]
          /\ Slot(i - 1) # t => i <= size /\ Byte(i)' = Byte(i)
      BY <1>2, <2>1, <2>3, <2>5, <2>6, <2>7, BytesOfPage
    <3>2. i \in Nat \ {0}
      BY <2>1
    <3> QED BY <1>6, <3>1, <3>2
  <2>9. /\ 0 \in 0 .. Len(b) /\ pos + 0 = pos /\ Drop(b, 0) = b
        /\ Len(b) \in Nat
    <3>1. IsSeq(b) /\ Len(b) \in Nat
      BY WriterFacts
    <3>2. Drop(b, 0) = b
      BY <3>1, DropNone
    <3> QED BY <1>2, <3>1, <3>2
  <2>10. /\ Return(s, pos + 0, Drop(buf, 0)) /\ s >= size
         /\ s <= Greater(size, pos + Len(buf)) /\ ~(0 > 0) /\ 0 \in 0 .. Len(buf)
    BY <1>2, <2>1, <2>2, <2>6, <2>9 DEF Greater, b
  <2>11. Len(pages') = PageCount(size')
    BY <2>3, <2>6, <2>7 DEF Return
  <2>12. \A i \in 1 .. s :
           /\ i \in (pos + 1) .. (pos + 0) => Byte(i)' = buf[i - pos]
           /\ i \notin (pos + 1) .. (pos + Len(buf)) =>
                Byte(i)' = IF i <= size THEN Byte(i) ELSE Zero
    BY <1>2, <2>8
  <2> QED BY <1>1, <2>1, <2>7, <2>10, <2>11, <2>12, Returned
<1> QED BY <1>5, <1>7, <1>8

-----------------------------------------------------------------------------
(***************************************************************************)
(* Pages added to the stream.                                              *)
(***************************************************************************)
(* The first w of the bytes added to it are those of data.                 *)
Extended(data, s, w) ==
  \A i \in 1 .. s :
    /\ i <= size => Byte(i)' = Byte(i)
    /\ i > size /\ i - size <= w => Byte(i)' = data[i - size]

(* alloc_pages adds k pages to the stream, with the given bytes.           *)
LEMMA PagesAppended ==
  ASSUME WriterInv, Phase(size) = 0, NEW want \in Nat \ {0},
         NEW p \in DOMAIN file, NEW k \in DOMAIN file, AddPages(want, p, k),
         NEW data, NEW w \in 0 .. (k * PageSize), WriteRun(p, data, w),
         NEW s \in Nat, s > size + (k - 1) * PageSize, s <= size + k * PageSize
  PROVE  /\ Storage' /\ k \in 1 .. want /\ Len(pages') = PageCount(s)
         /\ Extended(data, s, w)
<1> DEFINE L == PageCount(size)
<1>1. /\ size \in Nat /\ pages \in Seq(DOMAIN file) /\ Len(pages) = L
      /\ L \in Nat /\ DOMAIN pages = 1 .. L /\ Storage
      /\ PageSize \in Nat \ {0}
  BY WriterFacts, PageSizeAssumption
<1>2. size = Base(L + 1)
  BY <1>1, LastPage
<1> HIDE DEF L
<1>3. /\ Storage' /\ k \in 1 .. want /\ Len(pages') = L + k
      /\ \A t \in DOMAIN pages : file'[pages'[t]] = file[pages[t]]
      /\ \A m \in 1 .. k : \A j \in 1 .. PageSize : (m - 1) * PageSize + j <= w =>
           file'[pages'[L + m]][j] = data[(m - 1) * PageSize + j]
  BY <1>1, PagesAdded, SMTT(30)
<1>4. k \in Nat \ {0} /\ k - 1 \in Nat /\ L + 1 \in Nat \ {0}
  BY <1>1, <1>3
<1>5. /\ Base(L + 1 + k) = size + k * PageSize
      /\ Base(L + 1 + (k - 1)) = size + (k - 1) * PageSize
  <2> DEFINE u == L + 1
             d == k - 1
             e == k
  <2>1. u \in Nat \ {0} /\ d \in Nat /\ e \in Nat /\ size = Base(u)
    BY <1>2, <1>4
  <2> HIDE DEF u, d, e
  <2>2. Base(u + e) = Base(u) + e * PageSize /\ Base(u + d) = Base(u) + d * PageSize
    BY <2>1, BaseAfter
  <2> QED BY <2>1, <2>2 DEF u, d, e
<1>6. /\ L + 1 + k = L + k + 1 /\ L + 1 + (k - 1) = L + k /\ L + k \in Nat \ {0}
      /\ L + k + 1 \in Nat \ {0}
  BY ONLY <1>1, <1>4
<1>7. PageCount(s) = L + k
  <2> DEFINE c == L + k
  <2>1. c \in Nat /\ s <= Base(c + 1) /\ s > Base(c)
    BY <1>5, <1>6
  <2> HIDE DEF c
  <2>2. PageCount(s) = c
    BY <2>1, PagesNeeded
  <2> QED BY <2>2 DEF c
<1>8. ASSUME NEW i \in 1 .. s, i <= size PROVE Byte(i)' = Byte(i)
  <2>1. i \in 1 .. size
    BY <1>1, <1>8
  <2>2. Slot(i - 1) \in DOMAIN pages
    BY <1>1, <2>1, BytePage DEF L
  <2>3. Byte(i)' = file'[pages'[Slot(i - 1)]][Phase(i - 1) + 1]
    BY BytesAfter
  <2> QED BY <1>3, <2>2, <2>3 DEF Byte
<1>9. ASSUME NEW i \in 1 .. s, i > size, i - size <= w PROVE Byte(i)' = data[i - size]
  <2> DEFINE x == i - 1
             t == Slot(x)
             j == Phase(x) + 1
             m == t - L
  <2>1. x \in Nat /\ x >= Base(L + 1) /\ x < Base(L + k + 1)
    <3> DEFINE B == k * PageSize
    <3>1. Base(L + k + 1) = size + B /\ s <= size + B /\ B \in Nat
      <4>1. B \in Nat
        BY ONLY <1>1, <1>4
      <4>2. Base(L + k + 1) = size + B
        BY <1>5, <1>6
      <4> QED BY <4>1, <4>2
    <3> HIDE DEF B
    <3>2. s <= Base(L + k + 1) /\ Base(L + k + 1) \in Nat
      BY <1>1, <3>1
    <3> QED BY <1>1, <1>2, <1>9, <3>2
  <2>2. /\ t \in Nat \ {0} /\ j \in 1 .. PageSize /\ x = Base(t) + Phase(x)
        /\ Phase(x) \in Nat
    <3> HIDE DEF x
    <3>1. /\ Slot(x) \in Nat \ {0} /\ Phase(x) \in 0 .. (PageSize - 1)
          /\ x = Base(Slot(x)) + Phase(x)
      BY <2>1, ByteAddress
    <3> QED BY <1>1, <3>1
  <2>3. ~(t < L + 1) /\ t < L + k + 1
    <3>1. (Slot(x) < L + 1 <=> x < Base(L + 1)) /\ Base(L + 1) \in Nat
      <4> HIDE DEF x
      <4> QED BY <1>4, <2>1, BeforeSlot
    <3>2. Slot(x) < L + k + 1 <=> x < Base(L + k + 1)
      <4> DEFINE u == L + k + 1
      <4>1. u \in Nat \ {0}
        BY <1>6
      <4> HIDE DEF x, u
      <4>2. Slot(x) < u <=> x < Base(u)
        BY <2>1, <4>1, BeforeSlot
      <4> QED BY <4>2 DEF u
    <3> QED BY <2>1, <3>1, <3>2
  <2>4. m \in 1 .. k /\ L + m = t /\ L + 1 + (m - 1) = t /\ m - 1 \in Nat
    <3> HIDE DEF x, t
    <3> QED BY ONLY <1>1, <1>4, <2>2, <2>3 DEF m
  <2>5. Base(t) = size + (m - 1) * PageSize /\ (m - 1) * PageSize \in Nat
    <3> DEFINE u == L + 1
               d == m - 1
    <3>1. u \in Nat \ {0} /\ d \in Nat /\ u + d = t
      BY <1>4, <2>4
    <3> HIDE DEF u, d
    <3>2. Base(u + d) = Base(u) + d * PageSize /\ d * PageSize \in Nat
      BY <3>1, BaseAfter
    <3> QED BY <1>2, <3>1, <3>2 DEF u, d
  <2>6. (m - 1) * PageSize + j = i - size
    <3> DEFINE f == (m - 1) * PageSize
    <3>1. f \in Nat /\ x = i - 1 /\ i \in Nat /\ x = (size + f) + Phase(x)
      BY <2>2, <2>5
    <3> DEFINE v == Phase(x)
    <3> HIDE DEF f, x, m, t
    <3>2. f + j = i - size
      <4>1. size \in Nat /\ v \in Nat /\ j = v + 1 /\ x = (size + f) + v
        BY <1>1, <2>2, <3>1
      <4> HIDE DEF v
      <4> QED BY ONLY <3>1, <4>1
    <3> QED BY <3>2 DEF f
  <2>7. file'[pages'[t]][j] = data[i - size]
    <3> DEFINE o == (m - 1) * PageSize + j
    <3>1. o <= w => file'[pages'[L + m]][j] = data[o]
      BY <1>3, <2>2, <2>4
    <3>2. o = i - size
      BY <2>6
    <3> HIDE DEF o, m, j, t
    <3> QED BY <1>9, <2>4, <3>1, <3>2
  <2>8. Byte(i)' = file'[pages'[Slot(i - 1)]][Phase(i - 1) + 1]
    BY BytesAfter
  <2> QED BY <2>7, <2>8
<1> QED BY <1>3, <1>7, <1>8, <1>9 DEF Extended

(* alloc_pages gives one page at least, and no more than it is asked for.  *)
LEMMA AddedCount ==
  ASSUME Storage, NEW n \in Nat \ {0}, NEW p \in DOMAIN file, NEW k \in DOMAIN file,
         AddPages(n, p, k)
  PROVE  k \in 1 .. n /\ k \in Nat \ {0}
<1>1. /\ AllocatorTyped /\ AllocatorConsistent /\ p \in Nat /\ k \in Nat
  BY MaxPagesAssumption DEF Storage, AllocatorTyped
<1>2. AllocPages(n, p, k)
  BY DEF AddPages
<1>3. k # 0
  BY <1>1, <1>2, AllocPagesEffect
<1>4. k \in 1 .. n
  BY <1>1, <1>2, <1>3 DEF AllocPages, FreeRun, GrownRun
<1> QED BY <1>1, <1>3, <1>4

(* The bytes of k whole pages.                                             *)
LEMMA WholePages ==
  ASSUME NEW k \in Nat \ {0}
  PROVE  /\ k * PageSize \in Nat /\ (k - 1) * PageSize \in Nat
         /\ k * PageSize = (k - 1) * PageSize + PageSize
         /\ PageSize \in Nat \ {0} /\ k * PageSize >= PageSize
<1>1. PageSize \in Nat \ {0}
  BY PageSizeAssumption
<1>2. k * PageSize \in Nat /\ (k - 1) * PageSize \in Nat
      /\ k * PageSize = (k - 1) * PageSize + PageSize
  BY <1>1
<1> DEFINE a == k * PageSize
           b == (k - 1) * PageSize
<1>3. a \in Nat /\ b \in Nat /\ a = b + PageSize
  BY <1>2
<1> HIDE DEF a, b
<1>4. a >= PageSize
  BY <1>1, <1>3
<1> QED BY <1>1, <1>2, <1>4 DEF a

(* m bytes of data fill m \div PageSize pages.                             *)
LEMMA WholePagesOf ==
  ASSUME NEW m \in Nat, m >= PageSize
  PROVE  /\ m \div PageSize \in Nat \ {0}
         /\ \A k \in 1 .. (m \div PageSize) : k * PageSize <= m
<1>1. PageSize \in Nat \ {0}
  BY PageSizeAssumption
<1> DEFINE d == m \div PageSize
           r == m % PageSize
<1>2. d \in Nat /\ r \in 0 .. (PageSize - 1) /\ m = PageSize * d + r
  BY <1>1, DivMod
<1> HIDE DEF d, r
<1>3. d # 0
  <2>1. ASSUME d = 0 PROVE FALSE
    <3>1. m = r
      BY <1>1, <1>2, <2>1
    <3> QED BY <1>1, <1>2, <3>1
  <2> QED BY <2>1
<1>4. ASSUME NEW k \in 1 .. d PROVE k * PageSize <= m
  <2>1. d - k \in Nat /\ PageSize * d = k * PageSize + (d - k) * PageSize
    BY <1>1, <1>2
  <2> DEFINE a == k * PageSize
             b == (d - k) * PageSize
             c == PageSize * d
  <2>2. a \in Nat /\ b \in Nat /\ c = a + b /\ m = c + r
    BY <1>1, <1>2, <2>1
  <2> HIDE DEF a, b, c
  <2>3. a <= m
    BY <1>1, <1>2, <2>2
  <2> QED BY <2>3 DEF a
<1> QED BY <1>2, <1>3, <1>4 DEF d

(* write_zero_extend_whole_pages: pages of zeroes, before the position.    *)
LEMMA ZeroExtendPagesKeeps ==
  ASSUME WriterInv, ZeroExtendPages
  PROVE  WriterInv'
<1>1. /\ phase = "zx_pages" /\ phase \in WritePhases /\ done = 0 /\ size < pos
      /\ Phase(size) = 0 /\ pos - size >= PageSize
  BY DEF ZeroExtendPages, WriterInv, AtPhase, WritePhases
<1>2. /\ size \in Nat /\ pos \in Nat /\ Len(buf) \in Nat /\ IsSeq(buf) /\ Storage
  BY WriterFacts
<1> DEFINE want == (pos - size) \div PageSize
<1>3. PICK p \in DOMAIN file, k \in DOMAIN file, wn \in Written(PageSize) :
        /\ AddPages(want, p, k)
        /\ WriteRun(p, Zeros(k * PageSize), (k - 1) * PageSize + wn)
        /\ Return(size + k * PageSize, pos, buf)
  BY DEF ZeroExtendPages
<1>4. want \in Nat \ {0} /\ \A j \in 1 .. want : j * PageSize <= pos - size
  <2> DEFINE m == pos - size
  <2>1. m \in Nat /\ m >= PageSize
    BY <1>1, <1>2
  <2> HIDE DEF m
  <2>2. m \div PageSize \in Nat \ {0} /\ \A j \in 1 .. (m \div PageSize) : j * PageSize <= m
    BY <2>1, WholePagesOf
  <2> QED BY <2>2 DEF m
<1> HIDE DEF want
<1>5. k \in 1 .. want /\ k \in Nat \ {0}
  BY <1>2, <1>3, <1>4, AddedCount
<1> DEFINE a == k * PageSize
           b == (k - 1) * PageSize
           w == b + wn
           s == size + a
           data == Zeros(a)
<1>6. /\ a \in Nat /\ b \in Nat /\ a = b + PageSize /\ PageSize \in Nat \ {0}
      /\ a <= pos - size
  BY <1>4, <1>5, WholePages
<1>7. /\ AddPages(want, p, k) /\ WriteRun(p, data, w) /\ Return(s, pos, buf)
      /\ k \in DOMAIN file
  BY <1>3
<1>8. wn \in 1 .. PageSize /\ (~ShortWrites => wn = PageSize)
  BY <1>6 DEF Written
<1>9. \A j \in 1 .. a : data[j] = Zero
  BY DEF Zeros
<1>10. a = k * PageSize /\ b = (k - 1) * PageSize
  OBVIOUS
<1> HIDE DEF a, b, data
<1>11. w \in 0 .. a /\ (~ShortWrites => w = a) /\ s \in Nat /\ s > size + b /\ s <= size + a
       /\ s <= pos /\ s >= size
  BY <1>1, <1>2, <1>6, <1>8
<1> HIDE DEF w
<1>12. Storage' /\ Len(pages') = PageCount(s) /\ Extended(data, s, w)
  <2> HIDE DEF s
  <2> QED BY <1>1, <1>4, <1>7, <1>10, <1>11, PagesAppended
<1>13. ASSUME ~ShortWrites, NEW i \in 1 .. s
       PROVE  Byte(i)' = IF i <= size THEN Byte(i) ELSE Zero
  <2>1. CASE i <= size
    BY <1>12, <2>1 DEF Extended
  <2>2. CASE i > size
    <3>1. i - size \in 1 .. a /\ i - size <= w
      BY <1>2, <1>6, <1>11, <1>13, <2>2
    <3>2. Byte(i)' = data[i - size]
      BY <1>12, <2>2, <3>1 DEF Extended
    <3> QED BY <1>2, <1>9, <2>2, <3>1, <3>2
  <2> QED BY <1>2, <1>11, <2>1, <2>2
<1>14. 0 \in 0 .. Len(buf) /\ pos + 0 = pos /\ Drop(buf, 0) = buf
  BY <1>2, DropNone
<1>15. /\ Return(s, pos + 0, Drop(buf, 0)) /\ s <= Greater(size, pos + Len(buf))
       /\ ~(0 > 0) /\ 0 \in 0 .. Len(buf) /\ Len(pages') = PageCount(size')
  <2>1. size' = s
    BY <1>7 DEF Return
  <2> HIDE DEF s
  <2> QED BY <1>1, <1>2, <1>7, <1>11, <1>12, <1>14, <2>1 DEF Greater
<1>16. ~ShortWrites =>
         \A i \in 1 .. s :
           /\ i \in (pos + 1) .. (pos + 0) => Byte(i)' = buf[i - pos]
           /\ i \notin (pos + 1) .. (pos + Len(buf)) =>
                Byte(i)' = IF i <= size THEN Byte(i) ELSE Zero
  BY <1>2, <1>13
<1> HIDE DEF s
<1> QED BY <1>1, <1>11, <1>12, <1>15, <1>16, Returned

(* Pages are added up to the end of the first n bytes of the data.         *)
LEMMA DataAppended ==
  ASSUME WriterInv, phase \in WritePhases, done = 0, size <= pos, Phase(size) = 0,
         NEW want \in Nat \ {0}, NEW p \in DOMAIN file, NEW k \in DOMAIN file,
         AddPages(want, p, k),
         NEW data, NEW w \in 0 .. (k * PageSize), WriteRun(p, data, w),
         NEW n \in 0 .. Len(buf), n > 0, Return(pos + n, pos + n, Drop(buf, n)),
         pos + n > size + (k - 1) * PageSize, pos + n <= size + k * PageSize,
         ~ShortWrites => (pos + n) - size <= w,
         \A j \in 1 .. ((pos + n) - size) :
           data[j] = IF j <= pos - size THEN Zero ELSE buf[j - (pos - size)]
  PROVE  WriterInv'
<1> DEFINE s == pos + n
<1>1. /\ size \in Nat /\ pos \in Nat /\ Len(buf) \in Nat /\ IsSeq(buf) /\ Storage
  BY WriterFacts
<1>2. n \in Nat /\ n <= Len(buf) /\ s \in Nat /\ s >= size /\ s <= Greater(size, pos + Len(buf))
  BY ONLY <1>1, n \in 0 .. Len(buf), size <= pos DEF Greater
<1>3. Storage' /\ Len(pages') = PageCount(s) /\ Extended(data, s, w)
  <2> HIDE DEF s
  <2>1. s > size + (k - 1) * PageSize /\ s <= size + k * PageSize
    BY DEF s
  <2> QED BY <1>2, <2>1, PagesAppended
<1>4. ASSUME ~ShortWrites, NEW i \in 1 .. s
      PROVE  /\ i \in (pos + 1) .. (pos + n) => Byte(i)' = buf[i - pos]
             /\ i \notin (pos + 1) .. (pos + Len(buf)) =>
                  Byte(i)' = IF i <= size THEN Byte(i) ELSE Zero
  <2>0. s - size <= w /\ w \in Int /\ i \in Int
    <3>1. s - size <= w
      BY <1>4
    <3>2. i \in Int
      BY ONLY <1>2, i \in 1 .. s
    <3> QED BY <3>1, <3>2
  <2>1. CASE i <= size
    <3>1. Byte(i)' = Byte(i)
      BY <1>3, <2>1 DEF Extended
    <3>2. i \notin (pos + 1) .. (pos + n)
      BY ONLY <1>1, <1>2, <2>0, <2>1, size <= pos
    <3> QED BY <2>1, <3>1, <3>2
  <2>2. CASE i > size
    <3>1. /\ i - size \in 1 .. (s - size) /\ i - size <= w
          /\ (i - size) - (pos - size) = i - pos
          /\ (i - size <= pos - size <=> i <= pos)
      <4> HIDE DEF s
      <4> QED BY ONLY <1>1, <1>2, <2>0, <2>2, i \in 1 .. s
    <3>2. Byte(i)' = data[i - size]
      BY <1>3, <2>2, <3>1 DEF Extended
    <3>3. data[i - size] = IF i - size <= pos - size THEN Zero
                           ELSE buf[(i - size) - (pos - size)]
      BY <3>1
    <3>4. Byte(i)' = IF i <= pos THEN Zero ELSE buf[i - pos]
      BY ONLY <3>1, <3>2, <3>3
    <3>5. /\ i \in (pos + 1) .. (pos + n) => ~(i <= pos)
          /\ i \notin (pos + 1) .. (pos + Len(buf)) => i <= pos
          /\ ~(i <= size)
      BY ONLY <1>1, <1>2, <2>0, <2>2, i \in 1 .. s
    <3> QED BY ONLY <3>4, <3>5
  <2> QED BY ONLY <1>1, <2>0, <2>1, <2>2
<1>5. Return(s, pos + n, Drop(buf, n)) /\ Len(pages') = PageCount(size') /\ pos + n <= s
  <2>1. pos + n <= s
    BY ONLY <1>1, <1>2
  <2> QED BY <1>3, <2>1 DEF Return
<1> HIDE DEF s
<1> QED BY <1>2, <1>3, <1>4, <1>5, Returned

(* write_append_complete_pages: as many pages as alloc_pages gives.        *)
LEMMA AppendCompletePagesKeeps ==
  ASSUME WriterInv, AppendCompletePages
  PROVE  WriterInv'
<1>1. /\ phase = "ap_pages" /\ phase \in WritePhases /\ done = 0 /\ size = pos
      /\ Phase(size) = 0 /\ Len(buf) >= PageSize
  BY DEF AppendCompletePages, WriterInv, AtPhase, WritePhases
<1>2. /\ size \in Nat /\ pos \in Nat /\ Len(buf) \in Nat /\ IsSeq(buf) /\ Storage
  BY WriterFacts
<1> DEFINE want == Len(buf) \div PageSize
<1>3. PICK p \in DOMAIN file, k \in DOMAIN file :
        /\ AddPages(want, p, k) /\ WriteRun(p, buf, k * PageSize)
        /\ Return(size + k * PageSize, pos + k * PageSize, Drop(buf, k * PageSize))
  BY DEF AppendCompletePages
<1>4. want \in Nat \ {0} /\ \A j \in 1 .. want : j * PageSize <= Len(buf)
  <2> DEFINE m == Len(buf)
  <2>1. m \in Nat /\ m >= PageSize
    BY <1>1, <1>2
  <2> HIDE DEF m
  <2>2. m \div PageSize \in Nat \ {0} /\ \A j \in 1 .. (m \div PageSize) : j * PageSize <= m
    BY <2>1, WholePagesOf
  <2> QED BY <2>2 DEF m
<1> HIDE DEF want
<1>5. k \in 1 .. want /\ k \in Nat \ {0}
  BY <1>2, <1>3, <1>4, AddedCount
<1> DEFINE n == k * PageSize
           b == (k - 1) * PageSize
<1>6. /\ n \in Nat /\ b \in Nat /\ n = b + PageSize /\ PageSize \in Nat \ {0}
      /\ n <= Len(buf)
  BY <1>4, <1>5, WholePages
<1>7. /\ AddPages(want, p, k) /\ WriteRun(p, buf, n)
      /\ Return(pos + n, pos + n, Drop(buf, n)) /\ n = k * PageSize /\ b = (k - 1) * PageSize
  BY <1>1, <1>3
<1> HIDE DEF n, b
<1>8. /\ n \in 0 .. Len(buf) /\ n > 0 /\ pos + n > size + b /\ pos + n <= size + n
      /\ n \in 0 .. n /\ (pos + n) - size = n /\ pos - size = 0 /\ size <= pos
  BY <1>1, <1>2, <1>6
<1>9. \A j \in 1 .. ((pos + n) - size) :
        buf[j] = IF j <= pos - size THEN Zero ELSE buf[j - (pos - size)]
  <2>1. \A j \in 1 .. n : ~(j <= 0) /\ j - 0 = j
    BY <1>6
  <2> QED BY <1>8, <2>1
<1> QED BY <1>1, <1>4, <1>7, <1>8, <1>9, DataAppended

(* A single page: zeroes, some of the data, zeroes.                        *)
LEMMA LastPageAppended ==
  ASSUME WriterInv, phase \in WritePhases, done = 0, size <= pos, Phase(size) = 0,
         NEW p \in DOMAIN file, AddPages(1, p, 1),
         NEW n \in 0 .. Len(buf), n > 0, (pos - size) + n <= PageSize,
         NEW w \in 0 .. PageSize, ~ShortWrites => w = PageSize,
         NEW head, Len(head) = n, \A m \in 1 .. n : head[m] = buf[m],
         WriteRun(p, CopyInto(Zeros(PageSize), pos - size, head), w),
         Return(pos + n, pos + n, Drop(buf, n))
  PROVE  WriterInv'
<1> DEFINE z == pos - size
           data == CopyInto(Zeros(PageSize), z, head)
           want == 1
           k == 1
<1>1. /\ size \in Nat /\ pos \in Nat /\ Len(buf) \in Nat /\ PageSize \in Nat \ {0}
      /\ DOMAIN file = 0 .. (MaxPages - 1) /\ MaxPages \in Nat /\ MaxPages >= 3
  BY WriterFacts, PageSizeAssumption, MaxPagesAssumption DEF WriterInv, Storage
<1>2. /\ want \in Nat \ {0} /\ k \in DOMAIN file /\ AddPages(want, p, k)
      /\ k * PageSize = PageSize /\ (k - 1) * PageSize = 0
  BY <1>1
<1>3. n \in Nat /\ z \in Nat /\ (pos + n) - size = z + n
  BY <1>1
<1>4. pos + n > size + 0 /\ pos + n <= size + PageSize /\ z + n <= PageSize
  BY <1>1, <1>3
<1>5. \A j \in 1 .. ((pos + n) - size) :
        data[j] = IF j <= pos - size THEN Zero ELSE buf[j - (pos - size)]
  <2> TAKE j \in 1 .. ((pos + n) - size)
  <2>1. j \in 1 .. PageSize /\ (j > z => j <= z + n /\ j - z \in 1 .. n) /\ j \in Nat
    <3>1. j \in 1 .. (z + n)
      BY <1>3
    <3> HIDE DEF z
    <3> QED BY <1>1, <1>3, <1>4, <3>1
  <2>2. data[j] = IF j > z /\ j <= z + n THEN head[j - z] ELSE Zeros(PageSize)[j]
    <3> HIDE DEF z
    <3>1. data[j] = IF j > z /\ j <= z + Len(head) THEN head[j - z] ELSE Zeros(PageSize)[j]
      BY <2>1, CopiedByte
    <3> QED BY <3>1
  <2>3. Zeros(PageSize)[j] = Zero
    BY <2>1 DEF Zeros
  <2>4. j > z => head[j - z] = buf[j - z]
    BY <2>1
  <2>5. (j > z <=> ~(j <= z))
    <3> HIDE DEF z
    <3> QED BY <1>3, <2>1
  <2>6. data[j] = IF j <= z THEN Zero ELSE buf[j - z]
    <3> HIDE DEF z, data
    <3> QED BY <2>1, <2>2, <2>3, <2>4, <2>5
  <2> QED BY <2>6
<1>6. WriteRun(p, data, w) /\ (~ShortWrites => (pos + n) - size <= w)
  BY <1>3, <1>4
<1> HIDE DEF data, want, k
<1>7. w \in 0 .. (k * PageSize)
  BY <1>2
<1>8. pos + n > size + (k - 1) * PageSize /\ pos + n <= size + k * PageSize
  BY <1>2, <1>4
<1> QED BY <1>2, <1>5, <1>6, <1>7, <1>8, DataAppended

(* write_append_final_unaligned_page: the data end on a new page.          *)
LEMMA AppendFinalPageKeeps ==
  ASSUME WriterInv, AppendFinalPage
  PROVE  WriterInv'
<1>1. /\ phase = "ap_final" /\ phase \in WritePhases /\ done = 0 /\ size = pos
      /\ Phase(size) = 0 /\ Len(buf) < PageSize /\ buf # <<>>
  BY DEF AppendFinalPage, WriterInv, AtPhase, WritePhases
<1>2. /\ size \in Nat /\ pos \in Nat /\ Len(buf) \in Nat /\ IsSeq(buf) /\ PageSize \in Nat
  BY WriterFacts
<1>3. PICK p \in DOMAIN file :
        /\ AddPages(1, p, 1)
        /\ WriteRun(p, CopyInto(Zeros(PageSize), 0, buf), PageSize)
  BY DEF AppendFinalPage
<1> DEFINE b == buf
           n == Len(b)
<1>4. n > 0 /\ n \in 0 .. Len(b) /\ n \in Nat /\ Drop(b, n) = <<>>
  <2>1. IsSeq(b) /\ b # <<>> /\ n \in 0 .. Len(b) /\ n = Len(b)
    BY <1>1, <1>2
  <2> HIDE DEF b, n
  <2>2. Len(b) \in Nat /\ Drop(b, n) = <<>> /\ (Len(b) = 0 => b = <<>>)
    BY <2>1, Dropped DEF IsSeq
  <2> QED BY <2>1, <2>2
<1>5. Return(pos + n, pos + n, Drop(buf, n))
  BY <1>1, <1>4 DEF AppendFinalPage
<1>6. /\ pos - size = 0 /\ (pos - size) + n <= PageSize /\ size <= pos
      /\ PageSize \in 0 .. PageSize
  BY <1>1, <1>2
<1>7. WriteRun(p, CopyInto(Zeros(PageSize), pos - size, buf), PageSize)
  BY <1>3, <1>6
<1>8. Len(buf) = n /\ \A m \in 1 .. n : buf[m] = buf[m]
  OBVIOUS
<1>9. n \in 0 .. Len(buf) /\ n > 0
  BY <1>4
<1> HIDE DEF n, b
<1> QED BY <1>1, <1>3, <1>5, <1>6, <1>7, <1>8, <1>9, LastPageAppended

(* write_zero_extend_unaligned_end: zeroes, then data, on a new page.      *)
LEMMA ZeroExtendEndKeeps ==
  ASSUME WriterInv, ZeroExtendEnd
  PROVE  WriterInv'
<1>1. /\ phase = "zx_end" /\ phase \in WritePhases /\ done = 0 /\ size < pos
      /\ Phase(size) = 0 /\ pos - size < PageSize /\ buf # <<>>
  BY DEF ZeroExtendEnd, WriterInv, AtPhase, WritePhases
<1>2. /\ size \in Nat /\ pos \in Nat /\ Len(buf) \in Nat /\ IsSeq(buf) /\ PageSize \in Nat
  BY WriterFacts
<1> DEFINE b == buf
           z == pos - size
           a == PageSize - z
           l == Len(b)
           n == Lesser(l, a)
           head == SubSeq(b, 1, n)
<1>3. PICK p \in DOMAIN file, w \in Written(PageSize) :
        /\ AddPages(1, p, 1)
        /\ WriteRun(p, CopyInto(Zeros(PageSize), z, head), w)
        /\ Return(size + z + n, pos + n, Drop(b, n))
  BY DEF ZeroExtendEnd
<1>4. /\ l \in Nat /\ l > 0 /\ a \in Nat /\ a > 0 /\ z \in Nat
  <2>1. b # <<>> /\ IsSeq(b) /\ l \in Nat
    BY <1>1, <1>2
  <2>2. l # 0
    <3> HIDE DEF b
    <3> QED BY <2>1 DEF IsSeq
  <2> QED BY <1>1, <1>2, <2>1, <2>2
<1> HIDE DEF a, l
<1>5. n \in Nat /\ n <= l /\ n <= a /\ n > 0
  BY <1>4 DEF Lesser
<1> HIDE DEF n
<1>6. n \in 0 .. Len(buf) /\ z + n <= PageSize /\ size + z + n = pos + n
  BY <1>2, <1>4, <1>5 DEF l, a
<1>7. Len(head) = n /\ \A m \in 1 .. n : head[m] = buf[m]
  <2>1. n \in 0 .. Len(b) /\ IsSeq(b)
    BY <1>2, <1>6
  <2> HIDE DEF b
  <2> QED BY <2>1, FirstBytes DEF b
<1>8. w \in 0 .. PageSize /\ (~ShortWrites => w = PageSize)
  BY <1>1, <1>2 DEF Written
<1>9. /\ AddPages(1, p, 1)
      /\ WriteRun(p, CopyInto(Zeros(PageSize), pos - size, head), w)
      /\ Return(pos + n, pos + n, Drop(buf, n))
      /\ (pos - size) + n <= PageSize /\ size <= pos
  BY <1>1, <1>2, <1>3, <1>6
<1> HIDE DEF head, z, b
<1> QED BY <1>1, <1>5, <1>6, <1>7, <1>8, <1>9, LastPageAppended

-----------------------------------------------------------------------------
(***************************************************************************)
(* Pages that are overwritten as a whole.                                  *)
(***************************************************************************)
(* The pages to be overwritten are the stream's, and the data cover them.  *)
LEMMA OverwrittenPages ==
  ASSUME WriterInv, phase \in {"ow_fresh", "ow_runs"}, NEW d \in Nat,
         d < PagesToOverwrite
  PROVE  /\ PagesToOverwrite \in Nat \ {0}
         /\ Slot(pos) \in Nat \ {0} /\ pos = Base(Slot(pos))
         /\ Slot(pos) + d \in DOMAIN pages
         /\ (d + 1) * PageSize <= Len(buf)
         /\ d + 1 < PagesToOverwrite =>
              /\ pos + (d + 1) * PageSize < size
              /\ Len(buf) - (d + 1) * PageSize >= PageSize
<1> DEFINE c == PageCount(size)
           q == pos \div PageSize
           m == Len(buf)
           e == m \div PageSize
           X == PagesToOverwrite
           t == Slot(pos)
<1>1. /\ pos < size /\ Phase(pos) = 0 /\ Len(buf) >= PageSize
  BY DEF WriterInv, AtPhase
<1>2. /\ size \in Nat /\ pos \in Nat /\ m \in Nat /\ c \in Nat /\ DOMAIN pages = 1 .. c
      /\ PageSize \in Nat \ {0}
  BY WriterFacts, PageSizeAssumption
<1>3. t = q + 1 /\ t \in Nat \ {0} /\ pos = Base(t) /\ q \in Nat
  <2>1. Slot(pos) \in Nat \ {0} /\ Base(Slot(pos)) \in Nat /\ pos = Base(Slot(pos)) + Phase(pos)
    BY <1>2, ByteAddress
  <2>2. q + 1 = t
    BY DEF Slot
  <2>3. q \in Nat
    BY <1>2, DivMod
  <2> QED BY <1>1, <1>2, <2>1, <2>2, <2>3
<1>4. e \in Nat \ {0} /\ \A k \in 1 .. e : k * PageSize <= m
  <2> HIDE DEF m
  <2> QED BY <1>1, <1>2, WholePagesOf DEF m
<1>5. t <= c
  <2>1. Slot(pos) \in 1 .. c
    BY <1>1, <1>2, LastPage
  <2> QED BY <1>2, <2>1
<1>6. X = Lesser(c - q, e)
  BY DEF PagesToOverwrite
<1>7. d < X
  OBVIOUS
<1> HIDE DEF c, q, m, e, X, t
<1>8. c - q \in Nat /\ c - q \in Nat \ {0}
  BY <1>2, <1>3, <1>5
<1>9. X \in Nat \ {0} /\ X <= c - q /\ X <= e
  BY <1>4, <1>6, <1>8 DEF Lesser
<1>10. t + d \in 1 .. c
  BY <1>2, <1>3, <1>5, <1>7, <1>9
<1>11. d + 1 \in 1 .. e /\ d + 1 \in Nat \ {0}
  BY <1>4, <1>7, <1>9
<1>12. (d + 1) * PageSize <= m
  BY <1>4, <1>11
<1>13. ASSUME d + 1 < X PROVE m - (d + 1) * PageSize >= PageSize
  <2> DEFINE k == d + 2
             f == k * PageSize
             g == (d + 1) * PageSize
  <2>1. k \in 1 .. e /\ k \in Nat \ {0} /\ k - 1 = d + 1
    BY <1>4, <1>9, <1>11, <1>13
  <2>2. f \in Nat /\ g \in Nat /\ f = g + PageSize
    <3> HIDE DEF k
    <3> QED BY <2>1, WholePages
  <2>3. f <= m
    BY <1>4, <2>1
  <2> HIDE DEF f, g, k
  <2>4. m - g >= PageSize
    BY <1>2, <2>2, <2>3
  <2> QED BY <2>4 DEF g
<1>14. ASSUME d + 1 < X PROVE pos + (d + 1) * PageSize < size
  <2> DEFINE u == t + (d + 1)
             g == (d + 1) * PageSize
             k == d + 1
  <2>1. u \in Nat \ {0} /\ u <= c /\ c \in Nat \ {0}
    BY <1>2, <1>3, <1>5, <1>9, <1>14
  <2>2. Base(u) = pos + g
    <3>1. k \in Nat /\ t + k = u
      BY <1>11
    <3> HIDE DEF k, u
    <3>2. Base(t + k) = Base(t) + k * PageSize
      BY <1>3, <3>1, BaseAfter
    <3> QED BY <1>3, <3>1, <3>2 DEF k
  <2>3. size > Base(c)
    <3>1. c = PageCount(size) /\ c \in Nat /\ c # 0
      BY <2>1 DEF c
    <3> QED BY <1>2, <3>1, PagesNeeded
  <2>4. (u < c => Base(u) + PageSize <= Base(c)) /\ Base(u) \in Nat /\ Base(c) \in Nat
    <3> HIDE DEF u
    <3> QED BY <2>1, BaseOrder
  <2> HIDE DEF u, g
  <2>5. Base(u) < size
    <3>1. CASE u = c
      BY <2>3, <3>1
    <3>2. CASE u < c
      BY <1>2, <2>3, <2>4, <3>2
    <3> QED BY <2>1, <3>1, <3>2
  <2>6. pos + g < size
    BY <2>2, <2>5
  <2> QED BY <2>6 DEF g
<1> QED BY <1>2, <1>3, <1>9, <1>10, <1>12, <1>13, <1>14 DEF t, X, m

(* A bounded set of numbers has a largest one.                             *)
LEMMA LargestExists ==
  ASSUME NEW N \in Nat, NEW S, S \subseteq 0 .. N, S # {}
  PROVE  Max(S) \in S /\ \A y \in S : Max(S) >= y
<1> DEFINE T == {N - x : x \in S}
<1>0. \A x \in S : x \in Nat /\ x <= N
  OBVIOUS
<1>1. T \subseteq Nat /\ T # {}
  <2>1. \A x \in S : N - x \in Nat
    BY <1>0
  <2> QED BY <2>1
<1>2. PICK m \in T : \A y \in T : ~(<<y, m>> \in OpToRel(<, Nat))
  <2> HIDE DEF T
  <2> QED BY <1>1, NatLessThanWellFounded, WFMin
<1>3. m \in Nat /\ \A y \in T : ~(y < m)
  BY <1>1, <1>2 DEF OpToRel
<1>4. PICK z \in S : m = N - z
  BY <1>2
<1>5. \A y \in S : z >= y
  <2> TAKE y \in S
  <2>1. N - y \in T
    OBVIOUS
  <2>2. ~(N - y < N - z)
    BY <1>3, <1>4, <2>1
  <2>3. y \in Int /\ z \in Int /\ N \in Int
    BY <1>0
  <2> QED BY <2>2, <2>3
<1> QED BY <1>5 DEF Max

(* The pages of the longest run are adjacent, and the stream's.            *)
LEMMA LongestRunAdjacent ==
  ASSUME NEW slot \in Nat \ {0}, Len(pages) \in Nat, slot <= Len(pages)
  PROVE  /\ LongestRun(slot) \in Nat \ {0}
         /\ slot + LongestRun(slot) - 1 <= Len(pages)
         /\ Adjacent(slot, LongestRun(slot))
<1> DEFINE N == Len(pages) - slot + 1
           S == {k \in 1 .. N : \A i \in 1 .. (k - 1) : pages[slot + i] = pages[slot] + i}
<1>1. N \in Nat \ {0} /\ LongestRun(slot) = Max(S)
  BY DEF LongestRun
<1>2. S \subseteq 0 .. N /\ S # {}
  <2> HIDE DEF N
  <2>1. 1 \in S
    BY <1>1
  <2>2. \A k \in S : k \in 0 .. N
    BY <1>1
  <2> QED BY <2>1, <2>2
<1>3. Max(S) \in S
  <2> HIDE DEF S, N
  <2> QED BY <1>1, <1>2, LargestExists
<1> DEFINE M == LongestRun(slot)
<1>4. M \in 1 .. N /\ \A i \in 1 .. (M - 1) : pages[slot + i] = pages[slot] + i
  <2>1. M \in S
    BY <1>1, <1>3
  <2> HIDE DEF M, N
  <2> QED BY <2>1
<1>5. M \in Nat \ {0} /\ slot + M - 1 <= Len(pages)
  <2> HIDE DEF M
  <2> QED BY <1>1, <1>4
<1> QED BY <1>4, <1>5 DEF Adjacent

(* A page to be overwritten is replaced by one whose bytes do not matter.  *)
LEMMA MakePageFreshKeeps ==
  ASSUME WriterInv, MakePageFresh
  PROVE  WriterInv'
<1> DEFINE slot == Slot(pos) + done
           X == PagesToOverwrite
           b == buf
           f == (done + 1) * PageSize
           e == done * PageSize
<1>1. /\ phase = "ow_fresh" /\ phase \in WritePhases /\ done < X /\ done \in Nat
      /\ pos + Len(buf) <= MaxLen /\ MaxLen \in Nat /\ IsSeq(before) /\ buf # <<>>
  BY WriterAssumption
     DEF MakePageFresh, WriterInv, WriterTyped, AtPhase, WritePhases
<1>2. /\ size \in Nat /\ pos \in Nat /\ Len(b) \in Nat /\ IsSeq(b) /\ Storage
      /\ pages \in Seq(DOMAIN file) /\ Len(pages) = PageCount(size)
      /\ PageSize \in Nat \ {0}
  BY WriterFacts, PageSizeAssumption
<1>3. /\ Slot(pos) \in Nat \ {0} /\ pos = Base(Slot(pos)) /\ slot \in DOMAIN pages
      /\ f <= Len(b) /\ X \in Nat \ {0}
  BY <1>1, OverwrittenPages
<1>4. e \in Nat /\ f \in Nat /\ f = e + PageSize /\ Base(slot) = pos + e /\ slot \in Nat \ {0}
  <2>1. done + 1 \in Nat \ {0} /\ (done + 1) - 1 = done
    BY <1>1
  <2> DEFINE k == done + 1
  <2>2. k * PageSize \in Nat /\ (k - 1) * PageSize \in Nat
        /\ k * PageSize = (k - 1) * PageSize + PageSize
    <3> HIDE DEF k
    <3> QED BY <2>1, WholePages DEF k
  <2>3. Base(slot) = Base(Slot(pos)) + done * PageSize
    BY <1>1, <1>3, BaseAfter
  <2>4. slot \in Nat \ {0}
    BY <1>1, <1>3
  <2> QED BY <1>3, <2>1, <2>2, <2>3, <2>4
<1> HIDE DEF X, slot
<1>5. /\ UNCHANGED <<file, size, buf, pos, callVars>>
      /\ IF done + 1 < X THEN done' = done + 1 /\ UNCHANGED phase
         ELSE done' = 0 /\ phase' = "ow_runs"
  BY DEF MakePageFresh, X
<1>6. Storage' /\ Len(pages') = Len(pages) /\ OthersKept(slot)
  <2>1. CASE UNCHANGED <<allocVars, pages>>
    <3>1. Storage'
      BY <1>2, <1>5, <2>1
         DEF Storage, allocVars, AllocatorConsistent, PagesOwned, IsSpecialPage, IsFpmPage, Phase
    <3> QED BY <1>5, <2>1, <3>1 DEF OthersKept
  <2>2. ASSUME NEW p \in DOMAIN file, ReplacePage(pages[slot], p),
               pages' = [pages EXCEPT ![slot] = p]
        PROVE  Storage' /\ Len(pages') = Len(pages) /\ OthersKept(slot)
    <3>1. file'[p] = [j \in 1 .. PageSize |-> file'[p][j]]
      BY <1>2, <1>5 DEF Storage
    <3>2. DOMAIN file' = DOMAIN file /\ \A q \in DOMAIN file : q # p => file'[q] = file[q]
      BY <1>5
    <3> QED BY <1>2, <1>3, <2>2, <3>1, <3>2, PageReplaced
  <2> QED BY <2>1, <2>2 DEF MakePageFresh, slot
<1>7. ASSUME NEW i \in 1 .. size, i \notin (pos + 1) .. (pos + Len(b))
      PROVE  Byte(i)' = Byte(i)
  <2> DEFINE x == i - 1
  <2>1. x \in Nat /\ Slot(x) \in DOMAIN pages
    BY <1>2, BytePage
  <2>2. Slot(x) # slot
    <3>1. SUFFICES ASSUME Slot(x) = slot PROVE FALSE
      OBVIOUS
    <3>2. x >= Base(slot) /\ x < Base(slot) + PageSize
      <4> HIDE DEF x
      <4> QED BY <1>4, <2>1, <3>1, BeforeSlot
    <3>3. i \in Int /\ x = i - 1
      OBVIOUS
    <3> HIDE DEF x, b, e, f
    <3> QED BY ONLY <1>2, <1>3, <1>4, <1>7, <3>2, <3>3
  <2>3. Byte(i)' = file'[pages'[Slot(x)]][Phase(x) + 1]
    BY BytesAfter
  <2> QED BY <1>6, <2>1, <2>2, <2>3 DEF Byte, OthersKept
<1>8. AtPhase' /\ done' \in Nat /\ phase' \in WritePhases /\ phase' # "idle"
  <2>1. PagesToOverwrite' = X
    BY <1>5 DEF PagesToOverwrite, PageCount, CeilDiv, Lesser, X
  <2>2. done' \in Nat /\ phase' \in {"ow_fresh", "ow_runs"}
        /\ (phase' = "ow_fresh" => done' < X) /\ (phase' # "ow_fresh" => done' = 0)
    BY <1>1, <1>5
  <2>3. pos < size /\ Phase(pos) = 0 /\ Len(buf) >= PageSize
    BY <1>1 DEF WriterInv, AtPhase
  <2>4. /\ pos' = pos /\ size' = size /\ buf' = buf
    BY <1>5
  <2>5. AtPhase'
    BY <1>1, <2>1, <2>2, <2>3, <2>4 DEF AtPhase, GrowPhases, WritePhases, Phase
  <2> QED BY <2>2, <2>5 DEF WritePhases
<1>9. /\ 0 \in 0 .. Len(buf) /\ pos + 0 = pos /\ Drop(buf, 0) = buf /\ ~(0 > 0)
      /\ size <= Greater(size, pos + Len(buf)) /\ size >= size
  <2>1. Drop(b, 0) = b
    BY <1>2, DropNone
  <2> QED BY <1>2, <2>1 DEF Greater
<1>10. /\ size' = size /\ pos' = pos + 0 /\ buf' = Drop(buf, 0) /\ UNCHANGED callVars
       /\ Len(pages') = PageCount(size') /\ buf' # <<>>
  BY <1>1, <1>2, <1>5, <1>6, <1>9
<1>11. \A i \in 1 .. size :
         /\ i \in (pos + 1) .. (pos + 0) => Byte(i)' = buf[i - pos]
         /\ i \notin (pos + 1) .. (pos + Len(buf)) =>
              Byte(i)' = IF i <= size THEN Byte(i) ELSE Zero
  BY <1>2, <1>7
<1> DEFINE s == size
<1>12. s \in Nat /\ s = size
  BY <1>2
<1> HIDE DEF s, b
<1> QED BY <1>1, <1>6, <1>8, <1>9, <1>10, <1>11, <1>12, Consumed

(* A run of pages in place of which the first bytes of the data go.        *)
LEMMA RunWritten ==
  ASSUME WriterInv, phase = "ow_runs", NEW k \in Nat \ {0}, k <= PagesToOverwrite,
         k <= LongestRun(Slot(pos)), UNCHANGED <<allocVars, pages>>,
         NEW w \in 0 .. (k * PageSize),
         WriteRun(pages[Slot(pos)], SubSeq(buf, 1, k * PageSize), w),
         NEW s, s = Greater(size, pos + k * PageSize)
  PROVE  /\ Storage' /\ PageCount(s) = Len(pages) /\ s \in Nat
         /\ \A i \in 1 .. s :
              /\ i \in (pos + 1) .. (pos + k * PageSize) /\ w = k * PageSize =>
                   Byte(i)' = buf[i - pos]
              /\ i \notin (pos + 1) .. (pos + k * PageSize) =>
                   i <= size /\ Byte(i)' = Byte(i)
<1> DEFINE slot == Slot(pos)
           d == k - 1
           n == k * PageSize
           b == buf
           data == SubSeq(b, 1, n)
           L == Len(pages)
<1>1. /\ size \in Nat /\ pos \in Nat /\ Len(b) \in Nat /\ IsSeq(b) /\ Storage
      /\ pages \in Seq(DOMAIN file) /\ L = PageCount(size) /\ L \in Nat
      /\ DOMAIN pages = 1 .. L /\ PageSize \in Nat \ {0} /\ pos < size
  BY WriterFacts, PageSizeAssumption DEF WriterInv, AtPhase
<1>2. d \in Nat /\ d + 1 = k /\ d < PagesToOverwrite
  <2>1. PagesToOverwrite \in Nat
    <3>1. Len(buf) >= PageSize
      BY DEF WriterInv, AtPhase
    <3> DEFINE m == Len(buf)
    <3>2. m \in Nat /\ m >= PageSize
      BY <1>1, <3>1
    <3> HIDE DEF m
    <3>3. Lesser(PageCount(size) - pos \div PageSize, m \div PageSize) \in Nat \ {0}
      BY <1>1, <3>2, PagesLeft
    <3> QED BY <3>3 DEF PagesToOverwrite, m
  <2> QED BY ONLY <2>1, k \in Nat \ {0}, k <= PagesToOverwrite DEF d
<1>3. /\ slot \in Nat \ {0} /\ pos = Base(slot) /\ slot + d \in 1 .. L
      /\ n <= Len(b)
  <2> HIDE DEF d
  <2>1. /\ Slot(pos) \in Nat \ {0} /\ pos = Base(Slot(pos)) /\ Slot(pos) + d \in DOMAIN pages
        /\ (d + 1) * PageSize <= Len(buf)
    BY <1>2, OverwrittenPages
  <2> QED BY <1>1, <1>2, <2>1
<1>4. n \in Nat /\ n > 0 /\ n >= PageSize
  <2>1. n \in Nat /\ PageSize \in Nat \ {0} /\ n >= PageSize
    BY WholePages
  <2> HIDE DEF n
  <2> QED BY <2>1
<1>5. slot + k - 1 <= L /\ slot <= L /\ slot + k \in Nat \ {0} /\ slot + k <= L + 1
  BY ONLY <1>1, <1>2, <1>3, k \in Nat \ {0}
<1>6. Adjacent(slot, k)
  <2> DEFINE M == LongestRun(slot)
  <2>1. M \in Nat \ {0} /\ Adjacent(slot, M)
    <3> HIDE DEF slot
    <3> QED BY <1>1, <1>3, <1>5, LongestRunAdjacent
  <2>2. k <= M
    OBVIOUS
  <2> HIDE DEF M
  <2>3. \A i \in 1 .. (k - 1) : i \in 1 .. (M - 1)
    BY ONLY <2>1, <2>2, k \in Nat \ {0}
  <2> QED BY <2>1, <2>3 DEF Adjacent
<1>7. Base(slot + k) = pos + n /\ Base(slot + k) \in Nat
  <2>1. k \in Nat
    OBVIOUS
  <2> HIDE DEF slot
  <2>2. Base(slot + k) = Base(slot) + k * PageSize
    BY <1>3, <2>1, BaseAfter
  <2>3. Base(slot + k) = pos + n
    BY <1>3, <2>2
  <2> HIDE DEF n
  <2> QED BY <1>1, <1>4, <2>3
<1>8. w \in 0 .. n /\ w \in Nat /\ WriteRun(pages[slot], data, w)
  <2>1. w \in 0 .. n /\ WriteRun(pages[slot], data, w)
    OBVIOUS
  <2> HIDE DEF n, data, slot
  <2> QED BY <1>4, <2>1
<1>9. Storage' /\ RunInPlace(slot, k, data, w)
  <2> HIDE DEF slot, data, L
  <2>1. slot + k - 1 <= Len(pages)
    BY <1>5 DEF L
  <2> QED BY <1>1, <1>3, <1>6, <1>8, <2>1, RunOverwritten DEF n
<1>10. \A m \in 1 .. n : data[m] = b[m]
  <2>1. n \in 0 .. Len(b)
    BY <1>1, <1>3, <1>4
  <2> HIDE DEF b, n
  <2> QED BY <1>1, <2>1, FirstBytes
<1>11. s \in Nat /\ s >= size /\ (s = size \/ s = pos + n) /\ s >= pos + n
  <2>1. s = Greater(size, pos + n)
    OBVIOUS
  <2> HIDE DEF n
  <2> QED BY <1>1, <1>4, <2>1 DEF Greater
<1>12. PageCount(s) = L
  <2>1. CASE s = size
    BY <1>1, <2>1
  <2>2. CASE s = pos + n
    <3>1. s <= Base(L + 1)
      <4>1. slot + k < L + 1 => Base(slot + k) + PageSize <= Base(L + 1)
        <5> DEFINE u == slot + k
                   v == L + 1
        <5>1. u \in Nat \ {0} /\ v \in Nat \ {0}
          BY <1>1, <1>5
        <5> HIDE DEF u, v
        <5>2. u < v => Base(u) + PageSize <= Base(v)
          BY <5>1, BaseOrder
        <5> QED BY <5>2 DEF u, v
      <4>2. Base(L + 1) \in Int
        BY <1>1 DEF Base
      <4>3. slot + k = L + 1 \/ slot + k < L + 1
        BY ONLY <1>1, <1>5
      <4> HIDE DEF slot, n, L
      <4>4. CASE slot + k = L + 1
        BY <1>7, <1>11, <2>2, <4>4
      <4>5. CASE slot + k < L + 1
        BY ONLY <1>1, <1>7, <1>11, <2>2, <4>1, <4>2, <4>5
      <4> QED BY <4>3, <4>4, <4>5
    <3>2. L # 0 => s > Base(L)
      <4>1. L # 0 => size > Base(L)
        <5> HIDE DEF L
        <5> QED BY <1>1, PagesNeeded
      <4>2. Base(L) \in Int
        BY <1>1 DEF Base
      <4> HIDE DEF L
      <4> QED BY ONLY <1>1, <1>11, <4>1, <4>2
    <3> HIDE DEF L
    <3> QED BY <1>1, <1>11, <3>1, <3>2, PagesNeeded
  <2> QED BY <1>11, <2>1, <2>2
<1>13. ASSUME NEW i \in 1 .. s
       PROVE  /\ i \in (pos + 1) .. (pos + n) /\ w = n => Byte(i)' = b[i - pos]
              /\ i \notin (pos + 1) .. (pos + n) => i <= size /\ Byte(i)' = Byte(i)
  <2> DEFINE x == i - 1
             t == Slot(x)
             j == Phase(x) + 1
             m == t - slot + 1
  <2>1. x \in Nat /\ i \in Nat /\ i = x + 1 /\ x < s
    BY ONLY <1>11, i \in 1 .. s DEF x
  <2>2. /\ t \in Nat \ {0} /\ Phase(x) \in 0 .. (PageSize - 1) /\ x = Base(t) + Phase(x)
    <3> HIDE DEF x
    <3> QED BY <2>1, ByteAddress
  <2>3. (t < slot <=> x < pos) /\ (t < slot + k <=> x < pos + n)
    <3> DEFINE u == slot + k
    <3>1. u \in Nat \ {0} /\ Base(u) = pos + n
      BY <1>5, <1>7
    <3>2. (Slot(x) < slot <=> x < Base(slot))
      <4> HIDE DEF x, slot
      <4> QED BY <1>3, <2>1, BeforeSlot
    <3>3. Slot(x) < u <=> x < Base(u)
      <4> HIDE DEF x, u
      <4> QED BY <2>1, <3>1, BeforeSlot
    <3> QED BY <1>3, <3>1, <3>2, <3>3
  <2>4. Byte(i)' = file'[pages[t]][j]
    <3>1. Byte(i)' = file'[pages'[Slot(i - 1)]][Phase(i - 1) + 1]
      BY BytesAfter
    <3> QED BY <3>1
  <2> HIDE DEF t, x, slot, data, n, b, L
  <2>5. ASSUME i \in (pos + 1) .. (pos + n), w = n PROVE Byte(i)' = b[i - pos]
    <3>1. x >= pos /\ x < pos + n
      BY ONLY <1>1, <1>4, <2>1, <2>5
    <3>2. m \in 1 .. k /\ slot + m - 1 = t /\ slot + (m - 1) = t /\ m - 1 \in Nat
      BY ONLY <1>1, <1>3, <2>1, <2>2, <2>3, <3>1, k \in Nat \ {0}, <1>4 DEF m
    <3> DEFINE g == m - 1
    <3>3. Base(t) = pos + g * PageSize /\ g * PageSize \in Nat
      <4>1. g \in Nat /\ slot + g = t
        BY <3>2
      <4> HIDE DEF g, m
      <4>2. Base(slot + g) = Base(slot) + g * PageSize /\ g * PageSize \in Nat
        BY <1>3, <4>1, BaseAfter
      <4> QED BY <1>3, <4>1, <4>2
    <3> DEFINE o == g * PageSize + j
    <3>4. o = i - pos /\ o \in 1 .. n /\ j \in 1 .. PageSize /\ o <= w
      <4> DEFINE h == g * PageSize
      <4>1. h \in Nat /\ Base(t) = pos + h
        BY <3>3
      <4> HIDE DEF h
      <4>2. h + j = i - pos /\ j \in 1 .. PageSize
        <5> DEFINE v == Phase(x)
        <5>1. /\ j = v + 1 /\ v \in 0 .. (PageSize - 1) /\ x = (pos + h) + v
              /\ i = x + 1 /\ x \in Nat /\ pos \in Nat /\ PageSize \in Nat
          BY <1>1, <2>1, <2>2, <4>1
        <5> HIDE DEF v, j
        <5> QED BY ONLY <4>1, <5>1
      <4>3. i - pos \in 1 .. n
        BY ONLY <1>1, <1>4, <2>1, <2>5
      <4>4. i - pos <= w
        BY ONLY <1>1, <1>4, <2>1, <2>5, <4>3
      <4> QED BY <4>2, <4>3, <4>4 DEF h
    <3>5. file'[pages[slot + m - 1]][j] = data[(m - 1) * PageSize + j]
      <4> HIDE DEF m, j
      <4> QED BY <1>9, <3>2, <3>4 DEF RunInPlace
    <3> HIDE DEF o, m, j
    <3>6. file'[pages[t]][j] = data[o]
      BY <3>2, <3>5 DEF o
    <3>7. data[o] = b[o]
      BY <1>10, <3>4
    <3> QED BY <2>4, <3>4, <3>6, <3>7
  <2>6. ASSUME i \notin (pos + 1) .. (pos + n) PROVE i <= size /\ Byte(i)' = Byte(i)
    <3>1. x < pos \/ ~(x < pos + n)
      BY ONLY <1>1, <1>4, <2>1, <2>6
    <3>2. i <= size /\ x < size
      BY ONLY <1>1, <1>4, <1>11, <2>1, <3>1
    <3>3. t \in DOMAIN pages
      <4>1. t \in 1 .. PageCount(size)
        BY <1>1, <2>1, <3>2, LastPage DEF t
      <4> QED BY <1>1, <4>1
    <3>4. t < slot \/ t >= slot + k
      BY ONLY <1>3, <1>5, <2>2, <2>3, <3>1
    <3>5. file'[pages[t]] = file[pages[t]]
      BY <1>9, <3>3, <3>4 DEF RunInPlace
    <3> QED BY <2>4, <3>2, <3>5 DEF Byte, t, x
  <2> QED BY <2>5, <2>6
<1> QED BY <1>9, <1>11, <1>12, <1>13 DEF L

(* write_runs: a run of adjacent pages is written at once.                 *)
LEMMA OverwriteRunKeeps ==
  ASSUME WriterInv, OverwriteRun
  PROVE  WriterInv'
<1> DEFINE X == PagesToOverwrite
           M == LongestRun(Slot(pos))
           k == Lesser(X, M)
           n == k * PageSize
           b == buf
           s == Greater(size, pos + n)
<1>1. /\ phase = "ow_runs" /\ phase \in WritePhases /\ done = 0 /\ pos < size /\ Phase(pos) = 0
      /\ Len(b) >= PageSize /\ pos + Len(b) <= MaxLen /\ MaxLen \in Nat /\ b # <<>>
  BY WriterAssumption DEF OverwriteRun, WriterInv, AtPhase, WritePhases
<1>2. /\ size \in Nat /\ pos \in Nat /\ Len(b) \in Nat /\ IsSeq(b)
      /\ DOMAIN pages = 1 .. PageCount(size) /\ Len(pages) = PageCount(size)
      /\ PageCount(size) \in Nat /\ PageSize \in Nat \ {0}
  BY WriterFacts, PageSizeAssumption
<1>3. X \in Nat \ {0}
  <2> DEFINE m == Len(buf)
  <2>1. m \in Nat /\ m >= PageSize
    BY <1>1, <1>2
  <2> HIDE DEF m
  <2>2. Lesser(PageCount(size) - pos \div PageSize, m \div PageSize) \in Nat \ {0}
    BY <1>1, <1>2, <2>1, PagesLeft
  <2> QED BY <2>2 DEF PagesToOverwrite, m
<1>4. M \in Nat \ {0}
  <2>1. Slot(pos) \in 1 .. PageCount(size)
    BY <1>1, <1>2, LastPage
  <2>2. Slot(pos) \in Nat \ {0} /\ Len(pages) \in Nat /\ Slot(pos) <= Len(pages)
    BY <1>2, <2>1
  <2> QED BY <2>2, LongestRunAdjacent
<1>5. /\ \E w \in Written(n) : WriteRun(pages[Slot(pos)], SubSeq(buf, 1, n), w)
      /\ IF k < X THEN /\ pos' = pos + n /\ buf' = Drop(buf, n)
                       /\ UNCHANGED <<size, phase, done, callVars>>
         ELSE Return(s, pos + n, Drop(buf, n))
      /\ UNCHANGED <<allocVars, pages>>
  BY DEF OverwriteRun
<1> HIDE DEF X, M
<1>6. k \in Nat \ {0} /\ k <= X /\ k <= M
  BY <1>3, <1>4 DEF Lesser
<1> HIDE DEF k
<1>7. PICK w \in Written(n) : WriteRun(pages[Slot(pos)], SubSeq(buf, 1, n), w)
  BY <1>5
<1>8. /\ n \in Nat /\ n > 0 /\ n <= Len(b)
      /\ k < X => pos + n < size /\ Len(b) - n >= PageSize
  <2> DEFINE d == k - 1
  <2>1. d \in Nat /\ d + 1 = k /\ d < PagesToOverwrite
    BY <1>3, <1>6 DEF X
  <2> HIDE DEF d
  <2>2. /\ (d + 1) * PageSize <= Len(buf)
        /\ d + 1 < PagesToOverwrite =>
             /\ pos + (d + 1) * PageSize < size
             /\ Len(buf) - (d + 1) * PageSize >= PageSize
    BY <1>1, <2>1, OverwrittenPages
  <2>3. n \in Nat /\ n >= PageSize
    BY <1>6, WholePages
  <2>4. n > 0
    <3> HIDE DEF n
    <3> QED BY <1>2, <2>3
  <2> QED BY <2>1, <2>2, <2>3, <2>4 DEF X
<1>9. w \in 0 .. n /\ (~ShortWrites => w = n)
  <2> HIDE DEF n
  <2> QED BY <1>8 DEF Written
<1>10. /\ Storage' /\ PageCount(s) = Len(pages) /\ s \in Nat
       /\ \A i \in 1 .. s :
            /\ i \in (pos + 1) .. (pos + n) /\ w = n => Byte(i)' = buf[i - pos]
            /\ i \notin (pos + 1) .. (pos + n) => i <= size /\ Byte(i)' = Byte(i)
  BY <1>1, <1>5, <1>6, <1>7, <1>9, RunWritten DEF X, M
<1>11. s = Greater(size, pos + n)
  OBVIOUS
<1> HIDE DEF n, s
<1>12. /\ s >= size /\ s >= pos + n /\ s <= Greater(size, pos + Len(b))
       /\ n \in 0 .. Len(b) /\ (k < X => s = size)
  <2> HIDE DEF b
  <2> QED BY <1>2, <1>8, <1>11 DEF Greater
<1>13. ~ShortWrites =>
         \A i \in 1 .. s :
           /\ i \in (pos + 1) .. (pos + n) => Byte(i)' = buf[i - pos]
           /\ i \notin (pos + 1) .. (pos + Len(buf)) =>
                Byte(i)' = IF i <= size THEN Byte(i) ELSE Zero
  <2> SUFFICES ASSUME ~ShortWrites, NEW i \in 1 .. s
               PROVE  /\ i \in (pos + 1) .. (pos + n) => Byte(i)' = buf[i - pos]
                      /\ i \notin (pos + 1) .. (pos + Len(buf)) =>
                           Byte(i)' = IF i <= size THEN Byte(i) ELSE Zero
    OBVIOUS
  <2>1. w = n
    BY <1>9
  <2>2. i \notin (pos + 1) .. (pos + Len(buf)) => i \notin (pos + 1) .. (pos + n)
    <3>1. i \in Int
      BY <1>10
    <3> QED BY <1>2, <1>8, <3>1
  <2> QED BY <1>10, <2>1, <2>2
<1>14. CASE k < X
  <2>1. /\ size' = s /\ pos' = pos + n /\ buf' = Drop(buf, n) /\ phase' = "ow_runs"
        /\ done' = 0 /\ UNCHANGED callVars /\ pages' = pages /\ size' = size
    BY <1>1, <1>5, <1>12, <1>14
  <2> DEFINE e == Drop(b, n)
  <2>2. Len(e) = Len(b) - n /\ e # <<>>
    <3>1. n \in 0 .. Len(b) /\ n # Len(b)
      BY <1>2, <1>8, <1>12, <1>14
    <3> HIDE DEF b
    <3> QED BY <1>2, <3>1, Dropped
  <2>3. Phase(pos + n) = 0
    <3> DEFINE t == Slot(pos)
    <3>1. t \in Nat \ {0} /\ pos = Base(t)
      <4>1. Slot(pos) \in Nat \ {0} /\ Base(Slot(pos)) \in Nat
            /\ pos = Base(Slot(pos)) + Phase(pos)
        BY <1>2, ByteAddress
      <4> QED BY <1>1, <4>1
    <3> HIDE DEF t
    <3>2. Base(t + k) = Base(t) + k * PageSize
      BY <1>6, <3>1, BaseAfter
    <3> DEFINE u == t + k
               z == pos + n
    <3>3. u \in Nat \ {0} /\ z = Base(u) + 0 /\ z \in Nat /\ 0 \in 0 .. (PageSize - 1)
      <4>1. u \in Nat \ {0}
        BY ONLY <1>6, <3>1
      <4>2. z = Base(u)
        BY <3>1, <3>2 DEF n
      <4>3. z \in Nat /\ 0 \in 0 .. (PageSize - 1)
        BY <1>2, <1>8
      <4> HIDE DEF z, u
      <4> QED BY <4>1, <4>2, <4>3
    <3> HIDE DEF u, z
    <3>4. Phase(z) = 0
      BY <3>3, SlotUnique
    <3> QED BY <3>4 DEF z
  <2>4. AtPhase'
    <3>1. /\ pos + n < size /\ Len(e) >= PageSize /\ (pos + n) + Len(e) <= MaxLen
      <4> HIDE DEF e, b
      <4> QED BY <1>1, <1>2, <1>8, <1>14, <2>2
    <3> DEFINE p == pos + n
    <3>2. /\ pos' = p /\ size' = size /\ buf' = e /\ p < size /\ Len(e) >= PageSize
          /\ p + Len(e) <= MaxLen /\ Phase(p) = 0
      BY <2>1, <2>3, <3>1
    <3> HIDE DEF p, e
    <3> QED BY <2>1, <2>2, <3>2 DEF AtPhase, WritePhases, GrowPhases, Phase
  <2>5. Len(pages') = PageCount(size')
    BY <1>2, <2>1
  <2>6. phase' \in WritePhases \cup {"idle"} /\ (phase' = "idle" <=> buf' = <<>>)
        /\ done' \in Nat
    BY <2>1, <2>2 DEF WritePhases
  <2> HIDE DEF b, e
  <2>7. n \in 0 .. Len(buf) /\ s <= Greater(size, pos + Len(buf))
    BY <1>12 DEF b
  <2> QED BY <1>1, <1>10, <1>12, <1>13, <2>1, <2>4, <2>5, <2>6, <2>7, Consumed
<1>15. CASE ~(k < X)
  <2>1. Return(s, pos + n, Drop(buf, n)) /\ pages' = pages
    BY <1>5, <1>15
  <2>2. Len(pages') = PageCount(size')
    BY <1>10, <2>1 DEF Return
  <2>3. n \in 0 .. Len(buf) /\ s <= Greater(size, pos + Len(buf))
    BY <1>12
  <2> HIDE DEF b
  <2> QED BY <1>1, <1>10, <1>12, <1>13, <2>1, <2>2, <2>3, Returned
<1> QED BY <1>14, <1>15

-----------------------------------------------------------------------------
(***************************************************************************)
(* set_len, growing.                                                       *)
(***************************************************************************)
(* set_len fills up the last page.                                         *)
LEMMA ExtendPartialPageKeeps ==
  ASSUME WriterInv, ExtendPartialPage
  PROVE  WriterInv'
<1> DEFINE end == Phase(size)
           t == Slot(size)
           page == Prefix(file[pages[t]], end)
           n == Lesser(PageSize - end, pos - size)
<1>1. /\ phase = "sl_partial" /\ done = 0 /\ buf = <<>> /\ IsSeq(before)
      /\ size < pos /\ end # 0 /\ pos - size < PageSize - end /\ pos \in 0 .. MaxLen
      /\ size \in 0 .. MaxLen
  BY DEF ExtendPartialPage, WriterInv, WriterTyped, AtPhase, GrowPhases
<1>2. /\ size \in Nat /\ pos \in Nat /\ Storage /\ Len(pages) = PageCount(size)
      /\ DOMAIN pages = 1 .. PageCount(size) /\ PageCount(size) \in Nat
      /\ PageSize \in Nat /\ MaxLen \in Nat /\ IsSeq(buf)
  BY WriterFacts, WriterAssumption
<1>3. /\ t = PageCount(size) /\ t \in DOMAIN pages /\ end \in 1 .. (PageSize - 1)
  <2>1. Slot(size) = PageCount(size)
    BY <1>1, <1>2, LastPage
  <2>2. Slot(size) \in Nat \ {0} /\ end \in 0 .. (PageSize - 1)
    BY <1>2, ByteAddress
  <2> QED BY <1>1, <1>2, <2>1, <2>2
<1>4. /\ CowAndWrite(t, page) /\ size' = size + n /\ pos' = pos - n
      /\ phase' = IF pos - n = 0 THEN "idle" ELSE "sl_pages"
      /\ UNCHANGED <<buf, done, callVars>>
  BY DEF ExtendPartialPage
<1>5. n = pos - size
  BY <1>1, <1>2, <1>3 DEF Lesser
<1>6. size # 0
  <2>1. Phase(0) = 0
    BY PageSizeAssumption DEF Phase
  <2> QED BY <1>1, <2>1
<1>7. size' = pos /\ pos' = size /\ phase' = "sl_pages" /\ buf' = <<>> /\ done' = 0
      /\ before' = before
  <2>1. size' = size + (pos - size) /\ pos' = pos - (pos - size)
    BY <1>4, <1>5
  <2>2. size + (pos - size) = pos /\ pos - (pos - size) = size
    BY <1>2
  <2> QED BY <1>1, <1>4, <1>5, <1>6, <2>1, <2>2 DEF callVars
<1>8. Slot(pos) = Slot(size) /\ Phase(pos) # 0
  <2>1. Slot(pos) = Slot(size)
    BY <1>1, <1>2, SamePage
  <2>2. pos - size = Phase(pos) - Phase(size) /\ Phase(pos) \in 0 .. (PageSize - 1)
    BY <1>2, <2>1, SamePage
  <2> QED BY <1>1, <1>2, <1>3, <2>1, <2>2
<1>9. PageCount(pos) = PageCount(size)
  <2> DEFINE m == pos - size
  <2>1. m \in Nat /\ m <= PageSize - Phase(size) /\ Slot(size) <= PageCount(size)
        /\ size + m = pos
    BY <1>1, <1>2, <1>3
  <2> HIDE DEF m
  <2>2. PageCount(size + m) = PageCount(size)
    BY <1>2, <2>1, LastPage
  <2> QED BY <2>1, <2>2
<1>10. Storage' /\ Len(pages') = Len(pages)
  <2>1. page = [j \in 1 .. PageSize |-> page[j]]
    BY DEF Prefix
  <2> HIDE DEF page, t
  <2> QED BY <1>2, <1>3, <1>4, <2>1, PageWritten
<1>11. WriterTyped'
  BY <1>1, <1>7 DEF WriterTyped, WriterInv, IsSeq, WritePhases, GrowPhases
<1>12. AtPhase'
  <2>1. Phase(size') # 0
    BY <1>7, <1>8
  <2> QED BY <1>7, <2>1 DEF AtPhase, WritePhases, GrowPhases, Phase
<1>13. OnTheWay'
  <2>1. size' # 0
    BY <1>1, <1>2, <1>7
  <2> QED BY <1>7, <2>1 DEF OnTheWay, WritePhases
<1>14. Len(pages)' = PageCount(size)'
  <2>1. Len(pages') = PageCount(size')
    BY <1>2, <1>7, <1>9, <1>10
  <2> QED BY <2>1 DEF PageCount, CeilDiv
<1> QED BY <1>10, <1>11, <1>12, <1>13, <1>14 DEF WriterInv

(* set_len adds a page of zeroes to an empty stream.                       *)
LEMMA ExtendPagesKeeps ==
  ASSUME WriterInv, ExtendPages
  PROVE  WriterInv'
<1>1. /\ phase = "sl_pages" /\ done = 0 /\ buf = <<>> /\ IsSeq(before)
      /\ size = 0 /\ pos \in 1 .. PageSize /\ pos \in 0 .. MaxLen /\ Phase(size) = 0
  BY DEF ExtendPages, WriterInv, WriterTyped, AtPhase, GrowPhases
<1>2. /\ pos \in Nat /\ Storage /\ PageSize \in Nat \ {0} /\ IsSeq(buf)
      /\ size \in Nat /\ pages \in Seq(DOMAIN file) /\ Len(pages) = PageCount(size)
  BY WriterFacts, PageSizeAssumption
<1>3. PageCount(pos) = 1
  <2> DEFINE c == 1
  <2>1. Base(1) = 0 /\ Base(2) = PageSize
    BY <1>2 DEF Base
  <2>2. c \in Nat /\ pos <= Base(c + 1) /\ pos > Base(c)
    BY <1>1, <1>2, <2>1
  <2> HIDE DEF c
  <2>3. PageCount(pos) = c
    BY <1>2, <2>2, PagesNeeded
  <2> QED BY <2>3 DEF c
<1>4. PICK p \in DOMAIN file, k \in DOMAIN file :
        AddPages(1, p, k) /\ WriteRun(p, Zeros(k * PageSize), k * PageSize)
  <2>1. size < pos /\ pos - size = pos
    BY <1>1, <1>2
  <2> QED BY <1>3, <2>1 DEF ExtendPages, PageCount
<1>5. /\ size' = size + pos /\ phase' = "idle" /\ UNCHANGED <<buf, pos, done, callVars>>
  BY DEF ExtendPages
<1>6. size' = pos /\ buf' = <<>> /\ done' = 0 /\ before' = before /\ request' = request
  BY <1>1, <1>2, <1>5 DEF callVars
<1>7. k = 1
  <2> DEFINE want == 1
  <2>1. want \in Nat \ {0} /\ AddPages(want, p, k)
    BY <1>4
  <2> HIDE DEF want
  <2>2. k \in 1 .. want
    BY <1>2, <2>1, AddedCount
  <2> QED BY <2>2 DEF want
<1> DEFINE w == k * PageSize
           data == Zeros(w)
           want == 1
           b == (k - 1) * PageSize
           a == k * PageSize
<1>8. w = PageSize /\ b = 0 /\ a = PageSize
  BY <1>2, <1>7
<1>9. want \in Nat \ {0} /\ AddPages(want, p, k) /\ WriteRun(p, data, w)
      /\ w \in 0 .. (k * PageSize) /\ pos > size + b /\ pos <= size + a
  BY <1>1, <1>2, <1>4, <1>8
<1>10. \A j \in 1 .. PageSize : data[j] = Zero
  BY <1>8 DEF Zeros
<1>11. b = (k - 1) * PageSize /\ a = k * PageSize
  OBVIOUS
<1> HIDE DEF data, want, w, a, b
<1>12. Storage' /\ Len(pages') = PageCount(pos) /\ Extended(data, pos, w)
  BY <1>1, <1>2, <1>9, <1>11, PagesAppended
<1>13. WriterTyped'
  BY <1>1, <1>5, <1>6 DEF WriterTyped, WriterInv, IsSeq, WritePhases, GrowPhases
<1>14. AtPhase'
  BY <1>5, <1>6 DEF AtPhase, WritePhases, GrowPhases
<1>15. Len(pages') = PageCount(size')
  BY <1>6, <1>12
<1>16. ASSUME ~ShortWrites PROVE Contents' = Expected'
  <2> DEFINE d == Contents'
  <2>1. /\ IsSeq(d) /\ Len(d) = pos /\ \A i \in 1 .. pos : d[i] = Byte(i)'
    <3>1. /\ size' \in Nat /\ pages' \in Seq(DOMAIN file')
          /\ Len(pages') = PageCount(size')
      BY <1>2, <1>6, <1>12, <1>15 DEF Storage
    <3> QED BY <1>6, <3>1, BytesAfter
  <2>2. \A i \in 1 .. pos : Byte(i)' = Zero
    <3> TAKE i \in 1 .. pos
    <3>1. i > size /\ i - size = i /\ i <= w /\ i \in 1 .. PageSize
      BY <1>1, <1>2, <1>8
    <3> QED BY <1>10, <1>12, <3>1 DEF Extended
  <2>3. d = [i \in 1 .. pos |-> Zero]
    <3>1. d = [i \in 1 .. pos |-> d[i]]
      BY <2>1 DEF IsSeq
    <3> HIDE DEF d
    <3> QED BY <2>1, <2>2, <3>1
  <2>4. Grown(Contents, pos) = Expected
    BY <1>1, <1>16 DEF WriterInv, OnTheWay
  <2>5. Grown(Contents, pos) = [i \in 1 .. pos |-> Zero]
    <3> DEFINE c == Contents
    <3>1. Len(c) = 0
      BY <1>1, <1>2, ContentsBytes
    <3> HIDE DEF c
    <3>2. \A i \in 1 .. pos : ~(i <= Len(c))
      BY <1>1, <3>1
    <3>3. Grown(c, pos) = [i \in 1 .. pos |-> Zero]
      BY <3>2 DEF Grown
    <3> QED BY <3>3 DEF c
  <2>6. Expected' = Expected
    BY <1>6 DEF Expected, Greater
  <2> QED BY <2>3, <2>4, <2>5, <2>6
<1>17. OnTheWay'
  BY <1>5, <1>16 DEF OnTheWay, WritePhases
<1>18. Len(pages)' = PageCount(size)'
  BY <1>15 DEF PageCount, CeilDiv
<1> QED BY <1>12, <1>13, <1>14, <1>17, <1>18 DEF WriterInv

(* set_len runs into one of its assertions.                                *)
LEMMA ExtendPanicsKeeps ==
  ASSUME WriterInv, ExtendPanics
  PROVE  WriterInv'
<1>1. /\ phase = "sl_pages" /\ done = 0 /\ buf = <<>>
  BY DEF ExtendPanics, WriterInv, AtPhase, GrowPhases
<1>2. /\ phase' = "panicked"
      /\ UNCHANGED <<allocVars, file, size, pages, buf, pos, done, callVars>>
  BY DEF ExtendPanics
<1>3. WriterTyped'
  BY <1>2 DEF WriterInv, WriterTyped, IsSeq, callVars, WritePhases, GrowPhases
<1>4. Storage'
  BY <1>2 DEF WriterInv, Storage, allocVars, AllocatorConsistent, PagesOwned,
              IsSpecialPage, IsFpmPage, Phase
<1>5. AtPhase'
  BY <1>1, <1>2 DEF AtPhase, WritePhases, GrowPhases
<1>6. OnTheWay'
  BY <1>2 DEF OnTheWay, WritePhases
<1>7. Len(pages)' = PageCount(size)'
  BY <1>2 DEF WriterInv, PageCount, CeilDiv
<1> QED BY <1>3, <1>4, <1>5, <1>6, <1>7 DEF WriterInv

-----------------------------------------------------------------------------
(***************************************************************************)
(* Calls.                                                                  *)
(***************************************************************************)
(* Nothing was done to the file or the pages.                              *)
LEMMA StorageStays ==
  ASSUME Storage, UNCHANGED <<allocVars, file, pages>>
  PROVE  Storage'
BY DEF Storage, allocVars, AllocatorConsistent, PagesOwned, IsSpecialPage, IsFpmPage, Phase

(* A smaller stream has no more pages.                                     *)
LEMMA FewerPages ==
  ASSUME NEW n \in Nat, NEW s \in Nat, n <= s
  PROVE  PageCount(n) \in 0 .. PageCount(s) /\ PageCount(s) \in Nat
<1> DEFINE c == PageCount(n)
           d == PageCount(s)
<1>1. c \in Nat /\ d \in Nat
  BY LastPage
<1>2. c = PageCount(n) /\ d = PageCount(s)
  OBVIOUS
<1> HIDE DEF c, d
<1>3. (c = 0 \/ n > Base(c)) /\ s <= Base(d + 1)
  BY <1>1, <1>2, PagesNeeded
<1>4. ASSUME c > d PROVE FALSE
  <2> DEFINE u == d + 1
  <2>1. u \in Nat \ {0} /\ c \in Nat \ {0} /\ (u < c \/ u = c)
    BY <1>1, <1>4
  <2> HIDE DEF u
  <2>2. Base(u) \in Nat /\ Base(c) \in Nat /\ (u < c => Base(u) + PageSize <= Base(c))
    BY <2>1, BaseOrder
  <2>3. Base(u) <= Base(c)
    BY <2>1, <2>2, PageSizeAssumption
  <2>4. n > Base(c) /\ s <= Base(u)
    BY <1>1, <1>3, <1>4 DEF u
  <2> QED BY <2>2, <2>3, <2>4
<1>5. c \in 0 .. d
  BY <1>1, <1>4
<1> QED BY <1>1, <1>5 DEF c, d

(* The pages beyond the new size are freed, and the others kept.           *)
LEMMA ShrinkStorage ==
  ASSUME WriterInv, NEW n \in Nat, Shrink(n), UNCHANGED file
  PROVE  /\ Storage' /\ size' = n /\ n < size /\ Len(pages') = PageCount(n)
         /\ \A i \in 1 .. n : Byte(i)' = Byte(i)
<1> DEFINE c == PageCount(n)
           d == PageCount(size)
           gone == {pages[i] : i \in (c + 1) .. d}
<1>1. /\ size \in Nat /\ Storage /\ pages \in Seq(DOMAIN file) /\ Len(pages) = d
      /\ DOMAIN pages = 1 .. d /\ d \in Nat
  BY WriterFacts
<1>2. /\ n < size /\ freed' = freed \cup gone /\ pages' = SubSeq(pages, 1, c) /\ size' = n
      /\ UNCHANGED <<free, fresh, hint, numPages>>
  BY DEF Shrink
<1>3. c \in 0 .. d
  <2>1. n <= size
    BY <1>1, <1>2
  <2> QED BY <1>1, <2>1, FewerPages
<1> HIDE DEF c, d
<1>4. c \in Nat /\ c <= d
  BY <1>1, <1>3
<1>5. /\ pages' \in Seq(DOMAIN file) /\ Len(pages') = c /\ DOMAIN pages' = 1 .. c
      /\ \A t \in 1 .. c : pages'[t] = pages[t]
  <2>1. /\ pages' \in Seq(DOMAIN file) /\ Len(pages') = c
        /\ \A t \in 1 .. c : pages'[t] = pages[t]
    BY <1>1, <1>2, <1>4
  <2> QED BY <1>4, <2>1
<1>6. /\ \A i, j \in 1 .. d : pages[i] = pages[j] => i = j
      /\ \A i \in 1 .. d :
           /\ pages[i] \in DOMAIN file /\ pages[i] < numPages /\ ~IsSpecialPage(pages[i])
           /\ pages[i] \notin free \cup freed
  <2>1. \A i \in 1 .. d : pages[i] \in DOMAIN file
    BY <1>1
  <2> QED BY <1>1, <2>1 DEF Storage, PagesOwned
<1>7. \A q \in gone : \E i \in (c + 1) .. d : q = pages[i]
  OBVIOUS
<1>8. \A i \in (c + 1) .. d : i \in 1 .. d
  BY <1>4
<1> HIDE DEF gone
<1>9. /\ gone \subseteq Nat /\ gone \cap free = {}
      /\ \A q \in gone : q < numPages /\ ~IsSpecialPage(q)
  <2>1. DOMAIN file \subseteq Nat
    BY <1>1, MaxPagesAssumption DEF Storage
  <2>2. \A q \in gone : /\ q \in DOMAIN file /\ q < numPages /\ ~IsSpecialPage(q)
                        /\ q \notin free
    BY <1>6, <1>7, <1>8
  <2> QED BY <2>1, <2>2
<1>10. AllocatorConsistent'
  BY <1>1, <1>2, <1>9 DEF Storage, AllocatorConsistent, IsSpecialPage, IsFpmPage, Phase
<1>11. PagesOwned'
  <2>1. ASSUME NEW i \in 1 .. c, NEW j \in 1 .. c, pages'[i] = pages'[j] PROVE i = j
    <3>1. i \in 1 .. d /\ j \in 1 .. d
      BY <1>1, <1>4
    <3> QED BY <1>5, <1>6, <2>1, <3>1
  <2>2. ASSUME NEW i \in 1 .. c
        PROVE  /\ pages'[i] < numPages' /\ ~IsSpecialPage(pages'[i])
               /\ pages'[i] \notin free' \cup freed'
    <3>1. i \in 1 .. d /\ pages'[i] = pages[i]
      BY <1>1, <1>4, <1>5
    <3>2. pages[i] \notin gone
      <4>1. SUFFICES ASSUME pages[i] \in gone PROVE FALSE
        OBVIOUS
      <4>2. PICK j \in (c + 1) .. d : pages[i] = pages[j]
        BY <1>7, <4>1
      <4>3. i = j
        BY <1>6, <1>8, <3>1, <4>2
      <4> QED BY <1>4, <4>2, <4>3
    <3> QED BY <1>2, <1>6, <3>1, <3>2
  <2> QED BY <1>5, <2>1, <2>2 DEF PagesOwned, IsSpecialPage, IsFpmPage, Phase
<1>12. Storage'
  BY <1>1, <1>2, <1>5, <1>9, <1>10, <1>11 DEF Storage
<1>13. \A i \in 1 .. n : Byte(i)' = Byte(i)
  <2> TAKE i \in 1 .. n
  <2> DEFINE x == i - 1
  <2>1. x \in Nat /\ x < n
    OBVIOUS
  <2>2. Slot(x) \in 1 .. c
    <3> HIDE DEF x
    <3> QED BY <2>1, LastPage DEF c
  <2>3. Byte(i)' = file'[pages'[Slot(x)]][Phase(x) + 1]
    BY BytesAfter
  <2> QED BY <1>5, <2>2, <2>3 DEF Byte
<1> QED BY <1>2, <1>5, <1>12, <1>13 DEF c

(* The data of a call.                                                     *)
LEMMA DataTyped ==
  ASSUME NEW n \in Nat
  PROVE  /\ IsSeq(DataOf(n)) /\ Len(DataOf(n)) = n
         /\ DataOf(n) = <<>> <=> n = 0
<1> DEFINE d == DataOf(n)
<1>1. d = [i \in 1 .. n |-> d[i]]
  BY DEF DataOf
<1> HIDE DEF d
<1>2. IsSeq(d) /\ Len(d) = n
  BY <1>1, FunctionLen
<1>3. d = <<>> <=> n = 0
  BY <1>1, <1>2
<1> QED BY <1>2, <1>3 DEF d

(* Between calls, there are no data left.                                  *)
LEMMA IdleFacts ==
  ASSUME WriterInv, phase = "idle"
  PROVE  buf = <<>> /\ done = 0
BY DEF WriterInv, AtPhase, GrowPhases


(* What a call is to make of the stream.                                   *)
LEMMA WriteExpects ==
  ASSUME NEW o, NEW d, request' = [op |-> "write", at |-> o, data |-> d]
  PROVE  Expected' = Finished(before', o, d)
BY DEF Expected, Finished, Greater

(* What a call is to make of the stream.                                   *)
LEMMA SetContentsExpects ==
  ASSUME NEW d, request' = [op |-> "set_contents", data |-> d]
  PROVE  Expected' = d
BY DEF Expected

(* What a call is to make of the stream.                                   *)
LEMMA SetLenExpects ==
  ASSUME NEW n, request' = [op |-> "set_len", len |-> n]
  PROVE  Expected' = Grown(before', n)
BY DEF Expected, Grown

(* A call finds the contents as they are.                                  *)
LEMMA BeforeTyped ==
  ASSUME WriterInv
  PROVE  /\ IsSeq(Contents) /\ Len(Contents) = size /\ DOMAIN Contents = 1 .. size
         /\ \A i \in 1 .. size : Contents[i] = Byte(i)
BY WriterFacts, ContentsBytes

(* write: the stream is to become what it is with the data in its place.   *)
LEMMA WriteKeeps ==
  ASSUME WriterInv, NEW o \in 0 .. MaxLen, NEW n \in 1 .. MaxLen, o + n <= MaxLen, Write(o, n)
  PROVE  WriterInv'
<1> DEFINE d == DataOf(n)
<1>1. n \in Nat /\ n # 0 /\ o \in Nat /\ MaxLen \in Nat
  BY WriterAssumption
<1>2. IsSeq(d) /\ Len(d) = n /\ d # <<>>
  BY <1>1, DataTyped
<1>3. /\ phase = "idle" /\ before' = Contents
      /\ request' = [op |-> "write", at |-> o, data |-> d]
      /\ pos' = o /\ buf' = d /\ phase' = Route(size', pos', buf')
      /\ UNCHANGED <<allocVars, file, size, pages, done>>
  BY DEF Write, Calling
<1> HIDE DEF d
<1>4. /\ buf = <<>> /\ done = 0 /\ IsSeq(Contents) /\ size \in 0 .. MaxLen
      /\ Storage /\ Len(pages) = PageCount(size)
  BY <1>3, IdleFacts, BeforeTyped DEF WriterInv, WriterTyped
<1>5. Storage'
  BY <1>3, <1>4, StorageStays
<1>6. AtPhase' /\ phase' \in WritePhases
  <2>1. /\ size' \in Nat /\ pos' \in Nat /\ IsSeq(buf') /\ done' = 0 /\ buf' # <<>>
        /\ pos' + Len(buf') <= MaxLen
    BY <1>1, <1>2, <1>3, <1>4
  <2> QED BY <1>3, <2>1, Routed
<1>7. WriterTyped'
  BY <1>1, <1>2, <1>3, <1>4, <1>6 DEF WriterTyped, IsSeq
<1>8. Contents' = Contents
  BY <1>3 DEF Contents, Slot, Phase
<1>9. OnTheWay'
  <2>1. Finished(Contents, pos, buf)' = Expected'
    <3>1. Expected' = Finished(before', o, d)
      BY <1>3, WriteExpects
    <3> QED BY <1>3, <1>8, <3>1 DEF Finished, Greater
  <2>2. phase' # "idle" /\ phase' \notin GrowPhases
    BY <1>6 DEF WritePhases, GrowPhases
  <2> QED BY <1>6, <2>1, <2>2 DEF OnTheWay, GrowPhases, WritePhases
<1>10. Len(pages)' = PageCount(size)'
  BY <1>3, <1>4 DEF PageCount, CeilDiv
<1> QED BY <1>5, <1>6, <1>7, <1>9, <1>10 DEF WriterInv

(* set_len to a smaller size keeps the first bytes.                        *)
LEMMA TruncateKeeps ==
  ASSUME WriterInv, NEW n \in 0 .. MaxLen, Truncate(n)
  PROVE  WriterInv'
<1>1. n \in Nat /\ MaxLen \in Nat
  BY WriterAssumption
<1>2. /\ phase = "idle" /\ before' = Contents /\ request' = [op |-> "set_len", len |-> n]
      /\ Shrink(n) /\ UNCHANGED <<file, buf, pos, done, phase>>
  BY DEF Truncate, Calling
<1>3. /\ buf = <<>> /\ done = 0 /\ IsSeq(Contents) /\ size \in 0 .. MaxLen
      /\ Len(Contents) = size /\ \A i \in 1 .. size : Contents[i] = Byte(i)
  BY <1>2, IdleFacts, BeforeTyped DEF WriterInv, WriterTyped
<1>4. /\ Storage' /\ size' = n /\ n < size /\ Len(pages') = PageCount(n)
      /\ \A i \in 1 .. n : Byte(i)' = Byte(i)
  BY <1>1, <1>2, ShrinkStorage
<1>5. WriterTyped'
  BY <1>2, <1>3, <1>4 DEF WriterInv, WriterTyped, IsSeq
<1>6. AtPhase'
  BY <1>2, <1>3 DEF AtPhase, WritePhases, GrowPhases
<1>7. OnTheWay'
  <2>1. Expected' = Grown(Contents, n)
    BY <1>2, SetLenExpects
  <2>2. Grown(Contents, n) = [i \in 1 .. n |-> Byte(i)]
    BY <1>1, <1>3, <1>4 DEF Grown
  <2>3. Contents' = [i \in 1 .. n |-> Byte(i)]
    <3>1. size' \in Nat /\ pages' \in Seq(DOMAIN file') /\ Len(pages') = PageCount(size')
      BY <1>1, <1>4 DEF Storage
    <3>2. /\ DOMAIN Contents' = 1 .. size' /\ IsSeq(Contents') /\ Len(Contents') = size'
          /\ \A i \in 1 .. size' : Contents'[i] = Byte(i)'
      BY <3>1, BytesAfter
    <3> DEFINE C == Contents'
    <3>3. C = [i \in 1 .. n |-> C[i]] /\ \A i \in 1 .. n : C[i] = Byte(i)
      BY <1>4, <3>2 DEF IsSeq
    <3> HIDE DEF C
    <3>4. C = [i \in 1 .. n |-> Byte(i)]
      BY <3>3
    <3> QED BY <3>4 DEF C
  <2>4. (phase = "idle")' /\ Contents' = Expected'
    BY <1>2, <2>1, <2>2, <2>3
  <2> QED BY <2>4 DEF OnTheWay, WritePhases
<1>8. Len(pages)' = PageCount(size)'
  BY <1>4 DEF PageCount, CeilDiv
<1> QED BY <1>4, <1>5, <1>6, <1>7, <1>8 DEF WriterInv

(* set_len to a larger size, within what the code can do.                  *)
LEMMA ExtendKeeps ==
  ASSUME GrowthWithinPage, WriterInv, NEW n \in 1 .. MaxLen, Extend(n)
  PROVE  WriterInv'
<1>1. n \in Nat /\ MaxLen \in Nat /\ PageSize \in Nat
  BY WriterAssumption, PageSizeAssumption
<1>2. /\ phase = "idle" /\ before' = Contents /\ request' = [op |-> "set_len", len |-> n]
      /\ <<size, n>> \in GrowthCalls /\ pos' = n
      /\ phase' = IF Phase(size) # 0 THEN "sl_partial" ELSE "sl_pages"
      /\ UNCHANGED <<allocVars, file, size, pages, buf, done>>
  BY DEF Extend, Calling
<1>3. /\ buf = <<>> /\ done = 0 /\ IsSeq(Contents) /\ size \in 0 .. MaxLen
      /\ Storage /\ Len(pages) = PageCount(size)
  BY <1>2, IdleFacts, BeforeTyped DEF WriterInv, WriterTyped
<1>4. /\ size < n
      /\ IF Phase(size) = 0 THEN size = 0 /\ n <= PageSize
         ELSE n - size < PageSize - Phase(size)
  BY <1>2, WriterAssumption DEF GrowthWithinPage
<1>5. Storage'
  BY <1>2, <1>3, StorageStays
<1>6. WriterTyped'
  BY <1>2, <1>3 DEF WriterInv, WriterTyped, IsSeq, GrowPhases
<1>7. AtPhase'
  BY <1>1, <1>2, <1>3, <1>4 DEF AtPhase, WritePhases, GrowPhases, Phase
<1>8. OnTheWay'
  <2>1. Expected' = Grown(Contents, n)
    BY <1>2, SetLenExpects
  <2>2. Contents' = Contents
    BY <1>2 DEF Contents, Slot, Phase
  <2>3. Grown(Contents, pos)' = Expected'
    BY <1>2, <2>1, <2>2 DEF Grown
  <2>4. phase' # "idle" /\ phase' \notin WritePhases
    BY <1>2 DEF WritePhases
  <2> QED BY <2>3, <2>4 DEF OnTheWay, WritePhases
<1>9. Len(pages)' = PageCount(size)'
  BY <1>2, <1>3 DEF PageCount, CeilDiv
<1> QED BY <1>5, <1>6, <1>7, <1>8, <1>9 DEF WriterInv

(* set_contents writes over a stream that is no longer than the data.      *)
LEMMA SetContentsKeeps ==
  ASSUME WriterInv, NEW n \in 0 .. MaxLen, SetContents(n)
  PROVE  WriterInv'
<1> DEFINE d == DataOf(n)
<1>1. n \in Nat /\ MaxLen \in Nat
  BY WriterAssumption
<1>2. IsSeq(d) /\ Len(d) = n /\ (d = <<>> <=> n = 0)
  BY <1>1, DataTyped
<1>3. /\ phase = "idle" /\ before' = Contents
      /\ request' = [op |-> "set_contents", data |-> d]
      /\ Shrink(n) \/ (size <= n /\ UNCHANGED <<allocVars, pages, size>>)
      /\ pos' = 0 /\ buf' = d /\ phase' = Route(size', pos', buf')
      /\ UNCHANGED <<file, done>>
  BY DEF SetContents, Calling
<1> HIDE DEF d
<1>4. /\ buf = <<>> /\ done = 0 /\ IsSeq(Contents) /\ size \in 0 .. MaxLen
      /\ Storage /\ Len(pages) = PageCount(size)
  BY <1>3, IdleFacts, BeforeTyped DEF WriterInv, WriterTyped
<1>5. Storage' /\ size' \in Nat /\ size' <= n /\ Len(pages') = PageCount(size')
  <2>1. CASE Shrink(n)
    BY <1>1, <1>3, <2>1, ShrinkStorage
  <2>2. CASE size <= n /\ UNCHANGED <<allocVars, pages, size>>
    <3>1. Storage'
      BY <1>3, <1>4, <2>2, StorageStays
    <3> QED BY <1>4, <2>2, <3>1
  <2> QED BY <1>3, <2>1, <2>2
<1>6. /\ AtPhase' /\ phase' \in WritePhases \cup {"idle"}
      /\ phase' = "idle" <=> buf' = <<>>
  <2>1. pos' \in Nat /\ IsSeq(buf') /\ done' = 0 /\ pos' + Len(buf') <= MaxLen
    BY <1>1, <1>2, <1>3, <1>4
  <2> QED BY <1>3, <1>5, <2>1, Routed
<1>7. WriterTyped'
  BY <1>1, <1>2, <1>3, <1>4, <1>5, <1>6 DEF WriterTyped, IsSeq
<1>8. OnTheWay'
  <2>1. Expected' = d
    BY <1>3, SetContentsExpects
  <2>2. Len(Contents') = size' /\ IsSeq(Contents')
    <3>1. pages' \in Seq(DOMAIN file')
      BY <1>5 DEF Storage
    <3> QED BY <1>5, <3>1, BytesAfter
  <2> DEFINE C == Contents'
             s == size'
  <2>3. Len(C) = s /\ IsSeq(C) /\ s \in Nat /\ s <= n
    BY <1>5, <2>2
  <2>4. Finished(C, 0, d) = Finished(Contents, pos, buf)' /\ C = Contents'
    BY <1>3 DEF Finished, Greater
  <2> HIDE DEF C, s
  <2>5. Finished(C, 0, d) = d
    <3>1. Greater(Len(C), 0 + Len(d)) = n /\ 0 + Len(d) = n
      BY <1>1, <1>2, <2>3 DEF Greater
    <3>2. \A i \in 1 .. n : i \in (0 + 1) .. (0 + Len(d)) /\ i - 0 = i
      BY <1>1, <1>2
    <3>3. d = [i \in 1 .. n |-> d[i]]
      BY <1>2 DEF IsSeq
    <3> QED BY <3>1, <3>2, <3>3 DEF Finished
  <2>6. CASE phase' = "idle"
    <3>1. n = 0
      BY <1>2, <1>3, <1>6, <2>6
    <3>2. C = <<>> /\ d = <<>>
      BY <1>2, <2>3, <3>1 DEF IsSeq
    <3> QED BY <2>1, <2>4, <2>6, <3>2 DEF OnTheWay, WritePhases
  <2>7. CASE phase' \in WritePhases
    <3>1. phase' # "idle" /\ phase' \notin GrowPhases
      BY <2>7 DEF WritePhases, GrowPhases
    <3> QED BY <2>1, <2>4, <2>5, <2>7, <3>1 DEF OnTheWay, WritePhases, GrowPhases
  <2> QED BY <1>6, <2>6, <2>7
<1>9. Len(pages)' = PageCount(size)'
  BY <1>5 DEF PageCount, CeilDiv
<1> QED BY <1>5, <1>6, <1>7, <1>8, <1>9 DEF WriterInv


-----------------------------------------------------------------------------
(***************************************************************************)
(* The specification.                                                      *)
(***************************************************************************)
(* What write_stream opens is a stream with its pages, and its contents    *)
(* are the bytes it was left with.                                         *)
LEMMA InitInv ==
  ASSUME Init
  PROVE  WriterInv
<1>1. PICK l \in Layouts :
        /\ pages = l.pages /\ free = l.free /\ numPages = l.numPages
        /\ size = Len(l.bytes)
        /\ freed = {} /\ fresh = {} /\ hint = 0
        /\ file = [p \in 0 .. (MaxPages - 1) |->
                     [j \in 1 .. PageSize |->
                        IF \E i \in DOMAIN l.bytes :
                             l.pages[Slot(i - 1)] = p /\ Phase(i - 1) + 1 = j
                          THEN l.bytes[CHOOSE i \in DOMAIN l.bytes :
                                 l.pages[Slot(i - 1)] = p /\ Phase(i - 1) + 1 = j]
                          ELSE Stale]]
        /\ buf = <<>> /\ pos = 0 /\ done = 0 /\ phase = "idle"
        /\ before = l.bytes /\ request = [op |-> "none"]
  BY DEF Init
<1> DEFINE b == l.bytes
           T == {p \in 0 .. (numPages - 1) : ~IsSpecialPage(p)}
<1>2. /\ size \in 0 .. MaxLen /\ b = [i \in 1 .. size |-> b[i]] /\ Len(b) = size
      /\ numPages \in 3 .. MaxPages /\ free \subseteq T
      /\ pages \in Seq(T \ free) /\ Len(pages) = PageCount(size)
      /\ \A i, j \in DOMAIN pages : pages[i] = pages[j] => i = j
      /\ MaxLen \in Nat /\ MaxPages \in Nat
  BY <1>1, LayoutsAssumption, WriterAssumption, MaxPagesAssumption DEF ConsistentLayout
<1>3. /\ DOMAIN file = 0 .. (MaxPages - 1)
      /\ \A p \in DOMAIN file : \A j \in 1 .. PageSize :
           file[p][j] =
             IF \E i \in DOMAIN b : pages[Slot(i - 1)] = p /\ Phase(i - 1) + 1 = j
               THEN b[CHOOSE i \in DOMAIN b :
                        pages[Slot(i - 1)] = p /\ Phase(i - 1) + 1 = j]
               ELSE Stale
      /\ \A p \in DOMAIN file : file[p] = [j \in 1 .. PageSize |-> file[p][j]]
  BY <1>1
<1>4. \A i \in DOMAIN pages : pages[i] \in T \ free /\ pages[i] \in DOMAIN file
  BY <1>2, <1>3
<1>5. pages \in Seq(DOMAIN file)
  <2>1. T \ free \subseteq DOMAIN file
    BY <1>2, <1>3
  <2> HIDE DEF T
  <2> QED BY <1>2, <2>1
<1>6. Storage
  <2>1. AllocatorConsistent
    BY <1>1, <1>2 DEF AllocatorConsistent
  <2>2. PagesOwned
    BY <1>1, <1>2, <1>4 DEF PagesOwned
  <2> QED BY <1>1, <1>2, <1>3, <1>5, <2>1, <2>2 DEF Storage
<1>7. IsSeq(b) /\ IsSeq(buf) /\ buf = <<>>
  BY <1>1, <1>2 DEF IsSeq
<1>8. WriterTyped
  BY <1>1, <1>2, <1>7 DEF WriterTyped
<1>9. AtPhase
  BY <1>1 DEF AtPhase, WritePhases, GrowPhases
<1>10. OnTheWay
  <2>1. Expected = b
    BY <1>1 DEF Expected
  <2>2. /\ size \in Nat /\ IsSeq(Contents) /\ Len(Contents) = size
        /\ \A i \in 1 .. size : Contents[i] = Byte(i)
    BY <1>2, <1>5, ContentsBytes
  <2>3. ASSUME NEW i \in 1 .. size PROVE Byte(i) = b[i]
    <3> DEFINE p == pages[Slot(i - 1)]
               j == Phase(i - 1) + 1
               Here(k) == pages[Slot(k - 1)] = p /\ Phase(k - 1) + 1 = j
    <3>1. DOMAIN b = 1 .. size
      BY <1>2
    <3>2. \A k \in 1 .. size :
            /\ k - 1 \in Nat /\ Slot(k - 1) \in DOMAIN pages /\ Phase(k - 1) + 1 \in 1 .. PageSize
      BY <1>2, <1>5, <2>2, BytePage
    <3>3. p \in DOMAIN file /\ j \in 1 .. PageSize
      BY <1>4, <3>2
    <3>4. file[p][j] = b[CHOOSE k \in 1 .. size : Here(k)] /\ \E k \in 1 .. size : Here(k)
      <4>1. \E k \in 1 .. size : Here(k)
        OBVIOUS
      <4>2. file[p][j] = IF \E k \in DOMAIN b : Here(k)
                           THEN b[CHOOSE k \in DOMAIN b : Here(k)] ELSE Stale
        <5> HIDE DEF p, j, b
        <5> QED BY <1>3, <3>3
      <4> QED BY <3>1, <4>1, <4>2
    <3>5. ASSUME NEW k \in 1 .. size, Here(k) PROVE k = i
      <4> DEFINE x == k - 1
                 y == i - 1
      <4>1. x \in Nat /\ y \in Nat /\ Slot(x) = Slot(y) /\ Phase(x) + 1 = Phase(y) + 1
        BY <1>2, <3>2, <3>5
      <4> HIDE DEF x, y
      <4>2. x - y = Phase(x) - Phase(y) /\ Phase(x) \in Int /\ Phase(y) \in Int
        BY <4>1, SamePage
      <4>3. x = y
        BY <4>1, <4>2
      <4> QED BY <4>3 DEF x, y
    <3>6. Byte(i) = file[p][j]
      BY DEF Byte
    <3> HIDE DEF Here
    <3>7. (CHOOSE k \in 1 .. size : Here(k)) = i
      BY <3>4, <3>5
    <3> QED BY <3>4, <3>6, <3>7
  <2>4. Contents = b
    <3> DEFINE C == Contents
    <3>1. C = [i \in 1 .. size |-> C[i]] /\ \A i \in 1 .. size : C[i] = b[i]
      BY <2>2, <2>3 DEF IsSeq
    <3> HIDE DEF C, b
    <3>2. C = b
      BY <1>2, <3>1
    <3> QED BY <3>2 DEF C
  <2> QED BY <1>1, <2>1, <2>4 DEF OnTheWay, WritePhases
<1> QED BY <1>2, <1>6, <1>8, <1>9, <1>10 DEF WriterInv

(* Nothing happens.                                                        *)
LEMMA StutterKeeps ==
  ASSUME WriterInv, UNCHANGED vars
  PROVE  WriterInv'
<1>1. /\ UNCHANGED <<allocVars, file, size, pages, buf, pos, done, phase, callVars>>
  BY DEF vars
<1>2. Storage'
  BY <1>1, StorageStays DEF WriterInv
<1>3. WriterTyped'
  BY <1>1 DEF WriterInv, WriterTyped, IsSeq, callVars
<1>4. AtPhase'
  BY <1>1 DEF WriterInv, AtPhase, Phase, PagesToOverwrite, PageCount, CeilDiv, Lesser
<1>5. OnTheWay'
  <2>1. Contents' = Contents /\ Expected' = Expected
    BY <1>1 DEF Contents, Expected, Slot, Phase, callVars, Greater
  <2> QED BY <1>1, <2>1 DEF WriterInv, OnTheWay, Finished, Grown, Greater
<1>6. Len(pages)' = PageCount(size)'
  BY <1>1 DEF WriterInv, PageCount, CeilDiv
<1> QED BY <1>2, <1>3, <1>4, <1>5, <1>6 DEF WriterInv

(***************************************************************************)
(* Every function of write_core finds what it asserts, and what is left of *)
(* the data, put where it goes, gives what the call asked for - provided   *)
(* set_len is asked to grow streams only within a page (GrowthWithinPage). *)
(***************************************************************************)
THEOREM WriterInvariant ==
  ASSUME GrowthWithinPage
  PROVE  Spec => []WriterInv
<1>1. Init => WriterInv
  BY InitInv
<1>2. WriterInv /\ [Next]_vars => WriterInv'
  <2> SUFFICES ASSUME WriterInv, [Next]_vars PROVE WriterInv'
    OBVIOUS
  <2>1. CASE \E o \in 0 .. MaxLen, n \in 1 .. MaxLen : o + n <= MaxLen /\ Write(o, n)
    BY <2>1, WriteKeeps
  <2>2. CASE \E n \in 0 .. MaxLen : Truncate(n)
    BY <2>2, TruncateKeeps
  <2>3. CASE \E n \in 0 .. MaxLen : SetContents(n)
    BY <2>3, SetContentsKeeps
  <2>4. CASE \E n \in 1 .. MaxLen : Extend(n)
    BY <2>4, ExtendKeeps
  <2>5. CASE ZeroExtendStart
    BY <2>5, ZeroExtendStartKeeps
  <2>6. CASE ZeroExtendPages
    BY <2>6, ZeroExtendPagesKeeps
  <2>7. CASE ZeroExtendEnd
    BY <2>7, ZeroExtendEndKeeps
  <2>8. CASE OverwriteStart
    BY <2>8, OverwriteStartKeeps
  <2>9. CASE MakePageFresh
    BY <2>9, MakePageFreshKeeps
  <2>10. CASE OverwriteRun
    BY <2>10, OverwriteRunKeeps
  <2>11. CASE OverwriteTail
    BY <2>11, OverwriteTailKeeps
  <2>12. CASE AppendStart
    BY <2>12, AppendStartKeeps
  <2>13. CASE AppendCompletePages
    BY <2>13, AppendCompletePagesKeeps
  <2>14. CASE AppendFinalPage
    BY <2>14, AppendFinalPageKeeps
  <2>15. CASE ExtendPartialPage
    BY <2>15, ExtendPartialPageKeeps
  <2>16. CASE ExtendPages
    BY <2>16, ExtendPagesKeeps
  <2>17. CASE ExtendPanics
    BY <2>17, ExtendPanicsKeeps
  <2>18. CASE UNCHANGED vars
    BY <2>18, StutterKeeps
  <2> QED
    BY <2>1, <2>2, <2>3, <2>4, <2>5, <2>6, <2>7, <2>8, <2>9, <2>10, <2>11, <2>12, <2>13,
       <2>14, <2>15, <2>16, <2>17, <2>18 DEF Next
<1> QED BY <1>1, <1>2, PTL DEF Spec


(* The functions of write_core are the phases of a write.                  *)
LEMMA PhasesOfWrite == ToSet(Phases) = WritePhases
<1>1. DOMAIN Phases = 1 .. 10
  BY DEF Phases
<1>2. /\ Phases[1] = "zx_start" /\ Phases[2] = "zx_pages" /\ Phases[3] = "zx_end"
      /\ Phases[4] = "ow_start" /\ Phases[5] = "ow_fresh" /\ Phases[6] = "ow_runs"
      /\ Phases[7] = "ow_tail" /\ Phases[8] = "ap_start" /\ Phases[9] = "ap_pages"
      /\ Phases[10] = "ap_final"
  BY DEF Phases
<1>3. ToSet(Phases) = {Phases[i] : i \in 1 .. 10}
  BY <1>1 DEF ToSet
<1>4. \A i \in 1 .. 10 : i \in {1, 2, 3, 4, 5, 6, 7, 8, 9, 10}
  OBVIOUS
<1>5. ToSet(Phases) = {Phases[1], Phases[2], Phases[3], Phases[4], Phases[5], Phases[6],
                       Phases[7], Phases[8], Phases[9], Phases[10]}
  BY <1>3, <1>4
<1> QED BY <1>2, <1>5 DEF WritePhases

(***************************************************************************)
(* Types: the stream's size never exceeds what it is set to or written to, *)
(* its pages are pages of the file, and every page has the page size.      *)
(***************************************************************************)
THEOREM WriterTypes ==
  ASSUME GrowthWithinPage
  PROVE  Spec => []TypeOK
<1>1. WriterInv => TypeOK
  <2> SUFFICES ASSUME WriterInv PROVE TypeOK
    OBVIOUS
  <2>1. /\ size \in 0 .. MaxLen /\ pos \in 0 .. MaxLen /\ done \in Nat /\ MaxLen \in Nat
        /\ phase \in WritePhases \cup GrowPhases \cup {"idle", "panicked"}
        /\ IsSeq(buf) /\ Len(buf) \in Nat /\ PageSize \in Nat \ {0}
    BY WriterAssumption, PageSizeAssumption DEF WriterInv, WriterTyped, IsSeq
  <2>2. done \in 0 .. MaxLen
    <3>1. CASE phase # "ow_fresh"
      BY <2>1, <3>1 DEF WriterInv, AtPhase
    <3>2. CASE phase = "ow_fresh"
      <4> DEFINE c == PageCount(size) - pos \div PageSize
                 d == Len(buf) \div PageSize
      <4>1. /\ pos < size /\ Len(buf) >= PageSize /\ pos + Len(buf) <= MaxLen
            /\ done < Lesser(c, d)
        BY <3>2 DEF WriterInv, AtPhase, WritePhases, PagesToOverwrite
      <4>2. c \in Nat \ {0} /\ d \in Nat \ {0}
        <5>1. size \in Nat /\ pos \in Nat /\ Len(buf) \in Nat
          BY <2>1
        <5> QED BY <4>1, <5>1, PagesLeft
      <4>3. d <= Len(buf)
        <5>1. Len(buf) % PageSize \in Nat /\ Len(buf) = PageSize * d + (Len(buf) % PageSize)
          <6>1. PageSize \in Nat \ {0} /\ Len(buf) \in Nat
            BY <2>1
          <6>2. PICK l \in Nat : l = Len(buf)
            BY <6>1
          <6>3. l % PageSize \in Nat /\ l = PageSize * (l \div PageSize) + (l % PageSize)
            BY ONLY <6>1, <6>2, DivMod
          <6> QED BY <6>2, <6>3
        <5> HIDE DEF d
        <5>2. PageSize * d >= d
          BY <2>1, <4>2, SMTT(30)
        <5>3. PageSize * d \in Nat
          BY <2>1, <4>2
        <5> QED BY <2>1, <4>2, <5>1, <5>2, <5>3
      <4> HIDE DEF c, d
      <4> QED BY <2>1, <4>1, <4>2, <4>3 DEF Lesser
    <3> QED BY <3>1, <3>2
  <2>3. phase \in ToSet(Phases) \cup {"idle", "sl_partial", "sl_pages", "panicked"}
    BY <2>1, PhasesOfWrite DEF GrowPhases
  <2>4. \A p \in DOMAIN file : Len(file[p]) = PageSize
    <3> TAKE p \in DOMAIN file
    <3> DEFINE F == file[p]
    <3>1. F = [j \in 1 .. PageSize |-> F[j]]
      BY DEF WriterInv, Storage
    <3> HIDE DEF F
    <3>2. Len(F) = PageSize
      BY <2>1, <3>1, FunctionLen
    <3> QED BY <3>2 DEF F
  <2>5. pages \in Seq(DOMAIN file) /\ DOMAIN file = 0 .. (MaxPages - 1)
    BY DEF WriterInv, Storage
  <2>6. size \in 0 .. (2 * MaxLen)
    BY <2>1
  <2> QED BY <2>1, <2>2, <2>3, <2>4, <2>5, <2>6 DEF TypeOK
<1> QED BY <1>1, WriterInvariant, PTL

(***************************************************************************)
(* Between calls a stream has the pages its size calls for, all its own.   *)
(***************************************************************************)
THEOREM StreamOwnsItsPages ==
  ASSUME GrowthWithinPage
  PROVE  Spec => []PagesMatchSize
<1>1. WriterInv => PagesMatchSize
  BY DEF WriterInv, Storage, PagesOwned, PagesMatchSize, ToSet
<1> QED BY <1>1, WriterInvariant, PTL

(***************************************************************************)
(* If write_at writes all it is given (its result is not looked at), every *)
(* call makes of the stream what it should, whatever the alignment.        *)
(***************************************************************************)
THEOREM CallsWriteWhatTheyShould ==
  ASSUME GrowthWithinPage, ~ShortWrites
  PROVE  Spec => []BytesAsWritten
<1>1. WriterInv => BytesAsWritten
  BY DEF WriterInv, OnTheWay, BytesAsWritten
<1> QED BY <1>1, WriterInvariant, PTL


-----------------------------------------------------------------------------
(***************************************************************************)
(* write_core is straight-line code.                                       *)
(***************************************************************************)
(* The place of each function.                                             *)
LEMMA Ranks ==
  /\ Rank("zx_start") = 1 /\ Rank("zx_pages") = 2 /\ Rank("zx_end") = 3
  /\ Rank("ow_start") = 4 /\ Rank("ow_fresh") = 5 /\ Rank("ow_runs") = 6
  /\ Rank("ow_tail") = 7 /\ Rank("ap_start") = 8 /\ Rank("ap_pages") = 9
  /\ Rank("ap_final") = 10
<1>1. DOMAIN Phases = 1 .. 10
  BY DEF Phases
<1>2. /\ Phases[1] = "zx_start" /\ Phases[2] = "zx_pages" /\ Phases[3] = "zx_end"
      /\ Phases[4] = "ow_start" /\ Phases[5] = "ow_fresh" /\ Phases[6] = "ow_runs"
      /\ Phases[7] = "ow_tail" /\ Phases[8] = "ap_start" /\ Phases[9] = "ap_pages"
      /\ Phases[10] = "ap_final"
  BY DEF Phases
<1>3. \A i \in DOMAIN Phases : i \in {1, 2, 3, 4, 5, 6, 7, 8, 9, 10}
  BY <1>1
<1>4. ASSUME NEW k \in DOMAIN Phases, NEW f, Phases[k] = f,
             \A i \in DOMAIN Phases : Phases[i] = f => i = k
      PROVE  Rank(f) = k
  BY <1>4 DEF Rank
<1>5. \A i \in DOMAIN Phases, j \in DOMAIN Phases : Phases[i] = Phases[j] => i = j
  BY <1>2, <1>3
<1>6. \A k \in DOMAIN Phases : Rank(Phases[k]) = k
  BY <1>4, <1>5
<1> HIDE DEF Phases
<1>7. /\ Rank(Phases[1]) = 1 /\ Rank(Phases[2]) = 2 /\ Rank(Phases[3]) = 3
      /\ Rank(Phases[4]) = 4 /\ Rank(Phases[5]) = 5 /\ Rank(Phases[6]) = 6
      /\ Rank(Phases[7]) = 7 /\ Rank(Phases[8]) = 8 /\ Rank(Phases[9]) = 9
      /\ Rank(Phases[10]) = 10
  BY <1>1, <1>6
<1> QED BY <1>2, <1>7

(* From the phase f, write_core goes on to g.                              *)
Onward(f, g) == Rank(f) < Rank(g) \/ (g = f /\ f \in Loops)

(* Once the position is within the stream, no zeroes are missing; at the   *)
(* end of the stream, nothing is left to overwrite; on a page boundary,    *)
(* there is no page to be completed.                                       *)
LEMMA GoesOn ==
  ASSUME NEW s \in Nat, NEW p \in Nat, NEW b, IsSeq(b), NEW f, f = Route(s, p, b),
         f \in WritePhases
  PROVE  /\ Phase(s) = 0 => Onward("zx_start", f)
         /\ Phase(s) = 0 => Onward("zx_pages", f)
         /\ s = p => /\ Onward("zx_start", f) /\ Onward("zx_end", f)
                     /\ Onward("ow_start", f) /\ Onward("ow_runs", f)
         /\ s >= p /\ (Phase(p) = 0 \/ b = <<>>) => Onward("ow_start", f)
         /\ s >= p /\ Phase(p) = 0 /\ Len(b) < PageSize => Onward("ow_runs", f)
         /\ s = p /\ (Phase(p) = 0 \/ b = <<>>) =>
              Onward("ap_start", f) /\ Onward("ap_pages", f)
<1>1. /\ f # "ow_runs" /\ b # <<>>
      /\ f = "zx_start" => s < p /\ Phase(s) # 0
      /\ f \in {"zx_pages", "zx_end"} => s < p
      /\ f = "ow_start" => p < s /\ Phase(p) # 0
      /\ f = "ow_fresh" => p < s /\ Len(b) >= PageSize
      /\ f = "ow_tail" => p < s
      /\ f = "ap_start" => p = s /\ Phase(p) # 0
      /\ f \in {"ap_pages", "ap_final"} => p = s
  BY RouteFound DEF WritePhases
<1>2. PageSize \in Nat /\ Len(b) \in Nat
  BY PageSizeAssumption DEF IsSeq
<1>3. /\ Onward("zx_start", f) <=> f # "zx_start"
      /\ Onward("zx_pages", f) <=> f # "zx_start"
      /\ Onward("zx_end", f) <=> f \notin {"zx_start", "zx_pages", "zx_end"}
      /\ Onward("ow_start", f) <=> f \notin {"zx_start", "zx_pages", "zx_end", "ow_start"}
      /\ Onward("ow_runs", f) <=>
           f \notin {"zx_start", "zx_pages", "zx_end", "ow_start", "ow_fresh"}
      /\ Onward("ap_start", f) <=> f \in {"ap_pages", "ap_final"}
      /\ Onward("ap_pages", f) <=> f \in {"ap_pages", "ap_final"}
  BY Ranks DEF Onward, Loops, WritePhases
<1>4. Phase(s) = 0 => Onward("zx_start", f) /\ Onward("zx_pages", f)
  BY <1>1, <1>3
<1>5. s = p => /\ f \in {"ap_start", "ap_pages", "ap_final"}
               /\ (Phase(p) = 0 \/ b = <<>> => f \in {"ap_pages", "ap_final"})
  BY <1>1 DEF WritePhases
<1>6. s >= p => f \notin {"zx_start", "zx_pages", "zx_end"}
  BY <1>1
<1>7. s >= p /\ (Phase(p) = 0 \/ b = <<>>) => Onward("ow_start", f)
  BY <1>1, <1>3, <1>6
<1>8. s >= p /\ Phase(p) = 0 /\ Len(b) < PageSize => Onward("ow_runs", f)
  BY <1>1, <1>2, <1>3, <1>6
<1>9. s = p => /\ Onward("zx_start", f) /\ Onward("zx_end", f)
               /\ Onward("ow_start", f) /\ Onward("ow_runs", f)
  BY <1>3, <1>5
<1>10. s = p /\ (Phase(p) = 0 \/ b = <<>>) =>
         Onward("ap_start", f) /\ Onward("ap_pages", f)
  BY <1>3, <1>5
<1> QED BY <1>4, <1>7, <1>8, <1>9, <1>10


(* The rest of a page ends on a page boundary, and so do whole pages.      *)
LEMMA PageBoundary ==
  ASSUME NEW x \in Nat
  PROVE  /\ Phase(x + (PageSize - Phase(x))) = 0
         /\ \A k \in Nat : Phase(x) = 0 => Phase(x + k * PageSize) = 0
<1> DEFINE t == Slot(x)
           r == Phase(x)
<1>1. /\ t \in Nat \ {0} /\ r \in 0 .. (PageSize - 1) /\ Base(t) \in Nat /\ x = Base(t) + r
      /\ PageSize \in Nat \ {0} /\ 0 \in 0 .. (PageSize - 1)
  BY ByteAddress, PageSizeAssumption
<1> HIDE DEF t
<1>2. ASSUME NEW k \in Nat PROVE r = 0 => Phase(x + k * PageSize) = 0
  <2>1. Base(t + k) = Base(t) + k * PageSize /\ k * PageSize \in Nat /\ t + k \in Nat \ {0}
    BY <1>1, BaseAfter
  <2> DEFINE y == x + k * PageSize
             u == t + k
  <2>2. r = 0 => y = Base(u) + 0
    <3> DEFINE z == k * PageSize
    <3>1. z \in Nat /\ Base(u) = Base(t) + z /\ y = x + z
      BY <2>1
    <3> HIDE DEF z, u, y, r
    <3> QED BY <1>1, <3>1
  <2>3. y \in Nat /\ u \in Nat \ {0}
    BY <2>1
  <2> HIDE DEF y, u
  <2>4. r = 0 => Phase(y) = 0
    BY <1>1, <2>2, <2>3, SlotUnique
  <2> QED BY <2>4 DEF y
<1>3. Phase(x + (PageSize - r)) = 0
  <2>1. Base(t + 1) = Base(t) + PageSize
    <3>1. Base(t + 1) = Base(t) + 1 * PageSize
      BY <1>1, BaseAfter
    <3> QED BY <1>1, <3>1
  <2> DEFINE y == x + (PageSize - r)
             u == t + 1
  <2>2. y = Base(u) + 0 /\ y \in Nat /\ u \in Nat \ {0}
    <3> HIDE DEF r
    <3> QED BY <1>1, <2>1
  <2> HIDE DEF y, u
  <2>3. Phase(y) = 0
    BY <1>1, <2>2, SlotUnique
  <2> QED BY <2>3 DEF y
<1> QED BY <1>2, <1>3 DEF r

(* The page of the position is filled, or the data are used up.            *)
LEMMA PageFilled ==
  ASSUME NEW p \in Nat, NEW b, IsSeq(b), NEW n, n = Lesser(PageSize - Phase(p), Len(b))
  PROVE  /\ n \in 0 .. Len(b) /\ p + n \in Nat
         /\ IsSeq(Drop(b, n))
         /\ Phase(p + n) = 0 \/ Drop(b, n) = <<>>
<1>1. /\ Len(b) \in Nat /\ PageSize \in Nat /\ Phase(p) \in 0 .. (PageSize - 1)
  BY PageSizeAssumption, ByteAddress DEF IsSeq
<1>2. n \in 0 .. Len(b) /\ (n = PageSize - Phase(p) \/ n = Len(b)) /\ p + n \in Nat
  BY <1>1 DEF Lesser
<1>3. IsSeq(Drop(b, n)) /\ (n = Len(b) => Drop(b, n) = <<>>)
  BY <1>2, Dropped
<1>4. Phase(p + (PageSize - Phase(p))) = 0
  BY PageBoundary
<1> QED BY <1>2, <1>3, <1>4

(* After the pages to be overwritten there is no page more to overwrite.   *)
LEMMA OverwrittenAll ==
  ASSUME WriterInv, phase = "ow_runs",
         NEW n, n = PagesToOverwrite * PageSize
  PROVE  /\ n \in 0 .. Len(buf) /\ Phase(pos + n) = 0
         /\ pos + n >= size \/ Len(buf) - n < PageSize
<1> DEFINE c == PageCount(size)
           q == pos \div PageSize
           m == Len(buf)
           e == m \div PageSize
           X == PagesToOverwrite
<1>1. /\ pos < size /\ Phase(pos) = 0 /\ m >= PageSize
      /\ pos \in Nat /\ size \in Nat /\ m \in Nat /\ c \in Nat
  BY WriterFacts DEF WriterInv, AtPhase, WritePhases
<1>2. PageSize \in Nat \ {0}
  BY PageSizeAssumption
<1>3. X = Lesser(c - q, e) /\ X \in Nat \ {0} /\ c - q \in Nat \ {0} /\ e \in Nat \ {0}
  <2>1. X = Lesser(c - q, e)
    BY DEF PagesToOverwrite
  <2> QED BY <1>1, <2>1, PagesLeft
<1>4. n \in Nat /\ pos + n \in Nat
  <2>1. PICK x \in Nat : x = X
    BY <1>3
  <2>2. n = x * PageSize
    BY <2>1
  <2>3. x * PageSize \in Nat
    BY ONLY <1>2, <2>1
  <2> QED BY <1>1, <2>2, <2>3
<1>5. Phase(pos + n) = 0
  <2> HIDE DEF X
  <2> QED BY <1>1, <1>3, PageBoundary DEF X
<1>6. m % PageSize \in 0 .. (PageSize - 1) /\ m = PageSize * e + (m % PageSize)
  BY <1>1, <1>2, DivMod
<1>7. n <= m
  <2>1. X <= e
    BY <1>3 DEF Lesser
  <2> DEFINE j == e - X
  <2>2. j \in Nat /\ e = X + j
    BY <1>3, <2>1
  <2> HIDE DEF X, e, j
  <2>3. PageSize * (X + j) = X * PageSize + PageSize * j
    BY ONLY <1>2, <1>3, <2>2
  <2>4. PageSize * j \in Nat
    BY <1>2, <2>2
  <2> HIDE DEF m
  <2>5. PageSize * e = n + PageSize * j
    BY <2>2, <2>3 DEF X
  <2> DEFINE z == PageSize * j
             y == PageSize * e
  <2>6. z \in Nat /\ y = n + z /\ m = y + (m % PageSize) /\ m % PageSize \in Nat
    BY <1>6, <2>4, <2>5
  <2> HIDE DEF y, z
  <2> QED BY <1>1, <1>4, <2>6
<1>8. CASE X = e
  <2>1. n = PageSize * e
    <3> HIDE DEF e, X
    <3>1. X * PageSize = PageSize * X
      BY <1>2, <1>3
    <3> QED BY <1>8, <3>1 DEF X
  <2>2. m = n + (m % PageSize)
    BY <1>6, <2>1
  <2> HIDE DEF m, e, X
  <2>3. m - n < PageSize
    BY <1>1, <1>2, <1>4, <1>6, <2>2
  <2> QED BY <1>4, <1>5, <1>7, <2>3, <1>1 DEF m
<1>9. CASE X = c - q
  <2>1. size <= Base(c + 1) /\ Base(c + 1) \in Nat
    <3> DEFINE d == c
    <3>1. d = PageCount(size) /\ d \in Nat
      BY <1>1
    <3> HIDE DEF d
    <3>2. size <= Base(d + 1) /\ Base(d + 1) \in Nat
      BY <1>1, <3>1, PagesNeeded
    <3> QED BY <3>2 DEF d
  <2>2. /\ Slot(pos) = q + 1 /\ pos = Base(Slot(pos)) /\ Slot(pos) \in Nat \ {0}
    <3>1. Slot(pos) = q + 1
      BY DEF Slot
    <3>2. Slot(pos) \in Nat \ {0} /\ pos = Base(Slot(pos)) + Phase(pos)
          /\ Base(Slot(pos)) \in Nat
      BY <1>1, ByteAddress
    <3> QED BY <1>1, <3>1, <3>2
  <2>3. Slot(pos) + X = c + 1
    <3>1. q \in Nat
      BY <1>1, <1>2, DivMod
    <3> HIDE DEF X, c, q
    <3> QED BY <1>1, <1>3, <1>9, <2>2, <3>1
  <2>4. Base(Slot(pos) + X) = Base(Slot(pos)) + X * PageSize
    <3> HIDE DEF X
    <3> QED BY <1>3, <2>2, BaseAfter
  <2>5. pos + n = Base(c + 1)
    BY <2>2, <2>3, <2>4
  <2>6. pos + n >= size
    <3> DEFINE u == Base(c + 1)
               w == pos + n
    <3>1. w = u /\ size <= u /\ u \in Nat /\ w \in Nat
      BY <1>4, <2>1, <2>5
    <3> HIDE DEF u, w
    <3>2. w >= size
      BY <1>1, <3>1
    <3> QED BY <3>2 DEF w
  <2> HIDE DEF m
  <2>7. n \in 0 .. m
    BY <1>1, <1>4, <1>7
  <2> QED BY <1>5, <2>6, <2>7 DEF m
<1>10. X = e \/ X = c - q
  BY <1>3 DEF Lesser
<1> QED BY <1>8, <1>9, <1>10


(* From one function of write_core to the next.                            *)
LEMMA StepsOnward ==
  ASSUME GrowthWithinPage, WriterInv, phase \in WritePhases, phase' \in WritePhases, Next
  PROVE  Onward(phase, phase')
<1>1. /\ size \in Nat /\ pos \in Nat /\ IsSeq(buf) /\ Len(buf) \in Nat
      /\ PageSize \in Nat \ {0}
  BY WriterFacts, PageSizeAssumption
<1>2. phase \notin {"idle", "panicked"} \cup GrowPhases
  BY DEF WritePhases, GrowPhases
<1>3. ASSUME NEW s \in Nat, NEW p \in Nat, NEW b, IsSeq(b), Return(s, p, b)
      PROVE  phase' = Route(s, p, b) /\ phase' \in WritePhases
  BY <1>3 DEF Return
<1>4. CASE ZeroExtendStart
  <2> DEFINE end == Phase(size)
             n == Lesser(PageSize - Phase(pos), Len(buf))
  <2>1. phase = "zx_start" /\ \/ Return(pos + n, pos + n, Drop(buf, n))
                              \/ Return(size + PageSize - end, pos, buf)
    BY <1>4 DEF ZeroExtendStart
  <2>2. CASE Return(pos + n, pos + n, Drop(buf, n))
    <3>1. pos + n \in Nat /\ IsSeq(Drop(buf, n))
      BY <1>1, PageFilled
    <3> HIDE DEF n
    <3> QED BY <1>3, <2>1, <2>2, <3>1, GoesOn
  <2>3. CASE Return(size + PageSize - end, pos, buf)
    <3> DEFINE s == size + PageSize - end
    <3>1. end \in 0 .. (PageSize - 1) /\ Phase(size + (PageSize - end)) = 0
      BY <1>1, ByteAddress, PageBoundary
    <3>2. s \in Nat /\ s = size + (PageSize - end)
      <4> HIDE DEF end
      <4> QED BY <1>1, <3>1
    <3>3. Phase(s) = 0 /\ Return(s, pos, buf)
      BY <2>3, <3>1, <3>2
    <3> HIDE DEF s
    <3> QED BY <1>1, <1>3, <2>1, <3>2, <3>3, GoesOn
  <2> QED BY <2>1, <2>2, <2>3
<1>5. CASE ZeroExtendPages
  <2>1. PICK k \in DOMAIN file : Return(size + k * PageSize, pos, buf)
    BY <1>5 DEF ZeroExtendPages
  <2>2. phase = "zx_pages" /\ Phase(size) = 0 /\ k \in Nat
    BY <1>5, MaxPagesAssumption DEF ZeroExtendPages, WriterInv, AtPhase, Storage
  <2> DEFINE s == size + k * PageSize
  <2>3. s \in Nat
    BY <1>1, <2>2
  <2>4. Phase(s) = 0
    BY <1>1, <2>2, PageBoundary
  <2>5. Return(s, pos, buf)
    BY <2>1
  <2> HIDE DEF s
  <2> QED BY <1>1, <1>3, <2>2, <2>3, <2>4, <2>5, GoesOn
<1>6. CASE ZeroExtendEnd
  <2> DEFINE zeros == pos - size
             n == Lesser(Len(buf), PageSize - zeros)
             p == pos + n
  <2>1. /\ phase = "zx_end" /\ Return(size + zeros + n, p, Drop(buf, n))
        /\ size < pos /\ pos - size < PageSize
    BY <1>6 DEF ZeroExtendEnd, WriterInv, AtPhase
  <2>2. n \in 0 .. Len(buf) /\ size + zeros + n = p /\ p \in Nat
    BY <1>1, <2>1 DEF Lesser
  <2>3. IsSeq(Drop(buf, n)) /\ Return(p, p, Drop(buf, n))
    <3>1. n \in 0 .. Len(buf)
      BY <2>2
    <3> HIDE DEF n
    <3>2. IsSeq(Drop(buf, n))
      BY <1>1, <3>1, Dropped
    <3> QED BY <2>1, <2>2, <3>2
  <2> HIDE DEF p, n
  <2> QED BY <1>3, <2>1, <2>2, <2>3, GoesOn
<1>7. CASE OverwriteStart
  <2> DEFINE n == Lesser(PageSize - Phase(pos), Len(buf))
             p == pos + n
             s == Greater(size, p)
  <2>1. phase = "ow_start" /\ Return(s, p, Drop(buf, n))
    BY <1>7 DEF OverwriteStart
  <2>2. p \in Nat /\ IsSeq(Drop(buf, n)) /\ (Phase(p) = 0 \/ Drop(buf, n) = <<>>)
    BY <1>1, PageFilled
  <2> HIDE DEF p, n
  <2>3. s \in Nat /\ s >= p
    BY <1>1, <2>2 DEF Greater
  <2> HIDE DEF s
  <2> QED BY <1>3, <2>1, <2>2, <2>3, GoesOn
<1>8. CASE MakePageFresh
  <2>1. phase = "ow_fresh" /\ phase' \in {"ow_fresh", "ow_runs"}
    BY <1>8 DEF MakePageFresh
  <2> QED BY <2>1, Ranks DEF Onward, Loops
<1>9. CASE OverwriteRun
  <2> DEFINE k == Lesser(PagesToOverwrite, LongestRun(Slot(pos)))
             n == k * PageSize
  <2>1. phase = "ow_runs" /\ IF k < PagesToOverwrite THEN phase' = phase
                             ELSE Return(Greater(size, pos + n), pos + n, Drop(buf, n))
    BY <1>9 DEF OverwriteRun
  <2>2. CASE k < PagesToOverwrite
    BY <2>1, <2>2 DEF Onward, Loops
  <2>3. CASE ~(k < PagesToOverwrite)
    <3>1. k = PagesToOverwrite
      <4>1. /\ PagesToOverwrite \in Nat \ {0}
            /\ Slot(pos) \in Nat \ {0} /\ Slot(pos) + 0 \in DOMAIN pages
        <5>1. 0 \in Nat /\ 0 < PagesToOverwrite
          <6> DEFINE Y == Lesser(PageCount(size) - pos \div PageSize, Len(buf) \div PageSize)
          <6>1. pos < size /\ Len(buf) >= PageSize
            BY <2>1 DEF WriterInv, AtPhase
          <6>2. Y \in Nat \ {0}
            BY <1>1, <6>1, PagesLeft
          <6>3. PagesToOverwrite = Y
            BY DEF PagesToOverwrite
          <6> HIDE DEF Y
          <6> QED BY <6>2, <6>3
        <5>2. PagesToOverwrite \in Nat \ {0}
          BY <2>1, <5>1, OverwrittenPages
        <5> QED BY <2>1, <5>1, <5>2, OverwrittenPages
      <4>2. LongestRun(Slot(pos)) \in Nat \ {0}
        <5>1. Len(pages) \in Nat /\ DOMAIN pages = 1 .. Len(pages)
          BY WriterFacts
        <5>2. Slot(pos) <= Len(pages)
          BY <4>1, <5>1
        <5> QED BY <4>1, <5>1, <5>2, LongestRunAdjacent
      <4> QED BY <2>3, <4>1, <4>2 DEF Lesser
    <3> DEFINE p == pos + n
               s == Greater(size, p)
    <3>2. /\ n \in 0 .. Len(buf) /\ Phase(p) = 0
          /\ p >= size \/ Len(buf) - n < PageSize
      BY <2>1, <3>1, OverwrittenAll
    <3>3. Return(s, p, Drop(buf, n))
      BY <2>1, <2>3
    <3> HIDE DEF k, n
    <3>4. IsSeq(Drop(buf, n)) /\ Len(Drop(buf, n)) = Len(buf) - n
      BY <1>1, <3>2, Dropped
    <3>5. p \in Nat /\ s \in Nat /\ s >= p /\ (p >= size => s = p)
      BY <1>1, <3>2 DEF Greater
    <3>6. s = p \/ (s >= p /\ Phase(p) = 0 /\ Len(Drop(buf, n)) < PageSize)
      BY <3>2, <3>4, <3>5
    <3> HIDE DEF p, s
    <3> QED BY <1>3, <2>1, <3>3, <3>4, <3>5, <3>6, GoesOn
  <2> QED BY <2>2, <2>3
<1>10. CASE OverwriteTail \/ AppendFinalPage
  <2>1. phase' = "idle"
    BY <1>10 DEF OverwriteTail, AppendFinalPage, Return, Route
  <2> QED BY <2>1 DEF WritePhases
<1>11. CASE AppendStart
  <2> DEFINE n == Lesser(PageSize - Phase(pos), Len(buf))
             p == pos + n
  <2>1. phase = "ap_start" /\ pos = size /\ Return(Greater(size, p), p, Drop(buf, n))
    BY <1>11 DEF AppendStart, WriterInv, AtPhase
  <2>2. n \in 0 .. Len(buf) /\ p \in Nat /\ IsSeq(Drop(buf, n))
        /\ (Phase(p) = 0 \/ Drop(buf, n) = <<>>)
    BY <1>1, PageFilled
  <2> HIDE DEF n
  <2>3. Greater(size, p) = p
    BY <1>1, <2>1, <2>2 DEF Greater
  <2> HIDE DEF p
  <2> QED BY <1>3, <2>1, <2>2, <2>3, GoesOn
<1>12. CASE AppendCompletePages
  <2>1. PICK q \in DOMAIN file, k \in DOMAIN file :
          /\ AddPages(Len(buf) \div PageSize, q, k)
          /\ Return(size + k * PageSize, pos + k * PageSize, Drop(buf, k * PageSize))
    BY <1>12 DEF AppendCompletePages
  <2>2. phase = "ap_pages" /\ pos = size /\ Phase(pos) = 0 /\ k \in Nat /\ Len(buf) >= PageSize
    BY <1>12, MaxPagesAssumption DEF AppendCompletePages, WriterInv, AtPhase, Storage
  <2> DEFINE p == pos + k * PageSize
             b == Drop(buf, k * PageSize)
  <2>3. p \in Nat /\ Phase(p) = 0 /\ Return(p, p, b)
    <3>1. p \in Nat
      BY <1>1, <2>2
    <3>2. Phase(p) = 0
      BY <1>1, <2>2, PageBoundary
    <3>3. Return(p, p, b)
      BY <2>1, <2>2
    <3> QED BY <3>1, <3>2, <3>3
  <2>4. IsSeq(b)
    <3> DEFINE m == Len(buf)
               e == m \div PageSize
    <3>1. e \in Nat \ {0} /\ \A j \in 1 .. e : j * PageSize <= m
      <4>1. m \in Nat /\ m >= PageSize
        BY <1>1, <2>2
      <4> HIDE DEF m
      <4> QED BY <1>1, <4>1, WholePagesOf
    <3>2. k \in 1 .. e
      <4> HIDE DEF e
      <4> QED BY <2>1, <2>2, <3>1, AddedCount DEF WriterInv, e
    <3>3. k * PageSize \in 0 .. Len(buf)
      <4>1. k * PageSize <= Len(buf)
        BY <3>1, <3>2
      <4>2. k * PageSize \in Nat
        BY <1>1, <2>2
      <4> QED BY <1>1, <4>1, <4>2
    <3> QED BY <1>1, <3>3, Dropped
  <2> HIDE DEF p, b
  <2> QED BY <1>3, <2>2, <2>3, <2>4, GoesOn
<1>13. ~(ExtendPartialPage \/ ExtendPages \/ ExtendPanics)
  BY <1>2 DEF ExtendPartialPage, ExtendPages, ExtendPanics, GrowPhases
<1>14. /\ \A o, n : ~Write(o, n)
       /\ \A n : ~Truncate(n) /\ ~SetContents(n) /\ ~Extend(n)
  BY <1>2 DEF Write, Truncate, SetContents, Extend, Calling
<1> QED BY <1>4, <1>5, <1>6, <1>7, <1>8, <1>9, <1>10, <1>11, <1>12, <1>13, <1>14 DEF Next

(***************************************************************************)
(* write_core never goes back to an earlier one of its functions: what the *)
(* assertions between its calls say.                                       *)
(***************************************************************************)
THEOREM NeverBack ==
  ASSUME GrowthWithinPage
  PROVE  Spec => StraightLine
<1>1. WriterInv /\ [Next]_vars =>
        [{phase, phase'} \subseteq ToSet(Phases) =>
           \/ Rank(phase) < Rank(phase')
           \/ phase' = phase /\ phase \in Loops]_vars
  BY StepsOnward, PhasesOfWrite DEF Onward
<1> QED BY <1>1, WriterInvariant, PTL DEF Spec, StraightLine


-----------------------------------------------------------------------------
(***************************************************************************)
(* Reading back.                                                           *)
(***************************************************************************)
(* The byte of the file that a read takes for the i-th of a run from q on. *)
ByteRead(q, i) ==
  LET at == pages[Slot(q)] * PageSize + Phase(q)
  IN  file[(at + i - 1) \div PageSize][Phase(at + i - 1) + 1]

(* k pages into a run that starts in a slot, at the byte r: in the stream  *)
(* and in the file.                                                        *)
LEMMA WithinRun ==
  ASSUME NEW t \in Nat \ {0}, NEW v \in 0 .. (PageSize - 1), NEW j \in Nat,
         NEW M \in Nat, v + j < M * PageSize
  PROVE  \E k \in 0 .. (M - 1), r \in 0 .. (PageSize - 1) :
           \A z \in Nat \ {0} : /\ Slot(Base(z) + v + j) = z + k
                                /\ Phase(Base(z) + v + j) = r
<1> DEFINE u == v + j
           k == Slot(u) - 1
           r == Phase(u)
<1>1. u \in Nat /\ PageSize \in Nat \ {0} /\ v \in Nat
  BY PageSizeAssumption
<1>2. /\ Slot(u) \in Nat \ {0} /\ r \in 0 .. (PageSize - 1)
      /\ u = Base(Slot(u)) + r /\ Base(Slot(u)) \in Nat
  <2> HIDE DEF u
  <2> QED BY <1>1, ByteAddress
<1>3. Base(Slot(u)) = k * PageSize
  <2> HIDE DEF u
  <2>1. Base(Slot(u)) = PageSize * (Slot(u) - 1)
    BY DEF Base
  <2> QED BY <1>1, <1>2, <2>1
<1>4. k \in 0 .. (M - 1)
  <2> DEFINE e == M + 1
  <2>1. Base(e) = PageSize * M /\ e \in Nat \ {0} /\ PageSize * M = M * PageSize
    BY <1>1 DEF Base
  <2> HIDE DEF e
  <2>2. Slot(u) < e <=> u < Base(e)
    <3> HIDE DEF u
    <3> QED BY <1>1, <2>1, BeforeSlot
  <2>3. Slot(u) < e
    BY <2>1, <2>2
  <2> HIDE DEF u
  <2> QED BY <1>2, <2>3 DEF e
<1>5. ASSUME NEW z \in Nat \ {0}
      PROVE  Slot(Base(z) + v + j) = z + k /\ Phase(Base(z) + v + j) = r
  <2>1. k \in Nat
    BY <1>4
  <2> DEFINE y == Base(z) + v + j
             e == z + k
  <2>2. Base(e) = Base(z) + k * PageSize /\ Base(z) \in Nat /\ k * PageSize \in Nat
    <3> HIDE DEF k
    <3> QED BY <2>1, BaseAfter
  <2>3. e \in Nat \ {0}
    <3> HIDE DEF k
    <3> QED BY <2>1
  <2>4. y = Base(z) + u
    BY <1>1, <2>2
  <2>5. y = Base(e) + r /\ y \in Nat
    <3> DEFINE g == k * PageSize
    <3>1. Base(e) = Base(z) + g /\ u = g + r /\ g \in Nat
      BY <1>2, <1>3, <2>2
    <3> HIDE DEF e, g, y, u, r
    <3> QED BY <1>1, <1>2, <2>2, <2>4, <3>1
  <2> HIDE DEF y, e, r
  <2>6. Slot(y) = e /\ Phase(y) = r
    BY <1>2, <2>3, <2>5, SlotUnique
  <2> QED BY <2>6 DEF y, e
<1> HIDE DEF k, r
<1> QED BY <1>2, <1>4, <1>5

(* The bytes of a run are together in the file, and are the stream's.      *)
LEMMA MappedBytes ==
  ASSUME WriterInv, NEW q \in Nat, q < size, NEW w \in Nat \ {0}
  PROVE  /\ MapLength(q, w) \in 1 .. w /\ q + MapLength(q, w) <= size
         /\ \A i \in 1 .. MapLength(q, w) : ByteRead(q, i) = Byte(q + i)
<1> DEFINE len == MapLength(q, w)
           t == Slot(q)
           v == Phase(q)
           M == LongestRun(t)
           P == pages[t]
<1>1. /\ size \in Nat /\ PageSize \in Nat \ {0} /\ DOMAIN pages = 1 .. Len(pages)
      /\ Len(pages) = PageCount(size) /\ PageCount(size) \in Nat
      /\ pages \in Seq(DOMAIN file) /\ DOMAIN file \subseteq Nat
  BY WriterFacts, PageSizeAssumption, MaxPagesAssumption DEF Storage
<1>2. /\ t \in Nat \ {0} /\ v \in 0 .. (PageSize - 1) /\ Base(t) \in Nat /\ q = Base(t) + v
      /\ t \in 1 .. Len(pages)
  <2>1. t \in 1 .. PageCount(size)
    BY <1>1, LastPage
  <2> QED BY <1>1, <2>1, ByteAddress
<1>3. M \in Nat \ {0} /\ t + M - 1 <= Len(pages) /\ Adjacent(t, M)
  <2>1. Len(pages) \in Nat /\ t <= Len(pages)
    BY <1>1, <1>2
  <2> HIDE DEF t
  <2> QED BY <1>2, <2>1, LongestRunAdjacent
<1>4. P \in Nat
  BY <1>1, <1>2
<1>5. M * PageSize \in Nat /\ M * PageSize >= PageSize
  <2> HIDE DEF M
  <2> QED BY <1>3, WholePages
<1>6. len = Lesser(Lesser(size - q, w), M * PageSize - v)
  BY DEF MapLength
<1> DEFINE X == M * PageSize
<1>7. X \in Nat /\ X >= PageSize
  BY <1>5
<1>8. len \in 1 .. w /\ q + len <= size /\ len <= X - v
  <2>1. len = Lesser(Lesser(size - q, w), X - v)
    BY <1>6
  <2> HIDE DEF len, X, v
  <2> QED BY <1>1, <1>2, <1>7, <2>1 DEF Lesser
<1>9. ASSUME NEW i \in 1 .. len PROVE ByteRead(q, i) = Byte(q + i)
  <2> DEFINE j == i - 1
             at == P * PageSize + v
             y == at + i - 1
             x == q + i - 1
  <2>1. j \in Nat /\ v + j < M * PageSize
    <3> HIDE DEF len, v
    <3>1. v + j < X /\ j \in Nat
      <4> HIDE DEF X
      <4> QED BY <1>1, <1>2, <1>7, <1>8
    <3> QED BY <3>1
  <2>2. PICK k \in 0 .. (M - 1), r \in 0 .. (PageSize - 1) :
          \A z \in Nat \ {0} : /\ Slot(Base(z) + v + j) = z + k
                               /\ Phase(Base(z) + v + j) = r
    <3> HIDE DEF t, v, j, M
    <3> QED BY <1>2, <1>3, <2>1, WithinRun
  <2>3. x = Base(t) + v + j
    <3> HIDE DEF t, v, len
    <3> QED BY <1>2, <1>8
  <2>4. y = Base(P + 1) + v + j /\ y \in Nat
    <3>1. Base(P + 1) = P * PageSize /\ P * PageSize \in Nat
      <4> HIDE DEF P
      <4>1. PageSize * ((P + 1) - 1) = P * PageSize
        BY <1>1, <1>4
      <4> QED BY <1>1, <1>4, <4>1 DEF Base
    <3> DEFINE g == P * PageSize
    <3>2. y = g + v + i - 1 /\ g \in Nat /\ Base(P + 1) = g
      BY <3>1
    <3> HIDE DEF g, y, v, P, len
    <3> QED BY <1>2, <1>8, <3>2
  <2>5. Slot(x) = t + k /\ Phase(x) = r
    BY <1>2, <2>2, <2>3
  <2>6. Slot(y) = P + 1 + k /\ Phase(y) = r
    <3> HIDE DEF P, y, j, v
    <3> QED BY <1>4, <2>2, <2>4
  <2>7. y \div PageSize = P + k
    <3>1. y \div PageSize \in Nat
      <4> HIDE DEF y
      <4> QED BY <1>1, <2>4, DivMod
    <3>2. Slot(y) = y \div PageSize + 1
      BY DEF Slot
    <3> DEFINE d == y \div PageSize
    <3>3. d + 1 = P + 1 + k /\ d \in Nat /\ k \in Nat
      BY <1>3, <2>6, <3>1, <3>2
    <3> HIDE DEF d, P
    <3>4. d = P + k
      BY <1>4, <3>3
    <3> QED BY <3>4 DEF d
  <2>8. pages[t + k] = P + k
    <3>1. CASE k = 0
      BY <1>2, <1>4, <3>1
    <3>2. CASE k # 0
      <4>1. k \in 1 .. (M - 1)
        <5> HIDE DEF M
        <5> QED BY <1>3, <3>2
      <4> QED BY <1>3, <4>1 DEF Adjacent
    <3> QED BY <3>1, <3>2
  <2>9. ByteRead(q, i) = file[y \div PageSize][Phase(y) + 1]
    BY DEF ByteRead
  <2>10. Byte(q + i) = file[pages[Slot(x)]][Phase(x) + 1]
    <3>1. (q + i) - 1 = x
      BY <1>8
    <3> QED BY <3>1 DEF Byte
  <2> HIDE DEF x, y
  <2> QED BY <2>5, <2>6, <2>7, <2>8, <2>9, <2>10
<1> QED BY <1>8, <1>9


(* l elements of C, after the first q.                                     *)
Piece(C, q, l) == [i \in 1 .. l |-> C[q + i]]

(* The elements of C after the first q, up to the e-th.                    *)
Rest(C, q, e) == SubSeq(C, q + 1, e)

(* A sequence cut in two.                                                  *)
LEMMA CutInTwo ==
  ASSUME NEW C, IsSeq(C), NEW q \in Nat, NEW l \in Nat, NEW e \in 0 .. Len(C), q + l <= e
  PROVE  Rest(C, q, e) = Piece(C, q, l) \o Rest(C, q + l, e)
<1> DEFINE A == Piece(C, q, l)
           B == Rest(C, q + l, e)
           D == Rest(C, q, e)
           m == Len(C)
<1>1. m \in Nat /\ C = [i \in 1 .. m |-> C[i]]
  BY DEF IsSeq
<1> HIDE DEF m
<1>2. PICK S : C \in Seq(S)
  BY <1>1, FunctionLen
<1>3. /\ e \in Nat /\ e <= Len(C) /\ Len(C) \in Nat
      /\ \A i \in 1 .. Len(C) : C[i] \in S
  BY <1>2
<1>4. A \in Seq(S) /\ Len(A) = l
  <2>1. A \in [1 .. l -> S]
    BY <1>3 DEF Piece
  <2> HIDE DEF A
  <2>2. A \in Seq(S)
    BY <2>1, SeqDef
  <2>3. DOMAIN A = 1 .. l
    BY <2>1
  <2>4. Len(A) \in Nat /\ DOMAIN A = 1 .. Len(A)
    BY <2>2, LenProperties
  <2>5. Len(A) = l
    BY <2>3, <2>4
  <2> QED BY <2>2, <2>5
<1>5. B \in Seq(S) /\ Len(B) = e - (q + l) /\ \A i \in 1 .. (e - (q + l)) : B[i] = C[q + l + i]
  BY <1>2, <1>3 DEF Rest
<1>6. D \in Seq(S) /\ Len(D) = e - q /\ \A i \in 1 .. (e - q) : D[i] = C[q + i]
  BY <1>2, <1>3 DEF Rest
<1>7. \A i \in 1 .. l : A[i] = C[q + i]
  BY DEF Piece
<1> HIDE DEF A, B, D
<1>8. /\ A \o B \in Seq(S) /\ Len(A \o B) = e - q
      /\ \A i \in 1 .. (e - q) : (A \o B)[i] = IF i <= l THEN A[i] ELSE B[i - l]
  <2>1. /\ A \o B \in Seq(S) /\ Len(A \o B) = Len(A) + Len(B)
        /\ \A i \in 1 .. (Len(A) + Len(B)) :
             (A \o B)[i] = IF i <= Len(A) THEN A[i] ELSE B[i - Len(A)]
    <3>1. A \in Seq(S) /\ B \in Seq(S)
      BY <1>4, <1>5
    <3>2. A \o B \in Seq(S) /\ Len(A \o B) = Len(A) + Len(B)
      BY <3>1
    <3>3. \A i \in 1 .. (Len(A) + Len(B)) :
             (A \o B)[i] = IF i <= Len(A) THEN A[i] ELSE B[i - Len(A)]
      BY ONLY <3>1, ConcatProperties
    <3> QED BY <3>2, <3>3
  <2>2. Len(A) = l /\ Len(A) + Len(B) = e - q
    BY <1>3, <1>4, <1>5
  <2> QED BY <2>1, <2>2
<1>9. \A i \in 1 .. (e - q) : (A \o B)[i] = D[i]
  <2> TAKE i \in 1 .. (e - q)
  <2>1. CASE i <= l
    BY <1>6, <1>7, <1>8, <2>1
  <2>2. CASE ~(i <= l)
    <3>1. i - l \in 1 .. (e - (q + l)) /\ q + l + (i - l) = q + i
      BY <1>3, <2>2
    <3>2. B[i - l] = C[q + i]
      BY <1>5, <3>1
    <3> QED BY <1>6, <1>8, <2>2, <3>2
  <2> QED BY <2>1, <2>2
<1>10. A \o B = D
  <2>1. Len(A \o B) = Len(D)
    BY <1>6, <1>8
  <2> QED BY <1>6, <1>8, <1>9, <2>1, SeqEqual
<1> QED BY <1>10 DEF A, B, D

(* Behind the end there is nothing.                                        *)
LEMMA NothingBehind ==
  ASSUME NEW C, IsSeq(C), NEW q \in Nat, NEW e \in 0 .. Len(C), q >= e
  PROVE  Rest(C, q, e) = <<>>
<1> DEFINE m == Len(C)
<1>1. m \in Nat /\ C = [i \in 1 .. m |-> C[i]]
  BY DEF IsSeq
<1> HIDE DEF m
<1>2. PICK S : C \in Seq(S)
  BY <1>1, FunctionLen
<1> QED BY <1>1, <1>2 DEF m, Rest

(* A read from o of n bytes takes one run of adjacent pages after another. *)
Reading(r, o, n) ==
  [q \in 0 .. MaxLen |->
     IF q >= Lesser(size, o + n) THEN <<>>
     ELSE [i \in 1 .. MapLength(q, o + n - q) |-> ByteRead(q, i)]
          \o r[q + MapLength(q, o + n - q)]]

(* What it is to return, wherever it got.                                  *)
BytesFrom(e) == [q \in 0 .. MaxLen |-> Rest(Contents, q, e)]

(* The stream's bytes are read, and nothing else can be.                   *)
LEMMA ReadingFinds ==
  ASSUME WriterInv, NEW o \in Nat, NEW n \in Nat, NEW e, e = Lesser(size, o + n)
  PROVE  /\ BytesFrom(e) = Reading(BytesFrom(e), o, n)
         /\ \A r : r = Reading(r, o, n) => r = BytesFrom(e)
<1> DEFINE C == Contents
           len(q) == MapLength(q, o + n - q)
<1>1. /\ IsSeq(C) /\ Len(C) = size /\ \A i \in 1 .. size : C[i] = Byte(i)
      /\ size \in Nat /\ size <= MaxLen /\ MaxLen \in Nat
  BY BeforeTyped, WriterAssumption DEF WriterInv, WriterTyped
<1>2. e \in 0 .. Len(C) /\ e <= size /\ e <= o + n /\ e \in Nat /\ e <= MaxLen
  BY <1>1 DEF Lesser
<1>3. ASSUME NEW q \in 0 .. MaxLen, q < e
      PROVE  /\ len(q) \in Nat \ {0} /\ q + len(q) <= e
             /\ Rest(C, q, e) =
                  [i \in 1 .. len(q) |-> ByteRead(q, i)] \o Rest(C, q + len(q), e)
  <2> DEFINE w == o + n - q
             l == len(q)
  <2>1. q \in Nat /\ q < size /\ w \in Nat \ {0} /\ l = MapLength(q, w)
    BY <1>1, <1>2, <1>3
  <2> HIDE DEF w, l
  <2>2. /\ l \in 1 .. w /\ q + l <= size
        /\ \A i \in 1 .. l : ByteRead(q, i) = Byte(q + i)
    BY <2>1, MappedBytes
  <2>3. q + w = o + n
    BY <1>1, <1>3 DEF w
  <2>4. l \in Nat \ {0} /\ q + l <= e
    BY <1>1, <1>2, <2>1, <2>2, <2>3 DEF Lesser
  <2> HIDE DEF C
  <2>5. \A i \in 1 .. l : ByteRead(q, i) = C[q + i]
    BY <1>1, <1>2, <2>1, <2>2, <2>4
  <2>6. [i \in 1 .. l |-> ByteRead(q, i)] = Piece(C, q, l)
    BY <2>5 DEF Piece
  <2>7. Rest(C, q, e) = Piece(C, q, l) \o Rest(C, q + l, e)
    <3>1. IsSeq(C) /\ q \in Nat /\ l \in Nat /\ e \in 0 .. Len(C) /\ q + l <= e
      BY <1>1, <1>2, <2>1, <2>4
    <3> QED BY ONLY <3>1, CutInTwo
  <2> QED BY <2>4, <2>6, <2>7 DEF l
<1>4. \A q \in 0 .. MaxLen : q >= e => Rest(C, q, e) = <<>>
  <2> HIDE DEF C
  <2> QED BY <1>1, <1>2, NothingBehind
<1> DEFINE f == BytesFrom(e)
           Run(q) == [i \in 1 .. len(q) |-> ByteRead(q, i)]
<1>5. \A q \in 0 .. MaxLen : f[q] = Rest(C, q, e)
  BY DEF BytesFrom
<1>6. \A r : r = Reading(r, o, n) =>
        /\ r = [q \in 0 .. MaxLen |-> r[q]]
        /\ \A q \in 0 .. MaxLen : r[q] = IF q >= e THEN <<>> ELSE Run(q) \o r[q + len(q)]
  BY DEF Reading
<1>7. \A q \in 0 .. MaxLen : f[q] = IF q >= e THEN <<>> ELSE Run(q) \o f[q + len(q)]
  <2> TAKE q \in 0 .. MaxLen
  <2> DEFINE l == len(q)
  <2>1. CASE q >= e
    BY <1>4, <1>5, <2>1
  <2>2. CASE ~(q >= e)
    <3>1. q < e
      BY <1>2, <2>2
    <3>2. /\ l \in Nat \ {0} /\ q + l <= e
          /\ Rest(C, q, e) = Run(q) \o Rest(C, q + l, e)
      BY <1>3, <3>1
    <3>3. q + l \in 0 .. MaxLen
      <4> HIDE DEF l
      <4> QED BY <1>1, <1>2, <3>2
    <3>4. f[q + l] = Rest(C, q + l, e)
      BY <1>5, <3>3
    <3> HIDE DEF f, C, Run
    <3> QED BY <1>5, <2>2, <3>2, <3>4
  <2> QED BY <2>1, <2>2
<1>8. f = Reading(f, o, n)
  <2>1. f = [q \in 0 .. MaxLen |-> f[q]]
    BY DEF BytesFrom
  <2> HIDE DEF f
  <2>2. f = [q \in 0 .. MaxLen |-> IF q >= e THEN <<>> ELSE Run(q) \o f[q + len(q)]]
    BY <1>7, <2>1
  <2> QED BY <2>2 DEF Reading
<1>9. ASSUME NEW r, r = Reading(r, o, n) PROVE r = f
  <2> DEFINE Bad == {q \in 0 .. MaxLen : r[q] # f[q]}
  <2>1. Bad = {}
    <3> SUFFICES ASSUME Bad # {} PROVE FALSE
      OBVIOUS
    <3> DEFINE m == Max(Bad)
    <3>1. m \in Bad /\ \A y \in Bad : m >= y
      <4>1. Bad \subseteq 0 .. MaxLen
        OBVIOUS
      <4> HIDE DEF Bad
      <4> QED BY <1>1, <4>1, LargestExists
    <3> HIDE DEF m
    <3>2. m \in 0 .. MaxLen /\ r[m] # f[m]
      BY <3>1
    <3>3. /\ r[m] = IF m >= e THEN <<>> ELSE Run(m) \o r[m + len(m)]
          /\ f[m] = IF m >= e THEN <<>> ELSE Run(m) \o f[m + len(m)]
      <4> HIDE DEF f, Run, len
      <4> QED BY <1>6, <1>7, <1>9, <3>2
    <3>4. m < e
      BY <1>2, <3>2, <3>3
    <3> DEFINE l == len(m)
    <3>5. l \in Nat \ {0} /\ m + l <= e
      BY <1>3, <3>2, <3>4
    <3>6. r[m + l] = f[m + l]
      <4>1. m + l \in 0 .. MaxLen /\ ~(m >= m + l)
        <5> HIDE DEF l
        <5> QED BY <1>1, <1>2, <3>2, <3>5
      <4> HIDE DEF l, f
      <4> QED BY <3>1, <4>1
    <3> HIDE DEF f, Run
    <3> QED BY <3>2, <3>3, <3>6
  <2>2. \A q \in 0 .. MaxLen : r[q] = f[q]
    BY <2>1
  <2>3. r = [q \in 0 .. MaxLen |-> r[q]]
    BY <1>6, <1>9
  <2>4. f = [q \in 0 .. MaxLen |-> f[q]]
    BY DEF BytesFrom
  <2> HIDE DEF f
  <2> QED BY <2>2, <2>3, <2>4
<1> QED BY <1>8, <1>9

(***************************************************************************)
(* A read between two calls, wherever it starts and however long it is,    *)
(* returns the stream's bytes, though it goes over the file run by run.    *)
(***************************************************************************)
THEOREM ReadsAreContents ==
  ASSUME GrowthWithinPage
  PROVE  Spec => []ReadsSeeContents
<1>1. ASSUME WriterInv, NEW o \in 0 .. MaxLen, NEW n \in 1 .. (MaxLen - o)
      PROVE  ReadStream(o, n) = SubSeq(Contents, o + 1, Lesser(o + n, size))
  <2> DEFINE e == Lesser(size, o + n)
             read == CHOOSE r : r = Reading(r, o, n)
  <2>1. o \in Nat /\ n \in Nat /\ size \in Nat
    BY <1>1, WriterAssumption DEF WriterInv, WriterTyped
  <2>2. /\ BytesFrom(e) = Reading(BytesFrom(e), o, n)
        /\ \A r : r = Reading(r, o, n) => r = BytesFrom(e)
    <3> HIDE DEF e
    <3>1. e = Lesser(size, o + n)
      BY DEF e
    <3> QED BY <1>1, <2>1, <3>1, ReadingFinds
  <2>3. read = BytesFrom(e)
    <3> HIDE DEF e
    <3>1. read = Reading(read, o, n)
      BY <2>2
    <3> QED BY <2>2, <3>1
  <2>4. ReadStream(o, n) = read[o]
    BY DEF ReadStream, Reading, ByteRead
  <2>5. BytesFrom(e)[o] = SubSeq(Contents, o + 1, e)
    BY DEF BytesFrom, Rest
  <2>6. e = Lesser(o + n, size)
    BY <2>1 DEF Lesser
  <2> HIDE DEF read, e
  <2> QED BY <2>3, <2>4, <2>5, <2>6
<1>2. WriterInv => ReadsSeeContents
  BY <1>1 DEF ReadsSeeContents
<1> QED BY <1>2, WriterInvariant, PTL
=============================================================================

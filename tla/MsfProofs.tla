------------------------------ MODULE MsfProofs ------------------------------
(***************************************************************************)
(* Proofs about Msf, for every page size, number of pages and of streams.  *)
(* The argument is the one of MsfInvariant: what alloc_pages returns is    *)
(* never a page that the header on disk reaches, until the commit has      *)
(* allocated all it needs; what it writes after that is the other FPM.     *)
(*                                                                         *)
(* First come lemmas about tables of pages, about what the header on disk  *)
(* reaches, and about a step that allocates pages.                         *)
(*                                                                         *)
(* The second half is about recovery: a committed file can always be       *)
(* opened again, and the editor goes on after a commit as one that has     *)
(* just opened the file: no page is lost, the Free Page Map that is        *)
(* written is the one that open computes, and the directory reads back.    *)
(* The failed write of an appended run (AppendErrors) is excluded where    *)
(* the model shows that it breaks this.  And the container implements      *)
(* AtomicStore.                                                            *)
(***************************************************************************)
EXTENDS MsfInvariant, PageAllocatorProofs, FiniteSetTheorems, SequenceTheorems

-----------------------------------------------------------------------------
(***************************************************************************)
(* Page tables: functions from streams to lists of pages.                  *)
(***************************************************************************)
IsPageTable(T, S) == \A s \in DOMAIN T : T[s] \in Seq(S)

(* No page stands at two places of the table.                              *)
Separate(T) ==
  \A s, t \in DOMAIN T : \A i \in 1 .. Len(T[s]), j \in 1 .. Len(T[t]) :
    T[s][i] = T[t][j] => s = t /\ i = j

(* Streams that are new or emptied.                                        *)
LEMMA TableShrink ==
  ASSUME NEW S, NEW T, NEW U, IsPageTable(T, S), Separate(T),
         \A s \in DOMAIN U : U[s] = <<>> \/ (s \in DOMAIN T /\ U[s] = T[s])
  PROVE  IsPageTable(U, S) /\ Separate(U)
<1>1. Len(<<>>) = 0 /\ <<>> \in Seq(S)
  BY EmptySeq
<1>2. IsPageTable(U, S)
  BY <1>1 DEF IsPageTable
<1>3. \A s \in DOMAIN U : \A i \in 1 .. Len(U[s]) : s \in DOMAIN T /\ U[s] = T[s]
  BY <1>1
<1>4. Separate(U)
  BY <1>3 DEF Separate
<1> QED BY <1>2, <1>4

(* One place of the table takes a page that was at none.                   *)
LEMMA TableReplace ==
  ASSUME NEW S, NEW T, NEW U, NEW s \in DOMAIN T, NEW i \in 1 .. Len(T[s]), NEW p,
         IsPageTable(T, S), Separate(T), p \notin S,
         DOMAIN U = DOMAIN T, U[s] = [T[s] EXCEPT ![i] = p],
         \A t \in DOMAIN T : t # s => U[t] = T[t]
  PROVE  IsPageTable(U, (S \ {T[s][i]}) \cup {p}) /\ Separate(U)
<1> DEFINE R == (S \ {T[s][i]}) \cup {p}
<1>1. T[s] \in Seq(S)
  BY DEF IsPageTable
<1>2. \A t \in DOMAIN T : Len(T[t]) \in Nat /\ T[t] \in [1 .. Len(T[t]) -> S]
  BY LenProperties DEF IsPageTable
<1>3. /\ Len(U[s]) = Len(T[s])
      /\ U[s] \in Seq(S \cup {p})
      /\ \A j \in 1 .. Len(T[s]) : U[s][j] = IF j = i THEN p ELSE T[s][j]
  <2>1. T[s] \in Seq(S \cup {p})
    BY <1>1, SeqMonotonic
  <2> QED BY <2>1, ExceptSeq
<1>4. \A t \in DOMAIN T : Len(U[t]) = Len(T[t])
  BY <1>3
<1>5. \A t \in DOMAIN T : \A j \in 1 .. Len(T[t]) :
        U[t][j] = IF t = s /\ j = i THEN p ELSE T[t][j]
  BY <1>3
<1>6. \A t \in DOMAIN T : \A j \in 1 .. Len(T[t]) : T[t][j] \in S
  BY <1>2
<1>7. \A t \in DOMAIN T : \A j \in 1 .. Len(T[t]) :
        T[t][j] = T[s][i] => t = s /\ j = i
  BY DEF Separate
<1>8. \A t \in DOMAIN U : \A j \in 1 .. Len(U[t]) : U[t][j] \in R
  BY <1>4, <1>5, <1>6, <1>7
<1>9. \A t \in DOMAIN U : U[t] \in [1 .. Len(U[t]) -> R] /\ Len(U[t]) \in Nat
  <2> TAKE t \in DOMAIN U
  <2>1. DOMAIN U[t] = 1 .. Len(U[t]) /\ U[t] = [j \in DOMAIN U[t] |-> U[t][j]]
    <3>1. U[t] \in Seq(S \cup {p})
      BY <1>3, SeqMonotonic DEF IsPageTable
    <3> QED BY <3>1, LenProperties
  <2> QED BY <1>2, <1>4, <1>8, <2>1
<1>10. IsPageTable(U, R)
  BY <1>9, SeqDef DEF IsPageTable
<1>11. Separate(U)
  BY <1>4, <1>5, <1>6 DEF Separate
<1> QED BY <1>10, <1>11

(* A stream takes a run of pages that are not in the table.                *)
LEMMA TableAppend ==
  ASSUME NEW S, NEW T, NEW U, NEW s \in DOMAIN T, NEW p \in Nat, NEW k \in Nat,
         IsPageTable(T, S), Separate(T), Pages(p, k) \cap S = {},
         DOMAIN U = DOMAIN T, U[s] = T[s] \o [i \in 1 .. k |-> p + i - 1],
         \A t \in DOMAIN T : t # s => U[t] = T[t]
  PROVE  IsPageTable(U, S \cup Pages(p, k)) /\ Separate(U)
<1> DEFINE R == S \cup Pages(p, k)
           Q == [i \in 1 .. k |-> p + i - 1]
<1>1. \A t \in DOMAIN T :
        /\ T[t] \in Seq(R) /\ Len(T[t]) \in Nat
        /\ \A j \in 1 .. Len(T[t]) : T[t][j] \in S
  <2> TAKE t \in DOMAIN T
  <2>1. T[t] \in Seq(S)
    BY DEF IsPageTable
  <2> QED BY <2>1, SeqMonotonic, LenProperties, ElementOfSeq
<1>2. Q \in Seq(R) /\ Len(Q) = k /\ \A j \in 1 .. k : Q[j] = p + j - 1 /\ Q[j] \in Pages(p, k)
  <2>1. \A j \in 1 .. k : p + j - 1 \in Pages(p, k)
    BY DEF Pages
  <2>2. Q \in [1 .. k -> R]
    BY <2>1
  <2>3. Q \in Seq(R)
    <3> HIDE DEF Q
    <3> QED BY <2>2, SeqDef
  <2>4. Len(Q) = k
    BY <2>2, <2>3, LenProperties
  <2> QED BY <2>1, <2>3, <2>4
<1>3. /\ U[s] \in Seq(R) /\ Len(U[s]) = Len(T[s]) + k
      /\ \A j \in 1 .. (Len(T[s]) + k) :
           U[s][j] = IF j <= Len(T[s]) THEN T[s][j] ELSE Q[j - Len(T[s])]
  <2> HIDE DEF R, Q
  <2>1. U[s] = T[s] \o Q
    BY DEF Q
  <2>2. T[s] \in Seq(R) /\ Q \in Seq(R) /\ Len(Q) = k
    BY <1>1, <1>2
  <2>3. /\ T[s] \o Q \in Seq(R)
        /\ Len(T[s] \o Q) = Len(T[s]) + Len(Q)
        /\ \A j \in 1 .. (Len(T[s]) + Len(Q)) :
             (T[s] \o Q)[j] = IF j <= Len(T[s]) THEN T[s][j] ELSE Q[j - Len(T[s])]
    BY ONLY <2>2, ConcatProperties
  <2> QED BY <2>1, <2>2, <2>3
<1>4. IsPageTable(U, R)
  BY <1>1, <1>3 DEF IsPageTable
<1>5. \A t \in DOMAIN T : \A j \in 1 .. Len(U[t]) :
        IF t = s /\ j > Len(T[s])
          THEN U[t][j] = p + (j - Len(T[s])) - 1 /\ U[t][j] \in Pages(p, k)
          ELSE j \in 1 .. Len(T[t]) /\ U[t][j] = T[t][j] /\ U[t][j] \in S
  <2> TAKE t \in DOMAIN T
  <2> TAKE j \in 1 .. Len(U[t])
  <2>1. CASE t # s
    BY <1>1, <2>1
  <2>2. CASE t = s /\ j <= Len(T[s])
    BY <1>1, <1>3, <2>2
  <2>3. CASE t = s /\ j > Len(T[s])
    <3>1. j - Len(T[s]) \in 1 .. k /\ U[s][j] = Q[j - Len(T[s])]
      BY <1>1, <1>3, <2>3
    <3>2. Q[j - Len(T[s])] = p + (j - Len(T[s])) - 1 /\ Q[j - Len(T[s])] \in Pages(p, k)
      BY <1>2, <3>1
    <3> HIDE DEF Q
    <3> QED BY <2>3, <3>1, <3>2
  <2>4. Len(T[s]) \in Nat /\ Len(U[t]) \in Nat
    BY <1>1, <1>3
  <2> QED BY <2>1, <2>2, <2>3, <2>4
<1>6. Separate(U)
  <2> SUFFICES ASSUME NEW t \in DOMAIN T, NEW u \in DOMAIN T,
                      NEW i \in 1 .. Len(U[t]), NEW j \in 1 .. Len(U[u]),
                      U[t][i] = U[u][j]
               PROVE  t = u /\ i = j
    BY DEF Separate
  <2>1. Len(T[s]) \in Nat /\ Len(U[t]) \in Nat /\ Len(U[u]) \in Nat
    BY <1>1, <1>3
  <2>2. CASE t = s /\ i > Len(T[s])
    <3>1. u = s /\ j > Len(T[s])
      BY <1>5, <2>2
    <3> QED BY <1>5, <2>1, <2>2, <3>1
  <2>3. CASE ~(t = s /\ i > Len(T[s]))
    <3>1. ~(u = s /\ j > Len(T[s]))
      BY <1>5, <2>3
    <3> QED BY <1>5, <2>3, <3>1 DEF Separate
  <2> QED BY <2>2, <2>3
<1> QED BY <1>4, <1>6

(* A stream gives up the pages behind its n-th.                            *)
LEMMA TableTruncate ==
  ASSUME NEW S, NEW T, NEW U, NEW s \in DOMAIN T, NEW n \in Nat, n <= Len(T[s]),
         IsPageTable(T, S), Separate(T),
         DOMAIN U = DOMAIN T, U[s] = SubSeq(T[s], 1, n),
         \A t \in DOMAIN T : t # s => U[t] = T[t]
  PROVE  /\ IsPageTable(U, S \ {T[s][i] : i \in (n + 1) .. Len(T[s])})
         /\ Separate(U)
<1> DEFINE R == S \ {T[s][i] : i \in (n + 1) .. Len(T[s])}
<1>1. \A t \in DOMAIN T :
        /\ T[t] \in Seq(S) /\ Len(T[t]) \in Nat
        /\ \A j \in 1 .. Len(T[t]) : T[t][j] \in S
  <2> TAKE t \in DOMAIN T
  <2>1. T[t] \in Seq(S)
    BY DEF IsPageTable
  <2> QED BY <2>1, LenProperties, ElementOfSeq
<1>2. /\ U[s] \in Seq(S) /\ Len(U[s]) = n
      /\ \A j \in 1 .. n : U[s][j] = T[s][j]
  <2>1. \A i \in 1 .. n : T[s][i] \in S
    BY <1>1
  <2>2. /\ SubSeq(T[s], 1, n) \in Seq(S)
        /\ Len(SubSeq(T[s], 1, n)) = IF 1 <= n THEN n - 1 + 1 ELSE 0
        /\ \A i \in 1 .. n - 1 + 1 : SubSeq(T[s], 1, n)[i] = T[s][1 + i - 1]
    BY <2>1, SubSeqProperties
  <2> QED BY <2>2
<1>3. \A t \in DOMAIN T : \A j \in 1 .. Len(U[t]) :
        /\ j \in 1 .. Len(T[t]) /\ U[t][j] = T[t][j]
        /\ t = s => j <= n
  BY <1>1, <1>2
<1>4. Separate(U)
  BY <1>3 DEF Separate
<1>5. \A t \in DOMAIN T : \A j \in 1 .. Len(U[t]) : U[t][j] \in R
  <2> TAKE t \in DOMAIN T
  <2> TAKE j \in 1 .. Len(U[t])
  <2>1. U[t][j] \in S /\ U[t][j] = T[t][j] /\ j \in 1 .. Len(T[t])
    BY <1>1, <1>3
  <2>2. ASSUME NEW i \in (n + 1) .. Len(T[s]), T[t][j] = T[s][i]
        PROVE  FALSE
    <3>1. i \in 1 .. Len(T[s])
      BY <1>1
    <3>2. t = s /\ j = i
      BY <2>1, <2>2, <3>1 DEF Separate
    <3> QED BY <1>1, <1>3, <3>2
  <2> QED BY <2>1, <2>2
<1>6. \A t \in DOMAIN T : U[t] \in Seq(R)
  <2> TAKE t \in DOMAIN T
  <2>1. U[t] \in Seq(S)
    BY <1>1, <1>2
  <2>2. /\ Len(U[t]) \in Nat /\ DOMAIN U[t] = 1 .. Len(U[t])
        /\ U[t] = [j \in DOMAIN U[t] |-> U[t][j]]
    BY <2>1, LenProperties
  <2>3. U[t] \in [1 .. Len(U[t]) -> R]
    BY <1>5, <2>2
  <2> QED BY <2>2, <2>3, SeqDef
<1> QED BY <1>4, <1>6 DEF IsPageTable

-----------------------------------------------------------------------------
(***************************************************************************)
(* The page table of the editor, and the pages that are in use for it.     *)
(***************************************************************************)
Table == [s \in DOMAIN sizes |-> StreamPages(s)]

Busy == {p \in 0 .. (numPages - 1) : ~IsSpecialPage(p) /\ p \notin free \cup freed}

(* PagesOwnedOnce, said of the table.                                      *)
OwnedInTable ==
  /\ IsPageTable(Table, Busy \ CommitPages)
  /\ Separate(Table)
  /\ CommitPages \subseteq Busy

(* What TypeOK says of the allocator and of the page number given out.     *)
LEMMA TypeBasics ==
  ASSUME TypeOK
  PROVE  /\ AllocatorTyped
         /\ MaxPages \in Nat /\ DiskPages \subseteq Nat
         /\ numPages \in Nat /\ numPages >= 3 /\ numPages <= MaxPages
         /\ 0 .. (numPages - 1) \subseteq DiskPages
BY MaxPagesAssumption DEF TypeOK, AllocatorTyped, DiskPages

(* The table of the streams' pages is a table of page numbers.             *)
LEMMA TableTyped ==
  ASSUME TypeOK
  PROVE  /\ DOMAIN Table = DOMAIN sizes
         /\ \A s \in DOMAIN sizes :
              /\ Table[s] = StreamPages(s) /\ Table[s] \in Seq(DiskPages)
              /\ Len(Table[s]) \in Nat
<1>1. \A s \in DOMAIN sizes : StreamPages(s) \in Seq(DiskPages)
  BY DEF TypeOK, StreamPages
<1> QED BY <1>1, LenProperties DEF Table

(* The pages of the directory in the making, one by one.                   *)
LEMMA CommitPagesTyped ==
  ASSUME TypeOK
  PROVE  /\ Len(dirPages) \in Nat /\ DOMAIN dirPages = 1 .. Len(dirPages)
         /\ Len(mapPages) \in Nat /\ DOMAIN mapPages = 1 .. Len(mapPages)
         /\ \A i \in DOMAIN dirPages :
              dirPages[i] \in DiskPages /\ dirPages[i] \in CommitPages
         /\ \A j \in DOMAIN mapPages :
              mapPages[j] \in DiskPages /\ mapPages[j] \in CommitPages
<1>1. dirPages \in Seq(DiskPages) /\ mapPages \in Seq(DiskPages)
  BY DEF TypeOK
<1>2. /\ Len(dirPages) \in Nat /\ DOMAIN dirPages = 1 .. Len(dirPages)
      /\ Len(mapPages) \in Nat /\ DOMAIN mapPages = 1 .. Len(mapPages)
  BY <1>1, LenProperties
<1> QED BY <1>1, <1>2, ElementOfSeq DEF CommitPages, Range

(* A page in use stands at a place of the table of streams.                *)
LEMMA UsedAt ==
  \A p : p \in UsedPages <=>
    \E s \in DOMAIN sizes : \E i \in 1 .. Len(StreamPages(s)) : p = StreamPages(s)[i]
<1> DEFINE E(p) ==
      \E s \in DOMAIN sizes : \E i \in 1 .. Len(StreamPages(s)) : p = StreamPages(s)[i]
<1>1. ASSUME NEW p, p \in UsedPages PROVE E(p)
  <2>1. PICK slot \in Slots : p = PageAt(slot)
    BY <1>1 DEF UsedPages
  <2>2. PICK s \in DOMAIN sizes : slot \in {s} \X (1 .. Len(StreamPages(s)))
    BY <2>1 DEF Slots
  <2>3. slot[1] = s /\ slot[2] \in 1 .. Len(StreamPages(s))
    BY <2>2
  <2> QED BY <2>1, <2>3 DEF PageAt
<1>2. ASSUME NEW s \in DOMAIN sizes, NEW i \in 1 .. Len(StreamPages(s))
      PROVE  StreamPages(s)[i] \in UsedPages
  <2>1. <<s, i>> \in {s} \X (1 .. Len(StreamPages(s)))
    OBVIOUS
  <2>2. <<s, i>> \in Slots
    BY <2>1 DEF Slots
  <2>3. PageAt(<<s, i>>) = StreamPages(s)[i]
    BY DEF PageAt
  <2> QED BY <2>2, <2>3 DEF UsedPages
<1> QED BY <1>1, <1>2

(* PagesOwnedOnce, said of the table of streams.                           *)
LEMMA OwnedOnceTable == TypeOK => (PagesOwnedOnce <=> OwnedInTable)
<1> SUFFICES ASSUME TypeOK PROVE PagesOwnedOnce <=> OwnedInTable
  OBVIOUS
<1>1. /\ DOMAIN Table = DOMAIN sizes
      /\ \A s \in DOMAIN sizes :
           /\ Table[s] = StreamPages(s) /\ Table[s] \in Seq(DiskPages)
           /\ Len(Table[s]) \in Nat
  BY TableTyped
<1>2. Separate(Table) <=> \A a, b \in Slots : PageAt(a) = PageAt(b) => a = b
  <2>1. ASSUME Separate(Table), NEW a \in Slots, NEW b \in Slots, PageAt(a) = PageAt(b)
        PROVE  a = b
    <3>1. PICK s \in DOMAIN sizes : a \in {s} \X (1 .. Len(StreamPages(s)))
      BY DEF Slots
    <3>2. PICK t \in DOMAIN sizes : b \in {t} \X (1 .. Len(StreamPages(t)))
      BY DEF Slots
    <3>3. /\ a = <<s, a[2]>> /\ a[1] = s /\ a[2] \in 1 .. Len(Table[s])
          /\ b = <<t, b[2]>> /\ b[1] = t /\ b[2] \in 1 .. Len(Table[t])
      BY <1>1, <3>1, <3>2
    <3>4. Table[s][a[2]] = Table[t][b[2]]
      BY <1>1, <2>1, <3>3 DEF PageAt
    <3>5. s = t /\ a[2] = b[2]
      BY <1>1, <2>1, <3>3, <3>4 DEF Separate
    <3> QED BY <3>3, <3>5
  <2>2. ASSUME \A a, b \in Slots : PageAt(a) = PageAt(b) => a = b,
               NEW s \in DOMAIN sizes, NEW t \in DOMAIN sizes,
               NEW i \in 1 .. Len(Table[s]), NEW j \in 1 .. Len(Table[t]),
               Table[s][i] = Table[t][j]
        PROVE  s = t /\ i = j
    <3>1. <<s, i>> \in {s} \X (1 .. Len(StreamPages(s)))
      BY <1>1
    <3>2. <<t, j>> \in {t} \X (1 .. Len(StreamPages(t)))
      BY <1>1
    <3>3. <<s, i>> \in Slots /\ <<t, j>> \in Slots
      BY <3>1, <3>2 DEF Slots
    <3>4. PageAt(<<s, i>>) = PageAt(<<t, j>>)
      BY <1>1, <2>2 DEF PageAt
    <3>5. <<s, i>> = <<t, j>>
      BY <2>2, <3>3, <3>4
    <3> QED BY <3>5
  <2> QED BY <1>1, <2>1, <2>2 DEF Separate
<1>3. \A p \in UsedPages \cup CommitPages : p \in DiskPages /\ p \in Nat
  <2>1. \A p \in UsedPages : p \in DiskPages
    BY <1>1, UsedAt, ElementOfSeq
  <2>2. \A p \in CommitPages : p \in DiskPages
    BY CommitPagesTyped DEF CommitPages, Range
  <2> QED BY <2>1, <2>2, TypeBasics
<1>4. \A p \in UsedPages \cup CommitPages :
        p \in Busy <=> p < numPages /\ ~IsSpecialPage(p) /\ p \notin free \cup freed
  BY <1>3, TypeBasics DEF Busy
<1>5. IsPageTable(Table, Busy \ CommitPages) <=> UsedPages \subseteq Busy \ CommitPages
  <2>1. ASSUME IsPageTable(Table, Busy \ CommitPages)
        PROVE  UsedPages \subseteq Busy \ CommitPages
    <3>1. \A s \in DOMAIN sizes : Table[s] \in Seq(Busy \ CommitPages)
      BY <1>1, <2>1 DEF IsPageTable
    <3> QED BY <1>1, <3>1, UsedAt, ElementOfSeq
  <2>2. ASSUME UsedPages \subseteq Busy \ CommitPages, NEW s \in DOMAIN sizes
        PROVE  Table[s] \in Seq(Busy \ CommitPages)
    <3>1. /\ Len(Table[s]) \in Nat /\ DOMAIN Table[s] = 1 .. Len(Table[s])
          /\ Table[s] = [j \in DOMAIN Table[s] |-> Table[s][j]]
      BY <1>1, LenProperties
    <3>2. \A j \in 1 .. Len(Table[s]) : Table[s][j] \in Busy \ CommitPages
      BY <1>1, <2>2, UsedAt
    <3>3. Table[s] \in [1 .. Len(Table[s]) -> Busy \ CommitPages]
      BY <3>1, <3>2
    <3> QED BY <3>1, <3>3, SeqDef
  <2> QED BY <1>1, <2>1, <2>2 DEF IsPageTable
<1> QED BY <1>2, <1>4, <1>5 DEF PagesOwnedOnce, OwnedInTable

-----------------------------------------------------------------------------
(***************************************************************************)
(* The disk.  A step that leaves the header and the pages it reaches alone *)
(* leaves everything that is read from them as it was.                     *)
(***************************************************************************)
Untouched ==
  HasHeader /\ file'[0] = file[0] => \A p \in Reachable : file'[p] = file[p]

StableKept ==
  HasHeader => file'[0] = file[0] /\ \A p \in StablePages : file'[p] = file[p]

(* Where the parts of a directory of n pages are listed: the k-th of them   *)
(* is entry MapOffset(k) of the map page MapIndex(k).                      *)
MapIndex(k) == ((k - 1) \div EntriesPerPage) + 1

MapOffset(k) == ((k - 1) % EntriesPerPage) + 1

(* The entry of the directory map for the k-th directory page exists.      *)
LEMMA MapPosition ==
  ASSUME NEW k \in Nat \ {0}
  PROVE  /\ MapIndex(k) \in Nat \ {0} /\ MapOffset(k) \in 1 .. EntriesPerPage
         /\ k = (MapIndex(k) - 1) * EntriesPerPage + MapOffset(k)
         /\ k <= MapIndex(k) * EntriesPerPage
<1>1. EntriesPerPage \in Nat \ {0} /\ k - 1 \in Nat
  BY LayoutAssumption
<1>2. /\ (k - 1) % EntriesPerPage \in 0 .. (EntriesPerPage - 1)
      /\ (k - 1) \div EntriesPerPage \in Nat
      /\ k - 1 = EntriesPerPage * ((k - 1) \div EntriesPerPage)
                  + ((k - 1) % EntriesPerPage)
  BY <1>1, DivMod
<1>3. /\ MapIndex(k) - 1 = (k - 1) \div EntriesPerPage
      /\ MapOffset(k) - 1 = (k - 1) % EntriesPerPage
      /\ MapIndex(k) \in Nat \ {0} /\ MapOffset(k) \in 1 .. EntriesPerPage
  BY <1>1, <1>2 DEF MapIndex, MapOffset
<1> DEFINE q == MapIndex(k)
           r == MapOffset(k)
<1>4. k - 1 = EntriesPerPage * (q - 1) + (r - 1)
  BY <1>2, <1>3
<1>5. /\ q \in Nat \ {0} /\ r \in 1 .. EntriesPerPage
  BY <1>3
<1> HIDE DEF q, r
<1>6. EntriesPerPage * (q - 1) = (q - 1) * EntriesPerPage
      /\ q * EntriesPerPage = (q - 1) * EntriesPerPage + EntriesPerPage
  BY <1>1, <1>5
<1>7. k = (q - 1) * EntriesPerPage + r /\ k <= q * EntriesPerPage
  BY <1>1, <1>4, <1>5, <1>6
<1> QED BY <1>5, <1>7 DEF q, r

(* CeilDiv rounds up: the map pages reach the last page of the directory.  *)
LEMMA MapReaches ==
  ASSUME NEW n \in Nat, NEW k \in 1 .. n
  PROVE  MapIndex(k) \in 1 .. CeilDiv(n, EntriesPerPage)
<1> DEFINE P == EntriesPerPage
           a == n + P - 1
           q == a \div P
           m == (k - 1) \div P
<1>1. P \in Nat \ {0} /\ a \in Nat /\ k - 1 \in Nat /\ k - 1 <= a - P
  BY LayoutAssumption
<1>2. q \in Nat /\ a % P \in 0 .. (P - 1) /\ a = P * q + (a % P)
  BY <1>1, DivMod
<1>3. m \in Nat /\ (k - 1) % P \in 0 .. (P - 1) /\ k - 1 = P * m + ((k - 1) % P)
  BY <1>1, DivMod
<1>4. P * m + P < P * q + P
  <2> HIDE DEF a, q, m, P
  <2>1. P * m \in Nat /\ P * q \in Nat
    BY <1>1, <1>2, <1>3
  <2> QED BY <1>1, <1>2, <1>3, <2>1
<1>5. m + 1 <= q
  <2>1. ASSUME q <= m PROVE FALSE
    <3> HIDE DEF a, q, m, P
    <3>1. P * q <= P * m
      BY <1>1, <1>2, <1>3, <2>1
    <3>2. P * m \in Nat /\ P * q \in Nat
      BY <1>1, <1>2, <1>3
    <3> QED BY <1>1, <1>4, <3>1, <3>2
  <2> HIDE DEF a, q, m, P
  <2> QED BY <1>2, <1>3, <2>1
<1> QED BY <1>2, <1>3, <1>5 DEF MapIndex, CeilDiv

(* A positive number takes at least one part.                              *)
LEMMA CeilDivPositive ==
  ASSUME NEW n \in Nat \ {0}
  PROVE  CeilDiv(n, EntriesPerPage) \in Nat \ {0}
<1>1. 1 \in 1 .. n /\ EntriesPerPage \in Nat \ {0} /\ n + EntriesPerPage - 1 \in Nat
  BY LayoutAssumption
<1>2. MapIndex(1) \in 1 .. CeilDiv(n, EntriesPerPage)
  BY <1>1, MapReaches
<1>3. CeilDiv(n, EntriesPerPage) \in Nat
  BY <1>1, DivMod DEF CeilDiv
<1> QED BY <1>2, <1>3

(* What DiskDirPage(k) reads is on a map page, and what it gives is stable. *)
LEMMA DiskPagesStable ==
  ASSUME HasHeader, DiskWellFormed
  PROVE  /\ \A k \in 1 .. Header.dirLen :
              /\ Header.map[MapIndex(k)] \in StablePages
              /\ DiskDirPage(k) \in StablePages
         /\ 1 \in 1 .. Header.dirLen
         /\ \A s \in DOMAIN DiskDirectory :
              DiskDirectory[s] # Nil => Range(DiskDirectory[s]) \subseteq StablePages
         /\ \A p \in StablePages : p \in DiskPages /\ p # 0 /\ ~IsSpecialPage(p)
<1>1. \A k \in 1 .. Header.dirLen : MapIndex(k) \in DOMAIN Header.map
  BY DEF DiskWellFormed, MapIndex
<1>2. \A k \in 1 .. Header.dirLen : Header.map[MapIndex(k)] \in DiskMapPages
  BY <1>1 DEF DiskMapPages, Range
<1>3. \A k \in 1 .. Header.dirLen : DiskDirPage(k) \in DiskDirPages
  BY DEF DiskDirPages
<1>4. \A s \in DOMAIN DiskDirectory :
        DiskDirectory[s] # Nil => Range(DiskDirectory[s]) \subseteq DiskStreamPages
  BY DEF DiskStreamPages
<1>5. \A p \in StablePages : p \in DiskPages /\ p # 0 /\ ~IsSpecialPage(p)
  BY DEF DiskWellFormed, IsSpecialPage
<1>6. 1 \in 1 .. Header.dirLen
  BY DEF DiskWellFormed
<1> QED BY <1>2, <1>3, <1>4, <1>5, <1>6 DEF StablePages

(* A step that keeps the pages the header reaches keeps what they hold.    *)
LEMMA DiskKept ==
  ASSUME HasHeader, DiskWellFormed, TypeOK, StableKept
  PROVE  /\ HasHeader' /\ Header' = Header
         /\ DiskDirectory' = DiskDirectory
         /\ StablePages' = StablePages
         /\ DiskWellFormed'
<1>1. file'[0] = file[0] /\ \A p \in StablePages : file'[p] = file[p]
  BY DEF StableKept
<1>2. HasHeader' /\ Header' = Header
  BY <1>1 DEF HasHeader, Header
<1>3. DiskMapPages' = DiskMapPages
  BY <1>2 DEF DiskMapPages, Range
<1>4. \A k \in 1 .. Header.dirLen : DiskDirPage(k)' = DiskDirPage(k)
  <2> TAKE k \in 1 .. Header.dirLen
  <2>1. file'[Header.map[MapIndex(k)]] = file[Header.map[MapIndex(k)]]
    BY <1>1, DiskPagesStable
  <2>2. /\ DiskDirPage(k) = file[Header.map[MapIndex(k)]].map[MapOffset(k)]
        /\ DiskDirPage(k)' = file'[Header'.map[MapIndex(k)]].map[MapOffset(k)]
    BY DEF DiskDirPage, MapIndex, MapOffset
  <2> QED BY <1>2, <2>1, <2>2
<1>5. DiskDirPages' = DiskDirPages
  BY <1>2, <1>4 DEF DiskDirPages
<1>6. DiskDirectory' = DiskDirectory
  <2>1. DiskDirPage(1)' = DiskDirPage(1) /\ file'[DiskDirPage(1)] = file[DiskDirPage(1)]
    BY <1>1, <1>4, DiskPagesStable
  <2> QED BY <2>1 DEF DiskDirectory
<1>7. DiskStreamPages' = DiskStreamPages
  BY <1>6 DEF DiskStreamPages, Range
<1>8. StablePages' = StablePages
  BY <1>3, <1>5, <1>7 DEF StablePages
<1>9. DiskWellFormed'
  BY <1>2, <1>8 DEF DiskWellFormed, DiskPages, IsSpecialPage, IsFpmPage, Phase
<1> QED BY <1>2, <1>6, <1>8, <1>9

(* The pages of the active FPM are special; those of the other are others. *)
LEMMA FpmPagesDiffer ==
  ASSUME NEW i \in Nat, NEW a \in {1, 2}
  PROVE  /\ FpmPage(i, a) \in Nat /\ IsSpecialPage(FpmPage(i, a)) /\ FpmPage(i, a) # 0
         /\ \A j \in Nat, b \in {1, 2} : FpmPage(i, a) = FpmPage(j, b) => a = b
<1>1. PageSize \in Nat \ {0} /\ PageSize >= 3
  BY PageSizeAssumption
<1>2. \A j \in Nat, b \in {1, 2} :
        FpmPage(j, b) \in Nat /\ FpmPage(j, b) = PageSize * j + b
  BY <1>1 DEF FpmPage
<1>3. \A j \in Nat, b \in {1, 2} : FpmPage(j, b) % PageSize = b
  <2> TAKE j \in Nat, b \in {1, 2}
  <2> DEFINE a1 == FpmPage(j, b)
  <2>1. b \in 0 .. (PageSize - 1) /\ a1 \in Nat /\ a1 = PageSize * j + b
    BY <1>1, <1>2
  <2> HIDE DEF a1
  <2>2. a1 % PageSize = b
    BY <1>1, <2>1, DivModUnique
  <2> QED BY <2>2 DEF a1
<1>4. Phase(FpmPage(i, a)) = a
  BY <1>3 DEF Phase
<1>5. FpmPage(i, a) # 0
  <2>1. 0 % PageSize = 0
    <3>1. 0 = PageSize * 0 + 0 /\ 0 \in 0 .. (PageSize - 1)
      BY <1>1
    <3> QED BY <1>1, <3>1, DivModUnique
  <2> QED BY <1>3, <2>1
<1> QED BY <1>2, <1>3, <1>4, <1>5 DEF IsSpecialPage, IsFpmPage

(* The active FPM is on the model's disk: it has at most a page for each    *)
(* interval of the file.                                                   *)
LEMMA ActiveFpmOnDisk ==
  ASSUME TypeOK, HasHeader,
         NEW i \in 0 .. (CeilDiv(Header.numPages, BitsPerFpmPage) - 1)
  PROVE  FpmPage(i, Header.activeFpm) \in DiskPages
<1> DEFINE B == BitsPerFpmPage
           n == Header.numPages
           m == n + B - 1
           q == m \div B
<1>1. /\ PageSize \in Nat /\ PageSize >= 3 /\ B \in Nat \ {0} /\ B >= PageSize
      /\ MaxPages \in Nat
  BY PageSizeAssumption, MaxPagesAssumption, LayoutAssumption
<1>2. n \in Nat /\ n >= 3 /\ n <= MaxPages /\ Header.activeFpm \in {1, 2} /\ m \in Nat
  <2>1. n \in 3 .. MaxPages /\ Header.activeFpm \in {1, 2}
    BY DEF TypeOK, Headers
  <2> HIDE DEF n
  <2> QED BY <1>1, <2>1
<1>3. q \in Nat /\ m % B \in 0 .. (B - 1) /\ m = B * q + (m % B)
  <2> HIDE DEF m, B
  <2> QED BY <1>1, <1>2, DivMod
<1>4. i \in Nat /\ i + 1 <= q
  <2>1. i \in 0 .. (q - 1)
    BY DEF CeilDiv
  <2> HIDE DEF q
  <2> QED BY <1>3, <2>1
<1>5. PageSize * i + 1 <= n
  <2>1. B * q <= n + B - 1
    <3>1. m = n + B - 1
      OBVIOUS
    <3> HIDE DEF B, q, m, n
    <3>2. B * q \in Nat
      BY <1>1, <1>3
    <3> QED BY <1>1, <1>2, <1>3, <3>1, <3>2
  <2> HIDE DEF B, q, m, n
  <2>2. B * (i + 1) <= B * q
    BY <1>1, <1>3, <1>4
  <2>3. B * (i + 1) = B * i + B /\ B * i \in Nat /\ B * q \in Nat
    BY <1>1, <1>3, <1>4
  <2>4. B * i + 1 <= n
    BY <1>1, <1>2, <2>1, <2>2, <2>3
  <2>5. PageSize * i <= B * i /\ PageSize * i \in Nat
    BY <1>1, <1>4
  <2> QED BY <1>2, <2>3, <2>4, <2>5
<1>6. i * PageSize = PageSize * i /\ PageSize * i \in Nat
  BY <1>1, <1>4
<1> HIDE DEF n
<1> QED BY <1>1, <1>2, <1>5, <1>6 DEF FpmPage, DiskPages

-----------------------------------------------------------------------------
(***************************************************************************)
(* Steps.  The lemmas of this section are about what many actions have in  *)
(* common, those of the next one go through the actions.                   *)
(***************************************************************************)
LEMMA OwnedOnceTablePrime == (TypeOK => (PagesOwnedOnce <=> OwnedInTable))'
BY OwnedOnceTable, PTL

(* A table of pages in S is one of pages in a larger set.                  *)
LEMMA PageTableMonotonic ==
  ASSUME NEW S, NEW R, S \subseteq R, NEW T, IsPageTable(T, S)
  PROVE  IsPageTable(T, R)
BY SeqMonotonic DEF IsPageTable

(* PagesOwnedOnce of the next state, said of the table of streams.         *)
LEMMA OwnedAfter ==
  ASSUME TypeOK', NEW S, S \subseteq Busy', S \cap CommitPages' = {},
         IsPageTable(Table', S), Separate(Table'), CommitPages' \subseteq Busy'
  PROVE  PagesOwnedOnce'
<1>1. S \subseteq (Busy \ CommitPages)'
  OBVIOUS
<1>2. IsPageTable(Table', (Busy \ CommitPages)')
  BY <1>1, PageTableMonotonic
<1>3. OwnedInTable'
  BY <1>2 DEF OwnedInTable, IsPageTable, Separate
<1> QED BY <1>3, OwnedOnceTablePrime

(* A step that does not write to the file.                                 *)
LEMMA FileUnchanged ==
  ASSUME IInv, UNCHANGED file
  PROVE  /\ Untouched /\ DiskWellFormed'
         /\ HasHeader' = HasHeader /\ Header' = Header
         /\ HasHeader => StablePages' = StablePages
         /\ DOMAIN file' = DiskPages
         /\ HasHeader' => Header' \in Headers
         /\ \A p \in DiskPages : "dir" \in DOMAIN file'[p] =>
               \E n \in 0 .. MaxStreams : IsTable(file'[p].dir, n)
<1>1. HasHeader' = HasHeader /\ Header' = Header /\ Untouched /\ StableKept
  BY DEF HasHeader, Header, Untouched, StableKept
<1>2. HasHeader => StablePages' = StablePages /\ DiskWellFormed'
  BY <1>1, DiskKept DEF IInv
<1>3. DiskWellFormed'
  BY <1>1, <1>2 DEF DiskWellFormed
<1> QED BY <1>1, <1>2, <1>3 DEF IInv, TypeOK

(* An interval is part of one that ends later.                             *)
LEMMA WiderInterval ==
  ASSUME NEW n \in Nat, NEW m \in Nat, n <= m
  PROVE  0 .. (n - 1) \subseteq 0 .. (m - 1)
OBVIOUS

(***************************************************************************)
(* A step that allocates pages, deletes some that were in use, and writes  *)
(* to none but those it allocated.                                         *)
(***************************************************************************)
LEMMA AllocStep ==
  ASSUME IInv, stage \in {"idle", "dir", "map"}, stage' # "closed",
         NEW n \in Nat \ {0}, NEW p \in DiskPages, NEW k \in DiskPages,
         AllocPages(n, p, k),
         NEW gone, freed' = freed \cup gone, gone \subseteq Busy,
         DOMAIN file' = DiskPages, UNCHANGED activeFpm,
         \A q \in DiskPages : q \notin Pages(p, k) => file'[q] = file[q]
  PROVE  /\ AllocatorConsistent'
         /\ free' \subseteq DiskPages /\ freed' \subseteq DiskPages
         /\ fresh' \subseteq DiskPages
         /\ numPages' \in 3 .. MaxPages /\ hint' \in 0 .. MaxPages
         /\ Pages(p, k) \subseteq Busy' /\ Pages(p, k) \cap Busy = {}
         /\ Pages(p, k) \subseteq DiskPages
         /\ Busy \ gone \subseteq Busy'
         /\ HasHeader' => Header' \in Headers
         /\ DiskWellFormed' /\ ActiveFpmKnown' /\ StableProtected'
         /\ Untouched
<1>1. /\ AllocatorTyped /\ AllocatorConsistent /\ TypeOK
      /\ MaxPages \in Nat /\ DiskPages \subseteq Nat
      /\ numPages \in Nat /\ numPages >= 3 /\ numPages <= MaxPages
      /\ 0 .. (numPages - 1) \subseteq DiskPages
      /\ p \in Nat /\ k \in Nat
  BY TypeBasics DEF IInv
<1>2. /\ k # 0
      /\ numPages' \in numPages .. MaxPages /\ hint' \in 0 .. numPages'
      /\ free' \subseteq free
      /\ \A q \in Pages(p, k) :
           /\ q \in Nat /\ q < numPages' /\ ~IsSpecialPage(q)
           /\ q \in free \/ q >= numPages
           /\ q \notin free' /\ q \notin freed
      /\ \A q \in fresh' : q \in Nat /\ q < numPages'
      /\ \A q \in fresh' \ fresh : q \in free \/ q >= numPages
  BY <1>1, AllocPagesEffect
<1>3. /\ gone \cap free = {}
      /\ \A q \in gone : q \in Nat /\ q < numPages /\ ~IsSpecialPage(q)
  <2>1. \A q \in gone : q \in 0 .. (numPages - 1) /\ ~IsSpecialPage(q) /\ q \notin free
    BY DEF Busy
  <2>2. \A q \in 0 .. (numPages - 1) : q \in Nat /\ q < numPages
    BY <1>1
  <2> QED BY <2>1, <2>2
<1>4. AllocatorTyped' /\ AllocatorConsistent'
  BY <1>1, <1>3, AllocPagesConsistent
<1>5. numPages' \in 3 .. MaxPages /\ hint' \in 0 .. MaxPages
  BY <1>4 DEF AllocatorTyped
<1>6. \A q \in Nat : q < numPages' => q \in DiskPages
  BY <1>1, <1>5 DEF DiskPages
<1>7. /\ free' \subseteq DiskPages /\ fresh' \subseteq DiskPages
      /\ Pages(p, k) \subseteq DiskPages
  BY <1>1, <1>2, <1>6 DEF IInv, TypeOK
<1>8. freed' \subseteq DiskPages
  BY <1>1, <1>3 DEF IInv, TypeOK, Busy
<1>9. Pages(p, k) \cap Busy = {}
  BY <1>1, <1>2 DEF Busy
<1>10. Pages(p, k) \cap gone = {}
  BY <1>9
<1>11. Pages(p, k) \subseteq Busy'
  <2> SUFFICES ASSUME NEW q \in Pages(p, k) PROVE q \in Busy'
    OBVIOUS
  <2>1. q \in 0 .. (numPages' - 1) /\ ~IsSpecialPage(q)
    BY <1>2, <1>5
  <2>2. q \notin free' \cup freed'
    BY <1>2, <1>10
  <2> QED BY <2>1, <2>2 DEF Busy, IsSpecialPage, IsFpmPage, Phase
<1>12. Busy \ gone \subseteq Busy'
  <2> SUFFICES ASSUME NEW q \in Busy, q \notin gone PROVE q \in Busy'
    OBVIOUS
  <2>1. q \in 0 .. (numPages - 1) /\ ~IsSpecialPage(q) /\ q \notin free \cup freed
    BY DEF Busy
  <2>2. q \in 0 .. (numPages' - 1)
    <3>1. numPages' \in Nat /\ numPages <= numPages'
      BY <1>1, <1>2
    <3> QED BY <1>1, <2>1, <3>1, WiderInterval
  <2>3. q \notin free' \cup freed'
    BY <1>2, <2>1
  <2> QED BY <2>1, <2>2, <2>3 DEF Busy, IsSpecialPage, IsFpmPage, Phase
<1>13. 0 \notin Pages(p, k) /\ 0 \in DiskPages /\ file'[0] = file[0]
  BY <1>1, <1>2 DEF IsSpecialPage
<1>14. HasHeader' = HasHeader /\ Header' = Header
  BY <1>13 DEF HasHeader, Header
<1>15. HasHeader => \A q \in StablePages :
         /\ q \in DiskPages /\ q < numPages /\ q \notin free \cup fresh
         /\ q \notin Pages(p, k)
  BY <1>1, <1>2 DEF IInv, StableProtected, DiskWellFormed
<1>16. StableKept
  BY <1>13, <1>15 DEF StableKept
<1>17. HasHeader => DiskWellFormed' /\ StablePages' = StablePages
  BY <1>1, <1>16, DiskKept DEF IInv
<1>18. DiskWellFormed'
  BY <1>14, <1>17 DEF DiskWellFormed
<1>19. ActiveFpmKnown'
  BY <1>14 DEF IInv, ActiveFpmKnown
<1>20. StableProtected'
  <2> SUFFICES ASSUME HasHeader, NEW q \in StablePages
               PROVE  q < numPages' /\ q \notin free' \cup fresh'
    BY <1>14, <1>17 DEF StableProtected
  <2>1. q \in Nat /\ q < numPages /\ q \notin free \cup fresh
    BY <1>1, <1>15
  <2> QED BY <1>1, <1>2, <1>5, <2>1
<1>21. Untouched
  <2> SUFFICES ASSUME HasHeader, NEW q \in Reachable PROVE file'[q] = file[q]
    BY DEF Untouched
  <2>1. CASE q \in StablePages
    BY <1>16, <2>1 DEF StableKept
  <2>2. CASE q = 0
    BY <1>13, <2>2
  <2>3. CASE q \notin StablePages /\ q # 0
    <3>1. PICK i \in 0 .. (CeilDiv(Header.numPages, BitsPerFpmPage) - 1) :
            q = FpmPage(i, Header.activeFpm)
      BY <2>3 DEF Reachable, StablePages
    <3>2. Header.activeFpm \in {1, 2} /\ i \in Nat
      BY DEF IInv, TypeOK, Headers
    <3>3. IsSpecialPage(q)
      BY <3>1, <3>2, FpmPagesDiffer
    <3>4. q \notin Pages(p, k)
      BY <1>2, <3>3
    <3>5. q \in DiskPages
      BY <1>1, <3>1, ActiveFpmOnDisk
    <3> QED BY <3>4, <3>5
  <2> QED BY <2>1, <2>2, <2>3
<1>22. HasHeader' => Header' \in Headers
  BY <1>14 DEF IInv, TypeOK
<1> QED BY <1>4, <1>5, <1>7, <1>8, <1>9, <1>11, <1>12, <1>18, <1>19, <1>20, <1>21, <1>22

(* What the header reaches lies on the model's disk.                       *)
LEMMA ReachableOnDisk ==
  ASSUME HasHeader, TypeOK, DiskWellFormed
  PROVE  /\ Reachable \subseteq DiskPages
         /\ \A q \in Reachable :
              \/ q \in StablePages
              \/ q = 0
              \/ \E i \in Nat : q = FpmPage(i, Header.activeFpm)
         /\ 0 \in Reachable /\ StablePages \subseteq Reachable
<1>1. 0 \in DiskPages
  BY MaxPagesAssumption DEF DiskPages
<1> QED BY <1>1, ActiveFpmOnDisk DEF Reachable, StablePages, DiskWellFormed

(* A step that writes one page, and none that the header reaches.          *)
LEMMA WriteOnePage ==
  ASSUME IInv, NEW x, NEW v, file' = [file EXCEPT ![x] = v],
         x # 0, HasHeader => x \notin Reachable, "dir" \notin DOMAIN v
  PROVE  /\ Untouched /\ DiskWellFormed'
         /\ HasHeader' = HasHeader /\ Header' = Header
         /\ HasHeader => StablePages' = StablePages
         /\ DOMAIN file' = DiskPages
         /\ HasHeader' => Header' \in Headers
         /\ \A p \in DiskPages : "dir" \in DOMAIN file'[p] =>
               \E n \in 0 .. MaxStreams : IsTable(file'[p].dir, n)
<1>1. TypeOK /\ DiskWellFormed /\ DOMAIN file = DiskPages /\ 0 \in DiskPages
  <2>1. TypeOK /\ DiskWellFormed
    BY DEF IInv
  <2>2. 0 \in DiskPages
    BY MaxPagesAssumption DEF DiskPages
  <2> QED BY <2>1, <2>2 DEF TypeOK
<1>2. DOMAIN file' = DiskPages /\ \A q \in DiskPages : q # x => file'[q] = file[q]
  BY <1>1
<1>3. HasHeader' = HasHeader /\ Header' = Header
  BY <1>1, <1>2 DEF HasHeader, Header
<1>4. HasHeader => \A q \in Reachable : file'[q] = file[q]
  BY <1>1, <1>2, ReachableOnDisk
<1>5. Untouched /\ StableKept
  BY <1>1, <1>4, ReachableOnDisk DEF Untouched, StableKept
<1>6. HasHeader => StablePages' = StablePages /\ DiskWellFormed'
  BY <1>1, <1>5, DiskKept
<1>7. DiskWellFormed'
  BY <1>3, <1>6 DEF DiskWellFormed
<1>8. \A p \in DiskPages : "dir" \in DOMAIN file'[p] =>
        \E n \in 0 .. MaxStreams : IsTable(file'[p].dir, n)
  <2> SUFFICES ASSUME NEW p \in DiskPages, "dir" \in DOMAIN file'[p]
               PROVE  \E n \in 0 .. MaxStreams : IsTable(file'[p].dir, n)
    OBVIOUS
  <2>1. p # x
    BY <1>1
  <2>2. file'[p] = file[p]
    BY <1>2, <2>1
  <2> QED BY <1>1, <2>2 DEF TypeOK
<1> QED BY <1>1, <1>2, <1>3, <1>5, <1>6, <1>7, <1>8 DEF TypeOK

(* A step that leaves the allocator and the commit alone.                  *)
LEMMA AllocatorUnchanged ==
  ASSUME IInv, UNCHANGED <<allocVars, dirPages, mapPages>>
  PROVE  /\ AllocatorConsistent' /\ Busy' = Busy /\ CommitPages' = CommitPages
         /\ CommitPages \subseteq Busy
         /\ IsPageTable(Table, Busy \ CommitPages) /\ Separate(Table)
<1>1. OwnedInTable
  BY OwnedOnceTable DEF IInv
<1>2. AllocatorConsistent'
  BY DEF IInv, AllocatorConsistent, allocVars, IsSpecialPage, IsFpmPage, Phase
<1>3. Busy' = Busy
  BY DEF Busy, allocVars, IsSpecialPage, IsFpmPage, Phase
<1>4. CommitPages' = CommitPages
  BY DEF CommitPages, Range
<1> QED BY <1>1, <1>2, <1>3, <1>4 DEF OwnedInTable

(* Without a commit under way there is no progress to account for.         *)
LEMMA IdleProgress ==
  ASSUME dirPages' = <<>>, mapPages' = <<>>, stage' \in {"closed", "idle"}
  PROVE  CommitProgress' /\ CommitPages' = {}
<1>1. DOMAIN <<>> = {}
  OBVIOUS
<1>2. DOMAIN dirPages' = {} /\ DOMAIN mapPages' = {}
  BY <1>1
<1> QED BY <1>2 DEF CommitProgress, CommitPages, Range

(* The streams are numbered from 0 without gaps.                           *)
LEMMA StreamNumbers ==
  ASSUME TypeOK
  PROVE  /\ NumStreams \in 0 .. MaxStreams /\ MaxStreams \in Nat
         /\ DOMAIN sizes = 0 .. (NumStreams - 1)
<1>1. MaxStreams \in Nat
  BY StreamsAssumption
<1>2. PICK n \in 0 .. MaxStreams : DOMAIN sizes = 0 .. (n - 1)
  BY DEF TypeOK
<1>3. Cardinality(0 .. (n - 1)) = n
  <2>1. 0 \in Int /\ n - 1 \in Int
    BY <1>1
  <2>2. Cardinality(0 .. (n - 1)) = IF 0 > n - 1 THEN 0 ELSE (n - 1) - 0 + 1
    BY <2>1, FS_Interval
  <2> QED BY <1>1, <2>2
<1> QED BY <1>1, <1>2, <1>3 DEF NumStreams

(* What Append makes of a sequence, place by place.                        *)
LEMMA AppendOne ==
  ASSUME NEW S, NEW q \in Seq(S), NEW p \in S
  PROVE  /\ Append(q, p) \in Seq(S) /\ Len(Append(q, p)) = Len(q) + 1
         /\ Len(q) \in Nat /\ DOMAIN q = 1 .. Len(q)
         /\ DOMAIN Append(q, p) = 1 .. (Len(q) + 1)
         /\ \A i \in 1 .. Len(q) : Append(q, p)[i] = q[i]
         /\ Append(q, p)[Len(q) + 1] = p
         /\ Range(Append(q, p)) = Range(q) \cup {p}
<1>1. /\ Append(q, p) \in Seq(S) /\ Len(Append(q, p)) = Len(q) + 1
      /\ Len(q) \in Nat
      /\ \A i \in 1 .. Len(q) : Append(q, p)[i] = q[i]
      /\ Append(q, p)[Len(q) + 1] = p
  OBVIOUS
<1>2. DOMAIN q = 1 .. Len(q) /\ DOMAIN Append(q, p) = 1 .. (Len(q) + 1)
  BY <1>1, LenProperties
<1>3. 1 .. (Len(q) + 1) = (1 .. Len(q)) \cup {Len(q) + 1}
  BY <1>1
<1>4. Range(Append(q, p)) = Range(q) \cup {p}
  BY <1>1, <1>2, <1>3 DEF Range
<1> QED BY <1>1, <1>2, <1>4

-----------------------------------------------------------------------------
(***************************************************************************)
(* The actions, one by one.                                                *)
(***************************************************************************)
(***************************************************************************)
(* A step that changes neither the file nor the allocator nor how far the  *)
(* commit is.  What is left to show of it is about its streams.            *)
(***************************************************************************)
LEMMA QuietStep ==
  ASSUME IInv, UNCHANGED <<allocVars, file, activeFpm, commitVars>>,
         stage' \in Stages,
         stage' \in {"idle", "dir", "map", "merge"} =>
           stage \in {"idle", "dir", "map", "merge"} \/ ~HasHeader,
         HasHeader /\ stage' # "closed" => stage # "closed",
         CommitProgress',
         \E n \in 0 .. MaxStreams : DOMAIN sizes' = 0 .. (n - 1),
         DOMAIN sizes' = DOMAIN committed' \cup DOMAIN modified',
         \A s \in DOMAIN sizes' : sizes'[s] \in Nat \cup {Nil},
         \A s \in DOMAIN committed' : committed'[s] \in Seq(DiskPages),
         \A s \in DOMAIN modified' : modified'[s] \in Seq(DiskPages),
         IsPageTable(Table', Busy \ CommitPages), Separate(Table')
  PROVE  IInv' /\ Untouched
<1>1. /\ Untouched /\ DiskWellFormed'
      /\ HasHeader' = HasHeader /\ Header' = Header
      /\ HasHeader => StablePages' = StablePages
      /\ DOMAIN file' = DiskPages
      /\ HasHeader' => Header' \in Headers
      /\ \A p \in DiskPages : "dir" \in DOMAIN file'[p] =>
            \E n \in 0 .. MaxStreams : IsTable(file'[p].dir, n)
  BY FileUnchanged
<1>2. TypeOK'
  BY <1>1 DEF IInv, TypeOK, allocVars, commitVars, Stages, CommitStages, DiskPages,
              HasHeader, Header, Headers, IsTable
<1>3. /\ AllocatorConsistent' /\ Busy' = Busy /\ CommitPages' = CommitPages
      /\ CommitPages \subseteq Busy
  BY AllocatorUnchanged DEF commitVars
<1>4. PagesOwnedOnce'
  BY <1>2, <1>3, OwnedAfter
<1>5. ActiveFpmKnown'
  BY <1>1 DEF IInv, ActiveFpmKnown
<1>6. StableProtected'
  BY <1>1 DEF IInv, StableProtected, allocVars
<1> QED BY <1>1, <1>2, <1>3, <1>4, <1>5, <1>6 DEF IInv

(* A step that changes nothing.                                            *)
LEMMA StutterStep == ASSUME IInv, UNCHANGED vars PROVE IInv'
<1>1. UNCHANGED <<allocVars, file, stage, activeFpm, streamVars, commitVars>>
  BY DEF vars
<1>2. Directory' = Directory /\ \A j : MapChunk(j)' = MapChunk(j)
  BY <1>1 DEF Directory, StreamPages, MapChunk, streamVars, commitVars
<1>3. CommitProgress'
  BY <1>1, <1>2 DEF IInv, CommitProgress, NumMapPages, CeilDiv, commitVars
<1>4. IsPageTable(Table, Busy \ CommitPages) /\ Separate(Table)
  BY <1>1, AllocatorUnchanged DEF commitVars
<1>5. Table' = Table
  BY <1>1 DEF Table, StreamPages, streamVars
<1> QED BY <1>1, <1>3, <1>4, <1>5, QuietStep DEF IInv, TypeOK, streamVars

(* A new MSF is created over a file without one.                           *)
LEMMA NewEditorStep == ASSUME IInv, Create PROVE IInv' /\ Untouched
<1>1. /\ stage = "closed" /\ ~HasHeader /\ stage' = "idle"
      /\ sizes' = NewSizes
      /\ committed' = [s \in {0} |-> <<>>]
      /\ modified' = [s \in 1 .. FixedStreams |-> <<>>]
      /\ UNCHANGED <<allocVars, file, activeFpm, commitVars>>
  BY DEF Create, NewEditor
<1>2. dirPages' = <<>> /\ mapPages' = <<>>
  BY <1>1 DEF IInv, CommitProgress, commitVars
<1>3. CommitProgress'
  BY <1>1, <1>2, IdleProgress
<1>4. FixedStreams \in Nat /\ MaxStreams \in Nat /\ FixedStreams < MaxStreams
  BY StreamsAssumption
<1>5. DOMAIN sizes' = 0 .. FixedStreams
  BY <1>1 DEF NewSizes
<1>6. \E n \in 0 .. MaxStreams : DOMAIN sizes' = 0 .. (n - 1)
  <2>1. FixedStreams + 1 \in 0 .. MaxStreams /\ (FixedStreams + 1) - 1 = FixedStreams
    BY <1>4
  <2> QED BY <1>5, <2>1
<1>7. DOMAIN sizes' = DOMAIN committed' \cup DOMAIN modified'
  BY <1>1, <1>4, <1>5
<1>8. \A s \in DOMAIN sizes' : sizes'[s] \in Nat \cup {Nil}
  BY <1>1 DEF NewSizes
<1>9. /\ \A s \in DOMAIN committed' : committed'[s] = <<>>
      /\ \A s \in DOMAIN modified' : modified'[s] = <<>>
      /\ <<>> \in Seq(DiskPages)
  BY <1>1, EmptySeq
<1>10. \A s \in DOMAIN Table' : Table'[s] = <<>>
  BY <1>7, <1>9 DEF Table, StreamPages
<1>11. IsPageTable(Table, Busy \ CommitPages) /\ Separate(Table)
  BY <1>1, AllocatorUnchanged DEF commitVars
<1>12. IsPageTable(Table', Busy \ CommitPages) /\ Separate(Table')
  BY <1>10, <1>11, TableShrink
<1> QED BY <1>1, <1>3, <1>6, <1>7, <1>8, <1>9, <1>12, QuietStep DEF Stages

(* new_stream and nil_stream: a stream is added behind the last one.       *)
LEMMA AddStreamStep ==
  ASSUME IInv, NEW size \in Nat \cup {Nil}, AddStream(size) PROVE IInv' /\ Untouched
<1> DEFINE n == NumStreams
<1>1. /\ stage = "idle" /\ stage' = "idle" /\ NumStreams < MaxStreams
      /\ sizes' = [t \in 0 .. n |-> IF t = n THEN size ELSE sizes[t]]
      /\ modified' = [t \in DOMAIN modified \cup {n} |->
                        IF t = n THEN <<>> ELSE modified[t]]
      /\ UNCHANGED <<allocVars, file, activeFpm, committed, commitVars>>
  BY DEF AddStream
<1>2. TypeOK /\ n \in 0 .. MaxStreams /\ MaxStreams \in Nat /\ DOMAIN sizes = 0 .. (n - 1)
  BY StreamNumbers DEF IInv
<1> HIDE DEF n
<1>3. DOMAIN sizes' = DOMAIN sizes \cup {n} /\ n \notin DOMAIN sizes
  BY <1>1, <1>2
<1>4. \E m \in 0 .. MaxStreams : DOMAIN sizes' = 0 .. (m - 1)
  <2>1. n + 1 \in 0 .. MaxStreams /\ (n + 1) - 1 = n
    BY <1>1, <1>2 DEF n
  <2> QED BY <1>1, <2>1
<1>5. DOMAIN sizes' = DOMAIN committed' \cup DOMAIN modified'
  BY <1>1, <1>2, <1>3 DEF TypeOK
<1>6. \A s \in DOMAIN sizes' : sizes'[s] \in Nat \cup {Nil}
  BY <1>1, <1>2, <1>3 DEF TypeOK
<1>7. <<>> \in Seq(DiskPages)
  BY EmptySeq
<1>8. /\ \A s \in DOMAIN committed' : committed'[s] \in Seq(DiskPages)
      /\ \A s \in DOMAIN modified' : modified'[s] \in Seq(DiskPages)
  BY <1>1, <1>2, <1>7 DEF TypeOK
<1>9. \A s \in DOMAIN Table' :
        Table'[s] = <<>> \/ (s \in DOMAIN Table /\ Table'[s] = Table[s])
  <2> SUFFICES ASSUME NEW s \in DOMAIN sizes'
               PROVE  StreamPages(s)' = <<>>
                        \/ (s \in DOMAIN sizes /\ StreamPages(s)' = StreamPages(s))
    BY DEF Table
  <2>1. CASE s = n
    BY <1>1, <2>1 DEF StreamPages
  <2>2. CASE s # n
    BY <1>1, <1>3, <2>2 DEF StreamPages
  <2> QED BY <2>1, <2>2
<1>10. IsPageTable(Table, Busy \ CommitPages) /\ Separate(Table)
  BY <1>1, AllocatorUnchanged DEF commitVars
<1>11. IsPageTable(Table', Busy \ CommitPages) /\ Separate(Table')
  BY <1>9, <1>10, TableShrink
<1>12. CommitProgress'
  BY <1>1, IdleProgress DEF IInv, CommitProgress, commitVars
<1> QED BY <1>1, <1>4, <1>5, <1>6, <1>8, <1>11, <1>12, QuietStep DEF Stages

(* write_stream: a stream is made writable, nil streams come below it.     *)
LEMMA WriteStreamStep ==
  ASSUME IInv, NEW s \in 1 .. (MaxStreams - 1), WriteStream(s) PROVE IInv' /\ Untouched
<1> DEFINE n == NumStreams
           last == IF s < n THEN n - 1 ELSE s
           added == n .. last
<1>1. /\ stage = "idle" /\ stage' = "idle"
      /\ sizes' = [t \in 0 .. last |->
                     CASE t = s /\ (t \in added \/ sizes[t] = Nil) -> 0
                       [] t # s /\ t \in added -> Nil
                       [] OTHER -> sizes[t]]
      /\ modified' = [t \in DOMAIN modified \cup added \cup {s} |->
                        CASE t \in DOMAIN modified -> modified[t]
                          [] t \in added -> <<>>
                          [] OTHER -> committed[t]]
      /\ UNCHANGED <<allocVars, file, activeFpm, committed, commitVars>>
  BY DEF WriteStream
<1>2. /\ TypeOK /\ n \in 0 .. MaxStreams /\ MaxStreams \in Nat
      /\ DOMAIN sizes = 0 .. (n - 1)
  BY StreamNumbers DEF IInv
<1>3. /\ 0 .. last = DOMAIN sizes \cup added /\ DOMAIN sizes \cap added = {}
      /\ s \in 0 .. last /\ last + 1 \in 0 .. MaxStreams /\ (last + 1) - 1 = last
  <2> HIDE DEF n
  <2>1. CASE s < n
    BY <1>2, <2>1
  <2>2. CASE s >= n
    BY <1>2, <2>2
  <2> QED BY <1>2, <2>1, <2>2
<1>4. DOMAIN sizes' = 0 .. last /\ DOMAIN modified' = DOMAIN modified \cup added \cup {s}
  BY <1>1
<1> HIDE DEF n, last, added
<1>5. \E m \in 0 .. MaxStreams : DOMAIN sizes' = 0 .. (m - 1)
  BY <1>3, <1>4
<1>6. DOMAIN sizes' = DOMAIN committed' \cup DOMAIN modified'
  BY <1>1, <1>2, <1>3, <1>4 DEF TypeOK
<1>7. \A t \in DOMAIN sizes' : sizes'[t] \in Nat \cup {Nil}
  <2> SUFFICES ASSUME NEW t \in 0 .. last PROVE sizes'[t] \in Nat \cup {Nil}
    BY <1>4
  <2>1. t \notin added => t \in DOMAIN sizes
    BY <1>3
  <2>2. t \notin added => sizes[t] \in Nat \cup {Nil}
    BY <1>2, <2>1 DEF TypeOK
  <2>3. sizes'[t] = 0 \/ sizes'[t] = Nil \/ (t \notin added /\ sizes'[t] = sizes[t])
    BY <1>1
  <2> QED BY <2>2, <2>3
<1>8. \A t \in DOMAIN modified' :
        \/ t \in DOMAIN modified /\ modified'[t] = modified[t]
        \/ t \notin DOMAIN modified /\ t \in added /\ modified'[t] = <<>>
        \/ t \notin DOMAIN modified /\ t \notin added /\ t \in DOMAIN committed
             /\ modified'[t] = committed[t]
  <2> SUFFICES ASSUME NEW t \in DOMAIN modified \cup added \cup {s}
               PROVE  \/ t \in DOMAIN modified /\ modified'[t] = modified[t]
                      \/ t \notin DOMAIN modified /\ t \in added /\ modified'[t] = <<>>
                      \/ t \notin DOMAIN modified /\ t \notin added
                           /\ t \in DOMAIN committed /\ modified'[t] = committed[t]
    BY <1>4
  <2>1. CASE t \in DOMAIN modified
    <3>1. t \notin added
      BY <1>2, <1>3, <2>1 DEF TypeOK
    <3> QED BY <1>1, <2>1, <3>1
  <2>2. CASE t \notin DOMAIN modified /\ t \in added
    BY <1>1, <2>2
  <2>3. CASE t \notin DOMAIN modified /\ t \notin added
    <3>1. t = s /\ t \in DOMAIN sizes
      BY <1>3, <2>3
    <3>2. t \in DOMAIN committed
      BY <1>2, <2>3, <3>1 DEF TypeOK
    <3> QED BY <1>1, <2>3, <3>2
  <2> QED BY <2>1, <2>2, <2>3
<1>9. <<>> \in Seq(DiskPages)
  BY EmptySeq
<1>10. /\ \A t \in DOMAIN committed' : committed'[t] \in Seq(DiskPages)
       /\ \A t \in DOMAIN modified' : modified'[t] \in Seq(DiskPages)
  BY <1>1, <1>2, <1>8, <1>9 DEF TypeOK
<1>11. \A t \in DOMAIN Table' :
        Table'[t] = <<>> \/ (t \in DOMAIN Table /\ Table'[t] = Table[t])
  <2> SUFFICES ASSUME NEW t \in DOMAIN sizes'
               PROVE  StreamPages(t)' = <<>>
                        \/ (t \in DOMAIN sizes /\ StreamPages(t)' = StreamPages(t))
    BY DEF Table
  <2>1. CASE t \in DOMAIN modified'
    BY <1>2, <1>8, <2>1 DEF StreamPages, TypeOK
  <2>2. CASE t \notin DOMAIN modified'
    <3>1. t \in DOMAIN sizes /\ t \notin DOMAIN modified
      BY <1>3, <1>4, <2>2
    <3> QED BY <1>1, <2>2, <3>1 DEF StreamPages
  <2> QED BY <2>1, <2>2
<1>12. IsPageTable(Table, Busy \ CommitPages) /\ Separate(Table)
  BY <1>1, AllocatorUnchanged DEF commitVars
<1>13. IsPageTable(Table', Busy \ CommitPages) /\ Separate(Table')
  BY <1>11, <1>12, TableShrink
<1>14. CommitProgress'
  BY <1>1, IdleProgress DEF IInv, CommitProgress, commitVars
<1> QED BY <1>1, <1>5, <1>6, <1>7, <1>10, <1>13, <1>14, QuietStep DEF Stages

(* The commit begins; nothing has been written.                            *)
LEMMA BeginCommitStep == ASSUME IInv, BeginCommit PROVE IInv' /\ Untouched
<1>1. /\ stage = "idle" /\ stage' = "dir"
      /\ UNCHANGED <<allocVars, file, activeFpm, streamVars, commitVars>>
  BY DEF BeginCommit
<1>2. dirPages' = <<>> /\ mapPages' = <<>>
  BY <1>1 DEF IInv, CommitProgress, commitVars
<1>3. DOMAIN <<>> = {}
  OBVIOUS
<1>4. CommitProgress'
  BY <1>1, <1>2, <1>3 DEF CommitProgress
<1>5. IsPageTable(Table, Busy \ CommitPages) /\ Separate(Table)
  BY <1>1, AllocatorUnchanged DEF commitVars
<1>6. Table' = Table
  BY <1>1 DEF Table, StreamPages, streamVars
<1> QED BY <1>1, <1>4, <1>5, <1>6, QuietStep
        DEF Stages, CommitStages, IInv, TypeOK, streamVars

(* A write of the commit fails; the editor is given up.                    *)
LEMMA CommitFailsStep == ASSUME IInv, CommitFails PROVE IInv' /\ Untouched
<1>1. /\ stage \in CommitStages /\ stage' = "failed"
      /\ UNCHANGED <<allocVars, file, activeFpm, streamVars, commitVars>>
  BY DEF CommitFails
<1>2. Directory' = Directory /\ \A j : MapChunk(j)' = MapChunk(j)
  BY <1>1 DEF Directory, StreamPages, MapChunk, streamVars, commitVars
<1>3. CommitProgress'
  BY <1>1, <1>2 DEF IInv, CommitProgress, commitVars
<1>4. IsPageTable(Table, Busy \ CommitPages) /\ Separate(Table)
  BY <1>1, AllocatorUnchanged DEF commitVars
<1>5. Table' = Table
  BY <1>1 DEF Table, StreamPages, streamVars
<1> QED BY <1>1, <1>3, <1>4, <1>5, QuietStep
        DEF Stages, CommitStages, IInv, TypeOK, streamVars

(* The allocator forgets everything: nothing is free and nothing is used.  *)
LEMMA CrashStep == ASSUME IInv, Crash PROVE IInv' /\ Untouched
<1>1. /\ stage' = "closed" /\ activeFpm' = 2 /\ interval' = 0
      /\ free' = {} /\ freed' = {} /\ fresh' = {} /\ hint' = 0 /\ numPages' = 3
      /\ sizes' = <<>> /\ committed' = <<>> /\ modified' = <<>>
      /\ dirPages' = <<>> /\ mapPages' = <<>>
      /\ UNCHANGED file
  BY DEF Crash
<1>2. DOMAIN <<>> = {} /\ <<>> \in Seq(DiskPages)
  BY EmptySeq
<1>3. /\ Untouched /\ DiskWellFormed'
      /\ DOMAIN file' = DiskPages
      /\ HasHeader' => Header' \in Headers
      /\ \A p \in DiskPages : "dir" \in DOMAIN file'[p] =>
            \E n \in 0 .. MaxStreams : IsTable(file'[p].dir, n)
  BY <1>1, FileUnchanged
<1>4. CommitProgress' /\ CommitPages' = {}
  BY <1>1, IdleProgress
<1>5. \E n \in 0 .. MaxStreams : DOMAIN sizes' = 0 .. (n - 1)
  <2>1. 0 \in 0 .. MaxStreams /\ 0 .. (0 - 1) = {}
    BY StreamsAssumption
  <2> QED BY <1>1, <1>2, <2>1
<1>6. /\ \A s \in DOMAIN sizes' : sizes'[s] \in Nat \cup {Nil}
      /\ \A s \in DOMAIN committed' : committed'[s] \in Seq(DiskPages)
      /\ \A s \in DOMAIN modified' : modified'[s] \in Seq(DiskPages)
      /\ DOMAIN sizes' = DOMAIN committed' \cup DOMAIN modified'
  BY <1>1, <1>2
<1>7. /\ numPages' \in 3 .. MaxPages /\ hint' \in 0 .. MaxPages
      /\ free' \subseteq DiskPages /\ freed' \subseteq DiskPages
      /\ fresh' \subseteq DiskPages /\ interval' \in Nat
      /\ activeFpm' \in {1, 2} /\ stage' \in Stages
      /\ dirPages' \in Seq(DiskPages) /\ mapPages' \in Seq(DiskPages)
  BY <1>1, <1>2, MaxPagesAssumption DEF Stages
<1>8. TypeOK'
  BY <1>3, <1>5, <1>6, <1>7
     DEF TypeOK, DiskPages, Stages, CommitStages, HasHeader, Header, Headers, IsTable
<1>9. AllocatorConsistent'
  BY <1>1 DEF AllocatorConsistent
<1>10. IsPageTable(Table', {}) /\ Separate(Table')
  <2>1. DOMAIN Table' = {}
    BY <1>1, <1>2 DEF Table
  <2> QED BY <2>1 DEF IsPageTable, Separate
<1>11. PagesOwnedOnce'
  BY <1>4, <1>8, <1>10, OwnedAfter
<1>12. ActiveFpmKnown' /\ StableProtected'
  BY <1>1 DEF ActiveFpmKnown, StableProtected
<1> QED BY <1>3, <1>4, <1>8, <1>9, <1>11, <1>12 DEF IInv

-----------------------------------------------------------------------------
(* The page list of a stream that is being written.                        *)
LEMMA WritableStream ==
  ASSUME IInv, NEW s, Writable(s)
  PROVE  /\ stage = "idle" /\ s \in DOMAIN modified /\ s \in DOMAIN sizes
         /\ sizes[s] \in Nat /\ Table[s] = modified[s]
         /\ modified[s] \in Seq(DiskPages) /\ Len(modified[s]) \in Nat
         /\ DOMAIN modified[s] = 1 .. Len(modified[s])
         /\ \A i \in 1 .. Len(modified[s]) :
              /\ modified[s][i] \in Busy /\ modified[s][i] \in DiskPages
              /\ modified[s][i] # 0 /\ ~IsSpecialPage(modified[s][i])
         /\ dirPages = <<>> /\ mapPages = <<>> /\ CommitPages = {}
         /\ IsPageTable(Table, Busy) /\ Separate(Table)
<1>1. stage = "idle" /\ s \in DOMAIN modified /\ sizes[s] # Nil
  BY DEF Writable
<1>2. TypeOK /\ OwnedInTable
  BY OwnedOnceTable DEF IInv
<1>3. /\ s \in DOMAIN sizes /\ sizes[s] \in Nat
      /\ modified[s] \in Seq(DiskPages)
  BY <1>1, <1>2 DEF TypeOK
<1>4. Table[s] = modified[s]
  BY <1>1, <1>3 DEF Table, StreamPages
<1>5. Len(modified[s]) \in Nat /\ DOMAIN modified[s] = 1 .. Len(modified[s])
  BY <1>3, LenProperties
<1>6. dirPages = <<>> /\ mapPages = <<>>
  BY <1>1 DEF IInv, CommitProgress
<1>7. CommitPages = {}
  <2>1. DOMAIN <<>> = {}
    OBVIOUS
  <2> QED BY <1>6, <2>1 DEF CommitPages, Range
<1>8. IsPageTable(Table, Busy) /\ Separate(Table)
  BY <1>2, <1>7 DEF OwnedInTable
<1>9. modified[s] \in Seq(Busy)
  BY <1>3, <1>4, <1>8, TableTyped, <1>2 DEF IsPageTable
<1>10. \A i \in 1 .. Len(modified[s]) :
         /\ modified[s][i] \in Busy /\ modified[s][i] \in DiskPages
         /\ modified[s][i] # 0 /\ ~IsSpecialPage(modified[s][i])
  BY <1>3, <1>9, ElementOfSeq DEF Busy, IsSpecialPage
<1> QED BY <1>1, <1>3, <1>4, <1>5, <1>6, <1>7, <1>8, <1>10

(* A fresh page, which no commit has reached, is overwritten in place.     *)
LEMMA OverwriteFreshPageStep ==
  ASSUME IInv, NEW s \in DOMAIN modified, NEW i \in 1 .. MaxStreamPages, NEW d,
         OverwriteFreshPage(s, i, d)
  PROVE  IInv' /\ Untouched
<1> DEFINE x == modified[s][i]
<1>1. /\ Writable(s) /\ i <= Len(modified[s]) /\ x \in fresh
      /\ file' = [file EXCEPT ![x] = [data |-> d]]
      /\ UNCHANGED <<allocVars, stage, activeFpm, streamVars, commitVars>>
  BY DEF OverwriteFreshPage
<1>2. /\ stage = "idle" /\ Len(modified[s]) \in Nat
      /\ dirPages = <<>> /\ mapPages = <<>> /\ CommitPages = {}
      /\ IsPageTable(Table, Busy) /\ Separate(Table)
  BY <1>1, WritableStream
<1>3. i \in 1 .. Len(modified[s])
  BY <1>1, <1>2, StreamsAssumption
<1>4. x # 0 /\ ~IsSpecialPage(x)
  BY <1>1, <1>3, WritableStream
<1>5. HasHeader => x \notin Reachable
  <2> SUFFICES ASSUME HasHeader, x \in Reachable PROVE FALSE
    OBVIOUS
  <2>1. TypeOK /\ DiskWellFormed /\ Header.activeFpm \in {1, 2}
    BY DEF IInv, TypeOK, Headers
  <2>2. x \notin StablePages
    BY <1>1, <1>2 DEF IInv, StableProtected
  <2>3. PICK j \in Nat : x = FpmPage(j, Header.activeFpm)
    BY <1>4, <2>1, <2>2, ReachableOnDisk
  <2> QED BY <1>4, <2>1, <2>3, FpmPagesDiffer
<1>6. "dir" \notin DOMAIN [data |-> d]
  OBVIOUS
<1> HIDE DEF x
<1>7. /\ Untouched /\ DiskWellFormed'
      /\ HasHeader' = HasHeader /\ Header' = Header
      /\ HasHeader => StablePages' = StablePages
      /\ DOMAIN file' = DiskPages
      /\ HasHeader' => Header' \in Headers
      /\ \A p \in DiskPages : "dir" \in DOMAIN file'[p] =>
            \E n \in 0 .. MaxStreams : IsTable(file'[p].dir, n)
  BY <1>1, <1>4, <1>5, <1>6, WriteOnePage
<1>8. TypeOK'
  BY <1>1, <1>7 DEF IInv, TypeOK, allocVars, commitVars, streamVars
<1>9. AllocatorConsistent' /\ Busy' = Busy /\ CommitPages' = CommitPages
  BY <1>1, AllocatorUnchanged DEF commitVars
<1>10. Table' = Table
  BY <1>1 DEF Table, StreamPages, streamVars
<1>11. PagesOwnedOnce'
  BY <1>2, <1>8, <1>9, <1>10, OwnedAfter
<1>12. ActiveFpmKnown' /\ StableProtected'
  BY <1>1, <1>7 DEF IInv, ActiveFpmKnown, StableProtected, allocVars
<1>13. CommitProgress'
  BY <1>1, <1>2, IdleProgress DEF commitVars
<1> QED BY <1>7, <1>8, <1>9, <1>11, <1>12, <1>13 DEF IInv

(* What CowPage and AppendRun have in common: pages are allocated while the *)
(* editor is idle, and the table comes to stand on S.                      *)
LEMMA EditAllocStep ==
  ASSUME IInv, stage = "idle",
         NEW n \in Nat \ {0}, NEW p \in DiskPages, NEW k \in DiskPages,
         AllocPages(n, p, k),
         NEW gone, freed' = freed \cup gone, gone \subseteq Busy,
         UNCHANGED <<stage, activeFpm, committed, commitVars>>,
         DOMAIN file' = DiskPages,
         \A q \in DiskPages : q \notin Pages(p, k) => file'[q] = file[q],
         \A q \in Pages(p, k) : file'[q] = file[q] \/ "dir" \notin DOMAIN file'[q],
         DOMAIN sizes' = DOMAIN sizes, DOMAIN modified' = DOMAIN modified,
         \A t \in DOMAIN sizes : sizes'[t] \in Nat \cup {Nil},
         NEW S, S \subseteq (Busy \ gone) \cup Pages(p, k),
         IsPageTable(Table', S), Separate(Table')
  PROVE  IInv' /\ Untouched
<1>1. /\ AllocatorConsistent'
      /\ free' \subseteq DiskPages /\ freed' \subseteq DiskPages
      /\ fresh' \subseteq DiskPages
      /\ numPages' \in 3 .. MaxPages /\ hint' \in 0 .. MaxPages
      /\ Pages(p, k) \subseteq Busy' /\ Pages(p, k) \subseteq DiskPages
      /\ Busy \ gone \subseteq Busy'
      /\ HasHeader' => Header' \in Headers
      /\ DiskWellFormed' /\ ActiveFpmKnown' /\ StableProtected'
      /\ Untouched
  BY AllocStep
<1>2. TypeOK
  BY DEF IInv
<1>3. S \subseteq Busy' /\ S \subseteq DiskPages
  <2>1. S \subseteq Busy'
    BY <1>1
  <2>2. Busy \subseteq DiskPages
    BY <1>2, TypeBasics DEF Busy
  <2> QED BY <1>1, <2>1, <2>2
<1>4. \A t \in DOMAIN modified' : modified'[t] \in Seq(DiskPages)
  <2> SUFFICES ASSUME NEW t \in DOMAIN modified' PROVE modified'[t] \in Seq(DiskPages)
    OBVIOUS
  <2>1. t \in DOMAIN sizes'
    BY <1>2 DEF TypeOK
  <2>2. Table'[t] = modified'[t] /\ t \in DOMAIN Table'
    BY <2>1 DEF Table, StreamPages
  <2>3. modified'[t] \in Seq(S)
    BY <2>2 DEF IsPageTable
  <2> QED BY <1>3, <2>3, SeqMonotonic
<1>5. \A q \in DiskPages : "dir" \in DOMAIN file'[q] =>
        \E m \in 0 .. MaxStreams : IsTable(file'[q].dir, m)
  <2> SUFFICES ASSUME NEW q \in DiskPages, "dir" \in DOMAIN file'[q]
               PROVE  \E m \in 0 .. MaxStreams : IsTable(file'[q].dir, m)
    OBVIOUS
  <2>1. file'[q] = file[q]
    OBVIOUS
  <2> QED BY <1>2, <2>1 DEF TypeOK
<1>6. TypeOK'
  BY <1>1, <1>2, <1>4, <1>5 DEF TypeOK, commitVars
<1>7. dirPages' = <<>> /\ mapPages' = <<>>
  BY DEF IInv, CommitProgress, commitVars
<1>8. CommitProgress' /\ CommitPages' = {}
  BY <1>7, IdleProgress
<1>9. PagesOwnedOnce'
  BY <1>3, <1>6, <1>8, OwnedAfter
<1> QED BY <1>1, <1>6, <1>8, <1>9 DEF IInv

(* A page of the last commit is replaced by a fresh one.                   *)
LEMMA CowPageStep ==
  ASSUME IInv, NEW s \in DOMAIN modified, NEW i \in 1 .. MaxStreamPages, NEW d,
         NEW written \in BOOLEAN, CowPage(s, i, d, written)
  PROVE  IInv' /\ Untouched
<1> DEFINE old == modified[s][i]
<1>1. PICK p \in DiskPages :
        /\ AllocPages(1, p, 1) /\ freed' = freed \cup {old}
        /\ modified' = [modified EXCEPT ![s][i] = p]
        /\ file' = IF written THEN [file EXCEPT ![p] = [data |-> d]] ELSE file
  BY DEF CowPage, ReplacePage
<1>2. /\ Writable(s) /\ i <= Len(modified[s])
      /\ UNCHANGED <<stage, activeFpm, sizes, committed, commitVars>>
  BY DEF CowPage
<1>3. /\ stage = "idle" /\ s \in DOMAIN sizes /\ Table[s] = modified[s]
      /\ Len(modified[s]) \in Nat /\ DOMAIN modified[s] = 1 .. Len(modified[s])
      /\ IsPageTable(Table, Busy) /\ Separate(Table)
  BY <1>2, WritableStream
<1>4. i \in 1 .. Len(modified[s])
  BY <1>2, <1>3, StreamsAssumption
<1>5. old \in Busy
  BY <1>2, <1>4, WritableStream
<1>6. /\ TypeOK /\ AllocatorTyped /\ AllocatorConsistent /\ 1 \in DiskPages /\ 1 \in Nat
      /\ p \in Nat /\ Pages(p, 1) = {p} /\ 1 \in Nat \ {0}
  <2>1. TypeOK /\ AllocatorConsistent
    BY DEF IInv
  <2>2. AllocatorTyped /\ DiskPages \subseteq Nat
    BY <2>1, TypeBasics
  <2>3. 1 \in DiskPages
    BY MaxPagesAssumption DEF DiskPages
  <2> QED BY <2>1, <2>2, <2>3 DEF Pages
<1>7. p \notin Busy
  <2>1. p \in free \/ p >= numPages
    BY <1>1, <1>6, AllocPagesEffect
  <2> QED BY <1>6, <2>1, TypeBasics DEF Busy
<1>8. DOMAIN file = DiskPages
  BY <1>6 DEF TypeOK
<1>9. /\ DOMAIN file' = DiskPages
      /\ \A q \in DiskPages : q \notin Pages(p, 1) => file'[q] = file[q]
      /\ \A q \in Pages(p, 1) : file'[q] = file[q] \/ "dir" \notin DOMAIN file'[q]
  <2>1. CASE written
    BY <1>1, <1>6, <1>8, <2>1
  <2>2. CASE ~written
    BY <1>1, <1>8, <2>2
  <2> QED BY <2>1, <2>2
<1>10. /\ DOMAIN modified' = DOMAIN modified
       /\ modified'[s] = [modified[s] EXCEPT ![i] = p]
       /\ \A t \in DOMAIN modified : t # s => modified'[t] = modified[t]
  BY <1>1
<1>11. /\ DOMAIN Table' = DOMAIN Table /\ s \in DOMAIN Table
       /\ Table'[s] = [Table[s] EXCEPT ![i] = p]
       /\ \A t \in DOMAIN Table : t # s => Table'[t] = Table[t]
  BY <1>2, <1>3, <1>10 DEF Table, StreamPages
<1>12. IsPageTable(Table', (Busy \ {Table[s][i]}) \cup {p}) /\ Separate(Table')
  <2>1. i \in 1 .. Len(Table[s])
    BY <1>3, <1>4
  <2> HIDE DEF old
  <2> QED BY <1>3, <1>7, <1>11, <2>1, TableReplace
<1>13. IsPageTable(Table', (Busy \ {old}) \cup Pages(p, 1))
  BY <1>3, <1>6, <1>12
<1>14. \A t \in DOMAIN sizes : sizes'[t] \in Nat \cup {Nil}
  BY <1>2, <1>6 DEF TypeOK
<1> DEFINE gone == {old}
           S == (Busy \ gone) \cup Pages(p, 1)
<1>15. gone \subseteq Busy /\ freed' = freed \cup gone /\ DOMAIN sizes' = DOMAIN sizes
  BY <1>1, <1>2, <1>5
<1>16. S \subseteq (Busy \ gone) \cup Pages(p, 1) /\ IsPageTable(Table', S)
  BY <1>13
<1> DEFINE n == 1
<1>17. /\ n \in Nat \ {0} /\ n \in DiskPages /\ AllocPages(n, p, n)
       /\ S \subseteq (Busy \ gone) \cup Pages(p, n)
       /\ \A q \in DiskPages : q \notin Pages(p, n) => file'[q] = file[q]
       /\ \A q \in Pages(p, n) : file'[q] = file[q] \/ "dir" \notin DOMAIN file'[q]
  BY <1>1, <1>6, <1>9, <1>16
<1>18. UNCHANGED <<stage, activeFpm, committed, commitVars>>
  BY <1>2
<1> HIDE DEF old, gone, S, n
<1> QED BY <1>3, <1>9, <1>10, <1>12, <1>14, <1>15, <1>16, <1>17, <1>18, EditAllocStep

(* A run of fresh pages goes to the end of a stream.                       *)
LEMMA AppendRunStep ==
  ASSUME IInv, NEW s \in DOMAIN modified, NEW n \in 1 .. MaxStreamPages, NEW d,
         NEW counted \in BOOLEAN, NEW written \in BOOLEAN,
         AppendRun(s, n, d, counted, written)
  PROVE  IInv' /\ Untouched
<1>1. PICK p \in DiskPages, k \in DiskPages :
        /\ AllocPages(n, p, k)
        /\ modified' = [modified EXCEPT ![s] = @ \o [i \in 1 .. k |-> p + i - 1]]
        /\ sizes' = IF counted THEN [sizes EXCEPT ![s] = @ + k] ELSE sizes
        /\ file' = [q \in DiskPages |->
                      IF written /\ q \in Pages(p, k) THEN [data |-> d] ELSE file[q]]
  BY DEF AppendRun
<1>2. Writable(s) /\ UNCHANGED <<freed, stage, activeFpm, committed, commitVars>>
  BY DEF AppendRun
<1>3. /\ stage = "idle" /\ s \in DOMAIN sizes /\ Table[s] = modified[s]
      /\ sizes[s] \in Nat
      /\ IsPageTable(Table, Busy) /\ Separate(Table)
  BY <1>2, WritableStream
<1>4. /\ TypeOK /\ AllocatorTyped /\ AllocatorConsistent
      /\ p \in Nat /\ k \in Nat /\ n \in Nat \ {0} /\ numPages \in Nat
  <2>1. TypeOK /\ AllocatorConsistent
    BY DEF IInv
  <2>2. AllocatorTyped /\ DiskPages \subseteq Nat /\ numPages \in Nat
    BY <2>1, TypeBasics
  <2> QED BY <2>1, <2>2, StreamsAssumption
<1>5. Pages(p, k) \cap Busy = {}
  <2>1. \A q \in Pages(p, k) : q \in free \/ q >= numPages
    BY <1>1, <1>4, AllocPagesEffect
  <2> QED BY <1>4, <2>1 DEF Busy
<1>6. Pages(p, k) \subseteq DiskPages
  <2>1. \A q \in Pages(p, k) : q \in Nat /\ q < numPages'
    BY <1>1, <1>4, AllocPagesEffect
  <2>2. numPages' \in numPages .. MaxPages
    BY <1>1, <1>4, AllocPagesEffect
  <2>3. MaxPages \in Nat
    BY MaxPagesAssumption
  <2> QED BY <1>4, <2>1, <2>2, <2>3 DEF DiskPages
<1>7. /\ DOMAIN file' = DiskPages
      /\ \A q \in DiskPages : q \notin Pages(p, k) => file'[q] = file[q]
      /\ \A q \in Pages(p, k) : file'[q] = file[q] \/ "dir" \notin DOMAIN file'[q]
  BY <1>1, <1>6
<1>8. /\ DOMAIN modified' = DOMAIN modified
      /\ modified'[s] = modified[s] \o [i \in 1 .. k |-> p + i - 1]
      /\ \A t \in DOMAIN modified : t # s => modified'[t] = modified[t]
  BY <1>1
<1>9. /\ DOMAIN sizes' = DOMAIN sizes
      /\ \A t \in DOMAIN sizes : sizes'[t] \in Nat \cup {Nil}
  <2>1. \A t \in DOMAIN sizes : sizes[t] \in Nat \cup {Nil}
    BY <1>4 DEF TypeOK
  <2>2. CASE counted
    <3>1. sizes' = [sizes EXCEPT ![s] = sizes[s] + k]
      BY <1>1, <2>2
    <3>2. sizes[s] + k \in Nat
      BY <1>3, <1>4
    <3> QED BY <2>1, <3>1, <3>2
  <2>3. CASE ~counted
    BY <1>1, <2>1, <2>3
  <2> QED BY <2>2, <2>3
<1>10. /\ DOMAIN Table' = DOMAIN Table /\ s \in DOMAIN Table
       /\ Table'[s] = Table[s] \o [i \in 1 .. k |-> p + i - 1]
       /\ \A t \in DOMAIN Table : t # s => Table'[t] = Table[t]
  BY <1>2, <1>3, <1>8, <1>9 DEF Table, StreamPages
<1> DEFINE S == Busy \cup Pages(p, k)
           gone == {}
<1>11. IsPageTable(Table', S) /\ Separate(Table')
  <2>1. s \in DOMAIN Table /\ p \in Nat /\ k \in Nat /\ Pages(p, k) \cap Busy = {}
        /\ IsPageTable(Table, Busy) /\ Separate(Table)
    BY <1>3, <1>4, <1>5, <1>10
  <2> HIDE DEF S, gone
  <2>2. IsPageTable(Table', Busy \cup Pages(p, k)) /\ Separate(Table')
    BY ONLY <2>1, <1>10, TableAppend
  <2> QED BY <2>2 DEF S
<1>12. /\ S \subseteq (Busy \ gone) \cup Pages(p, k)
       /\ gone \subseteq Busy /\ freed' = freed \cup gone
  BY <1>2
<1>13. UNCHANGED <<stage, activeFpm, committed, commitVars>>
  BY <1>2
<1> HIDE DEF S, gone
<1> QED BY <1>1, <1>3, <1>4, <1>7, <1>8, <1>9, <1>11, <1>12, <1>13, EditAllocStep

(* The pages a stream gives up were in use, and are marked freed.          *)
LEMMA TruncateStep ==
  ASSUME IInv, NEW s \in DOMAIN modified, NEW n \in 0 .. (MaxStreamPages - 1),
         Truncate(s, n)
  PROVE  IInv' /\ Untouched
<1> DEFINE gone == {modified[s][i] : i \in (n + 1) .. sizes[s]}
<1>1. /\ Writable(s) /\ n \in 0 .. (sizes[s] - 1) /\ sizes[s] <= Len(modified[s])
      /\ freed' = freed \cup gone
      /\ modified' = [modified EXCEPT ![s] = SubSeq(modified[s], 1, n)]
      /\ sizes' = [sizes EXCEPT ![s] = n]
      /\ UNCHANGED <<free, fresh, hint, numPages, file, stage, activeFpm,
                     committed, commitVars>>
  BY DEF Truncate
<1>2. /\ stage = "idle" /\ s \in DOMAIN sizes /\ Table[s] = modified[s]
      /\ sizes[s] \in Nat /\ Len(modified[s]) \in Nat
      /\ modified[s] \in Seq(DiskPages)
      /\ dirPages = <<>> /\ mapPages = <<>>
      /\ IsPageTable(Table, Busy) /\ Separate(Table)
  BY <1>1, WritableStream
<1>3. TypeOK /\ AllocatorConsistent /\ n \in Nat
  BY DEF IInv
<1>4. gone \subseteq Busy
  <2> SUFFICES ASSUME NEW i \in (n + 1) .. sizes[s] PROVE modified[s][i] \in Busy
    OBVIOUS
  <2>1. i \in 1 .. Len(modified[s])
    BY <1>1, <1>2, <1>3
  <2> QED BY <1>1, <2>1, WritableStream
<1>5. /\ DOMAIN Table' = DOMAIN Table /\ s \in DOMAIN Table
      /\ Table'[s] = SubSeq(Table[s], 1, n)
      /\ \A t \in DOMAIN Table : t # s => Table'[t] = Table[t]
  BY <1>1, <1>2 DEF Table, StreamPages
<1>6. n <= Len(Table[s])
  BY <1>1, <1>2, <1>3
<1>7. /\ IsPageTable(Table', Busy \ {Table[s][i] : i \in (n + 1) .. Len(Table[s])})
      /\ Separate(Table')
  BY <1>2, <1>3, <1>5, <1>6, TableTruncate
<1>8. IsPageTable(Table', Busy \ gone)
  <2>1. (n + 1) .. sizes[s] \subseteq (n + 1) .. Len(Table[s])
    BY <1>1, <1>2, <1>3
  <2>2. Busy \ {Table[s][i] : i \in (n + 1) .. Len(Table[s])} \subseteq Busy \ gone
    BY <1>2, <2>1
  <2> QED BY <1>7, <2>2, PageTableMonotonic
<1>9. Busy' = Busy \ gone
  <2> HIDE DEF gone
  <2> QED BY <1>1 DEF Busy, IsSpecialPage, IsFpmPage, Phase
<1>10. /\ gone \subseteq DiskPages
       /\ \A p \in gone : p \notin free /\ p < numPages /\ ~IsSpecialPage(p)
  <2> HIDE DEF gone
  <2>1. \A p \in 0 .. (numPages - 1) : p \in DiskPages /\ p < numPages
    BY <1>3, TypeBasics
  <2> QED BY <1>4, <2>1 DEF Busy
<1>11. \A t \in DOMAIN modified' : modified'[t] \in Seq(DiskPages)
  <2>1. \A i \in 1 .. n : modified[s][i] \in DiskPages
    BY <1>2, <1>3, <1>6, ElementOfSeq
  <2>2. SubSeq(modified[s], 1, n) \in Seq(DiskPages)
    BY <1>3, <2>1, SubSeqProperties
  <2> QED BY <1>1, <1>3, <2>2 DEF TypeOK
<1> HIDE DEF gone
<1>12. /\ Untouched /\ DiskWellFormed'
       /\ HasHeader' = HasHeader /\ Header' = Header
       /\ HasHeader => StablePages' = StablePages
       /\ DOMAIN file' = DiskPages
       /\ HasHeader' => Header' \in Headers
       /\ \A p \in DiskPages : "dir" \in DOMAIN file'[p] =>
             \E m \in 0 .. MaxStreams : IsTable(file'[p].dir, m)
  BY <1>1, FileUnchanged
<1>13. /\ DOMAIN sizes' = DOMAIN sizes /\ DOMAIN modified' = DOMAIN modified
       /\ \A t \in DOMAIN sizes' : sizes'[t] \in Nat \cup {Nil}
  BY <1>1, <1>3 DEF TypeOK
<1>14. TypeOK'
  BY <1>1, <1>3, <1>10, <1>11, <1>12, <1>13 DEF TypeOK, commitVars
<1>15. AllocatorConsistent'
  BY <1>1, <1>3, <1>10 DEF AllocatorConsistent, IsSpecialPage, IsFpmPage, Phase
<1>16. CommitProgress' /\ CommitPages' = {}
  BY <1>1, <1>2, IdleProgress DEF commitVars
<1>17. PagesOwnedOnce'
  BY <1>7, <1>8, <1>9, <1>14, <1>16, OwnedAfter
<1>18. ActiveFpmKnown' /\ StableProtected'
  BY <1>1, <1>12 DEF IInv, ActiveFpmKnown, StableProtected
<1> QED BY <1>12, <1>14, <1>15, <1>16, <1>17, <1>18 DEF IInv

-----------------------------------------------------------------------------
(* The freed pages become free: neither set was in use.                    *)
LEMMA MergeFreedStep == ASSUME IInv, MergeFreed PROVE IInv' /\ Untouched
<1>1. /\ stage = "merge" /\ stage' = "fpm"
      /\ free' = free \cup freed /\ freed' = {}
      /\ UNCHANGED <<fresh, hint, numPages, file, activeFpm, streamVars, commitVars>>
  BY DEF MergeFreed, MergeFreedIntoFree
<1>2. /\ Untouched /\ DiskWellFormed'
      /\ HasHeader' = HasHeader /\ Header' = Header
      /\ DOMAIN file' = DiskPages
      /\ HasHeader' => Header' \in Headers
      /\ \A p \in DiskPages : "dir" \in DOMAIN file'[p] =>
            \E m \in 0 .. MaxStreams : IsTable(file'[p].dir, m)
  BY <1>1, FileUnchanged
<1>3. TypeOK'
  BY <1>1, <1>2 DEF IInv, TypeOK, Stages, CommitStages, streamVars, commitVars
<1>4. AllocatorConsistent'
  BY <1>1 DEF IInv, AllocatorConsistent, IsSpecialPage, IsFpmPage, Phase
<1>5. Busy' = Busy
  BY <1>1 DEF Busy, IsSpecialPage, IsFpmPage, Phase
<1>6. CommitPages' = CommitPages /\ Table' = Table
  BY <1>1 DEF CommitPages, Range, Table, StreamPages, streamVars, commitVars
<1>7. OwnedInTable
  BY OwnedOnceTable DEF IInv
<1>8. PagesOwnedOnce'
  BY <1>3, <1>5, <1>6, <1>7, OwnedAfter DEF OwnedInTable
<1>9. Directory' = Directory /\ \A j : MapChunk(j)' = MapChunk(j)
  BY <1>1 DEF Directory, StreamPages, MapChunk, streamVars, commitVars
<1>10. CommitProgress'
  BY <1>1, <1>9 DEF IInv, CommitProgress, NumMapPages, CeilDiv, commitVars
<1>11. ActiveFpmKnown' /\ StableProtected'
  BY <1>1, <1>2 DEF IInv, ActiveFpmKnown, StableProtected
<1> QED BY <1>2, <1>3, <1>4, <1>8, <1>10, <1>11 DEF IInv

(* A page of the FPM that is not active is written.                        *)
LEMMA WriteFpmPageStep == ASSUME IInv, WriteFpmPage PROVE IInv' /\ Untouched
<1> DEFINE x == FpmPage(interval, NewFpm)
           v == [fpm |-> {p \in free : p \div BitsPerFpmPage = interval}]
<1>1. /\ stage = "fpm" /\ stage' \in {"fpm", "header"}
      /\ file' = [file EXCEPT ![x] = v]
      /\ interval' = interval + 1
      /\ UNCHANGED <<allocVars, activeFpm, streamVars, dirPages, mapPages>>
  BY DEF WriteFpmPage
<1>2. TypeOK /\ interval \in Nat /\ activeFpm \in {1, 2} /\ NewFpm \in {1, 2}
      /\ NewFpm # activeFpm
  <2>1. TypeOK /\ interval \in Nat /\ activeFpm \in {1, 2}
    BY DEF IInv, TypeOK
  <2> QED BY <2>1 DEF NewFpm
<1>3. x # 0 /\ IsSpecialPage(x) /\ x \in Nat
  BY <1>2, FpmPagesDiffer
<1>4. HasHeader => x \notin Reachable
  <2> SUFFICES ASSUME HasHeader, x \in Reachable PROVE FALSE
    OBVIOUS
  <2>1. TypeOK /\ DiskWellFormed /\ Header.activeFpm = activeFpm
    BY <1>1 DEF IInv, ActiveFpmKnown
  <2>2. x \notin StablePages
    BY <1>3, <2>1 DEF DiskWellFormed
  <2>3. PICK j \in Nat : x = FpmPage(j, activeFpm)
    BY <1>3, <2>1, <2>2, ReachableOnDisk
  <2> QED BY <1>2, <2>3, FpmPagesDiffer
<1>5. "dir" \notin DOMAIN v
  OBVIOUS
<1> HIDE DEF x, v
<1>6. /\ Untouched /\ DiskWellFormed'
      /\ HasHeader' = HasHeader /\ Header' = Header
      /\ DOMAIN file' = DiskPages
      /\ HasHeader' => Header' \in Headers
      /\ \A p \in DiskPages : "dir" \in DOMAIN file'[p] =>
            \E n \in 0 .. MaxStreams : IsTable(file'[p].dir, n)
  BY <1>1, <1>3, <1>4, <1>5, WriteOnePage
<1>7. TypeOK'
  <2>1. interval' \in Nat /\ stage' \in Stages
    BY <1>1, <1>2 DEF Stages, CommitStages
  <2> QED BY <1>1, <1>2, <1>6, <2>1 DEF TypeOK, allocVars, streamVars
<1>8. AllocatorConsistent' /\ Busy' = Busy /\ CommitPages' = CommitPages
      /\ CommitPages \subseteq Busy
  BY <1>1, AllocatorUnchanged
<1>9. Table' = Table
  BY <1>1 DEF Table, StreamPages, streamVars
<1>10. OwnedInTable
  BY OwnedOnceTable DEF IInv
<1>11. PagesOwnedOnce'
  BY <1>7, <1>8, <1>9, <1>10, OwnedAfter DEF OwnedInTable
<1>12. Directory' = Directory /\ \A j : MapChunk(j)' = MapChunk(j)
  BY <1>1 DEF Directory, StreamPages, MapChunk, streamVars
<1>13. \A p \in CommitPages : p # x /\ file'[p] = file[p]
  <2> SUFFICES ASSUME NEW p \in CommitPages PROVE p # x /\ file'[p] = file[p]
    OBVIOUS
  <2>1. p \in Busy
    BY <1>8
  <2>2. p # x /\ p \in DiskPages
    BY <1>2, <1>3, <2>1, TypeBasics DEF Busy
  <2> QED BY <1>1, <1>2, <2>2 DEF TypeOK
<1>14. CommitProgress'
  <2>1. /\ \A i \in DOMAIN dirPages : file'[dirPages[i]] = file[dirPages[i]]
        /\ \A j \in DOMAIN mapPages : file'[mapPages[j]] = file[mapPages[j]]
    BY <1>2, <1>13, CommitPagesTyped
  <2> QED BY <1>1, <1>12, <2>1 DEF IInv, CommitProgress, NumMapPages, CeilDiv
<1>15. ActiveFpmKnown' /\ StableProtected'
  BY <1>1, <1>6 DEF IInv, ActiveFpmKnown, StableProtected
<1> QED BY <1>6, <1>7, <1>8, <1>11, <1>14, <1>15 DEF IInv

-----------------------------------------------------------------------------
(***************************************************************************)
(* A page of the directory or of its map is allocated and written: what    *)
(* the two steps have in common.                                           *)
(***************************************************************************)
LEMMA CommitAllocStep ==
  ASSUME IInv, stage \in {"dir", "map"}, stage' \in {"dir", "map", "merge"},
         NEW p \in DiskPages, AllocPages(1, p, 1),
         NEW v, file' = [file EXCEPT ![p] = v],
         "dir" \in DOMAIN v => \E n \in 0 .. MaxStreams : IsTable(v.dir, n),
         UNCHANGED <<freed, activeFpm, streamVars, interval>>,
         dirPages' \in Seq(DiskPages), mapPages' \in Seq(DiskPages),
         CommitPages' = CommitPages \cup {p}
  PROVE  /\ TypeOK' /\ AllocatorConsistent' /\ PagesOwnedOnce'
         /\ DiskWellFormed' /\ ActiveFpmKnown' /\ StableProtected' /\ Untouched
         /\ file'[p] = v
         /\ \A q \in CommitPages : file'[q] = file[q]
<1> DEFINE n == 1
           gone == {}
<1>1. TypeOK /\ DOMAIN file = DiskPages
  BY DEF IInv, TypeOK
<1>2. /\ n \in Nat \ {0} /\ n \in DiskPages /\ AllocPages(n, p, n)
      /\ p \in Pages(p, n) /\ \A q \in Pages(p, n) : q = p
  <2>1. 1 \in DiskPages /\ p \in Nat
    BY <1>1, TypeBasics, MaxPagesAssumption DEF DiskPages
  <2> QED BY <2>1 DEF Pages
<1>3. gone \subseteq Busy /\ freed' = freed \cup gone
  OBVIOUS
<1>4. /\ DOMAIN file' = DiskPages /\ file'[p] = v
      /\ \A q \in DiskPages : q # p => file'[q] = file[q]
  BY <1>1
<1>5. \A q \in DiskPages : q \notin Pages(p, n) => file'[q] = file[q]
  BY <1>2, <1>4
<1>6. /\ n \in Nat \ {0} /\ n \in DiskPages /\ AllocPages(n, p, n)
      /\ UNCHANGED activeFpm /\ stage' # "closed" /\ stage \in {"idle", "dir", "map"}
      /\ DOMAIN file' = DiskPages
  BY <1>2, <1>4
<1> HIDE DEF n, gone
<1>7. /\ AllocatorConsistent'
      /\ free' \subseteq DiskPages /\ freed' \subseteq DiskPages
      /\ fresh' \subseteq DiskPages
      /\ numPages' \in 3 .. MaxPages /\ hint' \in 0 .. MaxPages
      /\ Pages(p, n) \subseteq Busy' /\ Pages(p, n) \cap Busy = {}
      /\ Busy \ gone \subseteq Busy'
      /\ HasHeader' => Header' \in Headers
      /\ DiskWellFormed' /\ ActiveFpmKnown' /\ StableProtected'
      /\ Untouched
  BY ONLY IInv, <1>3, <1>5, <1>6, AllocStep
<1>8. p \in Busy' /\ p \notin Busy /\ Busy \subseteq Busy'
  BY <1>2, <1>7 DEF gone
<1>9. \A q \in DiskPages : "dir" \in DOMAIN file'[q] =>
        \E m \in 0 .. MaxStreams : IsTable(file'[q].dir, m)
  <2> SUFFICES ASSUME NEW q \in DiskPages, "dir" \in DOMAIN file'[q]
               PROVE  \E m \in 0 .. MaxStreams : IsTable(file'[q].dir, m)
    OBVIOUS
  <2>1. CASE q = p
    BY <1>4, <2>1
  <2>2. CASE q # p
    BY <1>1, <1>4, <2>2 DEF TypeOK
  <2> QED BY <2>1, <2>2
<1>10. stage' \in Stages
  BY DEF Stages, CommitStages
<1>11. TypeOK'
  BY <1>1, <1>4, <1>7, <1>9, <1>10 DEF TypeOK, streamVars
<1>12. OwnedInTable
  BY OwnedOnceTable DEF IInv
<1>13. Table' = Table
  BY DEF Table, StreamPages, streamVars
<1> DEFINE S == Busy \ CommitPages
<1>14. /\ S \subseteq Busy' /\ S \cap CommitPages' = {} /\ CommitPages' \subseteq Busy'
       /\ IsPageTable(Table', S) /\ Separate(Table')
  BY <1>8, <1>12, <1>13 DEF OwnedInTable
<1> HIDE DEF S
<1>15. PagesOwnedOnce'
  BY <1>11, <1>14, OwnedAfter
<1>16. \A q \in CommitPages : file'[q] = file[q]
  <2> SUFFICES ASSUME NEW q \in CommitPages PROVE file'[q] = file[q]
    OBVIOUS
  <2>1. q \in Busy /\ q # p
    BY <1>8, <1>12 DEF OwnedInTable
  <2>2. q \in DiskPages
    BY <1>1, <2>1, TypeBasics DEF Busy
  <2> QED BY <1>4, <2>1, <2>2
<1> QED BY <1>4, <1>7, <1>11, <1>15, <1>16

(* What the commit writes as the directory is a table of pages.            *)
LEMMA DirectoryIsTable ==
  ASSUME TypeOK
  PROVE  \E n \in 0 .. MaxStreams : IsTable(Directory, n)
<1>1. PICK n \in 0 .. MaxStreams : DOMAIN sizes = 0 .. (n - 1)
  BY DEF TypeOK
<1>2. \A s \in DOMAIN sizes : StreamPages(s) \in Seq(DiskPages)
  BY TableTyped
<1>3. IsTable(Directory, n)
  BY <1>1, <1>2 DEF IsTable, Directory
<1> QED BY <1>3

(* A page of the new directory is written.                                 *)
LEMMA WriteDirPageStep == ASSUME IInv, WriteDirPage PROVE IInv' /\ Untouched
<1> DEFINE m == Len(dirPages)
           v == [dir |-> Directory, part |-> m + 1]
<1>1. PICK p \in DiskPages :
        /\ AllocPages(1, p, 1)
        /\ file' = [file EXCEPT ![p] = v]
        /\ dirPages' = Append(dirPages, p)
  BY DEF WriteDirPage
<1>2. /\ stage = "dir" /\ stage' \in {"dir", "map"}
      /\ UNCHANGED <<freed, activeFpm, streamVars, mapPages, interval>>
  BY DEF WriteDirPage
<1>3. /\ TypeOK /\ dirPages \in Seq(DiskPages) /\ mapPages \in Seq(DiskPages)
      /\ mapPages = <<>>
  BY <1>2 DEF IInv, TypeOK, CommitProgress
<1>4. /\ dirPages' \in Seq(DiskPages) /\ Len(dirPages') = m + 1 /\ m \in Nat
      /\ DOMAIN dirPages = 1 .. m /\ DOMAIN dirPages' = 1 .. (m + 1)
      /\ \A i \in 1 .. m : dirPages'[i] = dirPages[i]
      /\ dirPages'[m + 1] = p
      /\ Range(dirPages') = Range(dirPages) \cup {p}
  BY <1>1, <1>3, AppendOne
<1>5. CommitPages' = CommitPages \cup {p}
  <2>1. CommitPages' = Range(dirPages') \cup Range(mapPages')
    BY DEF CommitPages, Range
  <2> QED BY <1>2, <1>4, <2>1 DEF CommitPages
<1>6. \E n \in 0 .. MaxStreams : IsTable(v.dir, n)
  BY <1>3, DirectoryIsTable
<1> HIDE DEF v
<1>7. /\ TypeOK' /\ AllocatorConsistent' /\ PagesOwnedOnce'
      /\ DiskWellFormed' /\ ActiveFpmKnown' /\ StableProtected' /\ Untouched
      /\ file'[p] = v
      /\ \A q \in CommitPages : file'[q] = file[q]
  BY <1>1, <1>2, <1>3, <1>4, <1>5, <1>6, CommitAllocStep
<1>8. Directory' = Directory
  BY <1>2 DEF Directory, StreamPages, streamVars
<1>9. \A i \in DOMAIN dirPages' :
        file'[dirPages'[i]] = [dir |-> Directory', part |-> i]
  <2> SUFFICES ASSUME NEW i \in 1 .. (m + 1)
               PROVE  file'[dirPages'[i]] = [dir |-> Directory, part |-> i]
    BY <1>4, <1>8
  <2>1. CASE i = m + 1
    BY <1>4, <1>7, <2>1 DEF v
  <2>2. CASE i # m + 1
    <3>1. i \in DOMAIN dirPages /\ dirPages'[i] = dirPages[i]
      BY <1>4, <2>2
    <3>2. dirPages[i] \in CommitPages
      BY <1>3, <3>1, CommitPagesTyped
    <3>3. file[dirPages[i]] = [dir |-> Directory, part |-> i]
      BY <3>1 DEF IInv, CommitProgress
    <3> QED BY <1>7, <3>1, <3>2, <3>3
  <2> QED BY <2>1, <2>2
<1>10. dirPages' # <<>> /\ mapPages' = <<>> /\ Len(mapPages') = 0 /\ DOMAIN mapPages' = {}
  <2>1. Len(<<>>) = 0 /\ DOMAIN <<>> = {}
    OBVIOUS
  <2> QED BY <1>2, <1>3, <1>4, <2>1
<1>11. Len(mapPages') < NumMapPages'
  <2>1. m + 1 \in Nat \ {0}
    BY <1>4
  <2>2. CeilDiv(m + 1, EntriesPerPage) \in Nat \ {0}
    BY <2>1, CeilDivPositive
  <2>3. NumMapPages' = CeilDiv(m + 1, EntriesPerPage)
    BY <1>4 DEF NumMapPages, CeilDiv
  <2> QED BY <1>10, <2>2, <2>3
<1>12. CommitProgress'
  BY <1>2, <1>9, <1>10, <1>11 DEF CommitProgress
<1> QED BY <1>7, <1>12 DEF IInv

(* A page of the map of the new directory is written.                      *)
LEMMA WriteMapPageStep == ASSUME IInv, WriteMapPage PROVE IInv' /\ Untouched
<1> DEFINE m == Len(mapPages)
           v == [map |-> MapChunk(m + 1)]
<1>1. PICK p \in DiskPages :
        /\ AllocPages(1, p, 1)
        /\ file' = [file EXCEPT ![p] = v]
        /\ mapPages' = Append(mapPages, p)
  BY DEF WriteMapPage
<1>2. /\ stage = "map"
      /\ stage' = IF m + 1 < NumMapPages THEN "map" ELSE "merge"
      /\ UNCHANGED <<freed, activeFpm, streamVars, dirPages, interval>>
  BY DEF WriteMapPage
<1>3. /\ TypeOK /\ dirPages \in Seq(DiskPages) /\ mapPages \in Seq(DiskPages)
      /\ dirPages # <<>> /\ m < NumMapPages
  BY <1>2 DEF IInv, TypeOK, CommitProgress
<1>4. /\ mapPages' \in Seq(DiskPages) /\ Len(mapPages') = m + 1 /\ m \in Nat
      /\ DOMAIN mapPages = 1 .. m /\ DOMAIN mapPages' = 1 .. (m + 1)
      /\ \A i \in 1 .. m : mapPages'[i] = mapPages[i]
      /\ mapPages'[m + 1] = p
      /\ Range(mapPages') = Range(mapPages) \cup {p}
  BY <1>1, <1>3, AppendOne
<1>5. CommitPages' = CommitPages \cup {p}
  <2>1. CommitPages' = Range(dirPages') \cup Range(mapPages')
    BY DEF CommitPages, Range
  <2> QED BY <1>2, <1>4, <2>1 DEF CommitPages
<1>6. "dir" \notin DOMAIN v
  OBVIOUS
<1> HIDE DEF v
<1>7. /\ TypeOK' /\ AllocatorConsistent' /\ PagesOwnedOnce'
      /\ DiskWellFormed' /\ ActiveFpmKnown' /\ StableProtected' /\ Untouched
      /\ file'[p] = v
      /\ \A q \in CommitPages : file'[q] = file[q]
  BY <1>1, <1>2, <1>3, <1>4, <1>5, <1>6, CommitAllocStep
<1>8. Directory' = Directory /\ \A j : MapChunk(j)' = MapChunk(j)
  BY <1>2 DEF Directory, StreamPages, MapChunk, streamVars
<1>9. \A j \in DOMAIN mapPages' : file'[mapPages'[j]] = [map |-> MapChunk(j)']
  <2> SUFFICES ASSUME NEW j \in 1 .. (m + 1)
               PROVE  file'[mapPages'[j]] = [map |-> MapChunk(j)]
    BY <1>4, <1>8
  <2>1. CASE j = m + 1
    BY <1>4, <1>7, <2>1 DEF v
  <2>2. CASE j # m + 1
    <3>1. j \in DOMAIN mapPages /\ mapPages'[j] = mapPages[j]
      BY <1>4, <2>2
    <3>2. mapPages[j] \in CommitPages
      BY <1>3, <3>1, CommitPagesTyped
    <3>3. file[mapPages[j]] = [map |-> MapChunk(j)]
      BY <3>1 DEF IInv, CommitProgress
    <3> QED BY <1>7, <3>1, <3>2, <3>3
  <2> QED BY <2>1, <2>2
<1>10. \A i \in DOMAIN dirPages' :
         file'[dirPages'[i]] = [dir |-> Directory', part |-> i]
  <2>1. \A i \in DOMAIN dirPages : dirPages[i] \in CommitPages
    BY <1>3, CommitPagesTyped
  <2> QED BY <1>2, <1>7, <1>8, <2>1 DEF IInv, CommitProgress
<1>11. NumMapPages' = NumMapPages /\ NumMapPages \in Nat
  <2>1. Len(dirPages) \in Nat
    BY <1>3, LenProperties
  <2>2. Len(dirPages) + EntriesPerPage - 1 \in Nat /\ EntriesPerPage \in Nat \ {0}
    BY <2>1, LayoutAssumption
  <2>3. NumMapPages \in Nat
    BY <2>2, DivMod DEF NumMapPages, CeilDiv
  <2> QED BY <1>2, <2>3 DEF NumMapPages, CeilDiv
<1>12. /\ stage' \in {"map", "merge"}
       /\ stage' = "map" => Len(mapPages') < NumMapPages'
       /\ stage' = "merge" => Len(mapPages') = NumMapPages'
  BY <1>2, <1>3, <1>4, <1>11
<1>13. CommitProgress'
  BY <1>2, <1>3, <1>9, <1>10, <1>12 DEF CommitProgress
<1> QED BY <1>7, <1>13 DEF IInv

(* The entry of the map that names the k-th page of the directory.         *)
LEMMA MapChunkEntry ==
  ASSUME dirPages \in Seq(DiskPages), NEW k \in 1 .. Len(dirPages)
  PROVE  MapChunk(MapIndex(k))[MapOffset(k)] = dirPages[k]
<1> DEFINE j == MapIndex(k)
           o == MapOffset(k)
           b == (j - 1) * EntriesPerPage
           last == IF j * EntriesPerPage < Len(dirPages)
                     THEN j * EntriesPerPage ELSE Len(dirPages)
<1>1. /\ Len(dirPages) \in Nat /\ EntriesPerPage \in Nat \ {0} /\ k \in Nat \ {0}
  BY LenProperties, LayoutAssumption
<1>2. /\ j \in Nat \ {0} /\ o \in 1 .. EntriesPerPage
      /\ k = b + o /\ k <= j * EntriesPerPage
  BY <1>1, MapPosition
<1>3. b \in Nat /\ j * EntriesPerPage \in Nat
  <2> HIDE DEF j
  <2> QED BY <1>1, <1>2
<1>4. last \in Nat /\ last <= Len(dirPages) /\ k <= last
  <2> DEFINE z == j * EntriesPerPage
  <2>1. z \in Nat /\ k <= z
    BY <1>2, <1>3
  <2> HIDE DEF z
  <2> QED BY <1>1, <2>1 DEF z
<1>5. MapChunk(j) = SubSeq(dirPages, b + 1, last)
  BY DEF MapChunk
<1> HIDE DEF j, o, b, last
<1>6. \A i \in (b + 1) .. last : dirPages[i] \in DiskPages
  <2> SUFFICES ASSUME NEW i \in (b + 1) .. last PROVE dirPages[i] \in DiskPages
    OBVIOUS
  <2>1. i \in 1 .. Len(dirPages)
    BY <1>1, <1>3, <1>4
  <2> QED BY <2>1, ElementOfSeq
<1>7. /\ b + 1 \in Int /\ last \in Int
      /\ o \in 1 .. (last - (b + 1) + 1) /\ (b + 1) + o - 1 = k
  BY <1>1, <1>2, <1>3, <1>4
<1>8. SubSeq(dirPages, b + 1, last)[o] = dirPages[(b + 1) + o - 1]
  <2> DEFINE f == b + 1
  <2>1. f \in Int /\ last \in Int /\ o \in 1 .. (last - f + 1)
        /\ \A i \in f .. last : dirPages[i] \in DiskPages
    BY <1>6, <1>7
  <2> HIDE DEF f
  <2>2. SubSeq(dirPages, f, last)[o] = dirPages[f + o - 1]
    BY ONLY <2>1, SubSeqProperties
  <2> QED BY <2>2 DEF f
<1> QED BY <1>5, <1>7, <1>8 DEF j, o

(***************************************************************************)
(* The header that commit writes reads back: the map, the directory pages  *)
(* it lists and the directory are those that were written before.          *)
(***************************************************************************)
NewHeader == [activeFpm |-> NewFpm, numPages |-> numPages,
              map |-> mapPages, dirLen |-> Len(dirPages)]

(* A reader finds the new directory behind the new header.                 *)
LEMMA NewHeaderReads ==
  ASSUME IInv, file' = [file EXCEPT ![0] = [header |-> NewHeader]], stage = "header"
  PROVE  /\ DOMAIN file' = DiskPages /\ file'[0] = [header |-> NewHeader]
         /\ \A p \in DiskPages : p # 0 => file'[p] = file[p]
         /\ HasHeader' /\ Header' = NewHeader
         /\ DiskMapPages' = Range(mapPages) /\ DiskDirPages' = Range(dirPages)
         /\ DiskDirectory' = Directory
         /\ \A k \in 1 .. Len(dirPages) :
              /\ MapIndex(k) \in DOMAIN mapPages /\ DiskDirPage(k)' = dirPages[k]
              /\ file'[dirPages[k]] = [dir |-> Directory, part |-> k]
         /\ \A j \in DOMAIN mapPages : file'[mapPages[j]] = [map |-> MapChunk(j)]
<1>1. TypeOK /\ OwnedInTable /\ DOMAIN file = DiskPages
  BY OwnedOnceTable DEF IInv, TypeOK
<1>2. 0 \in DiskPages /\ \A p \in CommitPages : p \in DiskPages /\ p # 0
  <2>1. DiskPages \subseteq Nat /\ 0 .. (numPages - 1) \subseteq DiskPages /\ numPages \in Nat
    BY <1>1, TypeBasics
  <2>2. CommitPages \subseteq Busy
    BY <1>1 DEF OwnedInTable
  <2>3. 0 \in DiskPages
    BY MaxPagesAssumption DEF DiskPages
  <2> QED BY <2>1, <2>2, <2>3 DEF Busy, IsSpecialPage
<1>3. /\ dirPages \in Seq(DiskPages) /\ Len(mapPages) = CeilDiv(Len(dirPages), EntriesPerPage)
      /\ Len(dirPages) \in Nat /\ DOMAIN dirPages = 1 .. Len(dirPages)
      /\ DOMAIN mapPages = 1 .. Len(mapPages)
      /\ \A i \in DOMAIN dirPages : dirPages[i] \in CommitPages
      /\ \A j \in DOMAIN mapPages : mapPages[j] \in CommitPages
      /\ dirPages # <<>>
  BY <1>1, CommitPagesTyped DEF IInv, TypeOK, CommitProgress, NumMapPages
<1>4. 1 \in 1 .. Len(dirPages)
  BY <1>3, EmptySeq
<1>5. /\ DOMAIN file' = DiskPages /\ file'[0] = [header |-> NewHeader]
      /\ \A p \in DiskPages : p # 0 => file'[p] = file[p]
  BY <1>1, <1>2
<1>6. /\ HasHeader' /\ Header' = NewHeader
      /\ Header'.map = mapPages /\ Header'.dirLen = Len(dirPages)
  BY <1>5 DEF HasHeader, Header, NewHeader
<1>7. DiskMapPages' = Range(mapPages)
  BY <1>6 DEF DiskMapPages, Range
<1>8. \A j \in DOMAIN mapPages : file'[mapPages[j]] = [map |-> MapChunk(j)]
  BY <1>2, <1>3, <1>5 DEF IInv, CommitProgress
<1>9. \A k \in 1 .. Len(dirPages) :
        file'[dirPages[k]] = [dir |-> Directory, part |-> k]
  BY <1>2, <1>3, <1>5 DEF IInv, CommitProgress
<1>10. \A k \in 1 .. Len(dirPages) :
         MapIndex(k) \in DOMAIN mapPages /\ DiskDirPage(k)' = dirPages[k]
  <2> SUFFICES ASSUME NEW k \in 1 .. Len(dirPages)
               PROVE  MapIndex(k) \in DOMAIN mapPages /\ DiskDirPage(k)' = dirPages[k]
    OBVIOUS
  <2>1. MapIndex(k) \in DOMAIN mapPages
    BY <1>3, MapReaches
  <2> DEFINE c == MapChunk(MapIndex(k))
             g == file'[mapPages[MapIndex(k)]]
  <2>2. DiskDirPage(k)' = g.map[MapOffset(k)]
    <3>1. DiskDirPage(k)' = file'[Header'.map[MapIndex(k)]].map[MapOffset(k)]
      BY DEF DiskDirPage, MapIndex, MapOffset
    <3>2. Header'.map = mapPages
      BY <1>6
    <3> QED BY <3>1, <3>2
  <2>3. g = [map |-> c]
    BY <1>8, <2>1
  <2>4. c[MapOffset(k)] = dirPages[k]
    BY <1>3, MapChunkEntry
  <2> HIDE DEF c, g
  <2>5. g.map = c
    BY <2>3
  <2> QED BY <2>1, <2>2, <2>4, <2>5
<1>11. DiskDirPages' = Range(dirPages)
  <2>1. DiskDirPages' = {DiskDirPage(k)' : k \in 1 .. Len(dirPages)}
    BY <1>6 DEF DiskDirPages
  <2> QED BY <1>3, <1>10, <2>1 DEF Range
<1>12. DiskDirectory' = Directory
  <2>1. DiskDirectory' = file'[DiskDirPage(1)'].dir
    BY DEF DiskDirectory
  <2>2. DiskDirPage(1)' = dirPages[1]
    BY <1>4, <1>10
  <2>3. file'[dirPages[1]] = [dir |-> Directory, part |-> 1]
    BY <1>4, <1>9
  <2> QED BY <2>1, <2>2, <2>3
<1> QED BY <1>5, <1>6, <1>7, <1>8, <1>9, <1>10, <1>11, <1>12

(***************************************************************************)
(* The header is written: what it reaches is what the editor has in use.   *)
(***************************************************************************)
LEMMA WriteHeaderStep == ASSUME IInv, WriteHeader PROVE IInv' /\ Untouched
<1> DEFINE hdr == NewHeader
<1>1. /\ stage = "header" /\ stage' = "idle"
      /\ file' = [file EXCEPT ![0] = [header |-> NewHeader]]
      /\ committed' = [s \in DOMAIN sizes |->
                         IF sizes[s] = Nil THEN <<>> ELSE StreamPages(s)]
      /\ freed' = freed \cup CommitPages /\ fresh' = {} /\ hint' = 3
      /\ modified' = <<>> /\ activeFpm' = NewFpm
      /\ dirPages' = <<>> /\ mapPages' = <<>> /\ interval' = 0
      /\ UNCHANGED <<free, numPages, sizes>>
  BY DEF WriteHeader, HintAfterCommit, NewHeader
<1>2. TypeOK /\ AllocatorConsistent /\ OwnedInTable
  BY OwnedOnceTable DEF IInv
<1>3. /\ MaxPages \in Nat /\ DiskPages \subseteq Nat /\ 0 \in DiskPages
      /\ numPages \in Nat /\ numPages >= 3 /\ numPages \in 3 .. MaxPages
      /\ \A p \in Busy : /\ p \in DiskPages /\ p \in Nat /\ p < numPages /\ p # 0
                         /\ ~IsSpecialPage(p) /\ p \notin free \cup freed
  <2>1. /\ MaxPages \in Nat /\ DiskPages \subseteq Nat
        /\ numPages \in Nat /\ numPages >= 3 /\ numPages \in 3 .. MaxPages
        /\ 0 .. (numPages - 1) \subseteq DiskPages
    BY <1>2, TypeBasics DEF TypeOK
  <2>2. \A p \in Busy : /\ p \in DiskPages /\ p \in Nat /\ p < numPages /\ p # 0
                        /\ ~IsSpecialPage(p) /\ p \notin free \cup freed
    BY <2>1 DEF Busy, IsSpecialPage
  <2>3. 0 \in DiskPages
    BY <2>1 DEF DiskPages
  <2> QED BY <2>1, <2>2, <2>3
<1>4. /\ CommitPages \subseteq Busy
      /\ IsPageTable(Table, Busy \ CommitPages) /\ Separate(Table)
  BY <1>2 DEF OwnedInTable
<1>5. /\ dirPages \in Seq(DiskPages) /\ mapPages \in Seq(DiskPages)
      /\ Len(dirPages) \in Nat /\ DOMAIN dirPages = 1 .. Len(dirPages)
      /\ Len(mapPages) \in Nat /\ DOMAIN mapPages = 1 .. Len(mapPages)
      /\ \A i \in DOMAIN dirPages : dirPages[i] \in CommitPages
      /\ \A j \in DOMAIN mapPages : mapPages[j] \in CommitPages
      /\ dirPages # <<>> /\ Len(mapPages) = CeilDiv(Len(dirPages), EntriesPerPage)
  BY <1>1, <1>2, CommitPagesTyped DEF IInv, TypeOK, CommitProgress, NumMapPages
<1>6. Len(dirPages) >= 1 /\ 1 \in 1 .. Len(dirPages)
  BY <1>5, EmptySeq
<1>7. NewFpm \in {1, 2}
  <2>1. activeFpm \in {1, 2}
    BY <1>2 DEF TypeOK
  <2> QED BY <2>1 DEF NewFpm
<1>8. /\ DOMAIN file' = DiskPages /\ file'[0] = [header |-> hdr]
      /\ \A p \in DiskPages : p # 0 => file'[p] = file[p]
      /\ HasHeader' /\ Header' = hdr
      /\ DiskMapPages' = Range(mapPages) /\ DiskDirPages' = Range(dirPages)
      /\ DiskDirectory' = Directory
      /\ \A k \in 1 .. Len(dirPages) : MapIndex(k) \in DOMAIN mapPages
  BY <1>1, NewHeaderReads
<1>9. /\ hdr.map = mapPages /\ hdr.dirLen = Len(dirPages)
      /\ hdr.numPages = numPages /\ hdr.activeFpm = NewFpm
  BY DEF NewHeader
<1>10. hdr \in Headers
  BY <1>3, <1>5, <1>7 DEF Headers, NewHeader
<1> HIDE DEF hdr
<1>11. DiskStreamPages' \subseteq Busy
  <2>1. DiskStreamPages' = UNION {Range(Directory[s]) :
                             s \in {t \in DOMAIN Directory : Directory[t] # Nil}}
    BY <1>8 DEF DiskStreamPages, Range
  <2>2. ASSUME NEW s \in DOMAIN Directory, Directory[s] # Nil
        PROVE  Range(Directory[s]) \subseteq Busy
    <3>1. s \in DOMAIN sizes /\ Directory[s] = Table[s] /\ Table[s] \in Seq(Busy \ CommitPages)
      BY <1>4, <2>2 DEF Directory, Table, IsPageTable
    <3> QED BY <3>1, LenProperties, ElementOfSeq DEF Range
  <2> QED BY <2>1, <2>2
<1>12. StablePages' \subseteq Busy
  <2>1. Range(mapPages) \subseteq Busy /\ Range(dirPages) \subseteq Busy
    BY <1>4 DEF CommitPages
  <2> QED BY <1>8, <1>11, <2>1 DEF StablePages
<1>13. DiskWellFormed'
  <2>1. \A k \in 1 .. Header'.dirLen :
          ((k - 1) \div EntriesPerPage) + 1 \in DOMAIN Header'.map
    BY <1>8, <1>9 DEF MapIndex
  <2> QED BY <1>3, <1>6, <1>8, <1>9, <1>12, <2>1
       DEF DiskWellFormed, DiskPages, IsSpecialPage, IsFpmPage, Phase
<1>14. ActiveFpmKnown'
  BY <1>1, <1>8, <1>9 DEF ActiveFpmKnown
<1>15. StableProtected'
  BY <1>1, <1>3, <1>12 DEF StableProtected
<1>16. CommitProgress' /\ CommitPages' = {}
  BY <1>1, IdleProgress
<1>17. Untouched
  <2> SUFFICES ASSUME HasHeader, file'[0] = file[0], NEW p \in Reachable
               PROVE  file'[p] = file[p]
    BY DEF Untouched
  <2>1. p \in DiskPages
    BY <1>2, ReachableOnDisk DEF IInv
  <2> QED BY <1>8, <2>1
<1>18. AllocatorConsistent'
  BY <1>1, <1>2, <1>3, <1>4 DEF AllocatorConsistent, IsSpecialPage, IsFpmPage, Phase
<1>19. Busy' = Busy \ CommitPages
  BY <1>1 DEF Busy, IsSpecialPage, IsFpmPage, Phase
<1>20. DOMAIN committed' = DOMAIN sizes /\ DOMAIN modified' = {}
       /\ \A s \in DOMAIN sizes :
            committed'[s] = <<>> \/ committed'[s] = StreamPages(s)
  BY <1>1
<1>21. TypeOK'
  <2>1. \A s \in DOMAIN committed' : committed'[s] \in Seq(DiskPages)
    <3>1. <<>> \in Seq(DiskPages)
      BY EmptySeq
    <3> QED BY <1>2, <1>20, <3>1, TableTyped
  <2>2. \A p \in DiskPages : "dir" \in DOMAIN file'[p] =>
          \E n \in 0 .. MaxStreams : IsTable(file'[p].dir, n)
    <3>1. "dir" \notin DOMAIN file'[0]
      BY <1>8
    <3> QED BY <1>2, <1>8, <3>1 DEF TypeOK
  <2>3. /\ free' \subseteq DiskPages /\ freed' \subseteq DiskPages
        /\ fresh' \subseteq DiskPages
        /\ numPages' \in 3 .. MaxPages /\ hint' \in 0 .. MaxPages
        /\ stage' \in Stages /\ activeFpm' \in {1, 2} /\ interval' \in Nat
    <3>1. /\ free' \subseteq DiskPages /\ freed' \subseteq DiskPages
          /\ fresh' \subseteq DiskPages
      BY <1>1, <1>2, <1>3, <1>4 DEF TypeOK
    <3>2. numPages' \in 3 .. MaxPages /\ hint' \in 0 .. MaxPages /\ interval' \in Nat
      BY <1>1, <1>3
    <3>3. stage' \in Stages /\ activeFpm' \in {1, 2}
      BY <1>1, <1>7 DEF Stages
    <3> QED BY <3>1, <3>2, <3>3
  <2>4. dirPages' \in Seq(DiskPages) /\ mapPages' \in Seq(DiskPages)
    BY <1>1, EmptySeq
  <2>5. HasHeader' => Header' \in Headers
    BY <1>8, <1>10
  <2>6. /\ \E n \in 0 .. MaxStreams : DOMAIN sizes' = 0 .. (n - 1)
        /\ DOMAIN sizes' = DOMAIN committed' \cup DOMAIN modified'
        /\ \A s \in DOMAIN sizes' : sizes'[s] \in Nat \cup {Nil}
        /\ \A s \in DOMAIN modified' : modified'[s] \in Seq(DiskPages)
    BY <1>1, <1>2, <1>20 DEF TypeOK
  <2> QED BY <1>8, <2>1, <2>2, <2>3, <2>4, <2>5, <2>6 DEF TypeOK
<1>22. \A s \in DOMAIN Table' :
         Table'[s] = <<>> \/ (s \in DOMAIN Table /\ Table'[s] = Table[s])
  BY <1>1, <1>20 DEF Table, StreamPages
<1>23. IsPageTable(Table', Busy \ CommitPages) /\ Separate(Table')
  BY <1>4, <1>22, TableShrink
<1>24. PagesOwnedOnce'
  BY <1>16, <1>19, <1>21, <1>23, OwnedAfter
<1> QED BY <1>13, <1>14, <1>15, <1>16, <1>17, <1>18, <1>21, <1>24 DEF IInv

-----------------------------------------------------------------------------
(***************************************************************************)
(* A file is opened: the editor's state is computed from what is on disk.  *)
(***************************************************************************)
LEMMA ReopenStep == ASSUME IInv, Reopen PROVE IInv' /\ Untouched
<1> DEFINE D == DiskDirectory
<1>1. /\ stage = "closed" /\ OpenSucceeds /\ stage' = "idle"
      /\ sizes' = [s \in DOMAIN D |-> IF D[s] = Nil THEN Nil ELSE Len(D[s])]
      /\ committed' = [s \in DOMAIN D |-> IF D[s] = Nil THEN <<>> ELSE D[s]]
      /\ modified' = <<>>
      /\ activeFpm' = Header.activeFpm /\ numPages' = Header.numPages
      /\ free' = ComputedFree /\ freed' = DiskMapPages \cup DiskDirPages
      /\ fresh' = {} /\ hint' = 0
      /\ UNCHANGED <<file, commitVars>>
  BY DEF Reopen
<1>2. HasHeader /\ DirectoryReadable /\ PageNumbersValid
  BY <1>1 DEF OpenSucceeds
<1>3. TypeOK /\ DiskWellFormed
  BY DEF IInv
<1>4. /\ Header.activeFpm \in {1, 2} /\ Header.numPages \in 3 .. MaxPages
      /\ Header.numPages \in Nat /\ Header.numPages <= MaxPages /\ MaxPages \in Nat
  <2>1. Header.activeFpm \in {1, 2} /\ Header.numPages \in 3 .. MaxPages
    BY <1>2, <1>3 DEF TypeOK, Headers
  <2> QED BY <2>1, MaxPagesAssumption
<1>5. /\ \A p \in StablePages : p \in DiskPages /\ p < Header.numPages /\ ~IsSpecialPage(p)
      /\ (DiskMapPages \cup DiskDirPages) \cap DiskStreamPages = {}
  BY <1>2, <1>3 DEF DiskWellFormed, PageNumbersValid, StablePages
<1>6. PICK n \in 0 .. MaxStreams : IsTable(D, n)
  <2> DEFINE q == DiskDirPage(1)
  <2>1. q \in DiskPages /\ 1 \in 1 .. Header.dirLen
    BY <1>2, <1>3, DiskPagesStable
  <2>2. "dir" \in DOMAIN file[q]
    BY <1>2, <2>1 DEF DirectoryReadable
  <2>3. D = file[q].dir
    BY DEF DiskDirectory
  <2> HIDE DEF q, D
  <2> QED BY <1>3, <2>1, <2>2, <2>3 DEF TypeOK
<1>7. /\ Untouched /\ DiskWellFormed'
      /\ HasHeader' = HasHeader /\ Header' = Header
      /\ StablePages' = StablePages
      /\ DOMAIN file' = DiskPages
      /\ HasHeader' => Header' \in Headers
      /\ \A p \in DiskPages : "dir" \in DOMAIN file'[p] =>
            \E m \in 0 .. MaxStreams : IsTable(file'[p].dir, m)
  BY <1>1, <1>2, FileUnchanged
<1>8. \A s \in DOMAIN D : D[s] # Nil =>
        /\ D[s] \in Seq(DiskPages) /\ Len(D[s]) \in Nat /\ DOMAIN D[s] = 1 .. Len(D[s])
        /\ \A i \in 1 .. Len(D[s]) : D[s][i] \in DiskStreamPages
  <2> SUFFICES ASSUME NEW s \in DOMAIN D, D[s] # Nil
               PROVE  /\ D[s] \in Seq(DiskPages) /\ Len(D[s]) \in Nat
                      /\ DOMAIN D[s] = 1 .. Len(D[s])
                      /\ \A i \in 1 .. Len(D[s]) : D[s][i] \in DiskStreamPages
    OBVIOUS
  <2>1. D[s] \in Seq(DiskPages)
    BY <1>6 DEF IsTable
  <2>2. Len(D[s]) \in Nat /\ DOMAIN D[s] = 1 .. Len(D[s])
    BY <2>1, LenProperties
  <2>3. \A i \in 1 .. Len(D[s]) : D[s][i] \in DiskStreamPages
    BY <2>2 DEF DiskStreamPages, Range
  <2> QED BY <2>1, <2>2, <2>3
<1> HIDE DEF D
<1>9. /\ DOMAIN sizes' = DOMAIN D /\ DOMAIN committed' = DOMAIN D /\ DOMAIN modified' = {}
  BY <1>1
<1>10. /\ \A s \in DOMAIN sizes' : sizes'[s] \in Nat \cup {Nil}
       /\ \A s \in DOMAIN committed' : committed'[s] \in Seq(DiskPages)
       /\ \A s \in DOMAIN modified' : modified'[s] \in Seq(DiskPages)
  <2>1. <<>> \in Seq(DiskPages)
    BY EmptySeq
  <2> QED BY <1>1, <1>8, <1>9, <2>1
<1>11. ComputedFree \subseteq 0 .. (Header.numPages - 1)
       /\ \A p \in ComputedFree : ~IsSpecialPage(p) /\ p \notin StablePages
  BY DEF ComputedFree, AllFree, StablePages
<1>12. /\ free' \subseteq DiskPages /\ freed' \subseteq DiskPages /\ fresh' \subseteq DiskPages
  <2>1. 0 .. (Header.numPages - 1) \subseteq DiskPages
    BY <1>4 DEF DiskPages
  <2>2. freed' \subseteq StablePages
    BY <1>1 DEF StablePages
  <2> QED BY <1>1, <1>5, <1>11, <2>1, <2>2
<1>13. /\ numPages' \in 3 .. MaxPages /\ hint' \in 0 .. MaxPages
       /\ stage' \in Stages /\ activeFpm' \in {1, 2}
  <2>1. hint' \in 0 .. MaxPages /\ stage' \in Stages
    BY <1>1, <1>4 DEF Stages
  <2> QED BY <1>1, <1>4, <2>1
<1>14. TypeOK'
  <2>1. /\ dirPages' \in Seq(DiskPages) /\ mapPages' \in Seq(DiskPages)
        /\ interval' \in Nat
    BY <1>1, <1>3 DEF TypeOK, commitVars
  <2>2. \E m \in 0 .. MaxStreams : DOMAIN sizes' = 0 .. (m - 1)
    BY <1>6, <1>9 DEF IsTable
  <2> QED BY <1>7, <1>9, <1>10, <1>12, <1>13, <2>1, <2>2 DEF TypeOK
<1>15. AllocatorConsistent'
  <2>1. \A p \in ComputedFree : p < Header.numPages
    BY <1>4, <1>11
  <2>2. \A p \in freed' : p \in StablePages
    BY <1>1 DEF StablePages
  <2>3. free' \cap freed' = {} /\ hint' <= numPages'
    <3>1. free' \cap freed' = {}
      BY <1>1, <1>11, <2>2
    <3> QED BY <1>1, <1>4, <3>1
  <2>4. \A p \in free' \cup freed' : p < numPages' /\ ~IsSpecialPage(p)
    BY <1>1, <1>5, <1>11, <2>1, <2>2
  <2> QED BY <1>1, <2>3, <2>4 DEF AllocatorConsistent, IsSpecialPage, IsFpmPage, Phase
<1>16. DiskStreamPages \subseteq Busy'
  <2> SUFFICES ASSUME NEW p \in DiskStreamPages PROVE p \in Busy'
    OBVIOUS
  <2>1. p \in StablePages
    BY DEF StablePages
  <2>2. p \in 0 .. (Header.numPages - 1) /\ ~IsSpecialPage(p)
    <3>1. p \in Nat /\ p < Header.numPages /\ ~IsSpecialPage(p)
      BY <1>5, <2>1, <1>3, TypeBasics
    <3> QED BY <1>4, <3>1
  <2>3. p \notin free' \cup freed'
    BY <1>1, <1>5, <1>11, <2>1
  <2> QED BY <1>1, <2>2, <2>3 DEF Busy, IsSpecialPage, IsFpmPage, Phase
<1>17. CommitProgress' /\ CommitPages' = {}
  BY <1>1, IdleProgress DEF IInv, CommitProgress, commitVars
<1>18. /\ DOMAIN Table' = DOMAIN D
       /\ \A s \in DOMAIN D : Table'[s] = IF D[s] = Nil THEN <<>> ELSE D[s]
  BY <1>1, <1>9 DEF Table, StreamPages
<1>19. IsPageTable(Table', DiskStreamPages)
  <2> SUFFICES ASSUME NEW s \in DOMAIN D PROVE Table'[s] \in Seq(DiskStreamPages)
    BY <1>18 DEF IsPageTable
  <2>1. CASE D[s] = Nil
    BY <1>18, <2>1, EmptySeq
  <2>2. CASE D[s] # Nil
    <3>1. /\ D[s] \in Seq(DiskPages) /\ Len(D[s]) \in Nat /\ DOMAIN D[s] = 1 .. Len(D[s])
          /\ \A i \in 1 .. Len(D[s]) : D[s][i] \in DiskStreamPages
      BY <1>8, <2>2
    <3>2. D[s] = [i \in DOMAIN D[s] |-> D[s][i]]
      BY <3>1, LenProperties
    <3>3. D[s] \in [1 .. Len(D[s]) -> DiskStreamPages]
      BY <3>1, <3>2
    <3>4. D[s] \in Seq(DiskStreamPages)
      BY <3>1, <3>3, SeqDef
    <3> QED BY <1>18, <2>2, <3>4
  <2> QED BY <2>1, <2>2
<1>20. Separate(Table')
  <2> SUFFICES ASSUME NEW s \in DOMAIN D, NEW t \in DOMAIN D,
                      NEW i \in 1 .. Len(Table'[s]), NEW j \in 1 .. Len(Table'[t]),
                      Table'[s][i] = Table'[t][j]
               PROVE  s = t /\ i = j
    BY <1>18 DEF Separate
  <2>1. D[s] # Nil /\ D[t] # Nil
    <3>1. Len(<<>>) = 0
      OBVIOUS
    <3> QED BY <1>18, <3>1
  <2>2. /\ i \in DOMAIN D[s] /\ j \in DOMAIN D[t] /\ D[s][i] = D[t][j]
    BY <1>8, <1>18, <2>1
  <2>3. \A a, b \in {r \in DOMAIN D : D[r] # Nil} : \A x \in DOMAIN D[a], y \in DOMAIN D[b] :
          D[a][x] = D[b][y] => a = b /\ x = y
    BY <1>2 DEF PageNumbersValid, D
  <2> QED BY <2>1, <2>2, <2>3
<1>21. PagesOwnedOnce'
  BY <1>14, <1>16, <1>17, <1>19, <1>20, OwnedAfter
<1>22. ActiveFpmKnown'
  BY <1>1, <1>7 DEF ActiveFpmKnown
<1>23. StableProtected'
  <2>1. \A p \in StablePages : p \notin ComputedFree
    BY <1>11
  <2> QED BY <1>1, <1>5, <1>7, <2>1 DEF StableProtected
<1> QED BY <1>7, <1>14, <1>15, <1>17, <1>21, <1>22, <1>23 DEF IInv

-----------------------------------------------------------------------------
(***************************************************************************)
(* The theorems.                                                           *)
(***************************************************************************)

(* A new MSF satisfies the invariant (create_for).                         *)
LEMMA InitInvariant == Init => IInv
<1> SUFFICES ASSUME Init PROVE IInv
  OBVIOUS
<1>1. /\ free = {} /\ freed = {} /\ fresh = {} /\ hint = 0 /\ numPages = 3
      /\ activeFpm = 2 /\ stage = "idle"
      /\ sizes = NewSizes /\ committed = [s \in {0} |-> <<>>]
      /\ modified = [s \in 1 .. FixedStreams |-> <<>>]
      /\ dirPages = <<>> /\ mapPages = <<>> /\ interval = 0
      /\ file = [p \in DiskPages |-> [data |-> Blank]]
  BY DEF Init
<1>2. FixedStreams \in Nat /\ MaxStreams \in Nat /\ FixedStreams < MaxStreams
      /\ MaxPages \in Nat /\ MaxPages >= 3
  BY StreamsAssumption, MaxPagesAssumption
<1>3. 0 \in DiskPages /\ DOMAIN file = DiskPages
      /\ \A p \in DiskPages : DOMAIN file[p] = {"data"}
  BY <1>1, <1>2 DEF DiskPages
<1>4. ~HasHeader
  BY <1>3 DEF HasHeader
<1>5. DOMAIN <<>> = {} /\ <<>> \in Seq(DiskPages) /\ Len(<<>>) = 0
  BY EmptySeq
<1>6. /\ DOMAIN sizes = 0 .. FixedStreams
      /\ \A s \in DOMAIN sizes : sizes[s] \in Nat \cup {Nil} /\ StreamPages(s) = <<>>
      /\ DOMAIN sizes = DOMAIN committed \cup DOMAIN modified
      /\ \A s \in DOMAIN committed : committed[s] = <<>>
      /\ \A s \in DOMAIN modified : modified[s] = <<>>
  <2>1. DOMAIN sizes = 0 .. FixedStreams /\ \A s \in DOMAIN sizes : sizes[s] \in Nat \cup {Nil}
    BY <1>1 DEF NewSizes
  <2>2. DOMAIN committed = {0} /\ DOMAIN modified = 1 .. FixedStreams
    BY <1>1
  <2>3. 0 .. FixedStreams = {0} \cup 1 .. FixedStreams
    BY <1>2
  <2>4. /\ \A s \in DOMAIN committed : committed[s] = <<>>
        /\ \A s \in DOMAIN modified : modified[s] = <<>>
    BY <1>1
  <2> QED BY <2>1, <2>2, <2>3, <2>4 DEF StreamPages
<1>7. \E n \in 0 .. MaxStreams : DOMAIN sizes = 0 .. (n - 1)
  <2>1. FixedStreams + 1 \in 0 .. MaxStreams /\ (FixedStreams + 1) - 1 = FixedStreams
    BY <1>2
  <2> QED BY <1>6, <2>1
<1>8. TypeOK
  <2>1. /\ numPages \in 3 .. MaxPages /\ hint \in 0 .. MaxPages /\ interval \in Nat
        /\ activeFpm \in {1, 2} /\ stage \in Stages
        /\ free \subseteq DiskPages /\ freed \subseteq DiskPages /\ fresh \subseteq DiskPages
    BY <1>1, <1>2 DEF Stages
  <2>2. \A p \in DiskPages : "dir" \notin DOMAIN file[p]
    BY <1>3
  <2> QED BY <1>1, <1>3, <1>4, <1>5, <1>6, <1>7, <2>1, <2>2 DEF TypeOK
<1>9. AllocatorConsistent
  BY <1>1 DEF AllocatorConsistent
<1>10. CommitPages = {} /\ CommitProgress
  BY <1>1, <1>5 DEF CommitPages, Range, CommitProgress
<1>11. OwnedInTable
  <2>1. /\ DOMAIN Table = DOMAIN sizes /\ \A s \in DOMAIN Table : Table[s] = <<>>
    BY <1>6 DEF Table
  <2>2. IsPageTable(Table, Busy \ CommitPages)
    BY <2>1, EmptySeq DEF IsPageTable
  <2>3. Separate(Table)
    BY <1>5, <2>1 DEF Separate
  <2> QED BY <1>10, <2>2, <2>3 DEF OwnedInTable
<1>12. PagesOwnedOnce
  BY <1>8, <1>11, OwnedOnceTable
<1>13. DiskWellFormed /\ ActiveFpmKnown /\ StableProtected
  BY <1>4 DEF DiskWellFormed, ActiveFpmKnown, StableProtected
<1> QED BY <1>8, <1>9, <1>10, <1>12, <1>13 DEF IInv

(* Every step preserves the invariant, and writes to no page that the       *)
(* header reaches unless it rewrites the header.                           *)
LEMMA NextInvariant == IInv /\ Next => IInv' /\ Untouched
<1> SUFFICES ASSUME IInv, Next PROVE IInv' /\ Untouched
  OBVIOUS
<1>1. CASE Create
  BY <1>1, NewEditorStep
<1>2. CASE Reopen
  BY <1>2, ReopenStep
<1>3. CASE Crash
  BY <1>3, CrashStep
<1>4. CASE NewStream
  <2>1. 0 \in Nat \cup {Nil} /\ AddStream(0)
    BY <1>4 DEF NewStream
  <2> QED BY <2>1, AddStreamStep
<1>5. CASE NilStream
  <2>1. Nil \in Nat \cup {Nil} /\ AddStream(Nil)
    BY <1>5 DEF NilStream
  <2> QED BY <2>1, AddStreamStep
<1>6. CASE \E s \in 1 .. (MaxStreams - 1) : WriteStream(s)
  BY <1>6, WriteStreamStep
<1>7. CASE \E s \in DOMAIN modified, i \in 1 .. MaxStreamPages, d \in Data :
             OverwriteFreshPage(s, i, d)
  BY <1>7, OverwriteFreshPageStep
<1>8. CASE \E s \in DOMAIN modified, i \in 1 .. MaxStreamPages, d \in Data,
              written \in BOOLEAN : CowPage(s, i, d, written)
  BY <1>8, CowPageStep
<1>9. CASE \E s \in DOMAIN modified, n \in 1 .. MaxStreamPages, d \in Data,
              written \in BOOLEAN : AppendPages(s, n, d, written)
  <2>1. PICK s \in DOMAIN modified, n \in 1 .. MaxStreamPages, d \in Data,
             written \in BOOLEAN : AppendRun(s, n, d, TRUE, written)
    BY <1>9 DEF AppendPages
  <2>2. TRUE \in BOOLEAN
    OBVIOUS
  <2> QED BY <2>1, <2>2, AppendRunStep
<1>10. CASE \E s \in DOMAIN modified, n \in 1 .. MaxStreamPages : AppendFails(s, n)
  <2>1. PICK s \in DOMAIN modified, n \in 1 .. MaxStreamPages :
          AppendRun(s, n, Blank, FALSE, FALSE)
    BY <1>10 DEF AppendFails
  <2>2. FALSE \in BOOLEAN
    OBVIOUS
  <2> QED BY <2>1, <2>2, AppendRunStep
<1>11. CASE \E s \in DOMAIN modified, n \in 0 .. (MaxStreamPages - 1) : Truncate(s, n)
  BY <1>11, TruncateStep
<1>12. CASE BeginCommit
  BY <1>12, BeginCommitStep
<1>13. CASE WriteDirPage
  BY <1>13, WriteDirPageStep
<1>14. CASE WriteMapPage
  BY <1>14, WriteMapPageStep
<1>15. CASE MergeFreed
  BY <1>15, MergeFreedStep
<1>16. CASE WriteFpmPage
  BY <1>16, WriteFpmPageStep
<1>17. CASE WriteHeader
  BY <1>17, WriteHeaderStep
<1>18. CASE CommitFails
  BY <1>18, CommitFailsStep
<1> QED BY <1>1, <1>2, <1>3, <1>4, <1>5, <1>6, <1>7, <1>8, <1>9, <1>10, <1>11,
           <1>12, <1>13, <1>14, <1>15, <1>16, <1>17, <1>18 DEF Next

(* The invariant of MsfInvariant is inductive.                             *)
THEOREM InductiveInvariant == Spec => []IInv
<1>1. Init => IInv
  BY InitInvariant
<1>2. IInv /\ [Next]_vars => IInv'
  <2> SUFFICES ASSUME IInv, [Next]_vars PROVE IInv'
    OBVIOUS
  <2>1. CASE Next
    BY <2>1, NextInvariant
  <2>2. CASE UNCHANGED vars
    BY <2>2, StutterStep
  <2> QED BY <2>1, <2>2
<1> QED BY <1>1, <1>2, PTL DEF Spec

(* Every variable keeps to its type: among others, no page number is one    *)
(* the file cannot have, and the header on disk is a header.               *)
THEOREM TypeCorrect == Spec => []TypeOK
<1>1. IInv => TypeOK
  BY DEF IInv
<1> QED BY <1>1, InductiveInvariant, PTL

(* A page belongs to one place of one stream, or to the directory in the    *)
(* making, and is then neither free nor freed nor special: what the state   *)
(* table of pages.rs and check.rs ask for, at every moment.                *)
THEOREM OwnedOnce == Spec => []PagesOwnedOnce
<1>1. IInv => PagesOwnedOnce
  BY DEF IInv
<1> QED BY <1>1, InductiveInvariant, PTL

(* Until commit rewrites the header, nothing of what it reaches changes on  *)
(* disk: the file of the last commit is there whenever the process dies.   *)
THEOREM CommittedSafe == Spec => CommittedUntouched
<1>1. IInv /\ [Next]_vars =>
        [HasHeader /\ file'[0] = file[0] =>
           \A p \in Reachable : file'[p] = file[p]]_vars
  BY NextInvariant DEF Untouched
<1> QED BY <1>1, InductiveInvariant, PTL DEF Spec, CommittedUntouched

-----------------------------------------------------------------------------
(***************************************************************************)
(* The accounting of pages.                                                *)
(***************************************************************************)
Accounts ==
  /\ ClosedIsNew
  /\ HintBehindFree
  /\ SizesWithinPages
  /\ FpmProgress
  /\ CommitPagesDistinct
  /\ DataTyped
  /\ ~AppendErrors => NoPageLost

(* The pages at the places of the table, after the step too.               *)
LEMMA UsedAtPrime ==
  \A p : p \in UsedPages' <=>
    \E s \in DOMAIN sizes' : \E i \in 1 .. Len(StreamPages(s)') : p = StreamPages(s)'[i]
<1>1. (\A p : p \in UsedPages <=>
         \E s \in DOMAIN sizes : \E i \in 1 .. Len(StreamPages(s)) : p = StreamPages(s)[i])'
  BY UsedAt, PTL
<1> QED BY <1>1

(* The pages of a stream that keeps its list stay in use.                  *)
LEMMA ListsKept ==
  ASSUME \A s \in DOMAIN sizes :
           s \in DOMAIN sizes' /\ StreamPages(s)' = StreamPages(s)
  PROVE  UsedPages \subseteq UsedPages'
BY UsedAt, UsedAtPrime

(* Without a commit under way there is no directory in the making.         *)
LEMMA NoCommitPages ==
  ASSUME dirPages' = <<>>, mapPages' = <<>>
  PROVE  CommitPagesDistinct'
<1>1. DOMAIN <<>> = {}
  OBVIOUS
<1>2. DOMAIN dirPages' = {} /\ DOMAIN mapPages' = {}
  BY <1>1
<1>3. IsInjective(dirPages)' /\ IsInjective(mapPages)'
  BY <1>2 DEF IsInjective
<1>4. (Range(dirPages) \cap Range(mapPages) = {})'
  BY <1>2 DEF Range
<1> QED BY <1>3, <1>4 DEF CommitPagesDistinct

(* A page below b is below a or behind it.                                 *)
LEMMA SplitInterval ==
  ASSUME NEW a \in Nat, NEW b \in Nat, NEW p \in 0 .. (b - 1)
  PROVE  p \in 0 .. (a - 1) \/ p \in a .. (b - 1)
OBVIOUS

(***************************************************************************)
(* No page is lost by a step after which every page is accounted for that  *)
(* was before, or by which the file grew.                                  *)
(***************************************************************************)
LEMMA NothingLost ==
  ASSUME TypeOK, NoPageLost, stage # "closed",
         NEW S, S = free' \cup freed' \cup UsedPages' \cup CommitPages',
         free \cup freed \cup UsedPages \cup CommitPages \subseteq S,
         \A q \in numPages .. (numPages' - 1) : q \in S \/ IsSpecialPage(q),
         numPages' \in Nat
  PROVE  NoPageLost'
<1>1. numPages \in Nat
  BY TypeBasics
<1>2. ASSUME NEW p, p \in 0 .. (numPages' - 1)
      PROVE  p \in S \/ IsSpecialPage(p)
  <2>1. p \in 0 .. (numPages - 1) \/ p \in numPages .. (numPages' - 1)
    BY <1>1, <1>2, SplitInterval
  <2>2. CASE p \in 0 .. (numPages - 1)
    BY <2>2 DEF NoPageLost
  <2> QED BY <2>1, <2>2
<1> QED BY <1>2 DEF NoPageLost, IsSpecialPage, IsFpmPage, Phase

(* An editing call leaves the commit where it is, which is not begun.      *)
LEMMA EditKeeps ==
  ASSUME IInv, Accounts, stage = "idle", stage' = "idle", UNCHANGED commitVars
  PROVE  ClosedIsNew' /\ FpmProgress' /\ CommitPagesDistinct'
<1>1. dirPages' = <<>> /\ mapPages' = <<>> /\ interval' = 0
  BY DEF IInv, CommitProgress, Accounts, FpmProgress, commitVars
<1>2. CommitPagesDistinct'
  BY <1>1, NoCommitPages
<1>3. ClosedIsNew' /\ FpmProgress'
  BY <1>1 DEF ClosedIsNew, FpmProgress
<1> QED BY <1>2, <1>3

(***************************************************************************)
(* A call that changes the streams' table alone and gives up no page.      *)
(***************************************************************************)
LEMMA TableEdit ==
  ASSUME IInv, Accounts, stage = "idle", stage' = "idle",
         UNCHANGED <<allocVars, file, commitVars>>,
         \A s \in DOMAIN sizes :
           s \in DOMAIN sizes' /\ StreamPages(s)' = StreamPages(s),
         SizesWithinPages'
  PROVE  Accounts'
<1>1. ClosedIsNew' /\ FpmProgress' /\ CommitPagesDistinct'
  BY EditKeeps
<1>2. HintBehindFree' /\ DataTyped'
  BY DEF Accounts, HintBehindFree, DataTyped, allocVars
<1>3. UsedPages \subseteq UsedPages' /\ CommitPages' = CommitPages
  BY ListsKept DEF CommitPages, Range, commitVars
<1>4. ASSUME ~AppendErrors PROVE NoPageLost'
  <2>1. TypeOK /\ NoPageLost /\ numPages' = numPages /\ numPages \in Nat
    BY <1>4, TypeBasics DEF IInv, Accounts, allocVars
  <2>2. numPages .. (numPages' - 1) = {}
    BY <2>1
  <2> DEFINE S == free' \cup freed' \cup UsedPages' \cup CommitPages'
  <2>3. free \cup freed \cup UsedPages \cup CommitPages \subseteq S
    BY <1>3 DEF allocVars
  <2> QED BY <2>1, <2>2, <2>3, NothingLost
<1> QED BY <1>1, <1>2, <1>4 DEF Accounts

(* new_stream and nil_stream: the new stream has no pages.                 *)
LEMMA AddStreamAccounts ==
  ASSUME IInv, Accounts, NEW size \in {0, Nil}, AddStream(size)
  PROVE  Accounts'
<1>0. PICK n : n = NumStreams
  OBVIOUS
<1>1. /\ stage = "idle" /\ stage' = "idle"
      /\ sizes' = [t \in 0 .. n |-> IF t = n THEN size ELSE sizes[t]]
      /\ modified' = [t \in DOMAIN modified \cup {n} |->
                        IF t = n THEN <<>> ELSE modified[t]]
      /\ UNCHANGED <<allocVars, file, activeFpm, committed, commitVars>>
  BY <1>0 DEF AddStream
<1>2. n \in Nat /\ DOMAIN sizes = 0 .. (n - 1)
  BY <1>0, StreamNumbers DEF IInv
<1>3. DOMAIN sizes' = DOMAIN sizes \cup {n} /\ n \notin DOMAIN sizes
  BY <1>1, <1>2
<1>4. /\ StreamPages(n)' = <<>>
      /\ \A s \in DOMAIN sizes : StreamPages(s)' = StreamPages(s)
  <2>1. StreamPages(n)' = <<>>
    <3>1. PICK e : e = <<>>
      OBVIOUS
    <3>2. modified' = [t \in DOMAIN modified \cup {n} |-> IF t = n THEN e ELSE modified[t]]
      BY <1>1, <3>1
    <3>3. n \in DOMAIN modified' /\ modified'[n] = e
      BY ONLY <3>2
    <3> QED BY <3>1, <3>3 DEF StreamPages
  <2>2. ASSUME NEW s \in DOMAIN sizes PROVE StreamPages(s)' = StreamPages(s)
    <3>1. s # n
      BY <1>3, <2>2
    <3>2. s \in DOMAIN modified' <=> s \in DOMAIN modified
      BY <1>1, <3>1
    <3>3. s \in DOMAIN modified => modified'[s] = modified[s]
      BY <1>1, <3>1
    <3> QED BY <1>1, <3>2, <3>3 DEF StreamPages
  <2> QED BY <2>1, <2>2
<1>5. Len(<<>>) = 0
  OBVIOUS
<1>6. SizesWithinPages'
  <2> SUFFICES ASSUME NEW s \in DOMAIN sizes'
               PROVE  IF sizes'[s] = Nil THEN StreamPages(s)' = <<>>
                      ELSE /\ sizes'[s] <= Len(StreamPages(s)')
                           /\ ~AppendErrors \/ stage' \in CommitStages =>
                                Len(StreamPages(s)') = sizes'[s]
    BY DEF SizesWithinPages, CommitStages
  <2>1. CASE s = n
    <3>1. sizes'[s] = size
      <4>1. n \in 0 .. n
        BY <1>2
      <4> QED BY ONLY <1>1, <2>1, <4>1
    <3>2. StreamPages(s)' = <<>>
      BY <1>4, <2>1
    <3>3. CASE size = Nil
      BY <3>1, <3>2, <3>3
    <3>4. CASE size = 0
      BY <1>1, <1>5, <3>1, <3>2, <3>4 DEF CommitStages
    <3> QED BY <3>3, <3>4
  <2>2. CASE s \in DOMAIN sizes
    <3>1. sizes'[s] = sizes[s] /\ StreamPages(s)' = StreamPages(s)
      BY <1>1, <1>3, <1>4, <2>2
    <3> QED BY <1>1, <2>2, <3>1 DEF Accounts, SizesWithinPages
  <2> QED BY <1>3, <2>1, <2>2
<1>7. \A s \in DOMAIN sizes : s \in DOMAIN sizes' /\ StreamPages(s)' = StreamPages(s)
  BY <1>3, <1>4
<1> QED BY <1>1, <1>6, <1>7, TableEdit

(* write_stream: nil streams are added, and one becomes an empty stream.   *)
LEMMA WriteStreamTable ==
  ASSUME IInv, NEW s \in 1 .. (MaxStreams - 1), WriteStream(s)
  PROVE  /\ s \in DOMAIN sizes'
         /\ \A t \in DOMAIN sizes :
              /\ t \in DOMAIN sizes'
              /\ StreamPages(t)' = StreamPages(t)
              /\ sizes'[t] = IF t = s /\ sizes[t] = Nil THEN 0 ELSE sizes[t]
         /\ \A t \in DOMAIN sizes' : t \notin DOMAIN sizes =>
              /\ sizes'[t] = IF t = s THEN 0 ELSE Nil
              /\ StreamPages(t)' = <<>>
<1> DEFINE n == NumStreams
           last == IF s < n THEN n - 1 ELSE s
           added == n .. last
<1>1. /\ stage = "idle" /\ stage' = "idle"
      /\ sizes' = [t \in 0 .. last |->
                     CASE t = s /\ (t \in added \/ sizes[t] = Nil) -> 0
                       [] t # s /\ t \in added -> Nil
                       [] OTHER -> sizes[t]]
      /\ modified' = [t \in DOMAIN modified \cup added \cup {s} |->
                        CASE t \in DOMAIN modified -> modified[t]
                          [] t \in added -> <<>>
                          [] OTHER -> committed[t]]
      /\ UNCHANGED <<allocVars, file, activeFpm, committed, commitVars>>
  BY DEF WriteStream
<1>2. n \in Nat /\ DOMAIN sizes = 0 .. (n - 1) /\ s \in Nat
  BY StreamNumbers, StreamsAssumption DEF IInv
<1>3. last \in Nat /\ last >= n - 1 /\ s \in 0 .. last
  BY <1>2
<1>4. /\ 0 .. last = DOMAIN sizes \cup added /\ DOMAIN sizes \cap added = {}
  <2> HIDE DEF n, last
  <2> QED BY <1>2, <1>3
<1> HIDE DEF n, last, added
<1>5. DOMAIN modified \subseteq DOMAIN sizes
  BY DEF IInv, TypeOK
<1>6. \A t \in added : /\ sizes'[t] = IF t = s THEN 0 ELSE Nil
                      /\ StreamPages(t)' = <<>>
  <2> TAKE t \in added
  <2>1. t \in 0 .. last /\ t \in DOMAIN modified' /\ t \notin DOMAIN modified
    BY <1>1, <1>4, <1>5
  <2>2. modified'[t] = <<>>
    BY <1>1, <2>1
  <2>3. sizes'[t] = IF t = s THEN 0 ELSE Nil
    BY <1>1, <2>1
  <2> QED BY <2>1, <2>2, <2>3 DEF StreamPages
<1>7. \A t \in DOMAIN sizes :
        /\ t \in DOMAIN sizes'
        /\ StreamPages(t)' = StreamPages(t)
        /\ sizes'[t] = IF t = s /\ sizes[t] = Nil THEN 0 ELSE sizes[t]
  <2> TAKE t \in DOMAIN sizes
  <2>1. t \in 0 .. last /\ t \notin added
    BY <1>4
  <2>2. /\ t \in DOMAIN sizes'
        /\ sizes'[t] = IF t = s /\ sizes[t] = Nil THEN 0 ELSE sizes[t]
    BY <1>1, <2>1
  <2>3. StreamPages(t)' = StreamPages(t)
    <3>1. CASE t \in DOMAIN modified
      BY <1>1, <2>1, <3>1 DEF StreamPages
    <3>2. CASE t \notin DOMAIN modified /\ t = s
      BY <1>1, <2>1, <3>2 DEF StreamPages
    <3>3. CASE t \notin DOMAIN modified /\ t # s
      BY <1>1, <2>1, <3>3 DEF StreamPages
    <3> QED BY <3>1, <3>2, <3>3
  <2> QED BY <2>2, <2>3
<1>8. DOMAIN sizes' = DOMAIN sizes \cup added
  BY <1>1, <1>4
<1> QED BY <1>1, <1>3, <1>6, <1>7, <1>8

(* No page is given up by it.                                              *)
LEMMA WriteStreamAccounts ==
  ASSUME IInv, Accounts, NEW s \in 1 .. (MaxStreams - 1), WriteStream(s)
  PROVE  Accounts'
<1>1. /\ stage = "idle" /\ stage' = "idle"
      /\ UNCHANGED <<allocVars, file, commitVars>>
  BY DEF WriteStream
<1>2. /\ \A t \in DOMAIN sizes :
           /\ t \in DOMAIN sizes'
           /\ StreamPages(t)' = StreamPages(t)
           /\ sizes'[t] = IF t = s /\ sizes[t] = Nil THEN 0 ELSE sizes[t]
      /\ \A t \in DOMAIN sizes' : t \notin DOMAIN sizes =>
           /\ sizes'[t] = IF t = s THEN 0 ELSE Nil
           /\ StreamPages(t)' = <<>>
  BY WriteStreamTable
<1>3. Len(<<>>) = 0
  OBVIOUS
<1>4. SizesWithinPages'
  <2> SUFFICES ASSUME NEW t \in DOMAIN sizes'
               PROVE  IF sizes'[t] = Nil THEN StreamPages(t)' = <<>>
                      ELSE /\ sizes'[t] <= Len(StreamPages(t)')
                           /\ ~AppendErrors \/ stage' \in CommitStages =>
                                Len(StreamPages(t)') = sizes'[t]
    BY DEF SizesWithinPages, CommitStages
  <2>1. CASE t \notin DOMAIN sizes
    <3>1. sizes'[t] \in {0, Nil} /\ StreamPages(t)' = <<>>
      BY <1>2, <2>1
    <3> QED BY <1>3, <3>1
  <2>2. CASE t \in DOMAIN sizes
    <3>1. IF sizes[t] = Nil THEN StreamPages(t) = <<>>
          ELSE /\ sizes[t] <= Len(StreamPages(t))
               /\ ~AppendErrors \/ stage' \in CommitStages =>
                    Len(StreamPages(t)) = sizes[t]
      BY <1>1, <2>2 DEF Accounts, SizesWithinPages
    <3> QED BY <1>2, <1>3, <2>2, <3>1
  <2> QED BY <2>1, <2>2
<1>5. \A t \in DOMAIN sizes : t \in DOMAIN sizes' /\ StreamPages(t)' = StreamPages(t)
  BY <1>2
<1> QED BY <1>1, <1>4, <1>5, TableEdit

(***************************************************************************)
(* The pages of a stream that is being written (WritableStream), with what *)
(* the accounts say of it.                                                 *)
(***************************************************************************)
LEMMA WritableAccounts ==
  ASSUME IInv, Accounts, NEW s, Writable(s)
  PROVE  /\ StreamPages(s) = modified[s]
         /\ sizes[s] <= Len(modified[s])
         /\ ~AppendErrors => Len(modified[s]) = sizes[s]
         /\ \A i \in 1 .. Len(modified[s]) : modified[s][i] \in UsedPages
<1>1. s \in DOMAIN modified /\ s \in DOMAIN sizes /\ sizes[s] # Nil
  BY WritableStream DEF Writable
<1>2. StreamPages(s) = modified[s]
  BY <1>1 DEF StreamPages
<1>3. /\ sizes[s] <= Len(modified[s])
      /\ ~AppendErrors => Len(modified[s]) = sizes[s]
  BY <1>1, <1>2 DEF Accounts, SizesWithinPages
<1>4. \A i \in 1 .. Len(modified[s]) : modified[s][i] \in UsedPages
  BY <1>1, <1>2, UsedAt
<1> QED BY <1>2, <1>3, <1>4

(* A fresh page is overwritten in place.                                   *)
LEMMA OverwriteFreshPageAccounts ==
  ASSUME IInv, Accounts, NEW s \in DOMAIN modified, NEW i \in 1 .. MaxStreamPages,
         NEW d \in Data, OverwriteFreshPage(s, i, d)
  PROVE  Accounts'
<1> DEFINE x == modified[s][i]
<1>1. /\ stage = "idle" /\ stage' = "idle"
      /\ file' = [file EXCEPT ![x] = [data |-> d]]
      /\ UNCHANGED <<allocVars, activeFpm, streamVars, commitVars>>
  BY DEF OverwriteFreshPage, Writable
<1>2. ClosedIsNew' /\ FpmProgress' /\ CommitPagesDistinct'
  BY <1>1, EditKeeps
<1>3. DataTyped'
  <2>1. DOMAIN file = DiskPages
    BY DEF IInv, TypeOK
  <2>2. \A p \in DiskPages : file'[p] = IF p = x THEN [data |-> d] ELSE file[p]
    BY <1>1, <2>1
  <2>3. [data |-> d].data \in Data \cup {Blank}
    OBVIOUS
  <2> HIDE DEF x
  <2> QED BY <2>2, <2>3 DEF Accounts, DataTyped
<1>4. HintBehindFree'
  BY <1>1 DEF Accounts, HintBehindFree, allocVars
<1>5. \A t : StreamPages(t)' = StreamPages(t)
  BY <1>1 DEF StreamPages, streamVars
<1>6. SizesWithinPages'
  BY <1>1, <1>5 DEF Accounts, SizesWithinPages, streamVars, CommitStages
<1>7. UsedPages' = UsedPages /\ CommitPages' = CommitPages
  <2>1. sizes' = sizes
    BY <1>1 DEF streamVars
  <2>2. \A p : p \in UsedPages' <=> p \in UsedPages
    BY <1>5, <2>1, UsedAt, UsedAtPrime
  <2> QED BY <1>1, <2>2 DEF CommitPages, Range, commitVars
<1>8. ~AppendErrors => NoPageLost'
  BY <1>1, <1>7 DEF Accounts, NoPageLost, allocVars, IsSpecialPage, IsFpmPage, Phase
<1> QED BY <1>2, <1>3, <1>4, <1>6, <1>8 DEF Accounts

(***************************************************************************)
(* A step that allocates pages and puts all of them to use.                *)
(***************************************************************************)
LEMMA AllocAccounts ==
  ASSUME IInv, Accounts, stage \in {"idle", "dir", "map"}, stage' # "closed",
         NEW n \in Nat \ {0}, NEW p \in DiskPages, NEW k \in DiskPages,
         AllocPages(n, p, k),
         NEW gone, freed' = freed \cup gone,
         UsedPages \cup CommitPages \subseteq gone \cup UsedPages' \cup CommitPages',
         Pages(p, k) \subseteq UsedPages' \cup CommitPages'
  PROVE  HintBehindFree' /\ (~AppendErrors => NoPageLost')
<1>1. /\ AllocatorTyped /\ AllocatorConsistent /\ TypeOK
      /\ p \in Nat /\ k \in Nat /\ numPages \in Nat /\ MaxPages \in Nat
  BY TypeBasics DEF IInv
<1>2. /\ free' = free \ Pages(p, k)
      /\ \A q \in numPages .. (numPages' - 1) : q \in Pages(p, k) \/ IsSpecialPage(q)
      /\ (\A q \in free : q >= hint) => \A q \in free' : q >= hint'
  BY <1>1, AllocPagesComplete
<1>3. HintBehindFree'
  BY <1>2 DEF Accounts, HintBehindFree
<1>4. numPages' \in Nat
  <2>1. numPages' \in numPages .. MaxPages
    BY <1>1, AllocPagesEffect
  <2> QED BY <1>1, <2>1
<1>5. ASSUME ~AppendErrors PROVE NoPageLost'
  <2> DEFINE S == free' \cup freed' \cup UsedPages' \cup CommitPages'
  <2>1. Pages(p, k) \subseteq S
    OBVIOUS
  <2>2. free \cup freed \cup UsedPages \cup CommitPages \subseteq S
    BY <1>2
  <2>3. \A q \in numPages .. (numPages' - 1) : q \in S \/ IsSpecialPage(q)
    BY <1>2, <2>1
  <2>4. NoPageLost
    BY <1>5 DEF Accounts
  <2> HIDE DEF S
  <2>5. S = free' \cup freed' \cup UsedPages' \cup CommitPages'
    BY DEF S
  <2> QED BY <1>1, <1>4, <2>2, <2>3, <2>4, <2>5, NothingLost
<1> QED BY <1>3, <1>5

(* A page is copied on write: the new one is used, the old one deleted.    *)
LEMMA CowPageAccounts ==
  ASSUME IInv, Accounts, NEW s \in DOMAIN modified, NEW i \in 1 .. MaxStreamPages,
         NEW d \in Data, NEW written \in BOOLEAN, CowPage(s, i, d, written)
  PROVE  Accounts'
<1> DEFINE old == modified[s][i]
<1>1. PICK p \in DiskPages :
        /\ AllocPages(1, p, 1) /\ freed' = freed \cup {old}
        /\ modified' = [modified EXCEPT ![s][i] = p]
        /\ file' = IF written THEN [file EXCEPT ![p] = [data |-> d]] ELSE file
  BY DEF CowPage, ReplacePage
<1>2. /\ Writable(s) /\ i <= Len(modified[s])
      /\ UNCHANGED <<stage, activeFpm, sizes, committed, commitVars>>
  BY DEF CowPage
<1>3. /\ stage = "idle" /\ stage' = "idle" /\ s \in DOMAIN sizes
      /\ modified[s] \in Seq(DiskPages) /\ Len(modified[s]) \in Nat
  BY <1>2, WritableStream
<1>4. i \in 1 .. Len(modified[s])
  BY <1>2, <1>3, StreamsAssumption
<1>5. /\ DOMAIN modified' = DOMAIN modified
      /\ modified'[s] = [modified[s] EXCEPT ![i] = p]
      /\ \A t \in DOMAIN modified : t # s => modified'[t] = modified[t]
  BY <1>1
<1>6. /\ Len(modified'[s]) = Len(modified[s])
      /\ \A j \in 1 .. Len(modified[s]) :
           modified'[s][j] = IF j = i THEN p ELSE modified[s][j]
  BY <1>3, <1>4, <1>5, ExceptSeq
<1>7. /\ StreamPages(s) = modified[s] /\ StreamPages(s)' = modified'[s]
      /\ \A t \in DOMAIN sizes : t # s => StreamPages(t)' = StreamPages(t)
  BY <1>2, <1>5 DEF StreamPages
<1>8. SizesWithinPages'
  <2> SUFFICES ASSUME NEW t \in DOMAIN sizes'
               PROVE  IF sizes'[t] = Nil THEN StreamPages(t)' = <<>>
                      ELSE /\ sizes'[t] <= Len(StreamPages(t)')
                           /\ ~AppendErrors \/ stage' \in CommitStages =>
                                Len(StreamPages(t)') = sizes'[t]
    BY DEF SizesWithinPages, CommitStages
  <2>1. sizes' = sizes /\ stage' = stage
    BY <1>2
  <2>2. IF sizes[t] = Nil THEN StreamPages(t) = <<>>
        ELSE /\ sizes[t] <= Len(StreamPages(t))
             /\ ~AppendErrors \/ stage \in CommitStages =>
                  Len(StreamPages(t)) = sizes[t]
    BY <2>1 DEF Accounts, SizesWithinPages
  <2>3. CASE t = s
    BY <1>2, <1>6, <1>7, <2>1, <2>2, <2>3 DEF Writable
  <2>4. CASE t # s
    BY <1>7, <2>1, <2>2, <2>4
  <2> QED BY <2>3, <2>4
<1>9. DataTyped'
  <2>1. DOMAIN file = DiskPages
    BY DEF IInv, TypeOK
  <2>2. \A q \in DiskPages : file'[q] = [data |-> d] \/ file'[q] = file[q]
    BY <1>1, <2>1
  <2>3. [data |-> d].data \in Data \cup {Blank}
    OBVIOUS
  <2> QED BY <2>2, <2>3 DEF Accounts, DataTyped
<1>10. ClosedIsNew' /\ FpmProgress' /\ CommitPagesDistinct'
  BY <1>2, <1>3, EditKeeps
<1>11. CommitPages' = CommitPages
  BY <1>2 DEF CommitPages, Range, commitVars
<1>12. ASSUME NEW q \in UsedPages PROVE q \in {old} \cup UsedPages'
  <2>0. PICK t \in DOMAIN sizes :
          \E j \in 1 .. Len(StreamPages(t)) : q = StreamPages(t)[j]
    BY UsedAt
  <2>1. PICK j \in 1 .. Len(StreamPages(t)) : q = StreamPages(t)[j]
    BY <2>0
  <2>2. t \in DOMAIN sizes'
    BY <1>2
  <2>3. CASE t # s
    BY <1>7, <2>1, <2>2, <2>3, UsedAtPrime
  <2>4. CASE t = s /\ j # i
    BY <1>6, <1>7, <2>1, <2>2, <2>4, UsedAtPrime
  <2>5. CASE t = s /\ j = i
    BY <1>7, <2>1, <2>5
  <2> QED BY <2>3, <2>4, <2>5
<1>13. p \in UsedPages'
  BY <1>2, <1>3, <1>4, <1>6, <1>7, UsedAtPrime
<1>14. 1 \in DiskPages /\ 1 \in Nat \ {0} /\ Pages(p, 1) = {p}
  <2>1. p \in Nat
    BY TypeBasics DEF IInv
  <2>2. 1 \in DiskPages
    BY MaxPagesAssumption DEF DiskPages
  <2> QED BY <2>1, <2>2 DEF Pages
<1>15. /\ UsedPages \cup CommitPages \subseteq {old} \cup UsedPages' \cup CommitPages'
       /\ Pages(p, 1) \subseteq UsedPages' \cup CommitPages'
  BY <1>11, <1>12, <1>13, <1>14
<1>16. HintBehindFree' /\ (~AppendErrors => NoPageLost')
  <2> DEFINE n == 1
             gone == {old}
  <2>1. /\ n \in Nat \ {0} /\ n \in DiskPages /\ AllocPages(n, p, n)
        /\ freed' = freed \cup gone
        /\ UsedPages \cup CommitPages \subseteq gone \cup UsedPages' \cup CommitPages'
        /\ Pages(p, n) \subseteq UsedPages' \cup CommitPages'
    BY <1>1, <1>14, <1>15
  <2> HIDE DEF n, gone
  <2> QED BY <1>3, <2>1, AllocAccounts
<1> QED BY <1>8, <1>9, <1>10, <1>16 DEF Accounts

(* The run of pages p .. p + k - 1 as a list.                              *)
LEMMA RunOfPages ==
  ASSUME NEW S, NEW p \in Nat, NEW k \in Nat, Pages(p, k) \subseteq S,
         NEW Q, Q = [i \in 1 .. k |-> p + i - 1]
  PROVE  Q \in Seq(S) /\ Len(Q) = k /\ \A j \in 1 .. k : Q[j] = p + j - 1
<1>1. \A j \in 1 .. k : p + j - 1 \in S
  BY DEF Pages
<1>2. Q \in [1 .. k -> S]
  BY <1>1
<1>3. Q \in Seq(S)
  BY <1>2, SeqDef
<1> QED BY <1>2, <1>3, LenProperties

(* What a list is after such a run is added to it, place by place.         *)
LEMMA AddedRun ==
  ASSUME NEW S, NEW q \in Seq(S), NEW p \in Nat, NEW k \in Nat,
         NEW Q \in Seq(S), Len(Q) = k, \A j \in 1 .. k : Q[j] = p + j - 1
  PROVE  /\ \A j \in 1 .. Len(q) : (q \o Q)[j] = q[j]
         /\ \A i \in 1 .. k : (q \o Q)[Len(q) + i] = p + i - 1
<1>1. /\ Len(q \o Q) = Len(q) + Len(Q) /\ Len(q) \in Nat
      /\ \A j \in 1 .. (Len(q) + Len(Q)) :
           (q \o Q)[j] = IF j <= Len(q) THEN q[j] ELSE Q[j - Len(q)]
  BY ConcatProperties, LenProperties
<1>2. \A j \in 1 .. Len(q) : (q \o Q)[j] = q[j]
  BY <1>1
<1>3. ASSUME NEW i \in 1 .. k
      PROVE  (q \o Q)[Len(q) + i] = p + i - 1
  <2> DEFINE j == Len(q) + i
  <2>1. j \in 1 .. (Len(q) + Len(Q)) /\ ~(j <= Len(q)) /\ j - Len(q) = i
    BY <1>1
  <2> HIDE DEF j
  <2>2. (q \o Q)[j] = Q[i]
    BY <1>1, <2>1
  <2> QED BY <2>2 DEF j
<1> QED BY <1>2, <1>3

(* A run of pages is appended.  One that is not counted in the size of the *)
(* stream is a failed write.                                               *)
LEMMA AppendRunAccounts ==
  ASSUME IInv, Accounts, NEW s \in DOMAIN modified, NEW n \in 1 .. MaxStreamPages,
         NEW d \in Data \cup {Blank}, NEW counted \in BOOLEAN, NEW written \in BOOLEAN,
         counted \/ AppendErrors, AppendRun(s, n, d, counted, written)
  PROVE  Accounts'
<1>1. PICK p \in DiskPages, k \in DiskPages :
        /\ AllocPages(n, p, k)
        /\ modified' = [modified EXCEPT ![s] = @ \o [i \in 1 .. k |-> p + i - 1]]
        /\ sizes' = IF counted THEN [sizes EXCEPT ![s] = @ + k] ELSE sizes
        /\ file' = [q \in DiskPages |->
                      IF written /\ q \in Pages(p, k) THEN [data |-> d] ELSE file[q]]
  BY DEF AppendRun
<1>2. Writable(s) /\ UNCHANGED <<freed, stage, activeFpm, committed, commitVars>>
  BY DEF AppendRun
<1>3. /\ stage = "idle" /\ stage' = "idle" /\ s \in DOMAIN sizes /\ sizes[s] \in Nat
      /\ modified[s] \in Seq(DiskPages) /\ Len(modified[s]) \in Nat
  BY <1>2, WritableStream
<1>4. /\ TypeOK /\ AllocatorTyped /\ AllocatorConsistent
      /\ p \in Nat /\ k \in Nat /\ n \in Nat \ {0} /\ numPages \in Nat
      /\ DiskPages \subseteq Nat /\ MaxPages \in Nat
  <2>1. TypeOK /\ AllocatorConsistent
    BY DEF IInv
  <2>2. AllocatorTyped /\ DiskPages \subseteq Nat /\ numPages \in Nat /\ MaxPages \in Nat
    BY <2>1, TypeBasics
  <2> QED BY <2>1, <2>2, StreamsAssumption
<1>5. Pages(p, k) \subseteq Nat
  BY <1>4 DEF Pages
<1>6. /\ Len(modified'[s]) = Len(modified[s]) + k
      /\ \A j \in 1 .. Len(modified[s]) : modified'[s][j] = modified[s][j]
      /\ \A x \in Pages(p, k) :
           \E j \in 1 .. Len(modified'[s]) : modified'[s][j] = x
  <2> DEFINE Q == [i \in 1 .. k |-> p + i - 1]
  <2>1. modified'[s] = modified[s] \o Q
    BY <1>1
  <2>2. modified[s] \in Seq(Nat)
    BY <1>3, <1>4, SeqMonotonic
  <2>3. Q \in Seq(Nat) /\ Len(Q) = k /\ \A j \in 1 .. k : Q[j] = p + j - 1
    BY <1>4, <1>5, RunOfPages
  <2> HIDE DEF Q
  <2> DEFINE q == modified[s]
             S == Nat
  <2>4. p \in Nat /\ k \in Nat /\ q \in Seq(S) /\ Q \in Seq(S) /\ Len(q) \in Nat
    BY <1>3, <1>4, <2>2, <2>3
  <2> HIDE DEF q, S
  <2>5. /\ \A j \in 1 .. Len(q) : (q \o Q)[j] = q[j]
        /\ \A i \in 1 .. k : (q \o Q)[Len(q) + i] = p + i - 1
    BY ONLY <2>3, <2>4, AddedRun
  <2>6. Len(q \o Q) = Len(q) + k
    BY ONLY <2>3, <2>4, ConcatProperties
  <2>7. ASSUME NEW x \in Pages(p, k)
        PROVE  \E j \in 1 .. (Len(q) + k) : (q \o Q)[j] = x
    <3> DEFINE i == x - p + 1
    <3>1. x \in Nat /\ i \in 1 .. k /\ p + i - 1 = x
      BY <2>4 DEF Pages
    <3> HIDE DEF i
    <3>2. (q \o Q)[Len(q) + i] = x
      BY <2>5, <3>1
    <3> DEFINE j == Len(q) + i
    <3>3. j \in 1 .. (Len(q) + k)
      BY <2>4, <3>1
    <3>4. (q \o Q)[j] = x
      BY <3>2
    <3> HIDE DEF j
    <3> QED BY <3>3, <3>4
  <2> QED BY <2>1, <2>5, <2>6, <2>7 DEF q
<1>7. /\ StreamPages(s) = modified[s] /\ StreamPages(s)' = modified'[s]
      /\ \A t \in DOMAIN sizes : t # s => StreamPages(t)' = StreamPages(t)
  BY <1>1, <1>2 DEF StreamPages
<1>8. /\ DOMAIN sizes' = DOMAIN sizes
      /\ sizes'[s] = IF counted THEN sizes[s] + k ELSE sizes[s]
      /\ \A t \in DOMAIN sizes : t # s => sizes'[t] = sizes[t]
  BY <1>1, <1>3
<1>9. SizesWithinPages'
  <2> SUFFICES ASSUME NEW t \in DOMAIN sizes'
               PROVE  IF sizes'[t] = Nil THEN StreamPages(t)' = <<>>
                      ELSE /\ sizes'[t] <= Len(StreamPages(t)')
                           /\ ~AppendErrors \/ stage' \in CommitStages =>
                                Len(StreamPages(t)') = sizes'[t]
    BY DEF SizesWithinPages, CommitStages
  <2>1. stage' \notin CommitStages
    BY <1>3 DEF CommitStages
  <2>2. CASE t = s
    <3>1. /\ sizes[s] <= Len(modified[s])
          /\ ~AppendErrors => Len(modified[s]) = sizes[s]
      BY <1>2, WritableAccounts
    <3>2. sizes'[s] # Nil
      BY <1>3, <1>4, <1>8, StreamsAssumption
    <3>3. sizes'[s] <= Len(modified'[s])
      BY <1>3, <1>4, <1>6, <1>8, <3>1
    <3>4. ~AppendErrors => Len(modified'[s]) = sizes'[s]
      BY <1>3, <1>4, <1>6, <1>8, <3>1
    <3> QED BY <1>7, <2>1, <2>2, <3>2, <3>3, <3>4
  <2>3. CASE t # s
    <3>1. IF sizes[t] = Nil THEN StreamPages(t) = <<>>
          ELSE /\ sizes[t] <= Len(StreamPages(t))
               /\ ~AppendErrors => Len(StreamPages(t)) = sizes[t]
      BY <1>8 DEF Accounts, SizesWithinPages
    <3> QED BY <1>7, <1>8, <2>1, <2>3, <3>1
  <2> QED BY <2>2, <2>3
<1>10. DataTyped'
  <2>1. \A q \in DiskPages : file'[q] = [data |-> d] \/ file'[q] = file[q]
    BY <1>1
  <2>2. [data |-> d].data \in Data \cup {Blank}
    OBVIOUS
  <2> QED BY <2>1, <2>2 DEF Accounts, DataTyped
<1>11. ClosedIsNew' /\ FpmProgress' /\ CommitPagesDistinct'
  BY <1>2, <1>3, EditKeeps
<1>12. CommitPages' = CommitPages
  BY <1>2 DEF CommitPages, Range, commitVars
<1>13. ASSUME NEW q \in UsedPages PROVE q \in UsedPages'
  <2>1. PICK t \in DOMAIN sizes :
          \E j \in 1 .. Len(StreamPages(t)) : q = StreamPages(t)[j]
    BY UsedAt
  <2>2. PICK j \in 1 .. Len(StreamPages(t)) : q = StreamPages(t)[j]
    BY <2>1
  <2>3. t \in DOMAIN sizes'
    BY <1>8
  <2>4. CASE t # s
    BY <1>7, <2>2, <2>3, <2>4, UsedAtPrime
  <2>5. CASE t = s
    <3>1. j \in 1 .. Len(StreamPages(s)') /\ q = StreamPages(s)'[j]
      BY <1>3, <1>4, <1>6, <1>7, <2>2, <2>5
    <3> QED BY <2>3, <2>5, <3>1, UsedAtPrime
  <2> QED BY <2>4, <2>5
<1>14. Pages(p, k) \subseteq UsedPages'
  <2> SUFFICES ASSUME NEW x \in Pages(p, k) PROVE x \in UsedPages'
    OBVIOUS
  <2>1. s \in DOMAIN sizes' /\ \E j \in 1 .. Len(StreamPages(s)') : x = StreamPages(s)'[j]
    BY <1>3, <1>6, <1>7, <1>8
  <2> QED BY <2>1, UsedAtPrime
<1>15. HintBehindFree' /\ (~AppendErrors => NoPageLost')
  <2> DEFINE gone == {}
  <2>1. /\ freed' = freed \cup gone
        /\ UsedPages \cup CommitPages \subseteq gone \cup UsedPages' \cup CommitPages'
        /\ Pages(p, k) \subseteq UsedPages' \cup CommitPages'
    BY <1>2, <1>12, <1>13, <1>14
  <2> HIDE DEF gone
  <2> QED BY <1>1, <1>3, <1>4, <2>1, AllocAccounts
<1> QED BY <1>9, <1>10, <1>11, <1>15 DEF Accounts

(* The end of a stream is cut off, and its pages are deleted.  Were the    *)
(* stream to have pages that its size does not count, they would be lost.  *)
LEMMA TruncateAccounts ==
  ASSUME IInv, Accounts, NEW s \in DOMAIN modified,
         NEW n \in 0 .. (MaxStreamPages - 1), Truncate(s, n)
  PROVE  Accounts'
<1> DEFINE gone == {modified[s][i] : i \in (n + 1) .. sizes[s]}
<1>1. /\ Writable(s) /\ n \in 0 .. (sizes[s] - 1) /\ sizes[s] <= Len(modified[s])
      /\ freed' = freed \cup gone
      /\ modified' = [modified EXCEPT ![s] = SubSeq(modified[s], 1, n)]
      /\ sizes' = [sizes EXCEPT ![s] = n]
      /\ UNCHANGED <<free, fresh, hint, numPages, file, stage, activeFpm,
                     committed, commitVars>>
  BY DEF Truncate
<1>2. /\ stage = "idle" /\ stage' = "idle" /\ s \in DOMAIN sizes /\ sizes[s] \in Nat
      /\ modified[s] \in Seq(DiskPages) /\ Len(modified[s]) \in Nat
      /\ n \in Nat /\ n < sizes[s]
  BY <1>1, WritableStream
<1>3. /\ Len(modified'[s]) = n
      /\ \A j \in 1 .. n : modified'[s][j] = modified[s][j]
  <2>1. \A i \in 1 .. n : modified[s][i] \in DiskPages
    BY <1>1, <1>2, ElementOfSeq
  <2>2. /\ Len(SubSeq(modified[s], 1, n)) = IF 1 <= n THEN n - 1 + 1 ELSE 0
        /\ \A i \in 1 .. n - 1 + 1 : SubSeq(modified[s], 1, n)[i] = modified[s][1 + i - 1]
    BY <1>2, <2>1, SubSeqProperties
  <2>3. modified'[s] = SubSeq(modified[s], 1, n)
    BY <1>1
  <2> QED BY <1>2, <2>2, <2>3
<1>4. /\ StreamPages(s) = modified[s] /\ StreamPages(s)' = modified'[s]
      /\ \A t \in DOMAIN sizes : t # s => StreamPages(t)' = StreamPages(t)
  BY <1>1 DEF StreamPages
<1>5. /\ DOMAIN sizes' = DOMAIN sizes /\ sizes'[s] = n
      /\ \A t \in DOMAIN sizes : t # s => sizes'[t] = sizes[t]
  BY <1>1, <1>2
<1>6. SizesWithinPages'
  <2> SUFFICES ASSUME NEW t \in DOMAIN sizes'
               PROVE  IF sizes'[t] = Nil THEN StreamPages(t)' = <<>>
                      ELSE /\ sizes'[t] <= Len(StreamPages(t)')
                           /\ ~AppendErrors \/ stage' \in CommitStages =>
                                Len(StreamPages(t)') = sizes'[t]
    BY DEF SizesWithinPages, CommitStages
  <2>1. stage' \notin CommitStages
    BY <1>2 DEF CommitStages
  <2>2. CASE t = s
    BY <1>2, <1>3, <1>4, <1>5, <2>2, StreamsAssumption
  <2>3. CASE t # s
    <3>1. IF sizes[t] = Nil THEN StreamPages(t) = <<>>
          ELSE /\ sizes[t] <= Len(StreamPages(t))
               /\ ~AppendErrors => Len(StreamPages(t)) = sizes[t]
      BY <1>5 DEF Accounts, SizesWithinPages
    <3> QED BY <1>4, <1>5, <2>1, <2>3, <3>1
  <2> QED BY <2>2, <2>3
<1>7. HintBehindFree' /\ DataTyped'
  BY <1>1 DEF Accounts, HintBehindFree, DataTyped
<1>8. ClosedIsNew' /\ FpmProgress' /\ CommitPagesDistinct'
  BY <1>1, <1>2, EditKeeps
<1>9. ASSUME ~AppendErrors PROVE NoPageLost'
  <2>1. Len(modified[s]) = sizes[s]
    BY <1>1, <1>9, WritableAccounts
  <2>2. ASSUME NEW q \in UsedPages PROVE q \in gone \cup UsedPages'
    <3>1. PICK t \in DOMAIN sizes :
            \E j \in 1 .. Len(StreamPages(t)) : q = StreamPages(t)[j]
      BY UsedAt
    <3>2. PICK j \in 1 .. Len(StreamPages(t)) : q = StreamPages(t)[j]
      BY <3>1
    <3>3. t \in DOMAIN sizes'
      BY <1>5
    <3>4. CASE t # s
      BY <1>4, <3>2, <3>3, <3>4, UsedAtPrime
    <3>5. CASE t = s /\ j <= n
      <4>1. j \in 1 .. Len(StreamPages(s)') /\ q = StreamPages(s)'[j]
        BY <1>2, <1>3, <1>4, <3>2, <3>5
      <4> QED BY <3>3, <3>5, <4>1, UsedAtPrime
    <3>6. CASE t = s /\ j > n
      <4>1. j \in (n + 1) .. sizes[s] /\ q = modified[s][j]
        BY <1>2, <1>4, <2>1, <3>2, <3>6
      <4> QED BY <4>1
    <3> QED BY <1>2, <1>4, <3>2, <3>4, <3>5, <3>6
  <2>3. CommitPages' = CommitPages
    BY <1>1 DEF CommitPages, Range, commitVars
  <2> DEFINE S == free' \cup freed' \cup UsedPages' \cup CommitPages'
  <2>4. free \cup freed \cup UsedPages \cup CommitPages \subseteq S
    <3> HIDE DEF gone
    <3> QED BY <1>1, <2>2, <2>3
  <2>5. TypeOK /\ NoPageLost /\ numPages' = numPages /\ numPages \in Nat
    BY <1>1, <1>9, TypeBasics DEF IInv, Accounts
  <2>6. numPages .. (numPages' - 1) = {}
    BY <2>5
  <2> HIDE DEF S
  <2>7. S = free' \cup freed' \cup UsedPages' \cup CommitPages'
    BY DEF S
  <2> QED BY <1>2, <2>4, <2>5, <2>6, <2>7, NothingLost
<1> QED BY <1>6, <1>7, <1>8, <1>9 DEF Accounts

-----------------------------------------------------------------------------
(***************************************************************************)
(* The steps of a commit.                                                  *)
(***************************************************************************)
(* A step that leaves the table of streams alone, and does not begin a     *)
(* commit.                                                                 *)
LEMMA TableKept ==
  ASSUME Accounts, UNCHANGED streamVars,
         stage' \in CommitStages => stage \in CommitStages
  PROVE  SizesWithinPages' /\ UsedPages' = UsedPages
<1>1. sizes' = sizes /\ \A t : StreamPages(t)' = StreamPages(t)
  BY DEF StreamPages, streamVars
<1>2. \A p : p \in UsedPages' <=> p \in UsedPages
  BY <1>1, UsedAt, UsedAtPrime
<1>3. SizesWithinPages'
  BY <1>1 DEF Accounts, SizesWithinPages, CommitStages
<1> QED BY <1>2, <1>3

(* commit begins: every stream has the pages its size says.                *)
LEMMA BeginCommitAccounts == ASSUME IInv, Accounts, BeginCommit PROVE Accounts'
<1>1. /\ stage = "idle" /\ SizesMatchPages /\ stage' = "dir"
      /\ UNCHANGED <<allocVars, file, activeFpm, streamVars, commitVars>>
  BY DEF BeginCommit
<1>2. sizes' = sizes /\ \A t : StreamPages(t)' = StreamPages(t)
  BY <1>1 DEF StreamPages, streamVars
<1>3. UsedPages' = UsedPages
  <2>1. \A p : p \in UsedPages' <=> p \in UsedPages
    BY <1>2, UsedAt, UsedAtPrime
  <2> QED BY <2>1
<1>4. SizesWithinPages'
  <2> SUFFICES ASSUME NEW t \in DOMAIN sizes
               PROVE  IF sizes[t] = Nil THEN StreamPages(t) = <<>>
                      ELSE /\ sizes[t] <= Len(StreamPages(t))
                           /\ Len(StreamPages(t)) = sizes[t]
    BY <1>2 DEF SizesWithinPages, CommitStages
  <2> QED BY <1>1 DEF Accounts, SizesWithinPages, SizesMatchPages
<1>5. ClosedIsNew' /\ HintBehindFree' /\ DataTyped'
  BY <1>1 DEF Accounts, ClosedIsNew, HintBehindFree, DataTyped, allocVars
<1>6. FpmProgress'
  BY <1>1 DEF Accounts, FpmProgress, commitVars
<1>7. CommitPagesDistinct' /\ CommitPages' = CommitPages
  BY <1>1 DEF Accounts, CommitPagesDistinct, CommitPages, IsInjective, Range, commitVars
<1>8. ~AppendErrors => NoPageLost'
  BY <1>1, <1>3, <1>7 DEF Accounts, NoPageLost, allocVars, IsSpecialPage, IsFpmPage, Phase
<1> QED BY <1>4, <1>5, <1>6, <1>7, <1>8 DEF Accounts

(* A page is allocated and written for the directory or its map.           *)
LEMMA CommitAllocAccounts ==
  ASSUME IInv, Accounts, stage \in {"dir", "map"}, stage' \in {"dir", "map", "merge"},
         NEW p \in DiskPages, AllocPages(1, p, 1),
         NEW v, file' = [file EXCEPT ![p] = v], "data" \notin DOMAIN v,
         UNCHANGED <<freed, activeFpm, streamVars, interval>>,
         CommitPages' = CommitPages \cup {p}
  PROVE  /\ ClosedIsNew' /\ HintBehindFree' /\ SizesWithinPages' /\ FpmProgress'
         /\ DataTyped' /\ (~AppendErrors => NoPageLost')
         /\ p \notin CommitPages
<1>1. /\ AllocatorTyped /\ AllocatorConsistent /\ TypeOK /\ p \in Nat /\ numPages \in Nat
      /\ CommitPages \subseteq Busy
  BY TypeBasics, OwnedOnceTable DEF IInv, OwnedInTable
<1>2. SizesWithinPages' /\ UsedPages' = UsedPages
  BY TableKept DEF CommitStages
<1>3. ClosedIsNew' /\ FpmProgress'
  BY DEF Accounts, ClosedIsNew, FpmProgress
<1>4. DataTyped'
  <2>1. DOMAIN file = DiskPages
    BY <1>1 DEF TypeOK
  <2>2. \A q \in DiskPages : file'[q] = v \/ file'[q] = file[q]
    BY <2>1
  <2> QED BY <2>2 DEF Accounts, DataTyped
<1>5. 1 \in DiskPages /\ 1 \in Nat \ {0} /\ Pages(p, 1) = {p}
  <2>1. 1 \in DiskPages
    BY MaxPagesAssumption DEF DiskPages
  <2> QED BY <1>1, <2>1 DEF Pages
<1>6. HintBehindFree' /\ (~AppendErrors => NoPageLost')
  <2> DEFINE n == 1
             gone == {}
  <2>1. /\ n \in Nat \ {0} /\ n \in DiskPages /\ AllocPages(n, p, n)
        /\ freed' = freed \cup gone
        /\ UsedPages \cup CommitPages \subseteq gone \cup UsedPages' \cup CommitPages'
        /\ Pages(p, n) \subseteq UsedPages' \cup CommitPages'
    BY <1>2, <1>5
  <2> HIDE DEF n, gone
  <2> QED BY <2>1, AllocAccounts
<1>7. p \notin Busy
  <2>1. p \in free \/ p >= numPages
    BY <1>1, <1>5, AllocPagesEffect
  <2> QED BY <1>1, <2>1 DEF Busy
<1> QED BY <1>1, <1>2, <1>3, <1>4, <1>6, <1>7

(* A list without repetitions takes one more element.                      *)
LEMMA AppendDistinct ==
  ASSUME NEW S, NEW q \in Seq(S), NEW p \in S, NEW r, r = Append(q, p),
         IsInjective(q), p \notin Range(q)
  PROVE  IsInjective(r)
<1>1. /\ Len(q) \in Nat /\ DOMAIN q = 1 .. Len(q)
      /\ DOMAIN r = 1 .. (Len(q) + 1)
      /\ \A i \in 1 .. Len(q) : r[i] = q[i]
      /\ r[Len(q) + 1] = p
  BY AppendOne
<1>2. \A i \in 1 .. Len(q) : q[i] # p
  BY <1>1 DEF Range
<1>3. \A i \in 1 .. (Len(q) + 1) : i \in 1 .. Len(q) \/ i = Len(q) + 1
  BY <1>1
<1>4. ASSUME NEW i \in DOMAIN r, NEW j \in DOMAIN r, r[i] = r[j]
      PROVE  i = j
  BY <1>1, <1>2, <1>3, <1>4 DEF IsInjective
<1> QED BY <1>4 DEF IsInjective

(* A page of the directory is written.                                     *)
LEMMA WriteDirPageAccounts == ASSUME IInv, Accounts, WriteDirPage PROVE Accounts'
<1> DEFINE v == [dir |-> Directory, part |-> Len(dirPages) + 1]
<1>1. PICK p \in DiskPages :
        /\ AllocPages(1, p, 1)
        /\ file' = [file EXCEPT ![p] = v]
        /\ dirPages' = Append(dirPages, p)
  BY DEF WriteDirPage
<1>2. /\ stage = "dir" /\ stage' \in {"dir", "map"}
      /\ UNCHANGED <<freed, activeFpm, streamVars, mapPages, interval>>
  BY DEF WriteDirPage
<1>3. dirPages \in Seq(DiskPages)
  BY DEF IInv, TypeOK
<1>4. Range(dirPages') = Range(dirPages) \cup {p} /\ Range(mapPages') = Range(mapPages)
  BY <1>1, <1>2, <1>3, AppendOne DEF Range
<1>5. CommitPages' = CommitPages \cup {p}
  BY <1>4 DEF CommitPages
<1>6. "data" \notin DOMAIN v
  OBVIOUS
<1> HIDE DEF v
<1>7. /\ ClosedIsNew' /\ HintBehindFree' /\ SizesWithinPages' /\ FpmProgress'
      /\ DataTyped' /\ (~AppendErrors => NoPageLost')
      /\ p \notin CommitPages
  BY <1>1, <1>2, <1>5, <1>6, CommitAllocAccounts
<1>8. IsInjective(dirPages')
  <2>1. IsInjective(dirPages) /\ p \notin Range(dirPages)
    BY <1>7 DEF Accounts, CommitPagesDistinct, CommitPages
  <2> DEFINE r == Append(dirPages, p)
  <2>2. r = Append(dirPages, p) /\ dirPages' = r
    BY <1>1
  <2> HIDE DEF r
  <2>3. IsInjective(r)
    BY <1>3, <2>1, <2>2, AppendDistinct
  <2> QED BY <2>2, <2>3 DEF IsInjective
<1>9. CommitPagesDistinct'
  BY <1>2, <1>4, <1>7, <1>8
     DEF Accounts, CommitPagesDistinct, CommitPages, Range, IsInjective
<1> QED BY <1>7, <1>9 DEF Accounts

(* A page of the directory's map is written.                               *)
LEMMA WriteMapPageAccounts == ASSUME IInv, Accounts, WriteMapPage PROVE Accounts'
<1> DEFINE v == [map |-> MapChunk(Len(mapPages) + 1)]
<1>1. PICK p \in DiskPages :
        /\ AllocPages(1, p, 1)
        /\ file' = [file EXCEPT ![p] = v]
        /\ mapPages' = Append(mapPages, p)
  BY DEF WriteMapPage
<1>2. /\ stage = "map" /\ stage' \in {"map", "merge"}
      /\ UNCHANGED <<freed, activeFpm, streamVars, dirPages, interval>>
  BY DEF WriteMapPage
<1>3. mapPages \in Seq(DiskPages)
  BY DEF IInv, TypeOK
<1>4. Range(mapPages') = Range(mapPages) \cup {p} /\ Range(dirPages') = Range(dirPages)
  BY <1>1, <1>2, <1>3, AppendOne DEF Range
<1>5. CommitPages' = CommitPages \cup {p}
  BY <1>4 DEF CommitPages
<1>6. "data" \notin DOMAIN v
  OBVIOUS
<1> HIDE DEF v
<1>7. /\ ClosedIsNew' /\ HintBehindFree' /\ SizesWithinPages' /\ FpmProgress'
      /\ DataTyped' /\ (~AppendErrors => NoPageLost')
      /\ p \notin CommitPages
  BY <1>1, <1>2, <1>5, <1>6, CommitAllocAccounts
<1>8. IsInjective(mapPages')
  <2>1. IsInjective(mapPages) /\ p \notin Range(mapPages)
    BY <1>7 DEF Accounts, CommitPagesDistinct, CommitPages
  <2> DEFINE r == Append(mapPages, p)
  <2>2. r = Append(mapPages, p) /\ mapPages' = r
    BY <1>1
  <2> HIDE DEF r
  <2>3. IsInjective(r)
    BY <1>3, <2>1, <2>2, AppendDistinct
  <2> QED BY <2>2, <2>3 DEF IsInjective
<1>9. CommitPagesDistinct'
  BY <1>2, <1>4, <1>7, <1>8
     DEF Accounts, CommitPagesDistinct, CommitPages, Range, IsInjective
<1> QED BY <1>7, <1>9 DEF Accounts

(* CeilDiv rounds up: a is within the parts, and no part is needless.      *)
LEMMA CeilDivBounds ==
  ASSUME NEW a \in Nat, NEW b \in Nat \ {0}
  PROVE  /\ CeilDiv(a, b) \in Nat
         /\ a <= b * CeilDiv(a, b)
         /\ b * CeilDiv(a, b) <= a + b - 1
<1> DEFINE m == a + b - 1
           q == m \div b
<1>1. m \in Nat /\ m = a + b - 1
  OBVIOUS
<1> HIDE DEF m
<1>2. q \in Nat /\ m % b \in 0 .. (b - 1) /\ m = b * q + (m % b)
  BY <1>1, DivMod
<1> HIDE DEF q
<1>3. b * q \in Nat
  BY <1>2
<1>4. a <= b * q /\ b * q <= a + b - 1
  BY <1>1, <1>2, <1>3
<1>5. CeilDiv(a, b) = q
  BY DEF CeilDiv, q, m
<1> QED BY <1>2, <1>4, <1>5

(* The deleted pages become free.                                          *)
LEMMA MergeFreedAccounts == ASSUME IInv, Accounts, MergeFreed PROVE Accounts'
<1>1. /\ stage = "merge" /\ stage' = "fpm"
      /\ free' = free \cup freed /\ freed' = {}
      /\ UNCHANGED <<fresh, hint, numPages, file, activeFpm, streamVars, commitVars>>
  BY DEF MergeFreed, MergeFreedIntoFree
<1>2. SizesWithinPages' /\ UsedPages' = UsedPages
  BY <1>1, TableKept DEF CommitStages
<1>3. ClosedIsNew' /\ HintBehindFree' /\ DataTyped'
  BY <1>1 DEF Accounts, ClosedIsNew, HintBehindFree, DataTyped
<1>4. interval' = 0
  BY <1>1 DEF Accounts, FpmProgress, commitVars
<1>5. 0 < CeilDiv(numPages, PageSize)
  <2>1. numPages \in Nat /\ numPages >= 3 /\ PageSize \in Nat \ {0}
    BY TypeBasics, PageSizeAssumption DEF IInv
  <2> DEFINE c == CeilDiv(numPages, PageSize)
  <2>2. c \in Nat /\ numPages <= PageSize * c
    BY <2>1, CeilDivBounds
  <2> HIDE DEF c
  <2>3. c # 0
    BY <2>1, <2>2
  <2> QED BY <2>2, <2>3 DEF c
<1>6. FpmProgress'
  <2>1. 0 .. (0 - 1) = {}
    OBVIOUS
  <2>2. interval' < CeilDiv(numPages', PageSize)
    BY <1>1, <1>4, <1>5
  <2> QED BY <1>1, <1>4, <2>1, <2>2 DEF FpmProgress
<1>7. CommitPagesDistinct' /\ CommitPages' = CommitPages
  BY <1>1 DEF Accounts, CommitPagesDistinct, CommitPages, IsInjective, Range, commitVars
<1>8. ~AppendErrors => NoPageLost'
  BY <1>1, <1>2, <1>7 DEF Accounts, NoPageLost, IsSpecialPage, IsFpmPage, Phase
<1> QED BY <1>2, <1>3, <1>6, <1>7, <1>8 DEF Accounts

(* The pages of the new FPM that the loop writes are on the model's disk.  *)
LEMMA NewFpmOnDisk ==
  ASSUME TypeOK, NEW i \in Nat, i < CeilDiv(numPages, PageSize), NEW a \in {1, 2}
  PROVE  FpmPage(i, a) \in DiskPages
<1> DEFINE c == CeilDiv(numPages, PageSize)
<1>1. /\ PageSize \in Nat \ {0} /\ numPages \in Nat /\ numPages <= MaxPages
      /\ MaxPages \in Nat
  BY TypeBasics, PageSizeAssumption
<1>2. c \in Nat /\ PageSize * c <= numPages + PageSize - 1 /\ i + 1 <= c
  BY <1>1, CeilDivBounds
<1> HIDE DEF c
<1>3. PageSize * (i + 1) <= PageSize * c
  BY <1>1, <1>2
<1>4. PageSize * (i + 1) = PageSize * i + PageSize /\ PageSize * i \in Nat
      /\ PageSize * c \in Nat
  BY <1>1, <1>2
<1>5. PageSize * i <= numPages - 1
  BY <1>1, <1>2, <1>3, <1>4
<1>6. i * PageSize = PageSize * i
  BY <1>1
<1>7. PageSize * i + a \in 0 .. (MaxPages + 2)
  BY <1>1, <1>4, <1>5
<1> QED BY <1>6, <1>7 DEF FpmPage, DiskPages

(* Two pages of one FPM are different.                                     *)
LEMMA FpmPagesApart ==
  ASSUME NEW i \in Nat, NEW j \in Nat, NEW a \in {1, 2}, FpmPage(i, a) = FpmPage(j, a)
  PROVE  i = j
<1>1. PageSize \in Nat \ {0}
  BY PageSizeAssumption
<1>2. i * PageSize \in Nat /\ j * PageSize \in Nat
  BY <1>1
<1>3. i * PageSize = j * PageSize
  BY <1>2 DEF FpmPage
<1> QED BY <1>1, <1>3

(* A page of the new FPM is written.                                       *)
LEMMA WriteFpmPageAccounts == ASSUME IInv, Accounts, WriteFpmPage PROVE Accounts'
<1> DEFINE x == FpmPage(interval, NewFpm)
           v == [fpm |-> {p \in free : p \div BitsPerFpmPage = interval}]
           c == CeilDiv(numPages, PageSize)
<1>1. /\ stage = "fpm"
      /\ file' = [file EXCEPT ![x] = v]
      /\ interval' = interval + 1
      /\ stage' = IF interval + 1 < c THEN "fpm" ELSE "header"
      /\ UNCHANGED <<allocVars, activeFpm, streamVars, dirPages, mapPages>>
  BY DEF WriteFpmPage
<1>2. /\ interval \in Nat /\ NewFpm \in {1, 2} /\ NewFpm' = NewFpm
      /\ DOMAIN file = DiskPages /\ interval < c
  <2>1. interval \in Nat /\ activeFpm \in {1, 2} /\ DOMAIN file = DiskPages
    BY DEF IInv, TypeOK
  <2>2. interval < c
    BY <1>1 DEF Accounts, FpmProgress
  <2> QED BY <1>1, <2>1, <2>2 DEF NewFpm
<1>3. x \in DiskPages
  BY <1>2, NewFpmOnDisk DEF IInv
<1>4. \A i \in 0 .. interval :
        file'[FpmPage(i, NewFpm)] = [fpm |-> {p \in free : p \div BitsPerFpmPage = i}]
  <2> SUFFICES ASSUME NEW i \in 0 .. interval
               PROVE  file'[FpmPage(i, NewFpm)] =
                        [fpm |-> {p \in free : p \div BitsPerFpmPage = i}]
    OBVIOUS
  <2>1. CASE i = interval
    BY <1>1, <1>2, <1>3, <2>1
  <2>2. CASE i # interval
    <3>1. i \in Nat /\ i \in 0 .. (interval - 1)
      BY <1>2, <2>2
    <3>2. FpmPage(i, NewFpm) # x
      BY <1>2, <2>2, <3>1, FpmPagesApart
    <3>3. file'[FpmPage(i, NewFpm)] = file[FpmPage(i, NewFpm)]
      BY <1>1, <3>2
    <3>4. file[FpmPage(i, NewFpm)] = [fpm |-> {p \in free : p \div BitsPerFpmPage = i}]
      BY <1>1, <3>1 DEF Accounts, FpmProgress
    <3> QED BY <3>3, <3>4
  <2> QED BY <2>1, <2>2
<1>5. FpmProgress'
  <2>1. c \in Nat /\ c' = c
    <3>1. numPages \in Nat /\ PageSize \in Nat \ {0} /\ numPages' = numPages
      BY <1>1, TypeBasics, PageSizeAssumption DEF IInv, allocVars
    <3> QED BY <3>1, CeilDivBounds
  <2>2. freed' = {} /\ free' = free
    BY <1>1 DEF Accounts, FpmProgress, allocVars
  <2>3. /\ stage' \in {"fpm", "header"}
        /\ stage' = "fpm" => interval' < c'
        /\ stage' = "header" => interval' >= c'
    <3> HIDE DEF c
    <3> QED BY <1>1, <1>2, <2>1
  <2>4. 0 .. (interval' - 1) = 0 .. interval
    BY <1>1, <1>2
  <2>5. \A i \in 0 .. (interval' - 1) :
          file'[FpmPage(i, NewFpm')] =
            [fpm |-> {p \in free' : p \div BitsPerFpmPage = i}]
    BY <1>2, <1>4, <2>2, <2>4
  <2> QED BY <2>2, <2>3, <2>5 DEF FpmProgress, FpmPage
<1>6. DataTyped'
  <2>1. "data" \notin DOMAIN v
    OBVIOUS
  <2> HIDE DEF v
  <2>2. \A q \in DiskPages : file'[q] = v \/ file'[q] = file[q]
    BY <1>1, <1>2
  <2> QED BY <2>1, <2>2 DEF Accounts, DataTyped
<1>7. SizesWithinPages' /\ UsedPages' = UsedPages
  BY <1>1, TableKept DEF CommitStages
<1>8. ClosedIsNew' /\ HintBehindFree'
  BY <1>1 DEF ClosedIsNew, HintBehindFree
<1>9. CommitPagesDistinct' /\ CommitPages' = CommitPages
  BY <1>1 DEF Accounts, CommitPagesDistinct, CommitPages, IsInjective, Range
<1>10. ~AppendErrors => NoPageLost'
  BY <1>1, <1>7, <1>9 DEF Accounts, NoPageLost, allocVars, IsSpecialPage, IsFpmPage, Phase
<1> QED BY <1>5, <1>6, <1>7, <1>8, <1>9, <1>10 DEF Accounts

(* A write of the commit fails, and the editor is given up.                *)
LEMMA CommitFailsAccounts == ASSUME IInv, Accounts, CommitFails PROVE Accounts'
<1>1. /\ stage \in CommitStages /\ stage' = "failed" /\ stage # "closed"
      /\ UNCHANGED <<allocVars, file, activeFpm, streamVars, commitVars>>
  BY DEF CommitFails, CommitStages
<1>2. SizesWithinPages' /\ UsedPages' = UsedPages
  BY <1>1, TableKept
<1>3. ClosedIsNew' /\ HintBehindFree' /\ DataTyped' /\ FpmProgress'
  BY <1>1 DEF Accounts, ClosedIsNew, HintBehindFree, DataTyped, FpmProgress
<1>4. CommitPagesDistinct' /\ CommitPages' = CommitPages
  BY <1>1 DEF Accounts, CommitPagesDistinct, CommitPages, IsInjective, Range, commitVars
<1>5. ~AppendErrors => NoPageLost'
  BY <1>1, <1>2, <1>4 DEF Accounts, NoPageLost, allocVars, IsSpecialPage, IsFpmPage, Phase
<1> QED BY <1>2, <1>3, <1>4, <1>5 DEF Accounts

(* A page that is not special is behind the header and the FPMs.           *)
LEMMA BehindFpm == ASSUME NEW p \in Nat, ~IsSpecialPage(p) PROVE p >= 3
<1>1. PageSize \in Nat /\ PageSize >= 3
  BY PageSizeAssumption
<1>2. p # 0 /\ p % PageSize \notin {1, 2}
  BY DEF IsSpecialPage, IsFpmPage, Phase
<1>3. 1 % PageSize = 1 /\ 2 % PageSize = 2
  BY <1>1
<1> QED BY <1>2, <1>3

(* The header is written: the pages of the new directory are deleted ones  *)
(* for the next commit, and the streams keep theirs.                       *)
LEMMA WriteHeaderAccounts == ASSUME IInv, Accounts, WriteHeader PROVE Accounts'
<1>1. /\ stage = "header" /\ stage' = "idle"
      /\ \E hdr : file' = [file EXCEPT ![0] = [header |-> hdr]]
      /\ committed' = [s \in DOMAIN sizes |->
                         IF sizes[s] = Nil THEN <<>> ELSE StreamPages(s)]
      /\ freed' = freed \cup CommitPages /\ hint' = 3
      /\ modified' = <<>>
      /\ dirPages' = <<>> /\ mapPages' = <<>> /\ interval' = 0
      /\ UNCHANGED <<free, numPages, sizes>>
  BY DEF WriteHeader, HintAfterCommit
<1>2. DOMAIN modified' = {}
  BY <1>1
<1>3. \A t \in DOMAIN sizes : StreamPages(t)' = StreamPages(t)
  <2> TAKE t \in DOMAIN sizes
  <2>1. StreamPages(t)' = IF sizes[t] = Nil THEN <<>> ELSE StreamPages(t)
    BY <1>1, <1>2 DEF StreamPages
  <2> QED BY <2>1 DEF Accounts, SizesWithinPages
<1>4. SizesWithinPages'
  <2> SUFFICES ASSUME NEW t \in DOMAIN sizes
               PROVE  IF sizes[t] = Nil THEN StreamPages(t) = <<>>
                      ELSE /\ sizes[t] <= Len(StreamPages(t))
                           /\ Len(StreamPages(t)) = sizes[t]
    BY <1>1, <1>3 DEF SizesWithinPages, CommitStages
  <2> QED BY <1>1 DEF Accounts, SizesWithinPages, CommitStages
<1>5. UsedPages' = UsedPages
  <2>1. \A p : p \in UsedPages' <=> p \in UsedPages
    BY <1>1, <1>3, UsedAt, UsedAtPrime
  <2> QED BY <2>1
<1>6. CommitPagesDistinct'
  BY <1>1, NoCommitPages
<1>7. ClosedIsNew' /\ FpmProgress'
  BY <1>1 DEF ClosedIsNew, FpmProgress
<1>8. HintBehindFree'
  <2>1. \A p \in free : p \in Nat /\ ~IsSpecialPage(p)
    BY TypeBasics DEF IInv, AllocatorTyped, AllocatorConsistent
  <2>2. \A p \in free : p >= 3
    BY <2>1, BehindFpm
  <2> QED BY <1>1, <2>2 DEF HintBehindFree
<1>9. DataTyped'
  <2>1. DOMAIN file = DiskPages
    BY DEF IInv, TypeOK
  <2>2. PICK hdr : file' = [file EXCEPT ![0] = [header |-> hdr]]
    BY <1>1
  <2>3. "data" \notin DOMAIN [header |-> hdr]
    OBVIOUS
  <2>4. \A q \in DiskPages : file'[q] = [header |-> hdr] \/ file'[q] = file[q]
    BY <2>1, <2>2
  <2> QED BY <2>3, <2>4 DEF Accounts, DataTyped
<1>10. ASSUME ~AppendErrors PROVE NoPageLost'
  <2>1. NoPageLost
    BY <1>10 DEF Accounts
  <2>2. free' \cup freed' \cup UsedPages' \cup CommitPages'
          = free \cup freed \cup UsedPages \cup CommitPages
    <3>1. CommitPages' = {}
      <4>1. DOMAIN <<>> = {}
        OBVIOUS
      <4>2. DOMAIN dirPages' = {} /\ DOMAIN mapPages' = {}
        BY <1>1, <4>1
      <4> QED BY <4>2 DEF CommitPages, Range
    <3> QED BY <1>1, <1>5, <3>1
  <2>3. \A p \in 0 .. (numPages - 1) :
          p \in free' \cup freed' \cup UsedPages' \cup CommitPages' \/ IsSpecialPage(p)
    BY <1>1, <2>1, <2>2 DEF NoPageLost
  <2> QED BY <1>1, <2>3 DEF NoPageLost, IsSpecialPage, IsFpmPage, Phase
<1> QED BY <1>4, <1>6, <1>7, <1>8, <1>9, <1>10 DEF Accounts

(* The file is opened: what the directory does not name is free.           *)
LEMMA ReopenAccounts == ASSUME IInv, Accounts, Reopen PROVE Accounts'
<1> DEFINE D == DiskDirectory
<1>1. /\ stage = "closed" /\ stage' = "idle"
      /\ sizes' = [s \in DOMAIN D |-> IF D[s] = Nil THEN Nil ELSE Len(D[s])]
      /\ committed' = [s \in DOMAIN D |-> IF D[s] = Nil THEN <<>> ELSE D[s]]
      /\ modified' = <<>> /\ hint' = 0
      /\ numPages' = Header.numPages
      /\ free' = ComputedFree /\ freed' = DiskMapPages \cup DiskDirPages
      /\ UNCHANGED <<file, commitVars>>
  BY DEF Reopen
<1>2. IInv'
  BY ReopenStep
<1>3. DOMAIN modified' = {}
  BY <1>1
<1>4. \A s \in DOMAIN D : StreamPages(s)' = IF D[s] = Nil THEN <<>> ELSE D[s]
  BY <1>1, <1>3 DEF StreamPages
<1>5. SizesWithinPages'
  <2> SUFFICES ASSUME NEW s \in DOMAIN D
               PROVE  IF sizes'[s] = Nil THEN StreamPages(s)' = <<>>
                      ELSE /\ sizes'[s] <= Len(StreamPages(s)')
                           /\ Len(StreamPages(s)') = sizes'[s]
    BY <1>1 DEF SizesWithinPages
  <2>1. CASE D[s] = Nil
    BY <1>1, <1>4, <2>1
  <2>2. CASE D[s] # Nil
    <3>1. sizes'[s] = Len(D[s]) /\ StreamPages(s)' = D[s]
      BY <1>1, <1>4, <2>2
    <3>2. sizes'[s] \in Nat \cup {Nil} /\ committed'[s] \in Seq(DiskPages)
      BY <1>1, <1>2 DEF IInv, TypeOK, DiskPages
    <3>3. D[s] \in Seq(DiskPages)
      BY <1>1, <2>2, <3>2
    <3>4. Len(D[s]) \in Nat
      BY <3>3, LenProperties
    <3> QED BY <3>1, <3>4, StreamsAssumption
  <2> QED BY <2>1, <2>2
<1>6. dirPages' = <<>> /\ mapPages' = <<>> /\ interval' = 0
  BY <1>1 DEF IInv, CommitProgress, Accounts, FpmProgress, commitVars
<1>7. CommitPagesDistinct'
  BY <1>6, NoCommitPages
<1>8. ClosedIsNew' /\ FpmProgress' /\ DataTyped'
  BY <1>1, <1>6 DEF Accounts, ClosedIsNew, FpmProgress, DataTyped
<1>9. HintBehindFree'
  <2>1. \A p \in free' : p \in Nat
    BY <1>2 DEF IInv, TypeOK, DiskPages
  <2> QED BY <1>1, <2>1 DEF HintBehindFree
<1>10. NoPageLost'
  <2>1. DiskStreamPages \subseteq UsedPages'
    <3> SUFFICES ASSUME NEW p \in DiskStreamPages PROVE p \in UsedPages'
      OBVIOUS
    <3>1. PICK s \in DOMAIN D : D[s] # Nil /\ p \in Range(D[s])
      BY DEF DiskStreamPages
    <3>2. StreamPages(s)' = D[s] /\ s \in DOMAIN sizes'
      BY <1>1, <1>4, <3>1
    <3>3. D[s] \in Seq(DiskPages)
      BY <1>1, <1>2, <3>1 DEF IInv, TypeOK, DiskPages
    <3>4. DOMAIN D[s] = 1 .. Len(D[s])
      BY <3>3, LenProperties
    <3>5. PICK i \in 1 .. Len(D[s]) : p = D[s][i]
      BY <3>1, <3>4 DEF Range
    <3> QED BY <3>2, <3>5, UsedAtPrime
  <2>2. ASSUME NEW p \in 0 .. (Header.numPages - 1)
        PROVE  p \in free' \cup freed' \cup UsedPages' \/ IsSpecialPage(p)
    BY <1>1, <2>1 DEF ComputedFree, AllFree
  <2> QED BY <1>1, <2>2 DEF NoPageLost, IsSpecialPage, IsFpmPage, Phase
<1> QED BY <1>5, <1>7, <1>8, <1>9, <1>10 DEF Accounts

(* The process ends.                                                       *)
LEMMA CrashAccounts == ASSUME IInv, Accounts, Crash PROVE Accounts'
<1>1. /\ stage' = "closed" /\ interval' = 0
      /\ free' = {} /\ freed' = {} /\ hint' = 0 /\ numPages' = 3
      /\ sizes' = <<>> /\ dirPages' = <<>> /\ mapPages' = <<>>
      /\ UNCHANGED file
  BY DEF Crash
<1>2. DOMAIN sizes' = {}
  BY <1>1
<1>3. SizesWithinPages'
  BY <1>2 DEF SizesWithinPages
<1>4. CommitPagesDistinct'
  BY <1>1, NoCommitPages
<1>5. /\ ClosedIsNew' /\ HintBehindFree' /\ FpmProgress' /\ DataTyped'
      /\ NoPageLost'
  BY <1>1 DEF Accounts, ClosedIsNew, HintBehindFree, FpmProgress, DataTyped, NoPageLost
<1> QED BY <1>3, <1>4, <1>5 DEF Accounts

(* The three pages of a new MSF are special.                               *)
LEMMA NewFileSpecial == \A p \in 0 .. (3 - 1) : IsSpecialPage(p)
<1>1. PageSize \in Nat /\ PageSize >= 3
  BY PageSizeAssumption
<1>2. 1 % PageSize = 1 /\ 2 % PageSize = 2
  BY <1>1
<1> QED BY <1>2 DEF IsSpecialPage, IsFpmPage, Phase

(* The streams of a new MSF have no pages.                                 *)
LEMMA NewStreamsEmpty ==
  ASSUME NEW s \in DOMAIN NewSizes, NEW q, q = <<>>
  PROVE  IF NewSizes[s] = Nil THEN q = <<>>
         ELSE NewSizes[s] <= Len(q) /\ Len(q) = NewSizes[s]
<1>1. Len(<<>>) = 0
  OBVIOUS
<1>2. NewSizes[s] \in {0, Nil}
  BY DEF NewSizes
<1> QED BY <1>1, <1>2

(* A new MSF is created, by an editor whose allocator is a new one.        *)
LEMMA CreateAccounts == ASSUME IInv, Accounts, Create PROVE Accounts'
<1>1. /\ stage = "closed" /\ stage' = "idle"
      /\ sizes' = NewSizes
      /\ committed' = [s \in {0} |-> <<>>]
      /\ modified' = [s \in 1 .. FixedStreams |-> <<>>]
      /\ UNCHANGED <<allocVars, file, activeFpm, commitVars>>
  BY DEF Create, NewEditor
<1>2. numPages' = 3 /\ free' = {} /\ freed' = {} /\ hint' = 0
  BY <1>1 DEF Accounts, ClosedIsNew, allocVars
<1>3. dirPages' = <<>> /\ mapPages' = <<>> /\ interval' = 0
  BY <1>1 DEF IInv, CommitProgress, Accounts, FpmProgress, commitVars
<1>4. \A s \in DOMAIN NewSizes : StreamPages(s)' = <<>>
  BY <1>1, StreamsAssumption DEF StreamPages, NewSizes
<1>5. SizesWithinPages'
  BY <1>1, <1>4, NewStreamsEmpty DEF SizesWithinPages
<1>6. CommitPagesDistinct'
  BY <1>3, NoCommitPages
<1>7. /\ ClosedIsNew' /\ HintBehindFree' /\ FpmProgress' /\ DataTyped'
  BY <1>1, <1>2, <1>3 DEF Accounts, ClosedIsNew, HintBehindFree, FpmProgress, DataTyped
<1>8. NoPageLost'
  BY <1>1, <1>2, NewFileSpecial DEF NoPageLost, IsSpecialPage, IsFpmPage, Phase
<1> QED BY <1>5, <1>6, <1>7, <1>8 DEF Accounts

(* A step of nothing.                                                      *)
LEMMA StutterAccounts == ASSUME Accounts, UNCHANGED vars PROVE Accounts'
<1>1. UNCHANGED <<allocVars, file, stage, activeFpm, streamVars, commitVars>>
  BY DEF vars
<1>2. SizesWithinPages' /\ UsedPages' = UsedPages
  BY <1>1, TableKept
<1>3. ClosedIsNew' /\ HintBehindFree' /\ DataTyped'
  BY <1>1 DEF Accounts, ClosedIsNew, HintBehindFree, DataTyped, allocVars
<1>4. FpmProgress'
  BY <1>1 DEF Accounts, FpmProgress, NewFpm, FpmPage, CeilDiv, allocVars, commitVars
<1>5. CommitPagesDistinct' /\ CommitPages' = CommitPages
  BY <1>1 DEF Accounts, CommitPagesDistinct, CommitPages, IsInjective, Range, commitVars
<1>6. ~AppendErrors => NoPageLost'
  BY <1>1, <1>2, <1>5 DEF Accounts, NoPageLost, allocVars, IsSpecialPage, IsFpmPage, Phase
<1> QED BY <1>2, <1>3, <1>4, <1>5, <1>6 DEF Accounts

(* A new MSF, before its first step.                                       *)
LEMMA InitAccounts == Init => Accounts
<1> SUFFICES ASSUME Init PROVE Accounts
  OBVIOUS
<1>1. /\ free = {} /\ freed = {} /\ hint = 0 /\ numPages = 3
      /\ stage = "idle" /\ sizes = NewSizes
      /\ committed = [s \in {0} |-> <<>>]
      /\ modified = [s \in 1 .. FixedStreams |-> <<>>]
      /\ dirPages = <<>> /\ mapPages = <<>> /\ interval = 0
      /\ file = [p \in DiskPages |-> [data |-> Blank]]
  BY DEF Init
<1>2. \A s \in DOMAIN NewSizes : StreamPages(s) = <<>>
  BY <1>1, StreamsAssumption DEF StreamPages, NewSizes
<1>3. SizesWithinPages
  BY <1>1, <1>2, NewStreamsEmpty DEF SizesWithinPages
<1>4. DOMAIN <<>> = {}
  OBVIOUS
<1>5. CommitPagesDistinct
  BY <1>1, <1>4 DEF CommitPagesDistinct, IsInjective, Range
<1>6. ClosedIsNew /\ HintBehindFree /\ FpmProgress /\ DataTyped
  BY <1>1 DEF ClosedIsNew, HintBehindFree, FpmProgress, DataTyped
<1>7. NoPageLost
  BY <1>1, NewFileSpecial DEF NoPageLost
<1> QED BY <1>3, <1>5, <1>6, <1>7 DEF Accounts

(* Every step keeps the accounts.                                          *)
LEMMA NextAccounts == IInv /\ Accounts /\ Next => Accounts'
<1> SUFFICES ASSUME IInv, Accounts, Next PROVE Accounts'
  OBVIOUS
<1>1. CASE Create
  BY <1>1, CreateAccounts
<1>2. CASE Reopen
  BY <1>2, ReopenAccounts
<1>3. CASE Crash
  BY <1>3, CrashAccounts
<1>4. CASE NewStream
  BY <1>4, AddStreamAccounts DEF NewStream
<1>5. CASE NilStream
  BY <1>5, AddStreamAccounts DEF NilStream
<1>6. CASE \E s \in 1 .. (MaxStreams - 1) : WriteStream(s)
  BY <1>6, WriteStreamAccounts
<1>7. CASE \E s \in DOMAIN modified, i \in 1 .. MaxStreamPages, d \in Data :
             OverwriteFreshPage(s, i, d)
  BY <1>7, OverwriteFreshPageAccounts
<1>8. CASE \E s \in DOMAIN modified, i \in 1 .. MaxStreamPages, d \in Data,
              written \in BOOLEAN : CowPage(s, i, d, written)
  BY <1>8, CowPageAccounts
<1>9. CASE \E s \in DOMAIN modified, n \in 1 .. MaxStreamPages, d \in Data,
              written \in BOOLEAN : AppendPages(s, n, d, written)
  <2>1. PICK s \in DOMAIN modified, n \in 1 .. MaxStreamPages, d \in Data,
             written \in BOOLEAN : AppendRun(s, n, d, TRUE, written)
    BY <1>9 DEF AppendPages
  <2>2. d \in Data \cup {Blank} /\ TRUE \in BOOLEAN
    OBVIOUS
  <2> QED BY <2>1, <2>2, AppendRunAccounts
<1>10. CASE \E s \in DOMAIN modified, n \in 1 .. MaxStreamPages : AppendFails(s, n)
  <2>1. PICK s \in DOMAIN modified, n \in 1 .. MaxStreamPages :
          AppendErrors /\ AppendRun(s, n, Blank, FALSE, FALSE)
    BY <1>10 DEF AppendFails
  <2>2. Blank \in Data \cup {Blank} /\ FALSE \in BOOLEAN
    OBVIOUS
  <2> QED BY <2>1, <2>2, AppendRunAccounts
<1>11. CASE \E s \in DOMAIN modified, n \in 0 .. (MaxStreamPages - 1) : Truncate(s, n)
  BY <1>11, TruncateAccounts
<1>12. CASE BeginCommit
  BY <1>12, BeginCommitAccounts
<1>13. CASE WriteDirPage
  BY <1>13, WriteDirPageAccounts
<1>14. CASE WriteMapPage
  BY <1>14, WriteMapPageAccounts
<1>15. CASE MergeFreed
  BY <1>15, MergeFreedAccounts
<1>16. CASE WriteFpmPage
  BY <1>16, WriteFpmPageAccounts
<1>17. CASE WriteHeader
  BY <1>17, WriteHeaderAccounts
<1>18. CASE CommitFails
  BY <1>18, CommitFailsAccounts
<1> QED BY <1>1, <1>2, <1>3, <1>4, <1>5, <1>6, <1>7, <1>8, <1>9, <1>10, <1>11, <1>12,
           <1>13, <1>14, <1>15, <1>16, <1>17, <1>18 DEF Next

-----------------------------------------------------------------------------
(***************************************************************************)
(* Reading the file.                                                       *)
(***************************************************************************)

(***************************************************************************)
(* A step that leaves the header, and with it what the header reaches, as  *)
(* it is changes nothing of what open reads.                               *)
(***************************************************************************)
LEMMA DiskUnchanged ==
  ASSUME HasHeader, TypeOK, DiskWellFormed, Untouched, file'[0] = file[0]
  PROVE  /\ HasHeader' /\ Header' = Header
         /\ DiskMapPages' = DiskMapPages /\ DiskDirPages' = DiskDirPages
         /\ DiskDirectory' = DiskDirectory /\ DiskStreamPages' = DiskStreamPages
         /\ \A k \in 1 .. Header.dirLen :
              DiskDirPage(k)' = DiskDirPage(k)
              /\ file'[DiskDirPage(k)] = file[DiskDirPage(k)]
         /\ \A p \in StablePages : file'[p] = file[p]
<1>1. /\ \A p \in Reachable : file'[p] = file[p]
      /\ \A p \in StablePages : file'[p] = file[p]
  BY ReachableOnDisk DEF Untouched
<1>2. StableKept
  BY <1>1 DEF StableKept
<1>3. HasHeader' /\ Header' = Header /\ DiskDirectory' = DiskDirectory
  BY <1>2, DiskKept
<1>4. DiskMapPages' = DiskMapPages
  BY <1>3 DEF DiskMapPages, Range
<1>5. \A k \in 1 .. Header.dirLen :
        DiskDirPage(k)' = DiskDirPage(k)
        /\ file'[DiskDirPage(k)] = file[DiskDirPage(k)]
  <2> TAKE k \in 1 .. Header.dirLen
  <2>1. file'[Header.map[MapIndex(k)]] = file[Header.map[MapIndex(k)]]
    BY <1>1, DiskPagesStable
  <2>2. /\ DiskDirPage(k) = file[Header.map[MapIndex(k)]].map[MapOffset(k)]
        /\ DiskDirPage(k)' = file'[Header'.map[MapIndex(k)]].map[MapOffset(k)]
    BY DEF DiskDirPage, MapIndex, MapOffset
  <2>3. DiskDirPage(k)' = DiskDirPage(k)
    BY <1>3, <2>1, <2>2
  <2> QED BY <1>1, <2>3, DiskPagesStable
<1>6. DiskDirPages' = DiskDirPages
  BY <1>3, <1>5 DEF DiskDirPages
<1>7. DiskStreamPages' = DiskStreamPages
  BY <1>3 DEF DiskStreamPages, Range
<1> QED BY <1>1, <1>3, <1>4, <1>5, <1>6, <1>7

(* And open goes as it would have before the step.                         *)
LEMMA OpenUnchanged ==
  ASSUME HasHeader, TypeOK, DiskWellFormed, Untouched, file'[0] = file[0]
  PROVE  /\ ComputedFree' = ComputedFree
         /\ OpenSucceeds => OpenSucceeds'
<1>1. /\ HasHeader' /\ Header' = Header
      /\ DiskMapPages' = DiskMapPages /\ DiskDirPages' = DiskDirPages
      /\ DiskDirectory' = DiskDirectory /\ DiskStreamPages' = DiskStreamPages
      /\ \A k \in 1 .. Header.dirLen :
           DiskDirPage(k)' = DiskDirPage(k)
           /\ file'[DiskDirPage(k)] = file[DiskDirPage(k)]
      /\ \A p \in StablePages : file'[p] = file[p]
  BY DiskUnchanged
<1>2. ComputedFree' = ComputedFree
  BY <1>1 DEF ComputedFree, AllFree, IsSpecialPage, IsFpmPage, Phase
<1>3. FpmOnDisk' = FpmOnDisk
  <2> DEFINE C == 0 .. (CeilDiv(Header.numPages, BitsPerFpmPage) - 1)
             S(i) == file[FpmPage(i, Header.activeFpm)].fpm
                       \cap (0 .. (Header.numPages - 1))
             T(i) == file'[FpmPage(i, Header.activeFpm)].fpm
                       \cap (0 .. (Header.numPages - 1))
  <2>1. ASSUME NEW i \in C PROVE S(i) = T(i)
    <3>1. FpmPage(i, Header.activeFpm) \in Reachable
      BY DEF Reachable
    <3>2. file'[FpmPage(i, Header.activeFpm)] = file[FpmPage(i, Header.activeFpm)]
      BY <3>1 DEF Untouched
    <3> QED BY <3>2
  <2>2. FpmOnDisk = UNION {S(i) : i \in C}
    BY DEF FpmOnDisk
  <2>3. FpmOnDisk' = UNION {T(i) : i \in C}
    BY <1>1 DEF FpmOnDisk, FpmPage, CeilDiv
  <2> HIDE DEF C, S, T
  <2>4. {S(i) : i \in C} = {T(i) : i \in C}
    BY <2>1
  <2> QED BY <2>2, <2>3, <2>4
<1>4. DirectoryReadable => DirectoryReadable'
  <2> SUFFICES ASSUME DirectoryReadable PROVE DirectoryReadable'
    OBVIOUS
  <2>1. \A j \in DOMAIN Header'.map : "map" \in DOMAIN file'[Header'.map[j]]
    <3>1. \A j \in DOMAIN Header.map : Header.map[j] \in StablePages
      BY DEF StablePages, DiskMapPages, Range
    <3> QED BY <1>1, <3>1 DEF DirectoryReadable
  <2>2. \A k \in 1 .. Header'.dirLen :
          /\ "dir" \in DOMAIN file'[DiskDirPage(k)']
          /\ file'[DiskDirPage(k)'].dir = DiskDirectory'
          /\ file'[DiskDirPage(k)'].part = k
    BY <1>1 DEF DirectoryReadable
  <2> QED BY <2>1, <2>2 DEF DirectoryReadable
<1>5. PageNumbersValid => PageNumbersValid'
  <2> SUFFICES ASSUME PageNumbersValid PROVE PageNumbersValid'
    OBVIOUS
  <2>1. \A p \in DiskMapPages' \cup DiskDirPages' \cup DiskStreamPages' :
          p < Header'.numPages /\ ~IsSpecialPage(p)
    BY <1>1 DEF PageNumbersValid
  <2>2. IsInjective(Header'.map)
    BY <1>1 DEF PageNumbersValid
  <2>3. \A j, k \in 1 .. Header'.dirLen : DiskDirPage(j)' = DiskDirPage(k)' => j = k
    BY <1>1 DEF PageNumbersValid
  <2>4. /\ DiskMapPages' \cap DiskDirPages' = {}
        /\ (DiskMapPages' \cup DiskDirPages') \cap DiskStreamPages' = {}
    BY <1>1 DEF PageNumbersValid
  <2>5. LET D == DiskDirectory'
            present == {s \in DOMAIN D : D[s] # Nil}
        IN  \A s, t \in present : \A i \in DOMAIN D[s], j \in DOMAIN D[t] :
              D[s][i] = D[t][j] => s = t /\ i = j
    BY <1>1 DEF PageNumbersValid
  <2> QED BY <2>1, <2>2, <2>3, <2>4, <2>5
       DEF PageNumbersValid, IsSpecialPage, IsFpmPage, Phase, IsInjective
<1> QED BY <1>1, <1>2, <1>3, <1>4, <1>5 DEF OpenSucceeds

(* The pages that are allocated are in no use and hold nothing of the file. *)
LEMMA NewPages ==
  ASSUME IInv, NEW n \in Nat \ {0}, NEW p \in DiskPages, NEW k \in DiskPages,
         AllocPages(n, p, k)
  PROVE  \A q \in Pages(p, k) :
           /\ q \in DiskPages /\ q # 0 /\ ~IsSpecialPage(q)
           /\ q \in free \/ q >= numPages
<1>1. /\ AllocatorTyped /\ AllocatorConsistent /\ MaxPages \in Nat
      /\ numPages \in Nat /\ p \in Nat /\ k \in Nat
  BY TypeBasics DEF IInv
<1>2. /\ numPages' \in numPages .. MaxPages
      /\ \A q \in Pages(p, k) : /\ q \in Nat /\ q < numPages' /\ ~IsSpecialPage(q)
                                /\ q \in free \/ q >= numPages
  BY <1>1, AllocPagesEffect
<1>3. \A q \in Pages(p, k) : q \in DiskPages
  BY <1>1, <1>2 DEF DiskPages
<1> QED BY <1>2, <1>3 DEF IsSpecialPage

(* The same of a single page.                                              *)
LEMMA NewPage ==
  ASSUME IInv, NEW p \in DiskPages, AllocPages(1, p, 1)
  PROVE  p # 0 /\ ~IsSpecialPage(p) /\ (p \in free \/ p >= numPages)
<1> DEFINE n == 1
<1>1. n \in Nat \ {0} /\ n \in DiskPages /\ p \in Nat
  BY MaxPagesAssumption, TypeBasics DEF DiskPages, IInv
<1>2. p \in Pages(p, n)
  BY <1>1 DEF Pages
<1>3. AllocPages(n, p, n)
  OBVIOUS
<1> HIDE DEF n
<1> QED BY <1>1, <1>2, <1>3, NewPages

(* Only the commit of a header writes to page 0.                           *)
LEMMA HeaderKept == ASSUME IInv, Next, ~WriteHeader PROVE file'[0] = file[0]
<1>1. DOMAIN file = DiskPages /\ 0 \in DiskPages /\ DiskPages \subseteq Nat
  BY TypeBasics, MaxPagesAssumption DEF IInv, TypeOK, DiskPages
<1>2. ASSUME NEW s \in DOMAIN modified, NEW i \in 1 .. MaxStreamPages, NEW d \in Data,
             OverwriteFreshPage(s, i, d)
      PROVE  file'[0] = file[0]
  <2>1. /\ Writable(s) /\ i <= Len(modified[s])
        /\ file' = [file EXCEPT ![modified[s][i]] = [data |-> d]]
    BY <1>2 DEF OverwriteFreshPage
  <2>2. i \in 1 .. Len(modified[s])
    BY <2>1, WritableStream, StreamsAssumption
  <2>3. modified[s][i] # 0
    BY <2>1, <2>2, WritableStream
  <2> QED BY <1>1, <2>1, <2>3
<1>3. ASSUME NEW s \in DOMAIN modified, NEW i \in 1 .. MaxStreamPages, NEW d \in Data,
             NEW written \in BOOLEAN, CowPage(s, i, d, written)
      PROVE  file'[0] = file[0]
  <2>1. PICK p \in DiskPages :
          /\ AllocPages(1, p, 1)
          /\ file' = IF written THEN [file EXCEPT ![p] = [data |-> d]] ELSE file
    BY <1>3 DEF CowPage, ReplacePage
  <2>2. p # 0
    BY <2>1, NewPage
  <2> QED BY <1>1, <2>1, <2>2
<1>4. ASSUME NEW s, NEW n \in 1 .. MaxStreamPages, NEW d, NEW counted,
             NEW written \in BOOLEAN, AppendRun(s, n, d, counted, written)
      PROVE  file'[0] = file[0]
  <2>1. PICK p \in DiskPages, k \in DiskPages :
          /\ AllocPages(n, p, k)
          /\ file' = [q \in DiskPages |->
                        IF written /\ q \in Pages(p, k) THEN [data |-> d] ELSE file[q]]
    BY <1>4 DEF AppendRun
  <2>2. n \in Nat \ {0}
    BY StreamsAssumption
  <2>3. 0 \notin Pages(p, k)
    BY <2>1, <2>2, NewPages
  <2> QED BY <1>1, <2>1, <2>3
<1>5. ASSUME WriteDirPage \/ WriteMapPage PROVE file'[0] = file[0]
  <2>1. PICK p \in DiskPages :
          AllocPages(1, p, 1) /\ \E v : file' = [file EXCEPT ![p] = v]
    BY <1>5 DEF WriteDirPage, WriteMapPage
  <2>2. p # 0
    BY <2>1, NewPage
  <2> QED BY <1>1, <2>1, <2>2
<1>6. ASSUME WriteFpmPage PROVE file'[0] = file[0]
  <2>1. \E v : file' = [file EXCEPT ![FpmPage(interval, NewFpm)] = v]
    BY <1>6 DEF WriteFpmPage
  <2>2. interval \in Nat /\ NewFpm \in {1, 2}
    BY DEF IInv, TypeOK, NewFpm
  <2>3. FpmPage(interval, NewFpm) # 0
    BY <2>2, FpmPagesDiffer
  <2> QED BY <1>1, <2>1, <2>3
<1>7. \/ UNCHANGED file
      \/ \E s \in DOMAIN modified, i \in 1 .. MaxStreamPages, d \in Data :
           OverwriteFreshPage(s, i, d)
      \/ \E s \in DOMAIN modified, i \in 1 .. MaxStreamPages, d \in Data,
            written \in BOOLEAN : CowPage(s, i, d, written)
      \/ \E s \in DOMAIN modified, n \in 1 .. MaxStreamPages, d \in Data,
            written \in BOOLEAN : AppendRun(s, n, d, TRUE, written)
      \/ \E s \in DOMAIN modified, n \in 1 .. MaxStreamPages :
            AppendRun(s, n, Blank, FALSE, FALSE)
      \/ WriteDirPage \/ WriteMapPage \/ WriteFpmPage
  BY DEF Next, Create, NewEditor, Reopen, Crash, NewStream, NilStream, AddStream,
         WriteStream, AppendPages, AppendFails, Truncate, BeginCommit, MergeFreed,
         CommitFails
<1>8. FALSE \in BOOLEAN
  OBVIOUS
<1> QED BY <1>2, <1>3, <1>4, <1>5, <1>6, <1>7, <1>8

(* Where the bit of page p is in the FPM, and that it is one of its pages. *)
LEMMA FpmBitInRange ==
  ASSUME NEW n \in Nat \ {0}, NEW p \in 0 .. (n - 1)
  PROVE  p \div BitsPerFpmPage \in 0 .. (CeilDiv(n, BitsPerFpmPage) - 1)
<1> DEFINE B == BitsPerFpmPage
           q == p \div B
           c == CeilDiv(n, B)
<1>1. B \in Nat \ {0} /\ p \in Nat /\ p + 1 <= n
  BY LayoutAssumption, PageSizeAssumption
<1> HIDE DEF B
<1>2. q \in Nat /\ B * q <= p
  <2>1. p % B \in 0 .. (B - 1) /\ q \in Nat /\ p = B * q + (p % B)
    BY <1>1, DivMod
  <2> HIDE DEF q
  <2>2. B * q \in Nat
    BY <1>1, <2>1
  <2> QED BY <1>1, <2>1, <2>2
<1>3. c \in Nat /\ n <= B * c
  BY <1>1, CeilDivBounds
<1> HIDE DEF q, c
<1>4. q < c
  <2> SUFFICES ASSUME c <= q PROVE FALSE
    BY <1>2, <1>3
  <2>1. B * c <= B * q /\ B * c \in Nat /\ B * q \in Nat
    BY <1>1, <1>2, <1>3
  <2> QED BY <1>1, <1>2, <1>3, <2>1
<1>5. q \in 0 .. (c - 1)
  BY <1>2, <1>3, <1>4
<1> QED BY <1>5 DEF q, c, B

(* The FPM needs a page for at most every interval: the pages of the FPM   *)
(* hold the bits of at least the pages of one interval.                    *)
LEMMA FpmPagesEnough ==
  ASSUME NEW n \in Nat
  PROVE  CeilDiv(n, BitsPerFpmPage) <= CeilDiv(n, PageSize)
<1> DEFINE B == BitsPerFpmPage
           P == PageSize
           b == CeilDiv(n, B)
           c == CeilDiv(n, P)
<1>1. P \in Nat \ {0} /\ B \in Nat \ {0} /\ P <= B
  BY LayoutAssumption, PageSizeAssumption
<1> HIDE DEF B, P
<1>2. b \in Nat /\ B * b <= n + B - 1 /\ c \in Nat /\ n <= P * c
  BY <1>1, CeilDivBounds
<1> HIDE DEF b, c
<1>3. b <= c
  <2> SUFFICES ASSUME c + 1 <= b PROVE FALSE
    BY <1>2
  <2>1. B * (c + 1) <= B * b
    BY <1>1, <1>2
  <2>2. B * (c + 1) = B * c + B /\ B * c \in Nat /\ B * b \in Nat
    BY <1>1, <1>2
  <2>3. P * c <= B * c /\ P * c \in Nat
    BY <1>1, <1>2
  <2> QED BY <1>1, <1>2, <2>1, <2>2, <2>3
<1> QED BY <1>3 DEF b, c, B, P

(***************************************************************************)
(* The FPM of the new header, put together, is the set of free pages.      *)
(***************************************************************************)
LEMMA NewFpmReads ==
  ASSUME IInv, Accounts, WriteHeader PROVE FpmOnDisk' = free
<1> DEFINE C == 0 .. (CeilDiv(numPages, BitsPerFpmPage) - 1)
           F(i) == {p \in free : p \div BitsPerFpmPage = i}
           G(i) == file'[FpmPage(i, NewFpm)].fpm \cap (0 .. (numPages - 1))
<1>1. /\ stage = "header" /\ file' = [file EXCEPT ![0] = [header |-> NewHeader]]
  BY DEF WriteHeader, NewHeader
<1>2. /\ DOMAIN file' = DiskPages /\ Header' = NewHeader
      /\ \A p \in DiskPages : p # 0 => file'[p] = file[p]
  BY <1>1, NewHeaderReads
<1>3. /\ numPages \in Nat \ {0} /\ NewFpm \in {1, 2} /\ interval \in Nat
      /\ CeilDiv(numPages, PageSize) \in Nat
      /\ CeilDiv(numPages, BitsPerFpmPage) \in Nat
      /\ CeilDiv(numPages, PageSize) <= interval
      /\ \A p \in free : p \in 0 .. (numPages - 1)
  <2>0. TypeOK /\ AllocatorConsistent
    BY DEF IInv
  <2>1. /\ numPages \in Nat \ {0} /\ activeFpm \in {1, 2} /\ interval \in Nat
        /\ \A p \in free : p \in Nat /\ p < numPages
        /\ PageSize \in Nat \ {0} /\ BitsPerFpmPage \in Nat \ {0}
    <3>1. AllocatorTyped /\ numPages \in Nat /\ numPages >= 3
      BY <2>0, TypeBasics
    <3>2. activeFpm \in {1, 2} /\ interval \in Nat
      BY <2>0 DEF TypeOK
    <3>3. PageSize \in Nat \ {0} /\ BitsPerFpmPage \in Nat \ {0}
      BY PageSizeAssumption, LayoutAssumption
    <3>4. \A p \in free : p \in Nat /\ p < numPages
      BY <2>0, <3>1 DEF AllocatorTyped, AllocatorConsistent
    <3> QED BY <3>1, <3>2, <3>3, <3>4
  <2>2. /\ CeilDiv(numPages, PageSize) \in Nat
        /\ CeilDiv(numPages, BitsPerFpmPage) \in Nat
    BY <2>1, CeilDivBounds
  <2>3. CeilDiv(numPages, PageSize) <= interval
    BY <1>1, <2>1, <2>2 DEF Accounts, FpmProgress
  <2> QED BY <2>1, <2>2, <2>3 DEF NewFpm
<1>4. CeilDiv(numPages, BitsPerFpmPage) <= interval
  <2>1. CeilDiv(numPages, BitsPerFpmPage) <= CeilDiv(numPages, PageSize)
    BY <1>3, FpmPagesEnough
  <2> QED BY <1>3, <2>1
<1>5. ASSUME NEW i \in C PROVE G(i) = F(i)
  <2>1. i \in Nat /\ i < CeilDiv(numPages, BitsPerFpmPage) /\ i \in 0 .. (interval - 1)
    BY <1>3, <1>4
  <2>2. i < CeilDiv(numPages, PageSize)
    BY <1>3, <2>1, FpmPagesEnough
  <2>3. FpmPage(i, NewFpm) \in DiskPages /\ FpmPage(i, NewFpm) # 0
    BY <1>3, <2>1, <2>2, NewFpmOnDisk, FpmPagesDiffer DEF IInv
  <2>4. file[FpmPage(i, NewFpm)] = [fpm |-> F(i)]
    BY <1>1, <2>1 DEF Accounts, FpmProgress
  <2>5. file'[FpmPage(i, NewFpm)].fpm = F(i)
    BY <1>2, <2>3, <2>4
  <2>6. F(i) \subseteq 0 .. (numPages - 1)
    BY <1>3
  <2> QED BY <2>5, <2>6
<1>6. FpmOnDisk' = UNION {G(i) : i \in C}
  <2>1. Header'.numPages = numPages /\ Header'.activeFpm = NewFpm
    BY <1>2 DEF NewHeader
  <2> QED BY <2>1 DEF FpmOnDisk, FpmPage, CeilDiv
<1> HIDE DEF G
<1>7. {G(i) : i \in C} = {F(i) : i \in C}
  BY <1>5
<1>8. \A p \in free : p \div BitsPerFpmPage \in C
  BY <1>3, FpmBitInRange
<1>9. UNION {F(i) : i \in C} = free
  BY <1>8
<1> QED BY <1>6, <1>7, <1>9

(* The pages of the streams in the new directory are those in use.         *)
LEMMA NewStreamPages ==
  ASSUME IInv, Accounts, DiskDirectory' = Directory
  PROVE  DiskStreamPages' = UsedPages
<1> DEFINE D == Directory
<1>1. DiskStreamPages' = UNION {Range(D[s]) : s \in {t \in DOMAIN D : D[t] # Nil}}
  BY DEF DiskStreamPages, Range
<1>2. DOMAIN D = DOMAIN sizes
  BY DEF Directory
<1>3. \A s \in DOMAIN sizes : D[s] = IF sizes[s] = Nil THEN Nil ELSE StreamPages(s)
  BY DEF Directory
<1>4. \A s \in DOMAIN sizes : DOMAIN StreamPages(s) = 1 .. Len(StreamPages(s))
  BY TableTyped, LenProperties DEF IInv
<1> HIDE DEF D
<1>5. ASSUME NEW p \in DiskStreamPages' PROVE p \in UsedPages
  <2>1. PICK s \in DOMAIN D : D[s] # Nil /\ p \in Range(D[s])
    BY <1>1
  <2>2. s \in DOMAIN sizes /\ D[s] = StreamPages(s)
    BY <1>2, <1>3, <2>1
  <2>3. PICK i \in DOMAIN StreamPages(s) : p = StreamPages(s)[i]
    BY <2>1, <2>2 DEF Range
  <2> QED BY <1>4, <2>2, <2>3, UsedAt
<1>6. ASSUME NEW p \in UsedPages PROVE p \in DiskStreamPages'
  <2>1. PICK s \in DOMAIN sizes : \E i \in 1 .. Len(StreamPages(s)) : p = StreamPages(s)[i]
    BY UsedAt
  <2>2. sizes[s] # Nil
    <3>1. ASSUME sizes[s] = Nil PROVE StreamPages(s) = <<>> /\ Len(<<>>) = 0
      BY <3>1 DEF Accounts, SizesWithinPages
    <3> QED BY <2>1, <3>1
  <2>3. PICK i \in DOMAIN StreamPages(s) : p = StreamPages(s)[i]
    BY <1>4, <2>1
  <2>4. D[s] = StreamPages(s) /\ p \in Range(StreamPages(s))
    BY <1>3, <2>2, <2>3 DEF Range
  <2>5. StreamPages(s) # Nil
    <3>1. StreamPages(s) \in Seq(Nat)
      BY TypeBasics, TableTyped, SeqMonotonic DEF IInv
    <3> QED BY <3>1, StreamsAssumption
  <2> QED BY <1>1, <1>2, <2>4, <2>5
<1> QED BY <1>5, <1>6

(* The free pages that open computes from the new directory are the free   *)
(* pages of the editor: none is lost.                                      *)
LEMMA NewFreeComputed ==
  ASSUME IInv, Accounts, WriteHeader, ~AppendErrors PROVE ComputedFree' = free
<1>1. /\ stage = "header" /\ file' = [file EXCEPT ![0] = [header |-> NewHeader]]
  BY DEF WriteHeader, NewHeader
<1>2. /\ DiskMapPages' = Range(mapPages) /\ DiskDirPages' = Range(dirPages)
      /\ DiskDirectory' = Directory /\ Header' = NewHeader
  BY <1>1, NewHeaderReads
<1>3. DiskStreamPages' = UsedPages
  BY <1>2, NewStreamPages
<1>4. freed = {} /\ NoPageLost /\ AllocatorConsistent /\ PagesOwnedOnce
  BY <1>1 DEF IInv, Accounts, FpmProgress
<1>5. ComputedFree' = AllFree(numPages) \ (CommitPages \cup UsedPages)
  <2>1. Header'.numPages = numPages
    BY <1>2 DEF NewHeader
  <2>2. AllFree(numPages)' = {p \in 0 .. (numPages' - 1) : ~IsSpecialPage(p)}
    BY DEF AllFree, IsSpecialPage, IsFpmPage, Phase
  <2>3. ComputedFree' = {p \in 0 .. (Header'.numPages - 1) : ~IsSpecialPage(p)}
                          \ (DiskMapPages' \cup DiskDirPages' \cup DiskStreamPages')
    BY DEF ComputedFree, AllFree, IsSpecialPage, IsFpmPage, Phase
  <2> QED BY <1>2, <1>3, <2>1, <2>3 DEF AllFree, CommitPages
<1>6. \A p \in AllFree(numPages) \ (CommitPages \cup UsedPages) : p \in free
  BY <1>1, <1>4 DEF NoPageLost, AllFree
<1>7. \A p \in free : p \in AllFree(numPages) /\ p \notin CommitPages \cup UsedPages
  <2>1. free \subseteq Nat /\ numPages \in Nat
    BY TypeBasics DEF IInv, AllocatorTyped
  <2>2. \A p \in free : p < numPages /\ ~IsSpecialPage(p)
    BY <1>4 DEF AllocatorConsistent
  <2>3. \A p \in free : p \notin CommitPages \cup UsedPages
    BY <1>4 DEF PagesOwnedOnce
  <2>4. \A p \in free : p \in 0 .. (numPages - 1)
    BY <2>1, <2>2
  <2> QED BY <2>2, <2>3, <2>4 DEF AllFree
<1> QED BY <1>5, <1>6, <1>7

(* The file of a commit opens.                                             *)
LEMMA NewHeaderOpens ==
  ASSUME IInv, Accounts, WriteHeader, ~AppendErrors PROVE OpenSucceeds'
<1>1. /\ stage = "header" /\ file' = [file EXCEPT ![0] = [header |-> NewHeader]]
  BY DEF WriteHeader, NewHeader
<1>2. /\ HasHeader' /\ Header' = NewHeader
      /\ DiskMapPages' = Range(mapPages) /\ DiskDirPages' = Range(dirPages)
      /\ DiskDirectory' = Directory
      /\ \A k \in 1 .. Len(dirPages) :
           /\ MapIndex(k) \in DOMAIN mapPages /\ DiskDirPage(k)' = dirPages[k]
           /\ file'[dirPages[k]] = [dir |-> Directory, part |-> k]
      /\ \A j \in DOMAIN mapPages : file'[mapPages[j]] = [map |-> MapChunk(j)]
  BY <1>1, NewHeaderReads
<1>3. /\ Header'.map = mapPages /\ Header'.dirLen = Len(dirPages)
      /\ Header'.numPages = numPages
  BY <1>2 DEF NewHeader
<1>4. DirectoryReadable'
  <2>1. ASSUME NEW j \in DOMAIN mapPages
        PROVE  "map" \in DOMAIN file'[mapPages[j]]
    <3>1. file'[mapPages[j]] = [map |-> MapChunk(j)]
      BY <1>2
    <3> QED BY <3>1
  <2>2. ASSUME NEW k \in 1 .. Len(dirPages)
        PROVE  /\ "dir" \in DOMAIN file'[DiskDirPage(k)']
               /\ file'[DiskDirPage(k)'].dir = DiskDirectory'
               /\ file'[DiskDirPage(k)'].part = k
    <3>1. file'[DiskDirPage(k)'] = [dir |-> Directory, part |-> k]
      BY <1>2
    <3> QED BY <1>2, <3>1
  <2> QED BY <1>3, <2>1, <2>2 DEF DirectoryReadable
<1>5. DiskStreamPages' = UsedPages
  BY <1>2, NewStreamPages
<1>6. /\ PagesOwnedOnce /\ CommitPagesDistinct /\ Separate(Table)
      /\ DOMAIN Table = DOMAIN sizes
      /\ \A s \in DOMAIN sizes : Table[s] = StreamPages(s)
      /\ \A s \in DOMAIN sizes : DOMAIN StreamPages(s) = 1 .. Len(StreamPages(s))
      /\ DOMAIN dirPages = 1 .. Len(dirPages)
  BY OwnedOnceTable, TableTyped, CommitPagesTyped, LenProperties
     DEF IInv, Accounts, OwnedInTable
<1>7. PageNumbersValid'
  <2>1. \A p \in DiskMapPages' \cup DiskDirPages' \cup DiskStreamPages' :
          p < Header'.numPages /\ ~IsSpecialPage(p)
    BY <1>2, <1>3, <1>5, <1>6 DEF PagesOwnedOnce, CommitPages
  <2>2. IsInjective(Header'.map)
    BY <1>3, <1>6 DEF CommitPagesDistinct
  <2>3. \A j, k \in 1 .. Header'.dirLen : DiskDirPage(j)' = DiskDirPage(k)' => j = k
    <3>1. \A j, k \in DOMAIN dirPages : dirPages[j] = dirPages[k] => j = k
      BY <1>6 DEF CommitPagesDistinct, IsInjective
    <3>2. \A k \in 1 .. Len(dirPages) : DiskDirPage(k)' = dirPages[k]
      BY <1>2
    <3> QED BY <1>3, <1>6, <3>1, <3>2
  <2>4. /\ DiskMapPages' \cap DiskDirPages' = {}
        /\ (DiskMapPages' \cup DiskDirPages') \cap DiskStreamPages' = {}
    BY <1>2, <1>5, <1>6 DEF CommitPagesDistinct, PagesOwnedOnce, CommitPages
  <2>5. ASSUME NEW s \in DOMAIN Directory, Directory[s] # Nil,
               NEW t \in DOMAIN Directory, Directory[t] # Nil,
               NEW i \in DOMAIN Directory[s], NEW j \in DOMAIN Directory[t],
               Directory[s][i] = Directory[t][j]
        PROVE  s = t /\ i = j
    <3>1. /\ s \in DOMAIN sizes /\ Directory[s] = StreamPages(s)
          /\ t \in DOMAIN sizes /\ Directory[t] = StreamPages(t)
      BY <2>5 DEF Directory
    <3> QED BY <1>6, <2>5, <3>1 DEF Separate
  <2>6. LET D == DiskDirectory'
            present == {s \in DOMAIN D : D[s] # Nil}
        IN  \A s, t \in present : \A i \in DOMAIN D[s], j \in DOMAIN D[t] :
              D[s][i] = D[t][j] => s = t /\ i = j
    BY <1>2, <2>5
  <2> QED BY <2>1, <2>2, <2>3, <2>4, <2>6
       DEF PageNumbersValid, IsSpecialPage, IsFpmPage, Phase, IsInjective
<1>8. FpmOnDisk' = ComputedFree'
  BY NewFpmReads, NewFreeComputed
<1> QED BY <1>2, <1>4, <1>7, <1>8 DEF OpenSucceeds

(* After a commit, memory is what opening the file would make it.          *)
LEMMA CommitMemory ==
  ASSUME IInv, Accounts, WriteHeader, ~AppendErrors PROVE MemoryMatchesDisk'
<1>1. /\ stage = "header" /\ file' = [file EXCEPT ![0] = [header |-> NewHeader]]
      /\ committed' = [s \in DOMAIN sizes |->
                         IF sizes[s] = Nil THEN <<>> ELSE StreamPages(s)]
      /\ freed' = freed \cup CommitPages /\ fresh' = {}
      /\ modified' = <<>> /\ activeFpm' = NewFpm
      /\ UNCHANGED <<free, numPages, sizes>>
  BY DEF WriteHeader, NewHeader
<1>2. /\ HasHeader' /\ Header' = NewHeader
      /\ DiskMapPages' = Range(mapPages) /\ DiskDirPages' = Range(dirPages)
      /\ DiskDirectory' = Directory
  BY <1>1, NewHeaderReads
<1>3. freed = {}
  BY <1>1 DEF Accounts, FpmProgress
<1>4. Directory' = Directory
  <2>1. DOMAIN modified' = {}
    BY <1>1
  <2>2. \A s \in DOMAIN sizes : sizes[s] # Nil => StreamPages(s)' = StreamPages(s)
    BY <1>1, <2>1 DEF StreamPages
  <2> QED BY <1>1, <2>2 DEF Directory
<1>5. activeFpm' = Header'.activeFpm /\ numPages' = Header'.numPages
  BY <1>1, <1>2 DEF NewHeader
<1>6. freed' = DiskMapPages' \cup DiskDirPages'
  BY <1>1, <1>2, <1>3 DEF CommitPages
<1>7. free' = ComputedFree'
  BY <1>1, NewFreeComputed
<1> QED BY <1>1, <1>2, <1>4, <1>5, <1>6, <1>7 DEF MemoryMatchesDisk

(* A file that is opened is in memory as it is on disk.                    *)
LEMMA OpenMemory ==
  ASSUME IInv, Reopen PROVE MemoryMatchesDisk'
<1> DEFINE D == DiskDirectory
<1>1. /\ stage = "closed" /\ OpenSucceeds /\ HasHeader
      /\ sizes' = [s \in DOMAIN D |-> IF D[s] = Nil THEN Nil ELSE Len(D[s])]
      /\ committed' = [s \in DOMAIN D |-> IF D[s] = Nil THEN <<>> ELSE D[s]]
      /\ modified' = <<>> /\ fresh' = {}
      /\ activeFpm' = Header.activeFpm /\ numPages' = Header.numPages
      /\ free' = ComputedFree /\ freed' = DiskMapPages \cup DiskDirPages
      /\ UNCHANGED file
  BY DEF Reopen, OpenSucceeds
<1>2. TypeOK /\ DiskWellFormed /\ Untouched
  BY ReopenStep DEF IInv
<1>3. /\ HasHeader' /\ Header' = Header /\ ComputedFree' = ComputedFree
      /\ DiskMapPages' = DiskMapPages /\ DiskDirPages' = DiskDirPages
      /\ DiskDirectory' = DiskDirectory
  BY <1>1, <1>2, DiskUnchanged, OpenUnchanged
<1>4. PICK n \in 0 .. MaxStreams : IsTable(D, n)
  <2>1. DiskDirPage(1) \in DiskPages
    BY <1>1, <1>2, DiskPagesStable
  <2>2. "dir" \in DOMAIN file[DiskDirPage(1)]
    BY <1>1, <1>2, DiskPagesStable DEF OpenSucceeds, DirectoryReadable
  <2> QED BY <1>2, <2>1, <2>2 DEF TypeOK, DiskDirectory
<1>5. /\ D = [s \in DOMAIN D |-> D[s]]
      /\ \A s \in DOMAIN D : D[s] # Nil => D[s] \in Seq(DiskPages)
  BY <1>4 DEF IsTable
<1>6. \A s \in DOMAIN D : D[s] # Nil => Len(D[s]) # Nil
  BY <1>5, LenProperties, StreamsAssumption
<1> HIDE DEF D
<1>7. DOMAIN modified' = {} /\ DOMAIN sizes' = DOMAIN D
  BY <1>1
<1>8. \A s \in DOMAIN D :
        (IF sizes'[s] = Nil THEN Nil ELSE StreamPages(s)') = D[s]
  <2> TAKE s \in DOMAIN D
  <2>1. StreamPages(s)' = IF D[s] = Nil THEN <<>> ELSE D[s]
    BY <1>1, <1>7 DEF StreamPages
  <2>2. sizes'[s] = IF D[s] = Nil THEN Nil ELSE Len(D[s])
    BY <1>1
  <2> QED BY <1>6, <2>1, <2>2
<1>9. Directory' = [s \in DOMAIN D |-> D[s]]
  BY <1>7, <1>8 DEF Directory
<1>10. Directory' = DiskDirectory'
  BY <1>3, <1>5, <1>9 DEF D
<1> QED BY <1>1, <1>3, <1>10 DEF MemoryMatchesDisk

(***************************************************************************)
(* Whatever step is taken, the file opens if it did before, and if the     *)
(* step is the write of a header, because of what the commit wrote.        *)
(***************************************************************************)
LEMMA NextReopens ==
  ASSUME IInv, Accounts, ReopenSucceeds, ~AppendErrors, Next PROVE ReopenSucceeds'
<1>1. CASE WriteHeader
  BY <1>1, NewHeaderOpens DEF ReopenSucceeds
<1>2. CASE ~WriteHeader
  <2>1. file'[0] = file[0]
    BY <1>2, HeaderKept
  <2>2. HasHeader' = HasHeader
    BY <2>1 DEF HasHeader
  <2>3. TypeOK /\ DiskWellFormed /\ Untouched
    BY NextInvariant DEF IInv
  <2> QED BY <2>1, <2>2, <2>3, OpenUnchanged DEF ReopenSucceeds
<1> QED BY <1>1, <1>2

(* An editor in which nothing is modified has just committed or opened.    *)
LEMMA NothingModified ==
  ASSUME IInv, Next, stage' = "idle", DOMAIN modified' = {} PROVE WriteHeader \/ Reopen
<1>1. ASSUME Create PROVE FALSE
  <2>1. DOMAIN modified' = 1 .. FixedStreams /\ 1 \in 1 .. FixedStreams
    BY <1>1, StreamsAssumption DEF Create, NewEditor
  <2> QED BY <2>1
<1>2. ASSUME NewStream \/ NilStream PROVE FALSE
  <2>1. NumStreams \in DOMAIN modified'
    BY <1>2 DEF NewStream, NilStream, AddStream
  <2> QED BY <2>1
<1>3. ASSUME NEW s \in 1 .. (MaxStreams - 1), WriteStream(s) PROVE FALSE
  <2>1. s \in DOMAIN modified'
    BY <1>3 DEF WriteStream
  <2> QED BY <2>1
<1>4. ASSUME NEW s \in DOMAIN modified,
             \/ \E i \in 1 .. MaxStreamPages, d \in Data : OverwriteFreshPage(s, i, d)
             \/ \E i \in 1 .. MaxStreamPages, d \in Data, written \in BOOLEAN :
                  CowPage(s, i, d, written)
             \/ \E n \in 1 .. MaxStreamPages, d \in Data, written \in BOOLEAN :
                  AppendPages(s, n, d, written)
             \/ \E n \in 1 .. MaxStreamPages : AppendFails(s, n)
             \/ \E n \in 0 .. (MaxStreamPages - 1) : Truncate(s, n)
      PROVE  FALSE
  <2>1. \/ modified' = modified
        \/ \E i, p : modified' = [modified EXCEPT ![s][i] = p]
        \/ \E q : modified' = [modified EXCEPT ![s] = q]
    BY <1>4 DEF OverwriteFreshPage, CowPage, AppendPages, AppendFails, AppendRun,
                Truncate, streamVars
  <2>2. DOMAIN modified' = DOMAIN modified
    BY <2>1
  <2> QED BY <2>2
<1>5. ASSUME \/ Crash \/ BeginCommit \/ WriteDirPage \/ WriteMapPage \/ MergeFreed
             \/ WriteFpmPage \/ CommitFails
      PROVE  FALSE
  BY <1>5 DEF Crash, BeginCommit, WriteDirPage, WriteMapPage, MergeFreed, WriteFpmPage,
              CommitFails
<1> QED BY <1>1, <1>2, <1>3, <1>4, <1>5 DEF Next

(* Every step keeps the whole of the recovery invariant.                   *)
LEMMA NextRecovery == RecoveryInv /\ Next => RecoveryInv'
<1> SUFFICES ASSUME RecoveryInv, Next PROVE RecoveryInv'
  OBVIOUS
<1>1. IInv /\ Accounts /\ Recoverable
  BY DEF RecoveryInv, Accounts, Recoverable
<1>2. IInv' /\ Accounts'
  BY <1>1, NextInvariant, NextAccounts
<1>3. ASSUME ~AppendErrors PROVE ReopenSucceeds' /\ MemoryMatchesDisk'
  <2>1. ReopenSucceeds'
    BY <1>1, <1>3, NextReopens DEF Recoverable
  <2>2. MemoryMatchesDisk'
    <3>1. CASE ~(stage' = "idle" /\ DOMAIN modified' = {})
      BY <3>1 DEF MemoryMatchesDisk
    <3>2. CASE stage' = "idle" /\ DOMAIN modified' = {}
      BY <1>1, <1>3, <3>2, NothingModified, CommitMemory, OpenMemory
    <3> QED BY <3>1, <3>2
  <2> QED BY <2>1, <2>2
<1> QED BY <1>2, <1>3 DEF RecoveryInv, Accounts, Recoverable

(* A step of nothing keeps it.                                             *)
LEMMA StutterRecovery == RecoveryInv /\ UNCHANGED vars => RecoveryInv'
<1> SUFFICES ASSUME RecoveryInv, UNCHANGED vars PROVE RecoveryInv'
  OBVIOUS
<1>1. IInv /\ Accounts /\ Recoverable
  BY DEF RecoveryInv, Accounts, Recoverable
<1>2. IInv' /\ Accounts'
  BY <1>1, StutterStep, StutterAccounts
<1>3. UNCHANGED <<allocVars, file, stage, activeFpm, streamVars, commitVars>>
  BY DEF vars
<1>4. TypeOK /\ DiskWellFormed /\ Untouched /\ HasHeader' = HasHeader
  BY <1>1, <1>3 DEF IInv, Untouched, HasHeader
<1>5. ReopenSucceeds => ReopenSucceeds'
  BY <1>3, <1>4, OpenUnchanged DEF ReopenSucceeds
<1>6. MemoryMatchesDisk => MemoryMatchesDisk'
  <2> SUFFICES ASSUME MemoryMatchesDisk, stage' = "idle", DOMAIN modified' = {}
               PROVE  MemoryMatchesDisk'
    BY DEF MemoryMatchesDisk
  <2>1. /\ HasHeader /\ Directory = DiskDirectory /\ activeFpm = Header.activeFpm
        /\ numPages = Header.numPages /\ free = ComputedFree
        /\ freed = DiskMapPages \cup DiskDirPages /\ fresh = {}
    BY <1>3 DEF MemoryMatchesDisk, streamVars
  <2>2. /\ Header' = Header /\ ComputedFree' = ComputedFree
        /\ DiskMapPages' = DiskMapPages /\ DiskDirPages' = DiskDirPages
        /\ DiskDirectory' = DiskDirectory
    BY <1>3, <1>4, <2>1, DiskUnchanged, OpenUnchanged
  <2>3. Directory' = Directory
    BY <1>3 DEF Directory, StreamPages, streamVars
  <2> QED BY <1>3, <1>4, <2>1, <2>2, <2>3 DEF MemoryMatchesDisk, allocVars
<1> QED BY <1>2, <1>5, <1>6, <1>1 DEF RecoveryInv, Accounts, Recoverable

(* A new MSF has no header yet, and all its streams are modified.          *)
LEMMA InitRecovery == Init => RecoveryInv
<1> SUFFICES ASSUME Init PROVE RecoveryInv
  OBVIOUS
<1>1. IInv /\ Accounts
  BY InitInvariant, InitAccounts
<1>2. ReopenSucceeds
  <2>1. file = [p \in DiskPages |-> [data |-> Blank]] /\ 0 \in DiskPages
    BY MaxPagesAssumption DEF Init, DiskPages
  <2>2. ~HasHeader
    BY <2>1 DEF HasHeader
  <2> QED BY <2>2 DEF ReopenSucceeds
<1>3. MemoryMatchesDisk
  <2>1. DOMAIN modified = 1 .. FixedStreams /\ 1 \in 1 .. FixedStreams
    BY StreamsAssumption DEF Init
  <2> QED BY <2>1 DEF MemoryMatchesDisk
<1> QED BY <1>1, <1>2, <1>3 DEF RecoveryInv, Accounts, Recoverable

-----------------------------------------------------------------------------
(***************************************************************************)
(* Theorems.                                                               *)
(***************************************************************************)
(* The recovery invariant of MsfInvariant holds in every reachable state.  *)
THEOREM RecoveryInvariant == Spec => []RecoveryInv
<1>1. RecoveryInv /\ [Next]_vars => RecoveryInv'
  BY NextRecovery, StutterRecovery
<1> QED BY <1>1, InitRecovery, PTL DEF Spec

(* No page leaks: one that is neither free nor deleted is special or used,  *)
(* unless the write of an appended run fails, which loses pages.           *)
THEOREM NoLeak == ASSUME ~AppendErrors PROVE Spec => []NoPageLost
<1>1. RecoveryInv => NoPageLost
  BY DEF RecoveryInv, Recoverable
<1> QED BY <1>1, RecoveryInvariant, PTL

(* Whenever the process dies, the file that was committed can be opened for *)
(* read-write: the comment on Msf::commit promises it.                     *)
THEOREM ReopenAlways == ASSUME ~AppendErrors PROVE Spec => []ReopenSucceeds
<1>1. RecoveryInv => ReopenSucceeds
  BY DEF RecoveryInv, Recoverable
<1> QED BY <1>1, RecoveryInvariant, PTL

(* The clean-up after a commit leaves in memory what opening the file that  *)
(* was written would put there.                                            *)
THEOREM MemoryAsOnDisk == ASSUME ~AppendErrors PROVE Spec => []MemoryMatchesDisk
<1>1. RecoveryInv => MemoryMatchesDisk
  BY DEF RecoveryInv, Recoverable
<1> QED BY <1>1, RecoveryInvariant, PTL

(* The stages in which the allocator is at work.                           *)
LEMMA GrowthStages ==
  ASSUME IInv, Next, stage # "closed", numPages' # numPages, stage' # "closed"
  PROVE  /\ stage \in {"idle", "dir", "map"}
         /\ \E n \in Nat \ {0} : \E p, k \in DiskPages : AllocPages(n, p, k)
<1>1. \/ \E s \in DOMAIN modified, i \in 1 .. MaxStreamPages, d \in Data,
            written \in BOOLEAN : CowPage(s, i, d, written)
      \/ \E s \in DOMAIN modified, n \in 1 .. MaxStreamPages, d \in Data,
            written \in BOOLEAN : AppendRun(s, n, d, TRUE, written)
      \/ \E s \in DOMAIN modified, n \in 1 .. MaxStreamPages :
            AppendRun(s, n, Blank, FALSE, FALSE)
      \/ WriteDirPage \/ WriteMapPage
  BY DEF Next, Create, NewEditor, Reopen, Crash, NewStream, NilStream, AddStream,
         WriteStream, OverwriteFreshPage, AppendPages, AppendFails, Truncate,
         BeginCommit, MergeFreed, WriteFpmPage, WriteHeader, CommitFails, allocVars
<1>2. stage \in {"idle", "dir", "map"}
  BY <1>1 DEF CowPage, AppendRun, Writable, WriteDirPage, WriteMapPage
<1>3. 1 \in Nat \ {0} /\ 1 \in DiskPages /\ 1 .. MaxStreamPages \subseteq Nat \ {0}
  BY StreamsAssumption, MaxPagesAssumption DEF DiskPages
<1>4. ASSUME NEW p \in DiskPages, AllocPages(1, p, 1)
      PROVE  \E n \in Nat \ {0} : \E q, k \in DiskPages : AllocPages(n, q, k)
  BY <1>3, <1>4
<1>5. ASSUME NEW s, NEW i, NEW d, NEW written, CowPage(s, i, d, written)
      PROVE  \E p \in DiskPages : AllocPages(1, p, 1)
  BY <1>5 DEF CowPage, ReplacePage
<1>6. ASSUME NEW s, NEW n \in 1 .. MaxStreamPages, NEW d, NEW counted, NEW written,
             AppendRun(s, n, d, counted, written)
      PROVE  \E m \in Nat \ {0} : \E q, k \in DiskPages : AllocPages(m, q, k)
  BY <1>3, <1>6 DEF AppendRun
<1>7. ASSUME WriteDirPage \/ WriteMapPage
      PROVE  \E p \in DiskPages : AllocPages(1, p, 1)
  BY <1>7 DEF WriteDirPage, WriteMapPage
<1>8. \E n \in Nat \ {0} : \E p, k \in DiskPages : AllocPages(n, p, k)
  BY <1>1, <1>4, <1>5, <1>6, <1>7
<1> QED BY <1>2, <1>8

(* The file grows only when no page of it is free, whatever was allocated,  *)
(* deleted and merged before: the hint never passes a free page.           *)
THEOREM GrowsWhenFull == Spec => GrowsOnlyWhenFull
<1>1. ASSUME RecoveryInv, Next, stage # "closed", numPages' > numPages
      PROVE  free = {}
  <2>1. IInv /\ HintBehindFree /\ numPages \in Nat /\ numPages >= 3
    BY <1>1, TypeBasics DEF RecoveryInv, IInv
  <2>2. numPages' # numPages /\ stage' # "closed"
    <3>1. numPages' # 3
      BY <1>1, <2>1
    <3>2. ~Crash
      BY <3>1 DEF Crash
    <3>3. stage' # "closed"
      BY <1>1, <3>2 DEF Next, Create, NewEditor, Reopen, NewStream, NilStream, AddStream,
         WriteStream, OverwriteFreshPage, CowPage, AppendPages, AppendFails, AppendRun,
         Truncate, Writable, BeginCommit, WriteDirPage, WriteMapPage, MergeFreed,
         WriteFpmPage, WriteHeader, CommitFails
    <3> QED BY <1>1, <2>1, <3>3
  <2>3. /\ stage \in {"idle", "dir", "map"}
        /\ \E n \in Nat \ {0} : \E p, k \in DiskPages : AllocPages(n, p, k)
    BY <1>1, <2>1, <2>2, GrowthStages
  <2>4. PICK n \in Nat \ {0} : \E p, k \in DiskPages : AllocPages(n, p, k)
    BY <2>3
  <2>5. PICK p \in DiskPages, k \in DiskPages : AllocPages(n, p, k)
    BY <2>4
  <2>6. AllocatorTyped /\ AllocatorConsistent /\ p \in Nat /\ k \in Nat
    BY <2>1, TypeBasics DEF IInv
  <2>7. \A q \in free : q >= hint
    BY <2>1, <2>3 DEF HintBehindFree
  <2> QED BY <1>1, <2>5, <2>6, <2>7, AllocPagesComplete
<1>2. RecoveryInv /\ [Next]_vars =>
        [stage # "closed" /\ numPages' > numPages => free = {}]_vars
  BY <1>1
<1> QED BY <1>2, RecoveryInvariant, PTL DEF Spec, GrowsOnlyWhenFull

-----------------------------------------------------------------------------
(***************************************************************************)
(* The container implements AtomicStore: what a reader of the file finds   *)
(* changes at the write of a header and at no other step, to what the      *)
(* editor showed just before, and an editing call changes the contents of  *)
(* one stream.  A failed append is included: it leaves pages behind the    *)
(* end of a stream, where no reader looks.                                 *)
(***************************************************************************)
(* The two variables of AtomicStore, as Msf's Store defines them.          *)
Stable == IF HasHeader THEN DiskContents ELSE NoHeader

Working == IF stage # "closed" THEN Contents ELSE Stable

(* What a page holds on the disk f, a table of page lists read from it, and *)
(* the first n pages of the list q.                                        *)
DataAt(f, p) == IF "data" \in DOMAIN f[p] THEN f[p].data ELSE Blank

TableData(f, T) ==
  [s \in DOMAIN T |->
     IF T[s] = Nil THEN Nil ELSE [i \in DOMAIN T[s] |-> DataAt(f, T[s][i])]]

ListData(f, n, q) == IF n = Nil THEN Nil ELSE [i \in 1 .. n |-> DataAt(f, q[i])]

-----------------------------------------------------------------------------
(***************************************************************************)
(* Reading.                                                                *)
(***************************************************************************)
(* Disks that agree on the pages of a table hold the same streams.         *)
LEMMA SameTable ==
  ASSUME NEW f, NEW g, NEW T,
         \A s \in DOMAIN T : T[s] # Nil => \A i \in DOMAIN T[s] : f[T[s][i]] = g[T[s][i]]
  PROVE  TableData(f, T) = TableData(g, T)
<1>1. ASSUME NEW s \in DOMAIN T
      PROVE  (IF T[s] = Nil THEN Nil ELSE [i \in DOMAIN T[s] |-> DataAt(f, T[s][i])])
               = (IF T[s] = Nil THEN Nil ELSE [i \in DOMAIN T[s] |-> DataAt(g, T[s][i])])
  <2>1. T[s] # Nil => \A i \in DOMAIN T[s] : DataAt(f, T[s][i]) = DataAt(g, T[s][i])
    BY DEF DataAt
  <2> HIDE DEF DataAt
  <2> QED BY <2>1
<1> HIDE DEF DataAt
<1> QED BY <1>1 DEF TableData

(* And so of one list of pages.                                            *)
LEMMA SameList ==
  ASSUME NEW f, NEW g, NEW n, NEW q,
         n # Nil => \A i \in 1 .. n : f[q[i]] = g[q[i]]
  PROVE  ListData(f, n, q) = ListData(g, n, q)
<1>1. n # Nil => \A i \in 1 .. n : DataAt(f, q[i]) = DataAt(g, q[i])
  BY DEF DataAt
<1> QED BY <1>1 DEF ListData

(* The contents on disk and in the editor, in these terms.                 *)
LEMMA ContentsByTable ==
  /\ DiskContents = TableData(file, DiskDirectory)
  /\ Contents = [s \in DOMAIN sizes |-> ListData(file, sizes[s], StreamPages(s))]
BY DEF DiskContents, Contents, ContentOf, TableData, ListData, DataAt

(* The same, after a step.                                                 *)
LEMMA ContentsByTablePrime ==
  /\ DiskContents' = TableData(file', DiskDirectory')
  /\ Contents' = [s \in DOMAIN sizes' |-> ListData(file', sizes'[s], StreamPages(s)')]
BY DEF DiskContents, Contents, ContentOf, TableData, ListData, DataAt

(* Only the write of a header changes what a reader finds.                 *)
LEMMA StableKeeps == ASSUME RecoveryInv, Next, ~WriteHeader PROVE Stable' = Stable
<1>1. file'[0] = file[0] /\ Untouched /\ TypeOK /\ DiskWellFormed
  BY HeaderKept, NextInvariant DEF RecoveryInv, IInv
<1>2. HasHeader' = HasHeader
  BY <1>1 DEF HasHeader
<1>3. ASSUME HasHeader PROVE DiskContents' = DiskContents
  <2> DEFINE D == DiskDirectory
  <2>1. /\ DiskDirectory' = DiskDirectory
        /\ \A p \in StablePages : file'[p] = file[p]
    BY <1>1, <1>3, DiskUnchanged
  <2>2. \A s \in DOMAIN D : D[s] # Nil => Range(D[s]) \subseteq StablePages
    BY <1>1, <1>3, DiskPagesStable
  <2>3. \A s \in DOMAIN D : D[s] # Nil =>
          \A i \in DOMAIN D[s] : file'[D[s][i]] = file[D[s][i]]
    BY <2>1, <2>2 DEF Range
  <2> HIDE DEF D
  <2>4. TableData(file', D) = TableData(file, D)
    BY <2>3, SameTable
  <2> QED BY <2>1, <2>4, ContentsByTable, ContentsByTablePrime DEF D
<1> QED BY <1>2, <1>3 DEF Stable

(* The contents of an editor are not the ones of no store at all.          *)
LEMMA ContentsTyped ==
  ASSUME TypeOK, SizesWithinPages, DataTyped PROVE Contents # NoHeader
<1> DEFINE R == {Nil} \cup Seq(Data \cup {Blank})
<1>1. PICK n \in 0 .. MaxStreams : DOMAIN sizes = 0 .. (n - 1)
  BY DEF TypeOK
<1>2. ASSUME NEW s \in DOMAIN sizes
      PROVE  ListData(file, sizes[s], StreamPages(s)) \in R
  <2>1. CASE sizes[s] = Nil
    BY <2>1 DEF ListData
  <2>2. CASE sizes[s] # Nil
    <3> DEFINE q == StreamPages(s)
               m == sizes[s]
    <3>1. m \in Nat /\ m <= Len(q) /\ q \in Seq(DiskPages) /\ Len(q) \in Nat
      BY <2>2, TableTyped DEF TypeOK, SizesWithinPages
    <3> HIDE DEF q, m
    <3>2. \A i \in 1 .. m : q[i] \in DiskPages
      <4> TAKE i \in 1 .. m
      <4>1. i \in 1 .. Len(q)
        BY <3>1
      <4> QED BY <3>1, <4>1, ElementOfSeq
    <3>3. \A i \in 1 .. m : DataAt(file, q[i]) \in Data \cup {Blank}
      BY <3>2 DEF DataTyped, DataAt
    <3>4. [i \in 1 .. m |-> DataAt(file, q[i])] \in Seq(Data \cup {Blank})
      <4>1. [i \in 1 .. m |-> DataAt(file, q[i])] \in [1 .. m -> Data \cup {Blank}]
        BY <3>3
      <4> QED BY <3>1, <4>1, SeqDef
    <3>5. ListData(file, m, q) \in Seq(Data \cup {Blank})
      BY <2>2, <3>4 DEF ListData, m
    <3> QED BY <3>5 DEF m, q
  <2> QED BY <2>1, <2>2
<1> HIDE DEF R
<1>3. Contents \in [0 .. (n - 1) -> R]
  BY <1>1, <1>2, ContentsByTable
<1> QED BY <1>3, NoHeaderAssumption DEF R

-----------------------------------------------------------------------------
(***************************************************************************)
(* The steps.                                                              *)
(***************************************************************************)
(* An editing call on the stream s: the other streams keep their pages, and *)
(* what these hold; those it adds below s are nil streams.                 *)
LEMMA EditModifies ==
  ASSUME RecoveryInv, RecoveryInv', stage = "idle", stage' = "idle", Stable' = Stable,
         NEW s, s \in DOMAIN sizes', DOMAIN sizes \subseteq DOMAIN sizes',
         \A t \in DOMAIN sizes : t # s =>
           sizes'[t] = sizes[t] /\ StreamPages(t)' = StreamPages(t),
         \A t \in DOMAIN sizes' : t # s /\ t \notin DOMAIN sizes => sizes'[t] = Nil,
         \A t \in DOMAIN sizes : t # s =>
           \A i \in 1 .. Len(StreamPages(t)) :
             file'[StreamPages(t)[i]] = file[StreamPages(t)[i]]
  PROVE  Store!Modify
<1>1. Working = Contents /\ Working' = Contents'
  BY DEF Working
<1>2. Contents # NoHeader /\ Contents' # NoHeader
  <2>1. TypeOK /\ SizesWithinPages /\ DataTyped
    BY DEF RecoveryInv, IInv
  <2>2. (TypeOK /\ SizesWithinPages /\ DataTyped)'
    BY DEF RecoveryInv, IInv
  <2>3. (TypeOK /\ SizesWithinPages /\ DataTyped => Contents # NoHeader)'
    BY ContentsTyped, PTL
  <2> QED BY <2>1, <2>2, <2>3, ContentsTyped
<1>3. DOMAIN Contents = DOMAIN sizes /\ DOMAIN Contents' = DOMAIN sizes'
  BY ContentsByTable, ContentsByTablePrime
<1>4. ASSUME NEW t \in DOMAIN sizes', t # s
      PROVE  Contents'[t] = IF t \in DOMAIN sizes THEN Contents[t] ELSE Nil
  <2>1. Contents'[t] = ListData(file', sizes'[t], StreamPages(t)')
    BY ContentsByTablePrime
  <2>2. CASE t \in DOMAIN sizes
    <3> DEFINE n == sizes[t]
               q == StreamPages(t)
    <3>1. Contents'[t] = ListData(file', n, q)
      BY <1>4, <2>1, <2>2
    <3>2. Contents[t] = ListData(file, n, q)
      BY <2>2, ContentsByTable
    <3>3. n # Nil => \A i \in 1 .. n : file'[q[i]] = file[q[i]]
      <4>1. n # Nil => n \in Nat /\ n <= Len(q) /\ Len(q) \in Nat
        BY <2>2, TableTyped DEF RecoveryInv, IInv, TypeOK, SizesWithinPages
      <4>2. \A i \in 1 .. Len(q) : file'[q[i]] = file[q[i]]
        BY <1>4, <2>2
      <4> HIDE DEF n, q
      <4> QED BY <4>1, <4>2
    <3> HIDE DEF n, q
    <3>4. ListData(file', n, q) = ListData(file, n, q)
      BY <3>3, SameList
    <3> QED BY <2>2, <3>1, <3>2, <3>4
  <2>3. CASE t \notin DOMAIN sizes
    <3>1. sizes'[t] = Nil
      BY <1>4, <2>3
    <3> QED BY <2>1, <2>3, <3>1 DEF ListData
  <2> QED BY <2>2, <2>3
<1>5. /\ Working # NoHeader /\ Working' # NoHeader
      /\ DOMAIN Working \subseteq DOMAIN Working'
      /\ \E r \in DOMAIN Working' :
           \A t \in DOMAIN Working' \ {r} :
             Working'[t] = IF t \in DOMAIN Working THEN Working[t] ELSE Nil
      /\ Stable' = Stable
  BY <1>1, <1>2, <1>3, <1>4
<1> QED BY <1>5 DEF Store!Modify, Working, Stable

(* A page of a stream is neither free nor special nor the header.          *)
LEMMA PageInUse ==
  ASSUME RecoveryInv, NEW t \in DOMAIN sizes, NEW i \in 1 .. Len(StreamPages(t)),
         NEW x, x = StreamPages(t)[i]
  PROVE  /\ x \in DiskPages /\ x # 0 /\ ~IsSpecialPage(x) /\ x \in Nat
         /\ x \notin free /\ x < numPages
<1>1. x \in UsedPages
  BY UsedAt
<1>2. x < numPages /\ ~IsSpecialPage(x) /\ x \notin free
  BY <1>1 DEF RecoveryInv, IInv, PagesOwnedOnce
<1>3. x \in DiskPages
  BY TableTyped, ElementOfSeq DEF RecoveryInv, IInv
<1>4. x \in Nat
  BY <1>3, TypeBasics DEF RecoveryInv, IInv
<1> QED BY <1>2, <1>3, <1>4 DEF IsSpecialPage

(* new_stream and nil_stream.                                              *)
LEMMA AddStreamStore ==
  ASSUME RecoveryInv, RecoveryInv', Stable' = Stable, NEW size, AddStream(size)
  PROVE  Store!Modify
<1> DEFINE n == NumStreams
<1>1. /\ stage = "idle" /\ stage' = "idle" /\ file' = file
      /\ sizes' = [t \in 0 .. n |-> IF t = n THEN size ELSE sizes[t]]
      /\ modified' = [t \in DOMAIN modified \cup {n} |->
                        IF t = n THEN <<>> ELSE modified[t]]
      /\ committed' = committed
  BY DEF AddStream
<1>2. n \in Nat /\ DOMAIN sizes = 0 .. (n - 1)
  BY StreamNumbers DEF RecoveryInv, IInv
<1> HIDE DEF n
<1>3. DOMAIN sizes' = DOMAIN sizes \cup {n} /\ n \notin DOMAIN sizes
  BY <1>1, <1>2
<1>4. \A t \in DOMAIN sizes :
        sizes'[t] = sizes[t] /\ StreamPages(t)' = StreamPages(t)
  BY <1>1, <1>2, <1>3 DEF StreamPages
<1> QED BY <1>1, <1>3, <1>4, EditModifies

(* write_stream.                                                           *)
LEMMA WriteStreamStore ==
  ASSUME RecoveryInv, RecoveryInv', Stable' = Stable,
         NEW s \in 1 .. (MaxStreams - 1), WriteStream(s)
  PROVE  Store!Modify
<1>1. stage = "idle" /\ stage' = "idle" /\ file' = file
  BY DEF WriteStream
<1>2. /\ s \in DOMAIN sizes'
      /\ \A t \in DOMAIN sizes :
           /\ t \in DOMAIN sizes'
           /\ StreamPages(t)' = StreamPages(t)
           /\ sizes'[t] = IF t = s /\ sizes[t] = Nil THEN 0 ELSE sizes[t]
      /\ \A t \in DOMAIN sizes' : t \notin DOMAIN sizes =>
           sizes'[t] = IF t = s THEN 0 ELSE Nil
  BY WriteStreamTable DEF RecoveryInv
<1>3. /\ DOMAIN sizes \subseteq DOMAIN sizes'
      /\ \A t \in DOMAIN sizes : t # s =>
           sizes'[t] = sizes[t] /\ StreamPages(t)' = StreamPages(t)
      /\ \A t \in DOMAIN sizes' : t # s /\ t \notin DOMAIN sizes => sizes'[t] = Nil
  BY <1>2
<1> QED BY <1>1, <1>2, <1>3, EditModifies

(***************************************************************************)
(* The calls that write to the stream s change only its own page list and  *)
(* size; what is left to show is that they write to no page of another.    *)
(***************************************************************************)
LEMMA StreamEdit ==
  ASSUME RecoveryInv, RecoveryInv', Stable' = Stable, NEW s, Writable(s),
         UNCHANGED <<stage, committed>>,
         sizes' = sizes \/ \E n : sizes' = [sizes EXCEPT ![s] = n],
         modified' = modified \/ \E q : modified' = [modified EXCEPT ![s] = q],
         \A t \in DOMAIN sizes : t # s =>
           \A i \in 1 .. Len(StreamPages(t)) :
             file'[StreamPages(t)[i]] = file[StreamPages(t)[i]]
  PROVE  Store!Modify
<1>1. stage = "idle" /\ stage' = "idle" /\ s \in DOMAIN sizes
  BY WritableStream DEF RecoveryInv
<1>2. /\ DOMAIN sizes' = DOMAIN sizes /\ DOMAIN modified' = DOMAIN modified
      /\ \A t \in DOMAIN sizes : t # s => sizes'[t] = sizes[t]
      /\ \A t \in DOMAIN modified : t # s => modified'[t] = modified[t]
  OBVIOUS
<1>3. \A t \in DOMAIN sizes : t # s =>
        sizes'[t] = sizes[t] /\ StreamPages(t)' = StreamPages(t)
  BY <1>2 DEF StreamPages
<1> QED BY <1>1, <1>2, <1>3, EditModifies

(* A fresh page is overwritten: it belongs to this stream alone.           *)
LEMMA OverwriteStore ==
  ASSUME RecoveryInv, RecoveryInv', Stable' = Stable, NEW s \in DOMAIN modified,
         NEW i \in 1 .. MaxStreamPages, NEW d \in Data, OverwriteFreshPage(s, i, d)
  PROVE  Store!Modify
<1>1. /\ Writable(s) /\ i <= Len(modified[s])
      /\ file' = [file EXCEPT ![modified[s][i]] = [data |-> d]]
      /\ UNCHANGED <<stage, sizes, committed, modified>>
  BY DEF OverwriteFreshPage, streamVars
<1>2. i \in 1 .. Len(modified[s]) /\ s \in DOMAIN sizes /\ Separate(Table)
  BY <1>1, WritableStream, StreamsAssumption DEF RecoveryInv
<1>3. /\ DOMAIN Table = DOMAIN sizes /\ Table[s] = modified[s]
      /\ \A t \in DOMAIN sizes : Table[t] = StreamPages(t)
  BY <1>2, TableTyped DEF RecoveryInv, IInv, StreamPages
<1>4. ASSUME NEW t \in DOMAIN sizes, t # s, NEW j \in 1 .. Len(StreamPages(t))
      PROVE  file'[StreamPages(t)[j]] = file[StreamPages(t)[j]]
  <2>1. StreamPages(t)[j] # modified[s][i]
    BY <1>2, <1>3, <1>4 DEF Separate
  <2> QED BY <1>1, <2>1
<1> QED BY <1>1, <1>4, StreamEdit

(* A page is replaced by one that no stream had.                           *)
LEMMA CowPageStore ==
  ASSUME RecoveryInv, RecoveryInv', Stable' = Stable, NEW s \in DOMAIN modified,
         NEW i \in 1 .. MaxStreamPages, NEW d \in Data, NEW written \in BOOLEAN,
         CowPage(s, i, d, written)
  PROVE  Store!Modify
<1>1. PICK p \in DiskPages :
        /\ AllocPages(1, p, 1)
        /\ modified' = [modified EXCEPT ![s][i] = p]
        /\ file' = IF written THEN [file EXCEPT ![p] = [data |-> d]] ELSE file
  BY DEF CowPage, ReplacePage
<1>2. Writable(s) /\ UNCHANGED <<stage, sizes, committed>>
  BY DEF CowPage
<1>3. modified' = [modified EXCEPT ![s] = [modified[s] EXCEPT ![i] = p]]
  BY <1>1
<1>4. p \in free \/ p >= numPages
  BY <1>1, NewPage DEF RecoveryInv
<1>5. ASSUME NEW t \in DOMAIN sizes, t # s, NEW j \in 1 .. Len(StreamPages(t))
      PROVE  file'[StreamPages(t)[j]] = file[StreamPages(t)[j]]
  <2> DEFINE x == StreamPages(t)[j]
  <2>1. x \in Nat /\ x \notin free /\ x < numPages
    BY PageInUse
  <2>2. p \in Nat /\ numPages \in Nat
    BY TypeBasics DEF RecoveryInv, IInv
  <2> HIDE DEF x
  <2>3. x # p
    BY <1>4, <2>1, <2>2
  <2>4. file'[x] = file[x]
    BY <1>1, <2>3
  <2> QED BY <2>4 DEF x
<1> QED BY <1>2, <1>3, <1>5, StreamEdit

(* A run of pages that no stream had is appended.                          *)
LEMMA AppendRunStore ==
  ASSUME RecoveryInv, RecoveryInv', Stable' = Stable, NEW s \in DOMAIN modified,
         NEW n \in 1 .. MaxStreamPages, NEW d, NEW counted \in BOOLEAN,
         NEW written \in BOOLEAN, AppendRun(s, n, d, counted, written)
  PROVE  Store!Modify
<1>1. PICK p \in DiskPages, k \in DiskPages :
        /\ AllocPages(n, p, k)
        /\ modified' = [modified EXCEPT ![s] = @ \o [i \in 1 .. k |-> p + i - 1]]
        /\ sizes' = IF counted THEN [sizes EXCEPT ![s] = @ + k] ELSE sizes
        /\ file' = [q \in DiskPages |->
                      IF written /\ q \in Pages(p, k) THEN [data |-> d] ELSE file[q]]
  BY DEF AppendRun
<1>2. Writable(s) /\ UNCHANGED <<stage, committed>>
  BY DEF AppendRun
<1>3. n \in Nat \ {0}
  BY StreamsAssumption
<1>4. \A x \in Pages(p, k) : x \in free \/ x >= numPages
  BY <1>1, <1>3, NewPages DEF RecoveryInv
<1>5. ASSUME NEW t \in DOMAIN sizes, t # s, NEW j \in 1 .. Len(StreamPages(t))
      PROVE  file'[StreamPages(t)[j]] = file[StreamPages(t)[j]]
  <2> DEFINE x == StreamPages(t)[j]
  <2>1. x \in DiskPages /\ x \in Nat /\ x \notin free /\ x < numPages
    BY PageInUse
  <2>2. numPages \in Nat
    BY TypeBasics DEF RecoveryInv, IInv
  <2> HIDE DEF x
  <2>3. x \notin Pages(p, k)
    BY <1>4, <2>1, <2>2
  <2>4. file'[x] = file[x]
    BY <1>1, <2>1, <2>3
  <2> QED BY <2>4 DEF x
<1>6. \/ sizes' = sizes
      \/ \E m : sizes' = [sizes EXCEPT ![s] = m]
  BY <1>1
<1>7. \E q : modified' = [modified EXCEPT ![s] = q]
  BY <1>1
<1> QED BY <1>2, <1>5, <1>6, <1>7, StreamEdit

(* A stream is cut: no page is written.                                    *)
LEMMA TruncateStore ==
  ASSUME RecoveryInv, RecoveryInv', Stable' = Stable, NEW s \in DOMAIN modified,
         NEW n \in 0 .. (MaxStreamPages - 1), Truncate(s, n)
  PROVE  Store!Modify
<1>1. /\ Writable(s) /\ UNCHANGED <<stage, committed, file>>
      /\ modified' = [modified EXCEPT ![s] = SubSeq(modified[s], 1, n)]
      /\ sizes' = [sizes EXCEPT ![s] = n]
  BY DEF Truncate
<1>2. /\ \E m : sizes' = [sizes EXCEPT ![s] = m]
      /\ \E q : modified' = [modified EXCEPT ![s] = q]
      /\ \A t \in DOMAIN sizes : t # s =>
           \A i \in 1 .. Len(StreamPages(t)) :
             file'[StreamPages(t)[i]] = file[StreamPages(t)[i]]
  BY <1>1
<1> QED BY <1>1, <1>2, StreamEdit

(***************************************************************************)
(* A step that leaves the table alone, and writes to no page of a stream,  *)
(* changes nothing an application sees.                                    *)
(***************************************************************************)
LEMMA WorkingKept ==
  ASSUME RecoveryInv, Stable' = Stable, stage # "closed", stage' # "closed",
         UNCHANGED streamVars,
         \A t \in DOMAIN sizes : \A i \in 1 .. Len(StreamPages(t)) :
           file'[StreamPages(t)[i]] = file[StreamPages(t)[i]]
  PROVE  UNCHANGED Store!storeVars
<1>1. sizes' = sizes /\ \A t : StreamPages(t)' = StreamPages(t)
  BY DEF streamVars, StreamPages
<1>2. ASSUME NEW t \in DOMAIN sizes
      PROVE  ListData(file', sizes[t], StreamPages(t))
               = ListData(file, sizes[t], StreamPages(t))
  <2> DEFINE n == sizes[t]
             q == StreamPages(t)
  <2>1. n # Nil => n \in Nat /\ n <= Len(q) /\ Len(q) \in Nat
    BY TableTyped DEF RecoveryInv, IInv, TypeOK, SizesWithinPages
  <2>2. \A i \in 1 .. Len(q) : file'[q[i]] = file[q[i]]
    OBVIOUS
  <2> HIDE DEF n, q
  <2>3. n # Nil => \A i \in 1 .. n : file'[q[i]] = file[q[i]]
    BY <2>1, <2>2
  <2>4. ListData(file', n, q) = ListData(file, n, q)
    BY <2>3, SameList
  <2> QED BY <2>4 DEF n, q
<1>3. Contents' = Contents
  <2>1. Contents' = [t \in DOMAIN sizes |-> ListData(file', sizes[t], StreamPages(t))]
    BY <1>1, ContentsByTablePrime
  <2> QED BY <1>2, <2>1, ContentsByTable
<1>4. Working' = Working /\ Stable' = Stable
  BY <1>3 DEF Working
<1> QED BY <1>4 DEF Store!storeVars, Working, Stable

(* The steps of a commit that write no page at all.                        *)
LEMMA NoWriteStore ==
  ASSUME RecoveryInv, Stable' = Stable, BeginCommit \/ MergeFreed \/ CommitFails
  PROVE  UNCHANGED Store!storeVars
<1>1. stage # "closed" /\ stage' # "closed" /\ UNCHANGED <<file, streamVars>>
  BY DEF BeginCommit, MergeFreed, CommitFails, CommitStages
<1> QED BY <1>1, WorkingKept

(* The pages of the directory and its map are pages no stream has.         *)
LEMMA CommitPageStore ==
  ASSUME RecoveryInv, Stable' = Stable, WriteDirPage \/ WriteMapPage
  PROVE  UNCHANGED Store!storeVars
<1>1. stage # "closed" /\ stage' # "closed" /\ UNCHANGED streamVars
  BY DEF WriteDirPage, WriteMapPage
<1>2. PICK p \in DiskPages :
        /\ AllocPages(1, p, 1)
        /\ \E v : file' = [file EXCEPT ![p] = v]
  BY DEF WriteDirPage, WriteMapPage
<1>3. p \in free \/ p >= numPages
  BY <1>2, NewPage DEF RecoveryInv
<1>4. ASSUME NEW t \in DOMAIN sizes, NEW i \in 1 .. Len(StreamPages(t))
      PROVE  file'[StreamPages(t)[i]] = file[StreamPages(t)[i]]
  <2> DEFINE x == StreamPages(t)[i]
  <2>1. x \in DiskPages /\ x \in Nat /\ x \notin free /\ x < numPages
    BY PageInUse
  <2>2. numPages \in Nat
    BY TypeBasics DEF RecoveryInv, IInv
  <2> HIDE DEF x
  <2>3. x # p
    BY <1>3, <2>1, <2>2
  <2>4. file'[x] = file[x]
    BY <1>2, <2>1, <2>3
  <2> QED BY <2>4 DEF x
<1> QED BY <1>1, <1>4, WorkingKept

(* The Free Page Map is on special pages, where no stream is.              *)
LEMMA WriteFpmPageStore ==
  ASSUME RecoveryInv, Stable' = Stable, WriteFpmPage PROVE UNCHANGED Store!storeVars
<1>1. /\ stage # "closed" /\ stage' # "closed" /\ UNCHANGED streamVars
      /\ \E v : file' = [file EXCEPT ![FpmPage(interval, NewFpm)] = v]
  BY DEF WriteFpmPage
<1>2. interval \in Nat /\ NewFpm \in {1, 2}
  BY DEF RecoveryInv, IInv, TypeOK, NewFpm
<1>3. IsSpecialPage(FpmPage(interval, NewFpm))
  BY <1>2, FpmPagesDiffer
<1>4. ASSUME NEW t \in DOMAIN sizes, NEW i \in 1 .. Len(StreamPages(t))
      PROVE  file'[StreamPages(t)[i]] = file[StreamPages(t)[i]]
  <2> DEFINE x == StreamPages(t)[i]
             y == FpmPage(interval, NewFpm)
  <2>1. x \in DiskPages /\ ~IsSpecialPage(x)
    BY PageInUse
  <2>2. \E v : file' = [file EXCEPT ![y] = v]
    BY <1>1
  <2>3. x # y
    BY <1>3, <2>1
  <2> HIDE DEF x, y
  <2>4. file'[x] = file[x]
    BY <2>2, <2>3
  <2> QED BY <2>4 DEF x
<1> QED BY <1>1, <1>4, WorkingKept

-----------------------------------------------------------------------------
(***************************************************************************)
(* Committing and opening: a directory and a stream table that say the     *)
(* same of every stream give the same contents.                            *)
(***************************************************************************)
LEMMA TableAsLists ==
  ASSUME NEW f, NEW T, NEW z, NEW Q, DOMAIN z = DOMAIN T,
         \A s \in DOMAIN T :
           IF T[s] = Nil THEN z[s] = Nil
           ELSE z[s] # Nil /\ DOMAIN T[s] = 1 .. z[s] /\ Q[s] = T[s]
  PROVE  TableData(f, T) = [s \in DOMAIN z |-> ListData(f, z[s], Q[s])]
<1>1. ASSUME NEW s \in DOMAIN T
      PROVE  (IF T[s] = Nil THEN Nil ELSE [i \in DOMAIN T[s] |-> DataAt(f, T[s][i])])
               = ListData(f, z[s], Q[s])
  <2>1. CASE T[s] = Nil
    BY <2>1 DEF ListData
  <2>2. CASE T[s] # Nil
    <3>1. z[s] # Nil /\ DOMAIN T[s] = 1 .. z[s] /\ Q[s] = T[s]
      BY <2>2
    <3> QED BY <2>2, <3>1 DEF ListData
  <2> QED BY <2>1, <2>2
<1> QED BY <1>1 DEF TableData

(* The committed table is the directory that was written.                  *)
LEMMA WriteHeaderStore ==
  ASSUME RecoveryInv, RecoveryInv', WriteHeader PROVE Store!Commit
<1>1. /\ stage = "header" /\ stage' = "idle" /\ modified' = <<>>
      /\ UNCHANGED sizes
      /\ committed' = [s \in DOMAIN sizes |->
                         IF sizes[s] = Nil THEN <<>> ELSE StreamPages(s)]
      /\ file' = [file EXCEPT ![0] = [header |-> NewHeader]]
  BY DEF WriteHeader, NewHeader
<1>2. /\ \A p \in DiskPages : p # 0 => file'[p] = file[p]
      /\ HasHeader' /\ DiskDirectory' = Directory
  BY <1>1, NewHeaderReads DEF RecoveryInv
<1>3. ASSUME NEW s \in DOMAIN sizes, sizes[s] # Nil
      PROVE  /\ StreamPages(s) \in Seq(DiskPages) /\ StreamPages(s) # Nil
             /\ Len(StreamPages(s)) = sizes[s] /\ sizes[s] \in Nat
             /\ DOMAIN StreamPages(s) = 1 .. sizes[s]
             /\ StreamPages(s)' = StreamPages(s)
  <2>1. StreamPages(s) \in Seq(DiskPages)
    BY TableTyped DEF RecoveryInv, IInv
  <2>2. StreamPages(s) # Nil
    <3>1. DiskPages \subseteq Nat
      BY TypeBasics DEF RecoveryInv, IInv
    <3>2. StreamPages(s) \in Seq(Nat)
      BY <2>1, <3>1, SeqMonotonic
    <3> QED BY <3>2, StreamsAssumption
  <2>3. Len(StreamPages(s)) = sizes[s] /\ sizes[s] \in Nat
    BY <1>1, <1>3 DEF RecoveryInv, IInv, TypeOK, SizesWithinPages, CommitStages
  <2>4. DOMAIN StreamPages(s) = 1 .. sizes[s]
    BY <2>1, <2>3
  <2>5. StreamPages(s)' = StreamPages(s)
    <3>1. StreamPages(s)' = committed'[s]
      BY <1>1 DEF StreamPages
    <3> QED BY <1>1, <1>3, <3>1
  <2> QED BY <2>1, <2>2, <2>3, <2>4, <2>5
<1>4. TableData(file', Directory)
        = [s \in DOMAIN sizes |-> ListData(file', sizes[s], Table[s])]
  <2> DEFINE D == Directory
             Q == Table
  <2>1. DOMAIN sizes = DOMAIN D
    BY DEF Directory
  <2>2. ASSUME NEW s \in DOMAIN D
        PROVE  IF D[s] = Nil THEN sizes[s] = Nil
               ELSE sizes[s] # Nil /\ DOMAIN D[s] = 1 .. sizes[s] /\ Q[s] = D[s]
    <3>1. Q[s] = StreamPages(s)
      BY <2>1, TableTyped DEF RecoveryInv, IInv
    <3>2. D[s] = IF sizes[s] = Nil THEN Nil ELSE StreamPages(s)
      BY <2>1 DEF Directory
    <3> HIDE DEF D, Q
    <3> QED BY <1>3, <2>1, <3>1, <3>2
  <2> HIDE DEF D, Q
  <2>3. TableData(file', D) = [s \in DOMAIN sizes |-> ListData(file', sizes[s], Q[s])]
    BY <2>1, <2>2, TableAsLists
  <2> QED BY <2>3 DEF D, Q
<1>5. ASSUME NEW s \in DOMAIN sizes
      PROVE  /\ ListData(file', sizes[s], StreamPages(s))
                  = ListData(file, sizes[s], StreamPages(s))
             /\ ListData(file', sizes[s], StreamPages(s)')
                  = ListData(file', sizes[s], StreamPages(s))
  <2>1. CASE sizes[s] = Nil
    BY <2>1 DEF ListData
  <2>2. CASE sizes[s] # Nil
    <3> DEFINE n == sizes[s]
               q == StreamPages(s)
    <3>1. n \in Nat /\ n = Len(q) /\ StreamPages(s)' = q
      BY <1>3, <2>2
    <3>2. ASSUME NEW i \in 1 .. Len(q) PROVE file'[q[i]] = file[q[i]]
      <4> DEFINE x == q[i]
      <4>1. x \in DiskPages /\ x # 0
        BY PageInUse
      <4> HIDE DEF x
      <4>2. file'[x] = file[x]
        BY <1>2, <4>1
      <4> QED BY <4>2 DEF x
    <3>3. \A i \in 1 .. n : file'[q[i]] = file[q[i]]
      BY <3>1, <3>2
    <3>4. ListData(file', n, StreamPages(s)') = ListData(file', n, q)
      BY <3>1
    <3> HIDE DEF n, q
    <3>5. ListData(file', n, q) = ListData(file, n, q)
      BY <3>3, SameList
    <3> QED BY <3>4, <3>5 DEF n, q
  <2> QED BY <2>1, <2>2
<1>6. Contents = [s \in DOMAIN sizes |-> ListData(file', sizes[s], StreamPages(s))]
  BY <1>5, ContentsByTable
<1>7. Contents' = Contents
  <2>1. Contents' = [s \in DOMAIN sizes |-> ListData(file', sizes[s], StreamPages(s)')]
    BY <1>1, ContentsByTablePrime
  <2>2. Contents' = [s \in DOMAIN sizes |-> ListData(file', sizes[s], StreamPages(s))]
    BY <1>5, <2>1
  <2> QED BY <1>6, <2>2
<1>8. DiskContents' = Contents
  <2>1. \A s \in DOMAIN sizes : Table[s] = StreamPages(s)
    BY TableTyped DEF RecoveryInv, IInv
  <2>2. [s \in DOMAIN sizes |-> ListData(file', sizes[s], Table[s])]
          = [s \in DOMAIN sizes |-> ListData(file', sizes[s], StreamPages(s))]
    BY <2>1
  <2>3. DiskContents' = TableData(file', Directory)
    BY <1>2, ContentsByTablePrime
  <2> QED BY <1>4, <1>6, <2>2, <2>3
<1>9. Working = Contents /\ Working' = Contents /\ Stable' = Contents
  BY <1>1, <1>2, <1>7, <1>8 DEF Working, Stable
<1>10. Working # NoHeader
  BY <1>9, ContentsTyped DEF RecoveryInv, IInv
<1> QED BY <1>9, <1>10 DEF Store!Commit, Working, Stable

(* The stream table that open builds says what the directory says.         *)
LEMMA ReopenStore ==
  ASSUME RecoveryInv, Stable' = Stable, Reopen PROVE UNCHANGED Store!storeVars
<1> DEFINE D == DiskDirectory
<1>1. /\ stage = "closed" /\ stage' = "idle" /\ HasHeader /\ file' = file
      /\ sizes' = [s \in DOMAIN D |-> IF D[s] = Nil THEN Nil ELSE Len(D[s])]
      /\ committed' = [s \in DOMAIN D |-> IF D[s] = Nil THEN <<>> ELSE D[s]]
      /\ modified' = <<>>
  BY DEF Reopen, OpenSucceeds
<1>2. PICK n \in Nat : IsTable(D, n)
  <2>1. TypeOK /\ DiskWellFormed /\ OpenSucceeds
    BY DEF RecoveryInv, IInv, Reopen
  <2>2. 1 \in 1 .. Header.dirLen /\ DiskDirPage(1) \in DiskPages
    BY <1>1, <2>1, DiskPagesStable
  <2>3. "dir" \in DOMAIN file[DiskDirPage(1)]
    BY <2>1, <2>2 DEF OpenSucceeds, DirectoryReadable
  <2>4. \E m \in 0 .. MaxStreams : IsTable(D, m)
    BY <2>1, <2>2, <2>3 DEF TypeOK, DiskDirectory
  <2> HIDE DEF D
  <2> QED BY <2>4, StreamsAssumption
<1> HIDE DEF D
<1>3. ASSUME NEW s \in DOMAIN D, D[s] # Nil
      PROVE  D[s] \in Seq(DiskPages) /\ Len(D[s]) \in Nat /\ Len(D[s]) # Nil
             /\ DOMAIN D[s] = 1 .. Len(D[s])
  <2>1. D[s] \in Seq(DiskPages)
    BY <1>2, <1>3 DEF IsTable
  <2>2. Len(D[s]) \in Nat /\ DOMAIN D[s] = 1 .. Len(D[s])
    BY <2>1
  <2> QED BY <2>1, <2>2, StreamsAssumption
<1>4. DOMAIN sizes' = DOMAIN D /\ DOMAIN committed' = DOMAIN D
  BY <1>1
<1>5. ASSUME NEW s \in DOMAIN D
      PROVE  IF D[s] = Nil THEN sizes'[s] = Nil
             ELSE /\ sizes'[s] # Nil /\ DOMAIN D[s] = 1 .. sizes'[s]
                  /\ committed'[s] = D[s]
  BY <1>1, <1>3
<1>6. TableData(file', D)
        = [s \in DOMAIN sizes' |-> ListData(file', sizes'[s], committed'[s])]
  <2> DEFINE z == sizes'
             Q == committed'
             f == file'
  <2>1. DOMAIN z = DOMAIN D
    BY <1>4
  <2>2. \A s \in DOMAIN D :
          IF D[s] = Nil THEN z[s] = Nil
          ELSE z[s] # Nil /\ DOMAIN D[s] = 1 .. z[s] /\ Q[s] = D[s]
    BY <1>5
  <2> HIDE DEF z, Q, f
  <2>3. TableData(f, D) = [s \in DOMAIN z |-> ListData(f, z[s], Q[s])]
    BY <2>1, <2>2, TableAsLists
  <2> QED BY <2>3 DEF z, Q, f
<1>7. Contents' = TableData(file', D)
  <2>1. \A s \in DOMAIN sizes' : StreamPages(s)' = committed'[s]
    BY <1>1 DEF StreamPages
  <2>2. Contents' = [s \in DOMAIN sizes' |-> ListData(file', sizes'[s], committed'[s])]
    BY <2>1, ContentsByTablePrime
  <2> QED BY <1>6, <2>2
<1>8. Contents' = DiskContents
  <2>1. DiskContents = TableData(file, D)
    BY ContentsByTable DEF D
  <2> QED BY <1>1, <1>7, <2>1
<1>9. Working' = Working
  BY <1>1, <1>8 DEF Working, Stable
<1> QED BY <1>9 DEF Store!storeVars, Working, Stable

(* What was not committed is gone.                                         *)
LEMMA CrashStore == ASSUME Stable' = Stable, Crash PROVE Store!Rollback
<1>1. stage' = "closed"
  BY DEF Crash
<1>2. Working' = Stable /\ Stable' = Stable
  BY <1>1 DEF Working
<1> QED BY <1>2 DEF Store!Rollback, Working, Stable

(* A new MSF has an empty stream 0 and nil streams, whatever pages hold.   *)
NewContents == [s \in 0 .. FixedStreams |-> IF s = 0 THEN <<>> ELSE Nil]

(* A new file's streams are empty or nil, whatever the pages.              *)
LEMMA NewTable ==
  ASSUME NEW f, NEW Q
  PROVE  [s \in DOMAIN NewSizes |-> ListData(f, NewSizes[s], Q[s])] = NewContents
<1>1. DOMAIN NewSizes = 0 .. FixedStreams /\ 0 \in 0 .. FixedStreams
  BY StreamsAssumption DEF NewSizes
<1>2. ASSUME NEW s \in 0 .. FixedStreams
      PROVE  ListData(f, NewSizes[s], Q[s]) = IF s = 0 THEN <<>> ELSE Nil
  <2>1. CASE s = 0
    <3>1. NewSizes[s] = 0
      BY <2>1 DEF NewSizes
    <3>2. NewSizes[s] # Nil
      BY <3>1, StreamsAssumption
    <3>3. ListData(f, NewSizes[s], Q[s]) = [i \in 1 .. 0 |-> DataAt(f, Q[s][i])]
      BY <3>1, <3>2 DEF ListData
    <3> DEFINE E == [i \in 1 .. 0 |-> DataAt(f, Q[s][i])]
    <3>4. E \in [1 .. 0 -> {}]
      OBVIOUS
    <3> HIDE DEF E
    <3>5. E \in Seq({}) /\ Len(E) = 0
      <4>1. E \in Seq({}) /\ DOMAIN E = 1 .. 0
        BY <3>4, SeqDef
      <4>2. Len(E) \in Nat /\ DOMAIN E = 1 .. Len(E)
        BY <4>1
      <4> QED BY <4>1, <4>2
    <3>6. E = <<>>
      BY <3>5
    <3> QED BY <2>1, <3>3, <3>6 DEF E
  <2>2. CASE s # 0
    <3>1. NewSizes[s] = Nil
      BY <2>2 DEF NewSizes
    <3> QED BY <2>2, <3>1 DEF ListData
  <2> QED BY <2>1, <2>2
<1> QED BY <1>1, <1>2 DEF NewContents

(* What the editor of a new file works on.                                 *)
LEMMA NewWorking ==
  /\ sizes = NewSizes /\ stage = "idle" => Working = NewContents
  /\ sizes' = NewSizes /\ stage' = "idle" => Working' = NewContents
<1>1. ASSUME sizes = NewSizes PROVE Contents = NewContents
  <2> DEFINE Q == [s \in DOMAIN NewSizes |-> StreamPages(s)]
             f == file
  <2>1. Contents = [s \in DOMAIN NewSizes |-> ListData(f, NewSizes[s], Q[s])]
    BY <1>1, ContentsByTable
  <2> HIDE DEF Q, f
  <2> QED BY <2>1, NewTable
<1>2. ASSUME sizes' = NewSizes PROVE Contents' = NewContents
  <2> DEFINE Q == [s \in DOMAIN NewSizes |-> StreamPages(s)']
             f == file'
  <2>1. Contents' = [s \in DOMAIN NewSizes |-> ListData(f, NewSizes[s], Q[s])]
    BY <1>2, ContentsByTablePrime
  <2> HIDE DEF Q, f
  <2> QED BY <2>1, NewTable
<1> QED BY <1>1, <1>2 DEF Working

(* A new MSF is created where no commit has been.                          *)
LEMMA CreateStore == ASSUME Stable' = Stable, Create PROVE Store!Create
<1>1. /\ stage = "closed" /\ ~HasHeader /\ stage' = "idle" /\ sizes' = NewSizes
  BY DEF Create, NewEditor
<1>2. Stable = NoHeader /\ Working = NoHeader
  BY <1>1 DEF Working, Stable
<1>3. Working' = NewContents
  BY <1>1, NewWorking
<1> QED BY <1>2, <1>3 DEF Store!Create, Working, Stable, NewContents

(* A new file maps to a new store.                                         *)
LEMMA InitStore == Init => Store!Init
<1> SUFFICES ASSUME Init PROVE Store!Init
  OBVIOUS
<1>1. Working = NewContents
  BY NewWorking DEF Init
<1>2. ~HasHeader
  <2>1. 0 \in DiskPages /\ file = [p \in DiskPages |-> [data |-> Blank]]
    BY MaxPagesAssumption DEF Init, DiskPages
  <2>2. file[0] = [data |-> Blank]
    BY <2>1
  <2> QED BY <2>2 DEF HasHeader
<1>3. Stable = NoHeader
  BY <1>2 DEF Stable
<1> QED BY <1>1, <1>3 DEF Store!Init, Working, Stable, NewContents

-----------------------------------------------------------------------------
(***************************************************************************)
(* Every step of the container is a step of the store, or none.            *)
(***************************************************************************)
LEMMA NextStore ==
  ASSUME RecoveryInv, RecoveryInv', Next PROVE [Store!Next]_(Store!storeVars)
<1>1. CASE WriteHeader
  BY <1>1, WriteHeaderStore DEF Store!Next
<1>2. CASE ~WriteHeader
  <2>1. Stable' = Stable
    BY <1>2, StableKeeps
  <2>2. CASE Create
    BY <2>1, <2>2, CreateStore DEF Store!Next
  <2>3. CASE Reopen
    BY <2>1, <2>3, ReopenStore
  <2>4. CASE Crash
    BY <2>1, <2>4, CrashStore DEF Store!Next
  <2>5. CASE NewStream \/ NilStream
    BY <2>1, <2>5, AddStreamStore DEF NewStream, NilStream, Store!Next
  <2>6. ASSUME NEW s \in 1 .. (MaxStreams - 1), WriteStream(s) PROVE Store!Next
    BY <2>1, <2>6, WriteStreamStore DEF Store!Next
  <2>7. ASSUME NEW s \in DOMAIN modified, NEW i \in 1 .. MaxStreamPages,
               NEW d \in Data, OverwriteFreshPage(s, i, d)
        PROVE  Store!Next
    BY <2>1, <2>7, OverwriteStore DEF Store!Next
  <2>8. ASSUME NEW s \in DOMAIN modified, NEW i \in 1 .. MaxStreamPages,
               NEW d \in Data, NEW written \in BOOLEAN, CowPage(s, i, d, written)
        PROVE  Store!Next
    BY <2>1, <2>8, CowPageStore DEF Store!Next
  <2>9. ASSUME NEW s \in DOMAIN modified, NEW n \in 1 .. MaxStreamPages,
               NEW d \in Data, NEW written \in BOOLEAN, AppendPages(s, n, d, written)
        PROVE  Store!Next
    BY <2>1, <2>9, AppendRunStore DEF AppendPages, Store!Next
  <2>10. ASSUME NEW s \in DOMAIN modified, NEW n \in 1 .. MaxStreamPages,
                AppendFails(s, n)
         PROVE  Store!Next
    BY <2>1, <2>10, AppendRunStore DEF AppendFails, Store!Next
  <2>11. ASSUME NEW s \in DOMAIN modified, NEW n \in 0 .. (MaxStreamPages - 1),
                Truncate(s, n)
         PROVE  Store!Next
    BY <2>1, <2>11, TruncateStore DEF Store!Next
  <2>12. CASE BeginCommit \/ MergeFreed \/ CommitFails
    BY <2>1, <2>12, NoWriteStore
  <2>13. CASE WriteDirPage \/ WriteMapPage
    BY <2>1, <2>13, CommitPageStore
  <2>14. CASE WriteFpmPage
    BY <2>1, <2>14, WriteFpmPageStore
  <2> QED BY <1>2, <2>2, <2>3, <2>4, <2>5, <2>6, <2>7, <2>8, <2>9, <2>10, <2>11,
             <2>12, <2>13, <2>14 DEF Next
<1> QED BY <1>1, <1>2

(* What no variable changes, no variable of the store changes.             *)
LEMMA StutterStore == ASSUME UNCHANGED vars PROVE UNCHANGED Store!storeVars
<1>1. /\ UNCHANGED <<file, stage, sizes, committed, modified>>
  BY DEF vars, streamVars
<1>2. HasHeader' = HasHeader /\ DiskContents' = DiskContents
  BY <1>1 DEF HasHeader, DiskContents, DiskDirectory, DiskDirPage, Header, ContentOf
<1>3. Contents' = Contents
  BY <1>1 DEF Contents, StreamPages, ContentOf
<1>4. Working' = Working /\ Stable' = Stable
  BY <1>1, <1>2, <1>3 DEF Working, Stable
<1> QED BY <1>4 DEF Store!storeVars, Working, Stable

(***************************************************************************)
(* The container implements AtomicStore (commit.rs, the comment on         *)
(* Msf::commit): for every number of streams and pages, whichever edits    *)
(* fail, what a reader finds on disk changes at the write of the header    *)
(* alone, to all that was edited since the last one, and a crash between   *)
(* any two writes leaves the store of the last commit.                     *)
(***************************************************************************)
THEOREM StoreRefined == Spec => ImplementsStore
<1>1. Init => Store!Init
  BY InitStore
<1>2. RecoveryInv /\ RecoveryInv' /\ [Next]_vars => [Store!Next]_(Store!storeVars)
  BY NextStore, StutterStore
<1> QED BY <1>1, <1>2, RecoveryInvariant, PTL DEF Spec, ImplementsStore, Store!Spec
=============================================================================

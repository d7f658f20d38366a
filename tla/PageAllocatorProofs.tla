------------------------- MODULE PageAllocatorProofs -------------------------
(***************************************************************************)
(* What one call of alloc_pages does, for every page size: the pages it    *)
(* returns were not in use and are never the header or an FPM page.        *)
(***************************************************************************)
EXTENDS PageAllocator, TLAPS

(* The types of the allocator's state, as far as the lemmas need them.     *)
AllocatorTyped ==
  /\ free \subseteq Nat /\ freed \subseteq Nat /\ fresh \subseteq Nat
  /\ numPages \in 3 .. MaxPages /\ hint \in 0 .. MaxPages

(* The quotient and the remainder of a division, and that they are unique. *)
LEMMA DivMod ==
  ASSUME NEW a \in Nat, NEW P \in Nat \ {0}
  PROVE  /\ a % P \in 0 .. (P - 1)
         /\ a \div P \in Nat
         /\ a = P * (a \div P) + (a % P)
OBVIOUS

(* What divides a number with a remainder below P is its quotient by P.    *)
LEMMA DivModUnique ==
  ASSUME NEW P \in Nat \ {0}, NEW k \in Nat, NEW r \in 0 .. (P - 1),
         NEW a \in Nat, a = P * k + r
  PROVE  a % P = r /\ a \div P = k
OBVIOUS

(* Stepping over some pages of an interval, at most to its end.            *)
LEMMA PhaseAfter ==
  ASSUME NEW a \in Nat, NEW j \in Nat, NEW P \in Nat \ {0}, (a % P) + j <= P
  PROVE  (a + j) % P = IF (a % P) + j = P THEN 0 ELSE (a % P) + j
<1> DEFINE q == a \div P
           r == a % P
<1>1. /\ q \in Nat /\ r \in 0 .. (P - 1) /\ a = P * q + r
  BY DivMod
<1>2. CASE r + j = P
  <2>1. a + j = P * (q + 1) + 0
    <3>1. P * (q + 1) = P * q + P
      BY <1>1
    <3> QED BY <1>1, <1>2, <3>1
  <2>2. (a + j) % P = 0
    <3>1. q + 1 \in Nat /\ 0 \in 0 .. (P - 1) /\ a + j \in Nat
      BY <1>1
    <3> HIDE DEF q, r
    <3> QED BY <2>1, <3>1, DivModUnique
  <2> QED BY <1>2, <2>2
<1>3. CASE r + j < P
  <2>1. a + j = P * q + (r + j)
    BY <1>1
  <2>2. (a + j) % P = r + j
    <3>1. r + j \in 0 .. (P - 1) /\ a + j \in Nat
      BY <1>1, <1>3
    <3> HIDE DEF q, r
    <3> QED BY <1>1, <2>1, <3>1, DivModUnique
  <2> QED BY <1>3, <2>2
<1> QED BY <1>1, <1>2, <1>3

(* Where the growth of the file starts and ends, counted from the phase of *)
(* its first new page: behind the FPM pages, and no further than the first *)
(* page of the next interval.                                              *)
LEMMA GrowthBounds ==
  ASSUME numPages \in 3 .. MaxPages
  PROVE  /\ GrowthAvailable \in Nat \ {0}
         /\ GrowthStart \in Nat /\ GrowthStart >= numPages
         /\ \A q \in Pages(GrowthStart, GrowthAvailable) :
              /\ Phase(numPages) + (q - numPages) <= PageSize
              /\ Phase(numPages) + (q - numPages) \notin {1, 2}
<1> DEFINE r == numPages % PageSize
<1>1. numPages \in Nat /\ PageSize \in Nat /\ PageSize >= 3 /\ MaxPages \in Nat
  BY PageSizeAssumption, MaxPagesAssumption
<1>2. r \in 0 .. (PageSize - 1)
  BY <1>1, DivMod
<1>3. CASE r = 0
  BY <1>1, <1>2, <1>3 DEF GrowthAvailable, GrowthStart, Pages, Phase
<1>4. CASE r = 1
  BY <1>1, <1>2, <1>4 DEF GrowthAvailable, GrowthStart, Pages, Phase
<1>5. CASE r = 2
  BY <1>1, <1>2, <1>5 DEF GrowthAvailable, GrowthStart, Pages, Phase
<1>6. CASE r >= 3
  BY <1>1, <1>2, <1>6 DEF GrowthAvailable, GrowthStart, Pages, Phase
<1> QED BY <1>2, <1>3, <1>4, <1>5, <1>6

(* None of the pages by which the file grows is the header or an FPM page. *)
LEMMA GrowthNotSpecial ==
  ASSUME numPages \in 3 .. MaxPages,
         NEW q \in Pages(GrowthStart, GrowthAvailable)
  PROVE  ~IsSpecialPage(q)
<1> DEFINE j == q - numPages
<1>1. /\ numPages \in Nat /\ numPages >= 3
      /\ PageSize \in Nat \ {0} /\ PageSize >= 3
  BY PageSizeAssumption, MaxPagesAssumption
<1>2. /\ q \in Nat /\ q >= numPages
      /\ Phase(numPages) + j <= PageSize
      /\ Phase(numPages) + j \notin {1, 2}
  BY <1>1, GrowthBounds DEF Pages
<1>3. j \in Nat /\ q = numPages + j
  BY <1>1, <1>2
<1>4. Phase(q) = IF Phase(numPages) + j = PageSize THEN 0 ELSE Phase(numPages) + j
  <2> HIDE DEF j
  <2> QED BY <1>1, <1>2, <1>3, PhaseAfter DEF Phase
<1>5. Phase(q) \notin {1, 2}
  BY <1>2, <1>4
<1> QED BY <1>1, <1>2, <1>5 DEF IsSpecialPage, IsFpmPage

(***************************************************************************)
(* alloc_pages, in one place: the pages it returns were free or beyond the *)
(* end of the file, none is special, and the allocator stays consistent.   *)
(***************************************************************************)
LEMMA AllocPagesEffect ==
  ASSUME AllocatorTyped, AllocatorConsistent,
         NEW n \in Nat \ {0}, NEW p \in Nat, NEW k \in Nat, AllocPages(n, p, k)
  PROVE  /\ k # 0
         /\ numPages' \in numPages .. MaxPages /\ hint' \in 0 .. numPages'
         /\ free' \subseteq free
         /\ \A q \in Pages(p, k) :
              /\ q \in Nat /\ q < numPages' /\ ~IsSpecialPage(q)
              /\ q \in free \/ q >= numPages
              /\ q \notin free' /\ q \notin freed
         /\ \A q \in fresh' : q \in Nat /\ q < numPages'
         /\ \A q \in fresh' \ fresh : q \in free \/ q >= numPages
<1>1. /\ numPages \in Nat /\ numPages >= 3 /\ MaxPages \in Nat /\ hint \in Nat
      /\ free \subseteq Nat /\ fresh \subseteq Nat
  BY MaxPagesAssumption DEF AllocatorTyped
<1>2. /\ p + k <= MaxPages
      /\ free' = free \ Pages(p, k)
      /\ fresh' = fresh \cup Pages(p, k) \cup (numPages .. (p + k - 1))
      /\ hint' = p + k
      /\ numPages' = IF p + k > numPages THEN p + k ELSE numPages
  BY DEF AllocPages
<1>3. CASE FreeRun(n, p, k)
  <2>1. k # 0 /\ Pages(p, k) \subseteq free
    BY <1>3 DEF FreeRun
  <2>2. p + k - 1 \in Pages(p, k)
    BY <2>1 DEF Pages
  <2>3. p + k <= numPages
    BY <1>1, <2>1, <2>2 DEF AllocatorConsistent
  <2>4. numPages' = numPages /\ fresh' = fresh \cup Pages(p, k)
    BY <1>1, <1>2, <2>3
  <2>5. \A q \in Pages(p, k) : q \in free /\ q \notin freed
                                  /\ q < numPages /\ ~IsSpecialPage(q)
    BY <2>1 DEF AllocatorConsistent
  <2>6. \A q \in fresh' : q \in Nat /\ q < numPages'
    BY <1>1, <2>1, <2>4, <2>5 DEF AllocatorConsistent
  <2>7. numPages' \in numPages .. MaxPages /\ hint' \in 0 .. numPages'
    BY <1>1, <1>2, <2>3, <2>4 DEF AllocatorTyped
  <2>8. \A q \in Pages(p, k) : q \in Nat /\ q \notin free'
    BY <1>1, <1>2, <2>1
  <2> QED BY <1>2, <2>1, <2>4, <2>5, <2>6, <2>7, <2>8
<1>4. CASE GrownRun(n, p, k)
  <2>1. /\ GrowthAvailable \in Nat \ {0}
        /\ GrowthStart \in Nat /\ GrowthStart >= numPages
    BY GrowthBounds DEF AllocatorTyped
  <2>2. p = GrowthStart /\ k # 0 /\ k <= GrowthAvailable
    BY <1>4, <2>1 DEF GrownRun
  <2>3. Pages(p, k) \subseteq Pages(GrowthStart, GrowthAvailable)
    BY <2>1, <2>2 DEF Pages
  <2>4. \A q \in Pages(p, k) : ~IsSpecialPage(q)
    BY <2>3, GrowthNotSpecial DEF AllocatorTyped
  <2>5. \A q \in Pages(p, k) : q \in Nat /\ q >= numPages /\ q < p + k
    BY <1>1, <2>1, <2>2 DEF Pages
  <2>6. numPages' = p + k
    BY <1>1, <1>2, <2>1, <2>2
  <2>7. \A q \in Pages(p, k) : q \notin freed /\ q \notin free'
    BY <1>2, <2>5, <1>1 DEF AllocatorConsistent
  <2>8. \A q \in fresh : q \in Nat /\ q < numPages'
    BY <1>1, <2>1, <2>2, <2>6 DEF AllocatorConsistent
  <2>9. \A q \in numPages .. (p + k - 1) : q \in Nat /\ q >= numPages /\ q < numPages'
    BY <1>1, <2>6
  <2> QED BY <1>1, <1>2, <2>1, <2>2, <2>4, <2>5, <2>6, <2>7, <2>8, <2>9
<1> QED BY <1>3, <1>4 DEF AllocPages

(* So is the allocator when the pages `gone` are deleted by the same step.  *)
LEMMA AllocPagesConsistent ==
  ASSUME AllocatorTyped, AllocatorConsistent,
         NEW n \in Nat \ {0}, NEW p \in Nat, NEW k \in Nat, AllocPages(n, p, k),
         NEW gone, freed' = freed \cup gone, gone \cap free = {},
         \A q \in gone : q \in Nat /\ q < numPages /\ ~IsSpecialPage(q)
  PROVE  AllocatorTyped' /\ AllocatorConsistent'
<1>1. /\ numPages' \in numPages .. MaxPages /\ hint' \in 0 .. numPages'
      /\ free' \subseteq free
      /\ \A q \in fresh' : q \in Nat /\ q < numPages'
  BY AllocPagesEffect
<1>2. numPages \in 3 .. MaxPages /\ MaxPages \in Nat
  BY MaxPagesAssumption DEF AllocatorTyped
<1>3. AllocatorTyped'
  <2>1. free' \subseteq Nat /\ freed' \subseteq Nat /\ fresh' \subseteq Nat
    BY <1>1 DEF AllocatorTyped
  <2>2. numPages' \in 3 .. MaxPages /\ hint' \in 0 .. MaxPages
    BY <1>1, <1>2
  <2> QED BY <2>1, <2>2 DEF AllocatorTyped
<1>4. free' \cap freed' = {}
  BY <1>1 DEF AllocatorConsistent
<1>5. \A q \in free' \cup freed' : q < numPages' /\ ~IsSpecialPage(q)
  BY <1>1, <1>2 DEF AllocatorConsistent, AllocatorTyped
<1> QED BY <1>1, <1>2, <1>3, <1>4, <1>5 DEF AllocatorConsistent, IsSpecialPage, IsFpmPage, Phase
(* The pages that growth steps over are FPM pages.                         *)
LEMMA GrowthSkipsSpecial ==
  ASSUME numPages \in 3 .. MaxPages,
         NEW q \in numPages .. (GrowthStart - 1)
  PROVE  IsSpecialPage(q)
<1>1. /\ numPages \in Nat /\ PageSize \in Nat \ {0} /\ PageSize >= 3
      /\ 0 \in Nat /\ 1 \in Nat
  BY PageSizeAssumption, MaxPagesAssumption
<1>2. CASE Phase(numPages) = 1
  <2>1. q = numPages \/ q = numPages + 1
    BY <1>1, <1>2 DEF GrowthStart
  <2>2. Phase(numPages + 1) = 2
    <3>1. numPages % PageSize = 1
      BY <1>2 DEF Phase
    <3> DEFINE j == 1
    <3>2. j \in Nat /\ (numPages % PageSize) + j <= PageSize
      BY <1>1, <3>1
    <3> HIDE DEF j
    <3>3. (numPages + j) % PageSize =
            IF (numPages % PageSize) + j = PageSize THEN 0 ELSE (numPages % PageSize) + j
      BY <1>1, <3>2, PhaseAfter
    <3> QED BY <1>1, <3>1, <3>3 DEF Phase, j
  <2> QED BY <1>2, <2>1, <2>2 DEF IsSpecialPage, IsFpmPage
<1>3. CASE Phase(numPages) = 2
  <2>1. q = numPages
    BY <1>1, <1>3 DEF GrowthStart
  <2> QED BY <1>3, <2>1 DEF IsSpecialPage, IsFpmPage
<1>4. CASE Phase(numPages) \notin {1, 2}
  BY <1>1, <1>4 DEF GrowthStart
<1> QED BY <1>2, <1>3, <1>4

(***************************************************************************)
(* The pages the file grows by are handed out or special: alloc_pages      *)
(* leaves none behind.  And the hint never passes a free page, so that     *)
(* every one of them is found before the file grows.                       *)
(***************************************************************************)
LEMMA AllocPagesComplete ==
  ASSUME AllocatorTyped, AllocatorConsistent,
         NEW n \in Nat \ {0}, NEW p \in Nat, NEW k \in Nat, AllocPages(n, p, k)
  PROVE  /\ free' = free \ Pages(p, k)
         /\ \A q \in numPages .. (numPages' - 1) :
              q \in Pages(p, k) \/ IsSpecialPage(q)
         /\ (\A q \in free : q >= hint) =>
              /\ \A q \in free' : q >= hint'
              /\ numPages' > numPages => free = {}
<1>1. /\ numPages \in Nat /\ numPages >= 3 /\ MaxPages \in Nat /\ hint \in Nat
      /\ free \subseteq Nat
  BY MaxPagesAssumption DEF AllocatorTyped
<1>2. /\ free' = free \ Pages(p, k)
      /\ hint' = p + k
      /\ numPages' = IF p + k > numPages THEN p + k ELSE numPages
  BY DEF AllocPages
<1>3. CASE FreeRun(n, p, k)
  <2>1. k # 0 /\ Pages(p, k) \subseteq free
    BY <1>3 DEF FreeRun
  <2>2. p + k - 1 \in Pages(p, k)
    BY <2>1 DEF Pages
  <2>3. numPages' = numPages
    BY <1>1, <1>2, <2>1, <2>2 DEF AllocatorConsistent
  <2>4. ASSUME \A q \in free : q >= hint, NEW q \in free'
        PROVE  q >= hint'
    <3>1. q \in Nat /\ q >= p /\ q \notin Pages(p, k)
      BY <1>1, <1>2, <1>3, <2>4 DEF FreeRun
    <3> QED BY <1>2, <3>1 DEF Pages
  <2> QED BY <1>1, <1>2, <2>3, <2>4
<1>4. CASE GrownRun(n, p, k)
  <2>1. p = GrowthStart /\ \A q \in free : q < hint
    BY <1>4 DEF GrownRun
  <2>2. ASSUME NEW q \in numPages .. (numPages' - 1)
        PROVE  q \in Pages(p, k) \/ IsSpecialPage(q)
    <3>1. CASE q < p
      <4>1. q \in numPages .. (GrowthStart - 1)
        BY <1>1, <2>1, <2>2, <3>1
      <4> QED BY <4>1, GrowthSkipsSpecial DEF AllocatorTyped
    <3>2. CASE q >= p
      BY <1>1, <1>2, <2>2, <3>2 DEF Pages
    <3> QED BY <1>1, <2>2, <3>1, <3>2
  <2>3. (\A q \in free : q >= hint) => free = {}
    BY <1>1, <2>1
  <2> QED BY <1>2, <2>2, <2>3
<1> QED BY <1>3, <1>4 DEF AllocPages
=============================================================================

--------------------------- MODULE PageAllocator ---------------------------
(***************************************************************************)
(* The page allocator of an MSF file (msf/src/pages.rs, `PageAllocator`).  *)
(*                                                                         *)
(* An MSF file is an array of pages.  The pages are grouped in intervals   *)
(* of PageSize pages; pages 1 and 2 of every interval are reserved for the *)
(* two copies of the Free Page Map (FPM1, FPM2), and page 0 of the file    *)
(* holds the header.  The three bit vectors of the code are three sets:    *)
(*                                                                         *)
(*    fpm[p]        p \in free     the page is available                   *)
(*    fpm_freed[p]  p \in freed    committed, but deleted by the editor    *)
(*    fresh[p]      p \in fresh    allocated since the last commit         *)
(*                                                                         *)
(* The module has no specification of its own: Msf composes its operations *)
(* with the streams and the commit protocol.                               *)
(***************************************************************************)
EXTENDS Integers, FiniteSets

CONSTANTS
  PageSize,  \* bytes per page, and so pages per interval (pages.rs counts both)
  MaxPages   \* bound of the model: no allocation takes the file beyond it

ASSUME PageSizeAssumption == PageSize \in Nat /\ PageSize >= 3
ASSUME MaxPagesAssumption == MaxPages \in Nat /\ MaxPages >= 3

VARIABLES
  free,      \* PageAllocator::fpm
  freed,     \* PageAllocator::fpm_freed
  fresh,     \* PageAllocator::fresh
  hint,      \* PageAllocator::next_free_page_hint
  numPages   \* PageAllocator::num_pages

allocVars == <<free, freed, fresh, hint, numPages>>

Phase(p) == p % PageSize

IsFpmPage(p) == Phase(p) \in {1, 2}

IsSpecialPage(p) == p = 0 \/ IsFpmPage(p)

(* The FPM page with the given number (1 or 2) in an interval.             *)
FpmPage(interval, number) == interval * PageSize + number

CeilDiv(a, b) == (a + b - 1) \div b

Pages(first, count) == first .. (first + count - 1)

(***************************************************************************)
(* PageAllocator::new: everything is free but page 0 and the FPM pages.    *)
(***************************************************************************)
AllFree(n) == {p \in 0 .. (n - 1) : ~IsSpecialPage(p)}

(***************************************************************************)
(* Slips: a run of free pages of which only the first is looked at; growth *)
(* that does not step over the FPM pages; pages handed out and left free.  *)
(***************************************************************************)
FreeRunUnchecked(n, p, k) ==
  p \in free /\ p >= hint /\ (\A q \in free : q >= hint => q >= p) /\ k = n

GrowthStartOnFpm == numPages

AllocKeepsFree(n, p, k) ==
  /\ p \in free /\ p >= hint /\ k = 1 /\ p + k <= MaxPages
  /\ fresh' = fresh \cup {p} /\ hint' = p + k
  /\ UNCHANGED <<free, numPages>>

(***************************************************************************)
(* alloc_pages(n).  The first branch claims the first free page at or      *)
(* after the hint and the free pages that follow it; the second one        *)
(* extends the file, stepping over the FPM pages, up to and including the  *)
(* first page of the next interval.                                        *)
(***************************************************************************)
FreeRun(n, p, k) ==
  /\ p \in free /\ p >= hint
  /\ \A q \in free : q >= hint => q >= p
  /\ k \in 1 .. n
  /\ Pages(p, k) \subseteq free
  /\ k = n \/ p + k \notin free

GrowthStart ==
  CASE Phase(numPages) = 1 -> numPages + 2
    [] Phase(numPages) = 2 -> numPages + 1
    [] OTHER -> numPages

GrowthAvailable ==
  CASE Phase(numPages) = 0 -> 1
    [] Phase(numPages) \in {1, 2} -> PageSize - 2
    [] OTHER -> PageSize - Phase(numPages) + 1

GrownRun(n, p, k) ==
  /\ \A q \in free : q < hint
  /\ p = GrowthStart
  /\ k = IF n < GrowthAvailable THEN n ELSE GrowthAvailable

AllocPages(n, p, k) ==
  /\ FreeRun(n, p, k) \/ GrownRun(n, p, k)
  /\ p + k <= MaxPages
  /\ free' = free \ Pages(p, k)
  /\ fresh' = fresh \cup Pages(p, k) \cup (numPages .. (p + k - 1))
  /\ hint' = p + k
  /\ numPages' = IF p + k > numPages THEN p + k ELSE numPages

(* Slips: the old page is not deleted; deleted pages are not made free.     *)
ReplaceKeepsOld(old, new) == AllocPages(1, new, 1) /\ UNCHANGED freed

MergeForgets == freed' = {} /\ UNCHANGED free

(* make_page_fresh on a page that is not fresh: `new` takes the place of `old`. *)
ReplacePage(old, new) ==
  /\ AllocPages(1, new, 1)
  /\ freed' = freed \cup {old}

MergeFreedIntoFree ==
  /\ free' = free \cup freed
  /\ freed' = {}

(***************************************************************************)
(* The allocator's state table (pages.rs, the comment on `PageAllocator`): *)
(* no page is both free and deleted, the header and FPM pages are always   *)
(* busy, and everything free or deleted lies within the file.              *)
(***************************************************************************)
AllocatorConsistent ==
  /\ free \cap freed = {}
  /\ \A p \in free \cup freed : p < numPages /\ ~IsSpecialPage(p)
  /\ \A p \in fresh : p < numPages
  /\ hint <= numPages
=============================================================================

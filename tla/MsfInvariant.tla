----------------------------- MODULE MsfInvariant -----------------------------
(***************************************************************************)
(* The inductive invariant of Msf: why no step before the header is        *)
(* written can touch what the header on disk reaches.                      *)
(***************************************************************************)
EXTENDS Msf

(* The pages of the last commit other than its header and FPM.             *)
StablePages == DiskMapPages \cup DiskDirPages \cup DiskStreamPages

(***************************************************************************)
(* The header leads to a directory that lies outside of the FPM pages, and *)
(* every entry of the directory map it calls for exists.                   *)
(***************************************************************************)
DiskWellFormed ==
  HasHeader =>
    /\ Header.dirLen >= 1
    /\ \A k \in 1 .. Header.dirLen :
         ((k - 1) \div EntriesPerPage) + 1 \in DOMAIN Header.map
    /\ \A p \in StablePages : p \in DiskPages /\ ~IsSpecialPage(p)

(* An editor knows the FPM that is active on disk.                         *)
ActiveFpmKnown ==
  HasHeader /\ stage # "closed" => activeFpm = Header.activeFpm

(***************************************************************************)
(* While the editor may still allocate, nothing that the header on disk    *)
(* reaches is free, or fresh and so open to overwriting.  MergeFreed ends  *)
(* this: from then on only FPM pages and the header are written.           *)
(***************************************************************************)
StableProtected ==
  HasHeader /\ stage \in {"idle", "dir", "map", "merge"} =>
    \A p \in StablePages : p < numPages /\ p \notin free \cup fresh

(***************************************************************************)
(* How far the commit is: what it has written is on disk, and is enough    *)
(* for the header to be written when that stage is reached.                *)
(***************************************************************************)
CommitProgress ==
  /\ stage \in {"closed", "idle"} => dirPages = <<>>
  /\ stage \in {"closed", "idle", "dir"} => mapPages = <<>>
  /\ stage \in {"map", "merge", "fpm", "header"} => dirPages # <<>>
  /\ stage = "map" => Len(mapPages) < NumMapPages
  /\ stage \in {"merge", "fpm", "header"} => Len(mapPages) = NumMapPages
  /\ \A i \in DOMAIN dirPages : file[dirPages[i]] = [dir |-> Directory, part |-> i]
  /\ \A j \in DOMAIN mapPages : file[mapPages[j]] = [map |-> MapChunk(j)]

IInv ==
  /\ TypeOK
  /\ AllocatorConsistent
  /\ PagesOwnedOnce
  /\ DiskWellFormed
  /\ ActiveFpmKnown
  /\ StableProtected
  /\ CommitProgress

-----------------------------------------------------------------------------
(***************************************************************************)
(* Why the file that a commit leaves behind can be opened, and the editor  *)
(* goes on as one that has just opened it: the accounting of pages, and    *)
(* the Free Page Map as far as it is written.                              *)
(***************************************************************************)
ClosedIsNew ==
  stage = "closed" => numPages = 3 /\ free = {} /\ freed = {} /\ hint = 0

(* While the editor may still allocate, no free page is behind the hint.   *)
HintBehindFree ==
  stage \in {"closed", "idle", "dir", "map", "merge"} => \A p \in free : p >= hint

(***************************************************************************)
(* A stream has the pages its size says; after the failed write of an      *)
(* appended run it may have more, but a commit does not begin then.        *)
(***************************************************************************)
SizesWithinPages ==
  \A s \in DOMAIN sizes :
    IF sizes[s] = Nil THEN StreamPages(s) = <<>>
    ELSE /\ sizes[s] <= Len(StreamPages(s))
         /\ ~AppendErrors \/ stage \in CommitStages => Len(StreamPages(s)) = sizes[s]

(* The new FPM says which pages are free, in the intervals written so far. *)
FpmProgress ==
  /\ stage \in {"closed", "idle", "dir", "map", "merge"} => interval = 0
  /\ stage = "fpm" => interval < CeilDiv(numPages, PageSize)
  /\ stage = "header" => interval >= CeilDiv(numPages, PageSize)
  /\ stage \in {"fpm", "header"} =>
       /\ freed = {}
       /\ \A i \in 0 .. (interval - 1) :
            file[FpmPage(i, NewFpm)] =
              [fpm |-> {p \in free : p \div BitsPerFpmPage = i}]

(* The directory and its map take different pages.                         *)
CommitPagesDistinct ==
  /\ IsInjective(dirPages) /\ IsInjective(mapPages)
  /\ Range(dirPages) \cap Range(mapPages) = {}

(* What applications write are the contents the model gives them to write. *)
DataTyped ==
  \A p \in DiskPages :
    "data" \in DOMAIN file[p] => file[p].data \in Data \cup {Blank}

(***************************************************************************)
(* With a failed append a page may be lost (see MCMsfLeak), and with it    *)
(* the agreement of the FPM on disk with the one that open computes.       *)
(***************************************************************************)
Recoverable ==
  ~AppendErrors => NoPageLost /\ ReopenSucceeds /\ MemoryMatchesDisk

RecoveryInv ==
  /\ IInv
  /\ ClosedIsNew
  /\ HintBehindFree
  /\ SizesWithinPages
  /\ FpmProgress
  /\ CommitPagesDistinct
  /\ DataTyped
  /\ Recoverable
=============================================================================

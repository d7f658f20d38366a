-------------------------------- MODULE MCMsf --------------------------------
(***************************************************************************)
(* Msf for TLC.  The editing calls of a behaviour are counted and there    *)
(* are at most MaxEdits of them; a commit needs one, so their number is    *)
(* bounded too.  Crashes and reopenings are not bounded.  Where a stream   *)
(* is not shrunk once an append to it has failed, no page is lost.         *)
(***************************************************************************)
EXTENDS MsfInvariant, TLC

CONSTANTS
  d1, d2,    \* two contents of a page
  MaxEdits,  \* bound of the model: editing calls of a behaviour
  ShrinkAfterFailure  \* bound: whether a failed append may be followed by Truncate

VARIABLE edits

Contents2 == {d1, d2}

Sym == Permutations(Contents2)

MCInit == Init /\ edits = 0

Edit(A) == edits < MaxEdits /\ edits' = edits + 1 /\ A

MayShrink(s) == ShrinkAfterFailure \/ Len(modified[s]) = sizes[s]

Other(A) == A /\ UNCHANGED edits

MCNext ==
  \/ Other(Create)
  \/ Other(Reopen)
  \/ Other(Crash)
  \/ Edit(NewStream)
  \/ Edit(NilStream)
  \/ \E s \in 1 .. (MaxStreams - 1) : Edit(WriteStream(s))
  \/ \E s \in DOMAIN modified, i \in 1 .. MaxStreamPages, d \in Data :
       Edit(OverwriteFreshPage(s, i, d))
  \/ \E s \in DOMAIN modified, i \in 1 .. MaxStreamPages, d \in Data,
        written \in BOOLEAN : Edit(CowPage(s, i, d, written))
  \/ \E s \in DOMAIN modified, n \in 1 .. MaxStreamPages, d \in Data,
        written \in BOOLEAN : Edit(AppendPages(s, n, d, written))
  \/ \E s \in DOMAIN modified, n \in 1 .. MaxStreamPages : Edit(AppendFails(s, n))
  \/ \E s \in DOMAIN modified, n \in 0 .. (MaxStreamPages - 1) :
       MayShrink(s) /\ Edit(Truncate(s, n))
  \/ Other(BeginCommit)
  \/ Other(WriteDirPage)
  \/ Other(WriteMapPage)
  \/ Other(MergeFreed)
  \/ Other(WriteFpmPage)
  \/ Other(WriteHeader)
  \/ Other(CommitFails)

mcVars == <<vars, edits>>

MCSpec == MCInit /\ [][MCNext]_mcVars

MCFairSpec == MCSpec /\ WF_mcVars(Other(CommitStep))
=============================================================================

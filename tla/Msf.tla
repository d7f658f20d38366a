-------------------------------- MODULE Msf --------------------------------
(***************************************************************************)
(* The MSF container (crate msf): streams edited copy-on-write, page by    *)
(* page, and committed by writing a new stream directory, a new Free Page  *)
(* Map and then the header page.                                           *)
(*                                                                         *)
(* The granularity is a page: what the functions of write.rs do inside a   *)
(* page is not seen here, a stream's size is its number of pages, and one  *)
(* action stands for the functions' unit of work (one page replaced, one   *)
(* run of pages appended).  The commit is cut at each of its writes, since *)
(* the process may die, or a write may fail, between any two of them.      *)
(*                                                                         *)
(* `file` is the disk: what each page holds, tagged by the fields of a     *)
(* record (stream data, directory, map of the directory, FPM, header).     *)
(***************************************************************************)
EXTENDS PageAllocator, Sequences, Functions, FiniteSetsExt

CONSTANTS
  Data,            \* contents an application may write to a page of a stream
  Blank,           \* what a page never written holds
  Nil,             \* NIL_STREAM_SIZE
  NoHeader,        \* what the streams of a file without a header are
  MaxStreams,      \* Msf::max_streams
  FixedStreams,    \* streams a new MSF is born with (4 in create_for)
  MaxStreamPages,  \* bound of the model: the largest stream, in pages
  EntriesPerPage,  \* u32 entries of a directory or map page (page_size / 4)
  BitsPerFpmPage,  \* bits of an FPM page (8 * page_size)
  AppendErrors     \* whether the write of an appended run may fail

ASSUME DataAssumption == Blank \notin Data
ASSUME NoHeaderAssumption ==
  \A n \in 0 .. MaxStreams :
    NoHeader \notin [0 .. (n - 1) -> {Nil} \cup Seq(Data \cup {Blank})]
ASSUME StreamsAssumption ==
  /\ MaxStreams \in Nat /\ FixedStreams \in Nat \ {0} /\ FixedStreams < MaxStreams
  /\ MaxStreamPages \in Nat
  /\ Nil \notin Nat /\ Nil \notin Seq(Nat)
ASSUME LayoutAssumption ==
  /\ EntriesPerPage \in Nat \ {0}
  /\ BitsPerFpmPage \in Nat /\ BitsPerFpmPage >= PageSize
ASSUME AppendErrorsAssumption == AppendErrors \in BOOLEAN

VARIABLES
  file,       \* the pages on disk
  stage,      \* what the editor is doing; "closed" if there is none
  activeFpm,  \* Msf::active_fpm
  sizes,      \* Msf::stream_sizes, in pages
  committed,  \* Msf::committed_stream_pages, cut by committed_stream_page_starts
  modified,   \* Msf::modified_streams
  dirPages,   \* dir_pages of write_new_stream_dir, as far as it got
  mapPages,   \* map_pages of write_new_stream_dir, as far as it got
  interval    \* interval_index of write_fpm

streamVars == <<sizes, committed, modified>>
commitVars == <<dirPages, mapPages, interval>>
vars == <<allocVars, file, stage, activeFpm, streamVars, commitVars>>

(* The pages of the model's disk: write_fpm may write past num_pages, to    *)
(* the FPM pages of an interval of which only the first page is in use.     *)
DiskPages == 0 .. (MaxPages + 2)

NumStreams == Cardinality(DOMAIN sizes)

StreamPages(s) == IF s \in DOMAIN modified THEN modified[s] ELSE committed[s]

PageCount(s) == IF sizes[s] = Nil THEN 0 ELSE sizes[s]

(* What a reader gets from a page of stream data.                          *)
ContentOf(p) == IF "data" \in DOMAIN file[p] THEN file[p].data ELSE Blank

-----------------------------------------------------------------------------
(***************************************************************************)
(* Reading the file.  new_with_access_mode reads the header (page 0), the  *)
(* map pages it names, the directory pages those name, and the directory.  *)
(***************************************************************************)
HasHeader == "header" \in DOMAIN file[0]

Header == file[0].header

DiskMapPages == Range(Header.map)

DiskDirPage(k) ==
  file[Header.map[((k - 1) \div EntriesPerPage) + 1]].map
      [((k - 1) % EntriesPerPage) + 1]

DiskDirPages == {DiskDirPage(k) : k \in 1 .. Header.dirLen}

DiskDirectory == file[DiskDirPage(1)].dir

DiskStreamPages ==
  UNION {Range(DiskDirectory[s]) :
           s \in {t \in DOMAIN DiskDirectory : DiskDirectory[t] # Nil}}

(* Every page that holds a part of the directory is where the map says.    *)
DirectoryReadable ==
  /\ \A j \in DOMAIN Header.map : "map" \in DOMAIN file[Header.map[j]]
  /\ \A k \in 1 .. Header.dirLen :
       /\ "dir" \in DOMAIN file[DiskDirPage(k)]
       /\ file[DiskDirPage(k)].dir = DiskDirectory
       /\ file[DiskDirPage(k)].part = k

(* PageAllocator::new, then init_mark_stream_dir_page_busy for the pages of *)
(* the directory and its map, then mark_stream_pages_busy.                  *)
ComputedFree ==
  AllFree(Header.numPages) \ (DiskMapPages \cup DiskDirPages \cup DiskStreamPages)

(* read_fpm_big_msf: the FPM pages of the active FPM, put together.        *)
FpmOnDisk ==
  LET chunks == 0 .. (CeilDiv(Header.numPages, BitsPerFpmPage) - 1)
  IN  UNION {file[FpmPage(i, Header.activeFpm)].fpm
               \cap (0 .. (Header.numPages - 1)) : i \in chunks}

(* The checks that open for read-write makes of the pages it is given: in  *)
(* the file, not special, and none of them marked busy twice.              *)
PageNumbersValid ==
  LET ok(p) == p < Header.numPages /\ ~IsSpecialPage(p)
      D == DiskDirectory
      present == {s \in DOMAIN D : D[s] # Nil}
  IN  /\ \A p \in DiskMapPages \cup DiskDirPages \cup DiskStreamPages : ok(p)
      /\ IsInjective(Header.map)
      /\ \A j, k \in 1 .. Header.dirLen : DiskDirPage(j) = DiskDirPage(k) => j = k
      /\ DiskMapPages \cap DiskDirPages = {}
      /\ (DiskMapPages \cup DiskDirPages) \cap DiskStreamPages = {}
      /\ \A s, t \in present : \A i \in DOMAIN D[s], j \in DOMAIN D[t] :
           D[s][i] = D[t][j] => s = t /\ i = j

OpenSucceeds ==
  /\ HasHeader
  /\ DirectoryReadable
  /\ PageNumbersValid
  /\ FpmOnDisk = ComputedFree

(* The contents of the streams, as read from disk and as the editor has it.*)
DiskContents ==
  [s \in DOMAIN DiskDirectory |->
     IF DiskDirectory[s] = Nil THEN Nil
     ELSE [i \in DOMAIN DiskDirectory[s] |-> ContentOf(DiskDirectory[s][i])]]

Contents ==
  [s \in DOMAIN sizes |->
     IF sizes[s] = Nil THEN Nil
     ELSE [i \in 1 .. sizes[s] |-> ContentOf(StreamPages(s)[i])]]

(* The pages the last commit made reachable: all a reader of the file uses.*)
Reachable ==
  {0} \cup {FpmPage(i, Header.activeFpm) :
              i \in 0 .. (CeilDiv(Header.numPages, BitsPerFpmPage) - 1)}
      \cup DiskMapPages \cup DiskDirPages \cup DiskStreamPages

-----------------------------------------------------------------------------
(***************************************************************************)
(* create_for: three pages, none free; stream 0 has size 0 and the fixed   *)
(* streams are added by nil_stream.  Nothing is written.                   *)
(***************************************************************************)
NewSizes == [s \in 0 .. FixedStreams |-> IF s = 0 THEN 0 ELSE Nil]

Init ==
  /\ free = {} /\ freed = {} /\ fresh = {} /\ hint = 0 /\ numPages = 3
  /\ activeFpm = 2
  /\ sizes = NewSizes
  /\ committed = [s \in {0} |-> <<>>]
  /\ modified = [s \in 1 .. FixedStreams |-> <<>>]
  /\ stage = "idle"
  /\ dirPages = <<>> /\ mapPages = <<>> /\ interval = 0
  /\ file = [p \in DiskPages |-> [data |-> Blank]]

(* An editor of a new MSF, on whatever the file holds.                     *)
NewEditor ==
  /\ sizes' = NewSizes
  /\ committed' = [s \in {0} |-> <<>>]
  /\ modified' = [s \in 1 .. FixedStreams |-> <<>>]
  /\ stage' = "idle"
  /\ UNCHANGED <<allocVars, file, activeFpm, commitVars>>

(* Msf::create, on a file to which no MSF was committed.                   *)
Create == stage = "closed" /\ ~HasHeader /\ NewEditor

(***************************************************************************)
(* modify: opens the committed file for read-write.  Any check that fails  *)
(* is an Err, and nothing is opened.                                       *)
(***************************************************************************)
Reopen ==
  /\ stage = "closed" /\ OpenSucceeds
  /\ LET D == DiskDirectory
     IN  /\ sizes' = [s \in DOMAIN D |-> IF D[s] = Nil THEN Nil ELSE Len(D[s])]
         /\ committed' = [s \in DOMAIN D |-> IF D[s] = Nil THEN <<>> ELSE D[s]]
  /\ modified' = <<>>
  /\ activeFpm' = Header.activeFpm
  /\ numPages' = Header.numPages
  /\ free' = ComputedFree
  /\ freed' = DiskMapPages \cup DiskDirPages
  /\ fresh' = {} /\ hint' = 0
  /\ stage' = "idle"
  /\ UNCHANGED <<file, commitVars>>

(* The process ends, by a crash, a panic or by dropping the Msf: memory is  *)
(* lost (the variables take the values create_for gives them), the disk is  *)
(* not.                                                                     *)
Crash ==
  /\ stage # "closed"
  /\ stage' = "closed"
  /\ free' = {} /\ freed' = {} /\ fresh' = {} /\ hint' = 0 /\ numPages' = 3
  /\ activeFpm' = 2
  /\ sizes' = <<>> /\ committed' = <<>> /\ modified' = <<>>
  /\ dirPages' = <<>> /\ mapPages' = <<>> /\ interval' = 0
  /\ UNCHANGED file

-----------------------------------------------------------------------------
(***************************************************************************)
(* Editing.  new_stream and nil_stream add a stream at the end of the      *)
(* table, up to max_streams.                                               *)
(***************************************************************************)
AddStream(size) ==
  /\ stage = "idle"
  /\ NumStreams < MaxStreams
  /\ LET s == NumStreams
     IN  /\ sizes' = [t \in 0 .. s |-> IF t = s THEN size ELSE sizes[t]]
         /\ modified' = [t \in DOMAIN modified \cup {s} |->
                           IF t = s THEN <<>> ELSE modified[t]]
  /\ UNCHANGED <<allocVars, file, stage, activeFpm, committed, commitVars>>

NewStream == AddStream(0)

NilStream == AddStream(Nil)

(***************************************************************************)
(* write_stream(s): adds nil streams until s is in range, makes a nil      *)
(* stream an empty one, and on the first use since the commit copies the   *)
(* stream's page list, so that its pages can be replaced one by one.       *)
(***************************************************************************)
WriteStream(s) ==
  LET last == IF s < NumStreams THEN NumStreams - 1 ELSE s
      added == NumStreams .. last
  IN  /\ stage = "idle"
      /\ s \in 1 .. (MaxStreams - 1)
      /\ sizes' = [t \in 0 .. last |->
                     CASE t = s /\ (t \in added \/ sizes[t] = Nil) -> 0
                       [] t # s /\ t \in added -> Nil
                       [] OTHER -> sizes[t]]
      /\ modified' = [t \in DOMAIN modified \cup added \cup {s} |->
                        CASE t \in DOMAIN modified -> modified[t]
                          [] t \in added -> <<>>
                          [] OTHER -> committed[t]]
      /\ UNCHANGED <<allocVars, file, stage, activeFpm, committed, commitVars>>

(* A StreamWriter exists for a stream that write_stream or new_stream gave. *)
Writable(s) == stage = "idle" /\ s \in DOMAIN modified /\ sizes[s] # Nil

(* A slip: a page is written in place without asking whether it is fresh.  *)
OverwriteAnyPage(s, i, d) ==
  /\ Writable(s) /\ i \in 1 .. sizes[s] /\ i <= Len(modified[s])
  /\ file' = [file EXCEPT ![modified[s][i]] = [data |-> d]]
  /\ UNCHANGED <<allocVars, stage, activeFpm, streamVars, commitVars>>

(***************************************************************************)
(* cow_page_and_write on page i of stream s: in place if the page is       *)
(* fresh, else on a new page, the old one being marked freed.  If the      *)
(* write fails the stream's contents are undefined, and its pages are      *)
(* those of a write that succeeded.                                        *)
(***************************************************************************)
OverwriteFreshPage(s, i, d) ==
  /\ Writable(s) /\ i \in 1 .. sizes[s] /\ i <= Len(modified[s])
  /\ modified[s][i] \in fresh
  /\ file' = [file EXCEPT ![modified[s][i]] = [data |-> d]]
  /\ UNCHANGED <<allocVars, stage, activeFpm, streamVars, commitVars>>

CowPage(s, i, d, written) ==
  /\ Writable(s) /\ i \in 1 .. sizes[s] /\ i <= Len(modified[s])
  /\ modified[s][i] \notin fresh
  /\ \E p \in DiskPages :
       /\ ReplacePage(modified[s][i], p)
       /\ modified' = [modified EXCEPT ![s][i] = p]
       /\ file' = IF written THEN [file EXCEPT ![p] = [data |-> d]] ELSE file
  /\ UNCHANGED <<stage, activeFpm, sizes, committed, commitVars>>

(***************************************************************************)
(* A run of pages is allocated and added to the end of the stream.         *)
(* Zero-extension and the last page of a write count it in the stream's    *)
(* size and then write it; write_append_complete_pages writes it first,    *)
(* and returns the error of a failed write before the size is updated.     *)
(***************************************************************************)
AppendRun(s, n, d, counted, written) ==
  /\ Writable(s)
  /\ Len(modified[s]) + n <= MaxStreamPages
  /\ \E p, k \in DiskPages :
       /\ AllocPages(n, p, k)
       /\ modified' = [modified EXCEPT ![s] = @ \o [i \in 1 .. k |-> p + i - 1]]
       /\ sizes' = IF counted THEN [sizes EXCEPT ![s] = @ + k] ELSE sizes
       /\ file' = [q \in DiskPages |->
                     IF written /\ q \in Pages(p, k) THEN [data |-> d] ELSE file[q]]
  /\ UNCHANGED <<freed, stage, activeFpm, committed, commitVars>>

AppendPages(s, n, d, written) == AppendRun(s, n, d, TRUE, written)

AppendFails(s, n) == AppendErrors /\ AppendRun(s, n, Blank, FALSE, FALSE)

(* set_len to a smaller size: the pages beyond it are marked freed.        *)
Truncate(s, n) ==
  /\ Writable(s) /\ n \in 0 .. (sizes[s] - 1) /\ sizes[s] <= Len(modified[s])
  /\ freed' = freed \cup {modified[s][i] : i \in (n + 1) .. sizes[s]}
  /\ modified' = [modified EXCEPT ![s] = SubSeq(@, 1, n)]
  /\ sizes' = [sizes EXCEPT ![s] = n]
  /\ UNCHANGED <<free, fresh, hint, numPages, file, stage, activeFpm,
                 committed, commitVars>>

-----------------------------------------------------------------------------
(* A slip: the directory of the last commit is used for old streams.       *)
StaleDirectory ==
  [s \in DOMAIN sizes |->
     CASE sizes[s] = Nil -> Nil
       [] sizes[s] # Nil /\ s \in DOMAIN committed -> committed[s]
       [] OTHER -> <<>>]

(***************************************************************************)
(* Committing.  build_new_stream_dir: the page list of every stream; its   *)
(* length counts the number of streams, their sizes and their pages.       *)
(***************************************************************************)
Directory ==
  [s \in DOMAIN sizes |-> IF sizes[s] = Nil THEN Nil ELSE StreamPages(s)]

NumDirPages ==
  CeilDiv(1 + NumStreams + MapThenSumSet(PageCount, DOMAIN sizes), EntriesPerPage)

NumMapPages == CeilDiv(Len(dirPages), EntriesPerPage)

(* build_new_stream_dir asserts this of every stream; if it fails the       *)
(* program panics, which is a Crash.                                        *)
SizesMatchPages ==
  \A s \in DOMAIN sizes : sizes[s] # Nil => Len(StreamPages(s)) = sizes[s]

(* commit with nothing modified returns Ok(false): it takes no step here.  *)
BeginCommit ==
  /\ stage = "idle" /\ DOMAIN modified # {} /\ SizesMatchPages
  /\ stage' = "dir"
  /\ UNCHANGED <<allocVars, file, activeFpm, streamVars, commitVars>>

WriteDirPage ==
  /\ stage = "dir"
  /\ \E p \in DiskPages :
       /\ AllocPages(1, p, 1)
       /\ file' = [file EXCEPT ![p] = [dir |-> Directory,
                                       part |-> Len(dirPages) + 1]]
       /\ dirPages' = Append(dirPages, p)
  /\ stage' = IF Len(dirPages) + 1 < NumDirPages THEN "dir" ELSE "map"
  /\ UNCHANGED <<freed, activeFpm, streamVars, mapPages, interval>>

(* A slip: the parts of the map overlap by one entry.                      *)
MapChunkOverlaps(j) ==
  LET first == (j - 1) * (EntriesPerPage - 1) + 1
      last == first + EntriesPerPage - 1
  IN  SubSeq(dirPages, first, IF last < Len(dirPages) THEN last ELSE Len(dirPages))

(* The entries of the directory map that go to its j-th page.              *)
MapChunk(j) ==
  LET last == IF j * EntriesPerPage < Len(dirPages)
                THEN j * EntriesPerPage ELSE Len(dirPages)
  IN  SubSeq(dirPages, (j - 1) * EntriesPerPage + 1, last)

WriteMapPage ==
  /\ stage = "map"
  /\ \E p \in DiskPages :
       /\ AllocPages(1, p, 1)
       /\ file' = [file EXCEPT ![p] = [map |-> MapChunk(Len(mapPages) + 1)]]
       /\ mapPages' = Append(mapPages, p)
  /\ stage' = IF Len(mapPages) + 1 < NumMapPages THEN "map" ELSE "merge"
  /\ UNCHANGED <<freed, activeFpm, streamVars, dirPages, interval>>

MergeFreed ==
  /\ stage = "merge"
  /\ MergeFreedIntoFree
  /\ stage' = "fpm"
  /\ UNCHANGED <<fresh, hint, numPages, file, activeFpm, streamVars, commitVars>>

(* Slips: the FPM is written in place; it does not alternate.              *)
SameFpm == activeFpm

NextFpm == activeFpm + 1

NewFpm == 3 - activeFpm

(* A slip: the loop does not advance.                                      *)
WriteFpmForever ==
  /\ stage = "fpm" /\ interval < CeilDiv(numPages, PageSize)
  /\ file' = [file EXCEPT ![FpmPage(interval, NewFpm)] =
                [fpm |-> {p \in free : p \div BitsPerFpmPage = interval}]]
  /\ UNCHANGED <<allocVars, stage, activeFpm, streamVars, commitVars>>

(* One turn of the loop of write_fpm.  The bits past the end are all ones, *)
(* which open does not look at.                                            *)
WriteFpmPage ==
  /\ stage = "fpm"
  /\ file' = [file EXCEPT ![FpmPage(interval, NewFpm)] =
                [fpm |-> {p \in free : p \div BitsPerFpmPage = interval}]]
  /\ interval' = interval + 1
  /\ stage' = IF interval + 1 < CeilDiv(numPages, PageSize) THEN "fpm" ELSE "header"
  /\ UNCHANGED <<allocVars, activeFpm, streamVars, dirPages, mapPages>>

(* Slips: only the pages of the directory proper are given up at the next  *)
(* commit; the search for free pages goes on where it was.                 *)
DirPagesOnly == Range(dirPages)

HintKept == hint

(* The pages this commit has put the directory and its map on.             *)
CommitPages == Range(dirPages) \cup Range(mapPages)

(* The search for free pages starts over, behind the header and the FPMs.  *)
HintAfterCommit == 3

(***************************************************************************)
(* The write of page 0, which is the commit, and the clean-up of memory    *)
(* that follows it and cannot fail.                                        *)
(***************************************************************************)
WriteHeader ==
  /\ stage = "header"
  /\ file' = [file EXCEPT ![0] =
                [header |-> [activeFpm |-> NewFpm, numPages |-> numPages,
                             map |-> mapPages, dirLen |-> Len(dirPages)]]]
  /\ committed' = [s \in DOMAIN sizes |->
                     IF sizes[s] = Nil THEN <<>> ELSE StreamPages(s)]
  /\ freed' = freed \cup CommitPages
  /\ modified' = <<>>
  /\ fresh' = {} /\ hint' = HintAfterCommit
  /\ activeFpm' = NewFpm
  /\ stage' = "idle"
  /\ dirPages' = <<>> /\ mapPages' = <<>> /\ interval' = 0
  /\ UNCHANGED <<free, numPages, sizes>>

CommitStages == {"dir", "map", "merge", "fpm", "header"}

(* A write of the commit fails: commit returns Err, after which the state  *)
(* of the editor is not guaranteed, and the caller gives it up.            *)
CommitFails ==
  /\ stage \in CommitStages \ {"merge"}
  /\ stage' = "failed"
  /\ UNCHANGED <<allocVars, file, activeFpm, streamVars, commitVars>>

-----------------------------------------------------------------------------
Next ==
  \/ Create
  \/ Reopen
  \/ Crash
  \/ NewStream
  \/ NilStream
  \/ \E s \in 1 .. (MaxStreams - 1) : WriteStream(s)
  \/ \E s \in DOMAIN modified, i \in 1 .. MaxStreamPages, d \in Data :
       OverwriteFreshPage(s, i, d)
  \/ \E s \in DOMAIN modified, i \in 1 .. MaxStreamPages, d \in Data,
        written \in BOOLEAN : CowPage(s, i, d, written)
  \/ \E s \in DOMAIN modified, n \in 1 .. MaxStreamPages, d \in Data,
        written \in BOOLEAN : AppendPages(s, n, d, written)
  \/ \E s \in DOMAIN modified, n \in 1 .. MaxStreamPages : AppendFails(s, n)
  \/ \E s \in DOMAIN modified, n \in 0 .. (MaxStreamPages - 1) : Truncate(s, n)
  \/ BeginCommit
  \/ WriteDirPage
  \/ WriteMapPage
  \/ MergeFreed
  \/ WriteFpmPage
  \/ WriteHeader
  \/ CommitFails

Spec == Init /\ [][Next]_vars

(* commit runs from its first write to its last, unless one of them fails  *)
(* or the process dies.                                                    *)
CommitStep ==
  WriteDirPage \/ WriteMapPage \/ MergeFreed \/ WriteFpmPage \/ WriteHeader

FairSpec == Spec /\ WF_vars(CommitStep)

-----------------------------------------------------------------------------
(***************************************************************************)
(* Properties.                                                             *)
(***************************************************************************)
Stages == {"closed", "idle", "failed"} \cup CommitStages

(* A table of page lists for the streams 0 .. n - 1.                       *)
IsTable(T, n) == T \in [0 .. (n - 1) -> {Nil} \cup Seq(DiskPages)]

Headers == [activeFpm : {1, 2}, numPages : 3 .. MaxPages,
            map : Seq(DiskPages), dirLen : Nat]

TypeOK ==
  /\ free \subseteq DiskPages /\ freed \subseteq DiskPages /\ fresh \subseteq DiskPages
  /\ numPages \in 3 .. MaxPages /\ hint \in 0 .. MaxPages
  /\ stage \in Stages
  /\ activeFpm \in {1, 2}
  /\ \E n \in 0 .. MaxStreams : DOMAIN sizes = 0 .. (n - 1)
  /\ DOMAIN sizes = DOMAIN committed \cup DOMAIN modified
  /\ \A s \in DOMAIN sizes : sizes[s] \in Nat \cup {Nil}
  /\ \A s \in DOMAIN committed : committed[s] \in Seq(DiskPages)
  /\ \A s \in DOMAIN modified : modified[s] \in Seq(DiskPages)
  /\ dirPages \in Seq(DiskPages) /\ mapPages \in Seq(DiskPages)
  /\ interval \in Nat
  /\ DOMAIN file = DiskPages
  /\ HasHeader => Header \in Headers
  /\ \A p \in DiskPages :
       "dir" \in DOMAIN file[p] => \E n \in 0 .. MaxStreams : IsTable(file[p].dir, n)

(* The places of the stream table a page number may stand at.              *)
Slots == UNION {{s} \X (1 .. Len(StreamPages(s))) : s \in DOMAIN sizes}

PageAt(slot) == StreamPages(slot[1])[slot[2]]

UsedPages == {PageAt(slot) : slot \in Slots}

(***************************************************************************)
(* Crash recovery (commit.rs, the comment on Msf::commit): whenever the    *)
(* process dies, and between whichever two writes of whatever operation,   *)
(* the file opens for read-write once it has been committed: directory,    *)
(* map and page numbers are valid and the FPM computed from the directory  *)
(* is the one on disk.                                                     *)
(***************************************************************************)
ReopenSucceeds == HasHeader => OpenSucceeds

(***************************************************************************)
(* Until the header is rewritten, no step writes to a page that the header *)
(* on disk reaches: not the directory, its map, the active FPM nor the     *)
(* pages of a committed stream.                                            *)
(***************************************************************************)
CommittedUntouched ==
  [][HasHeader /\ file'[0] = file[0] =>
       \A p \in Reachable : file'[p] = file[p]]_vars

(***************************************************************************)
(* A page belongs to one place of one stream, and while it does it is      *)
(* neither free nor freed, special nor a page of the directory in the      *)
(* making (pages.rs, the state table; check.rs).                           *)
(***************************************************************************)
PagesOwnedOnce ==
  /\ \A a, b \in Slots : PageAt(a) = PageAt(b) => a = b
  /\ \A p \in UsedPages \cup CommitPages :
       p < numPages /\ ~IsSpecialPage(p) /\ p \notin free \cup freed
  /\ UsedPages \cap CommitPages = {}

(***************************************************************************)
(* No page leaks: one that is neither free nor freed is special or used.   *)
(* It is what makes the FPM written by commit the FPM that open computes.  *)
(***************************************************************************)
NoPageLost ==
  stage # "closed" =>
    \A p \in 0 .. (numPages - 1) :
      p \in free \cup freed \cup UsedPages \cup CommitPages \/ IsSpecialPage(p)

(***************************************************************************)
(* With nothing modified, the memory of an editor that committed is the    *)
(* memory of one that has just opened the file (commit.rs, the clean-up    *)
(* after the commit, against open.rs).                                     *)
(***************************************************************************)
MemoryMatchesDisk ==
  stage = "idle" /\ DOMAIN modified = {} =>
    /\ HasHeader
    /\ Directory = DiskDirectory
    /\ activeFpm = Header.activeFpm
    /\ numPages = Header.numPages
    /\ free = ComputedFree
    /\ freed = DiskMapPages \cup DiskDirPages
    /\ fresh = {}

(***************************************************************************)
(* The file grows only when no page of it is free: the hint of the         *)
(* allocator never passes a free page (pages.rs, next_free_page_hint).     *)
(***************************************************************************)
GrowsOnlyWhenFull ==
  [][stage # "closed" /\ numPages' > numPages => free = {}]_vars

(***************************************************************************)
(* The loops of a commit end, whatever the number of pages that they       *)
(* allocate for the directory and write for the FPM (commit.rs).           *)
(***************************************************************************)
CommitEnds == []<>(stage \notin CommitStages)

(***************************************************************************)
(* The container implements AtomicStore: what is on disk changes only when *)
(* the header is written, to what the editor showed before, and an edit    *)
(* changes the contents of the edited stream and of no other.              *)
(***************************************************************************)
Store ==
  INSTANCE AtomicStore WITH
    NoStore <- NoHeader,
    NewStore <- [s \in 0 .. FixedStreams |-> IF s = 0 THEN <<>> ELSE Nil],
    stable <- IF HasHeader THEN DiskContents ELSE NoHeader,
    working <- IF stage # "closed" THEN Contents
               ELSE IF HasHeader THEN DiskContents ELSE NoHeader

ImplementsStore == Store!Spec
=============================================================================

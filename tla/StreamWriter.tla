---------------------------- MODULE StreamWriter ----------------------------
(***************************************************************************)
(* Writing to one stream of an MSF, byte by byte (msf/src/write.rs,        *)
(* stream_writer.rs, and read.rs for reading it back).                     *)
(*                                                                         *)
(* `write_core` walks from the end of the stream, or from the position of  *)
(* the write, to the end of the data; each of the functions it calls, and  *)
(* each turn of their loops, is an action.  `phase` is the function about  *)
(* to run: which one is a matter of how size, pos and the remaining data   *)
(* lie with respect to each other and to the page boundaries (Route).      *)
(*                                                                         *)
(* The allocator is the one of Msf; errors of the underlying file and what *)
(* the commit makes of the pages are Msf's subject.  A StreamWriter of a   *)
(* nil stream does not exist: write_stream makes the stream an empty one.  *)
(***************************************************************************)
EXTENDS PageAllocator, SequencesExt

CONSTANTS
  Layouts,      \* initial states: the stream's bytes and pages, the free pages
  Zero,         \* the byte that fills gaps
  Stale,        \* a byte nobody wrote
  MaxLen,       \* bound of the model: the largest stream, in bytes
  MaxCalls,     \* bound of the model: calls of a behaviour
  GrowthCalls,  \* the <<old, new>> sizes with which set_len is asked to grow
  ShortWrites   \* whether write_at may write less than it is given

ASSUME WriterAssumption ==
  /\ MaxLen \in Nat /\ MaxCalls \in Nat
  /\ GrowthCalls \subseteq {g \in (0 .. MaxLen) \X (0 .. MaxLen) : g[1] < g[2]}
  /\ ShortWrites \in BOOLEAN
  /\ Zero # Stale

VARIABLES
  file,     \* the pages of the file
  size,     \* StreamWriter::size
  pages,    \* StreamWriter::pages
  buf,      \* the data still to write
  pos,      \* where it goes; the new length in set_len
  done,     \* pages make_pages_fresh is through with
  phase,    \* the function about to run, "idle" between calls
  before,   \* the contents of the stream when the call was made
  request,  \* the call: what is written where, or the length to be set
  calls     \* how many calls were made

callVars == <<before, request, calls>>
vars == <<allocVars, file, size, pages, buf, pos, done, phase, callVars>>

Lesser(a, b) == IF a < b THEN a ELSE b
Greater(a, b) == IF a > b THEN a ELSE b

Zeros(n) == [i \in 1 .. n |-> Zero]

Drop(s, n) == SubSeq(s, n + 1, Len(s))

(* A slip: what was on the page from there on is moved and not replaced.   *)
InsertInto(page, n, s) == SubSeq(page, 1, n) \o s \o Drop(page, n)

(* `page` with s copied over it, n bytes into it.                          *)
CopyInto(page, n, s) ==
  [i \in 1 .. PageSize |->
     IF i > n /\ i <= n + Len(s) THEN s[i - n] ELSE page[i]]

(* A slip: what is behind the first n bytes stays.                         *)
PrefixAndTail(page, n) == page

(* The first n bytes of `page`, and zeroes.                                *)
Prefix(page, n) == [i \in 1 .. PageSize |-> IF i <= n THEN page[i] ELSE Zero]

(* The index in `pages` of the page that holds the byte at offset o.       *)
Slot(o) == o \div PageSize + 1

PageCount(n) == CeilDiv(n, PageSize)

Contents ==
  [i \in 1 .. size |->
     IF Slot(i - 1) \in DOMAIN pages
       THEN file[pages[Slot(i - 1)]][Phase(i - 1) + 1] ELSE Stale]

(***************************************************************************)
(* What write_stream finds: a stream with the pages its size calls for, of *)
(* which no two are the same and none is free or special.                  *)
(***************************************************************************)
ConsistentLayout(l) ==
  /\ Len(l.bytes) \in 0 .. MaxLen
  /\ l.bytes = [i \in 1 .. Len(l.bytes) |-> l.bytes[i]]
  /\ l.numPages \in 3 .. MaxPages
  /\ l.free \subseteq {p \in 0 .. (l.numPages - 1) : ~IsSpecialPage(p)}
  /\ l.pages \in Seq({p \in 0 .. (l.numPages - 1) : ~IsSpecialPage(p)} \ l.free)
  /\ Len(l.pages) = PageCount(Len(l.bytes))
  /\ \A i, j \in DOMAIN l.pages : l.pages[i] = l.pages[j] => i = j

ASSUME LayoutsAssumption == \A l \in Layouts : ConsistentLayout(l)

Init ==
  \E l \in Layouts :
    /\ pages = l.pages /\ free = l.free /\ numPages = l.numPages
    /\ size = Len(l.bytes)
    /\ freed = {} /\ fresh = {} /\ hint = 0
    /\ file = [p \in 0 .. (MaxPages - 1) |->
                 [j \in 1 .. PageSize |->
                    IF \E i \in DOMAIN l.bytes :
                         l.pages[Slot(i - 1)] = p /\ Phase(i - 1) + 1 = j
                      THEN l.bytes[CHOOSE i \in DOMAIN l.bytes :
                             l.pages[Slot(i - 1)] = p /\ Phase(i - 1) + 1 = j]
                      ELSE Stale]]
    /\ buf = <<>> /\ pos = 0 /\ done = 0 /\ phase = "idle"
    /\ before = l.bytes /\ request = [op |-> "none"] /\ calls = 0

-----------------------------------------------------------------------------
(***************************************************************************)
(* Where write_core goes next, given the stream's size s and the remaining *)
(* data b, to be written at p.                                             *)
(***************************************************************************)
Route(s, p, b) ==
  CASE b = <<>> -> "idle"
    [] b # <<>> /\ s < p /\ Phase(s) # 0 -> "zx_start"
    [] b # <<>> /\ s < p /\ Phase(s) = 0 /\ p - s >= PageSize -> "zx_pages"
    [] b # <<>> /\ s < p /\ Phase(s) = 0 /\ p - s < PageSize -> "zx_end"
    [] b # <<>> /\ p < s /\ Phase(p) # 0 -> "ow_start"
    [] b # <<>> /\ p < s /\ Phase(p) = 0 /\ Len(b) >= PageSize -> "ow_fresh"
    [] b # <<>> /\ p < s /\ Phase(p) = 0 /\ Len(b) < PageSize -> "ow_tail"
    [] b # <<>> /\ p = s /\ Phase(p) # 0 -> "ap_start"
    [] b # <<>> /\ p = s /\ Phase(p) = 0 /\ Len(b) >= PageSize -> "ap_pages"
    [] b # <<>> /\ p = s /\ Phase(p) = 0 /\ Len(b) < PageSize -> "ap_final"

(* The function returns with the stream of size s, and data b for p left.  *)
Return(s, p, b) ==
  /\ size' = s /\ pos' = p /\ buf' = b
  /\ phase' = Route(s, p, b)
  /\ UNCHANGED <<done, callVars>>

(* How much of len bytes write_at writes; its result is not looked at.     *)
Written(len) == IF ShortWrites THEN 1 .. len ELSE {len}

(* The first n bytes of `data` are written, from the start of page `first`.*)
WriteRun(first, data, n) ==
  file' = [q \in DOMAIN file |->
             [j \in 1 .. PageSize |->
                LET o == (q - first) * PageSize + j
                IN  IF o \in 1 .. n THEN data[o] ELSE file[q][j]]]

(* cow_page_and_write                                                      *)
CowAndWrite(slot, page) ==
  \/ /\ pages[slot] \in fresh
     /\ file' = [file EXCEPT ![pages[slot]] = page]
     /\ UNCHANGED <<allocVars, pages>>
  \/ /\ pages[slot] \notin fresh
     /\ \E p \in DOMAIN file :
          /\ ReplacePage(pages[slot], p)
          /\ pages' = [pages EXCEPT ![slot] = p]
          /\ file' = [file EXCEPT ![p] = page]

AddPages(n, p, k) ==
  /\ AllocPages(n, p, k)
  /\ pages' = pages \o [i \in 1 .. k |-> p + i - 1]
  /\ UNCHANGED freed

-----------------------------------------------------------------------------
(***************************************************************************)
(* Calls.  write(data, o): the data of the n-th call are <<n, 1>>, <<n, 2>>*)
(* and so on, so that no two bytes of a behaviour are the same.            *)
(***************************************************************************)
DataOf(n) == [i \in 1 .. n |-> <<calls + 1, i>>]

Calling(r) ==
  /\ phase = "idle" /\ calls < MaxCalls
  /\ calls' = calls + 1
  /\ before' = Contents
  /\ request' = r

Write(o, n) ==
  /\ Calling([op |-> "write", at |-> o, data |-> DataOf(n)])
  /\ pos' = o /\ buf' = DataOf(n)
  /\ phase' = Route(size, o, DataOf(n))
  /\ UNCHANGED <<allocVars, file, size, pages, done>>

(* set_len(n) with n < size: the pages beyond n are marked freed.          *)
Shrink(n) ==
  /\ n < size
  /\ freed' = freed \cup {pages[i] : i \in (PageCount(n) + 1) .. PageCount(size)}
  /\ pages' = SubSeq(pages, 1, PageCount(n))
  /\ size' = n
  /\ UNCHANGED <<free, fresh, hint, numPages>>

Truncate(n) ==
  /\ Calling([op |-> "set_len", len |-> n])
  /\ Shrink(n)
  /\ UNCHANGED <<file, buf, pos, done, phase>>

(* set_contents(data): truncates, writes; the set_len at its end finds the  *)
(* stream to be of the right size.                                         *)
SetContents(n) ==
  /\ Calling([op |-> "set_contents", data |-> DataOf(n)])
  /\ \/ Shrink(n)
     \/ size <= n /\ UNCHANGED <<allocVars, pages, size>>
  /\ pos' = 0 /\ buf' = DataOf(n)
  /\ phase' = Route(size', 0, DataOf(n))
  /\ UNCHANGED <<file, done>>

(* set_len(n) with n > size: `pos` is the variable len of the code.        *)
Extend(n) ==
  /\ <<size, n>> \in GrowthCalls
  /\ Calling([op |-> "set_len", len |-> n])
  /\ pos' = n
  /\ phase' = IF Phase(size) # 0 THEN "sl_partial" ELSE "sl_pages"
  /\ UNCHANGED <<allocVars, file, size, pages, buf, done>>

-----------------------------------------------------------------------------
(* write_zero_extend_unaligned_start                                       *)
ZeroExtendStart ==
  LET end == Phase(size)
      old == Prefix(file[pages[Slot(size)]], end)
      n == Lesser(PageSize - Phase(pos), Len(buf))
      head == SubSeq(buf, 1, n)
  IN  /\ phase = "zx_start"
      /\ \/ /\ Slot(size) = Slot(pos)
            /\ CowAndWrite(Slot(size), CopyInto(old, Phase(pos), head))
            /\ Return(pos + n, pos + n, Drop(buf, n))
         \/ /\ Slot(size) # Slot(pos)
            /\ CowAndWrite(Slot(size), old)
            /\ Return(size + PageSize - end, pos, buf)

(* A turn of the loop of write_zero_extend_whole_pages.  A short write can  *)
(* hit any page; here it hits the last one of the run.                     *)
ZeroExtendPages ==
  /\ phase = "zx_pages"
  /\ \E p, k \in DOMAIN file :
       /\ AddPages((pos - size) \div PageSize, p, k)
       /\ \E n \in Written(PageSize) :
            WriteRun(p, Zeros(k * PageSize), (k - 1) * PageSize + n)
       /\ Return(size + k * PageSize, pos, buf)

(* write_zero_extend_unaligned_end                                         *)
ZeroExtendEnd ==
  LET zeros == pos - size
      n == Lesser(Len(buf), PageSize - zeros)
      page == CopyInto(Zeros(PageSize), zeros, SubSeq(buf, 1, n))
  IN  /\ phase = "zx_end"
      /\ \E p \in DOMAIN file :
           /\ AddPages(1, p, 1)
           /\ \E w \in Written(PageSize) : WriteRun(p, page, w)
      /\ Return(size + zeros + n, pos + n, Drop(buf, n))

(* write_overwrite_unaligned_start                                         *)
OverwriteStart ==
  LET n == Lesser(PageSize - Phase(pos), Len(buf))
      old == file[pages[Slot(pos)]]
  IN  /\ phase = "ow_start"
      /\ CowAndWrite(Slot(pos), CopyInto(old, Phase(pos), SubSeq(buf, 1, n)))
      /\ Return(Greater(size, pos + n), pos + n, Drop(buf, n))

(* A slip: the page the write starts on is not counted.                    *)
PagesAfterThis == Lesser(PageCount(size) - Slot(pos), Len(buf) \div PageSize)

(* num_xfer_pages of write_overwrite_aligned_pages: pages both owned by the*)
(* stream and covered by the data.                                         *)
PagesToOverwrite ==
  Lesser(PageCount(size) - pos \div PageSize, Len(buf) \div PageSize)

(* A turn of the loop of make_pages_fresh.                                 *)
MakePageFresh ==
  LET slot == Slot(pos) + done
  IN  /\ phase = "ow_fresh"
      /\ \/ pages[slot] \in fresh /\ UNCHANGED <<allocVars, pages>>
         \/ /\ pages[slot] \notin fresh
            /\ \E p \in DOMAIN file :
                 /\ ReplacePage(pages[slot], p)
                 /\ pages' = [pages EXCEPT ![slot] = p]
      /\ IF done + 1 < PagesToOverwrite
           THEN done' = done + 1 /\ UNCHANGED phase
           ELSE done' = 0 /\ phase' = "ow_runs"
      /\ UNCHANGED <<file, size, buf, pos, callVars>>

(* find_longest_page_run on the pages from `slot` on.                      *)
LongestRun(slot) ==
  Max({k \in 1 .. (Len(pages) - slot + 1) :
         \A i \in 1 .. (k - 1) : pages[slot + i] = pages[slot] + i})

(* A turn of the loop of write_runs; the size is updated after the last.   *)
OverwriteRun ==
  LET k == Lesser(PagesToOverwrite, LongestRun(Slot(pos)))
      n == k * PageSize
  IN  /\ phase = "ow_runs"
      /\ \E w \in Written(n) : WriteRun(pages[Slot(pos)], SubSeq(buf, 1, n), w)
      /\ IF k < PagesToOverwrite
           THEN /\ pos' = pos + n /\ buf' = Drop(buf, n)
                /\ UNCHANGED <<size, phase, done, callVars>>
           ELSE Return(Greater(size, pos + n), pos + n, Drop(buf, n))
      /\ UNCHANGED <<allocVars, pages>>

(* write_overwrite_aligned_pages, the data that fill part of a page.       *)
OverwriteTail ==
  LET old == IF size - pos > Len(buf) THEN file[pages[Slot(pos)]]
             ELSE Zeros(PageSize)
  IN  /\ phase = "ow_tail"
      /\ CowAndWrite(Slot(pos), CopyInto(old, 0, buf))
      /\ Return(Greater(size, pos + Len(buf)), pos + Len(buf), <<>>)

(* write_unaligned_start_page                                              *)
AppendStart ==
  LET n == Lesser(PageSize - Phase(pos), Len(buf))
      old == file[pages[Slot(pos)]]
  IN  /\ phase = "ap_start"
      /\ CowAndWrite(Slot(pos), CopyInto(old, Phase(pos), SubSeq(buf, 1, n)))
      /\ Return(Greater(size, pos + n), pos + n, Drop(buf, n))

(* A turn of the loop of write_append_complete_pages.                      *)
AppendCompletePages ==
  /\ phase = "ap_pages"
  /\ \E p, k \in DOMAIN file :
       LET n == k * PageSize
       IN  /\ AddPages(Len(buf) \div PageSize, p, k)
           /\ WriteRun(p, buf, n)
           /\ Return(size + n, pos + n, Drop(buf, n))

(* write_append_final_unaligned_page                                       *)
AppendFinalPage ==
  /\ phase = "ap_final"
  /\ \E p \in DOMAIN file :
       /\ AddPages(1, p, 1)
       /\ WriteRun(p, CopyInto(Zeros(PageSize), 0, buf), PageSize)
  /\ Return(size + Len(buf), pos + Len(buf), <<>>)

-----------------------------------------------------------------------------
(* set_len, growing: the rest of the last page is filled with zeroes.      *)
ExtendPartialPage ==
  LET end == Phase(size)
      n == Lesser(PageSize - end, pos - size)
  IN  /\ phase = "sl_partial"
      /\ CowAndWrite(Slot(size), Prefix(file[pages[Slot(size)]], end))
      /\ size' = size + n
      /\ pos' = pos - n
      /\ phase' = IF pos - n = 0 THEN "idle" ELSE "sl_pages"
      /\ UNCHANGED <<buf, done, callVars>>

(* Then zero-filled pages are added, by one call of alloc_pages.  What is   *)
(* left of `len` may be less than the size by now: len - size wraps around, *)
(* or panics in a build with overflow checks.                              *)
ExtendPages ==
  LET wanted == IF size < pos THEN CeilDiv(pos - size, PageSize) ELSE MaxPages
  IN  /\ phase = "sl_pages" /\ Phase(size) = 0 /\ size # pos
      /\ \E p, k \in DOMAIN file :
           /\ AddPages(wanted, p, k)
           /\ WriteRun(p, Zeros(k * PageSize), k * PageSize)
      /\ size' = size + pos
      /\ phase' = "idle"
      /\ UNCHANGED <<buf, pos, done, callVars>>

(* The assertions on the size, and alloc_pages(0).                         *)
ExtendPanics ==
  /\ phase = "sl_pages"
  /\ Phase(size) # 0 \/ size >= pos
  /\ phase' = "panicked"
  /\ UNCHANGED <<allocVars, file, size, pages, buf, pos, done, callVars>>

-----------------------------------------------------------------------------
Next ==
  \/ \E o \in 0 .. MaxLen, n \in 1 .. MaxLen : o + n <= MaxLen /\ Write(o, n)
  \/ \E n \in 0 .. MaxLen : Truncate(n)
  \/ \E n \in 0 .. MaxLen : SetContents(n)
  \/ \E n \in 1 .. MaxLen : Extend(n)
  \/ ZeroExtendStart
  \/ ZeroExtendPages
  \/ ZeroExtendEnd
  \/ OverwriteStart
  \/ MakePageFresh
  \/ OverwriteRun
  \/ OverwriteTail
  \/ AppendStart
  \/ AppendCompletePages
  \/ AppendFinalPage
  \/ ExtendPartialPage
  \/ ExtendPages
  \/ ExtendPanics

Spec == Init /\ [][Next]_vars

(* The code runs: a call that was made goes on to its end.                 *)
Step == phase # "idle" /\ Next

FairSpec == Spec /\ WF_vars(Step)

-----------------------------------------------------------------------------
(***************************************************************************)
(* Properties.                                                             *)
(***************************************************************************)
(* The functions in the order in which write_core and write_overwrite call *)
(* them.                                                                   *)
Phases == <<"zx_start", "zx_pages", "zx_end", "ow_start", "ow_fresh", "ow_runs",
            "ow_tail", "ap_start", "ap_pages", "ap_final">>

(* Types, and every page the stream owns is a page of the file.            *)
TypeOK ==
  /\ size \in 0 .. (2 * MaxLen) /\ pos \in 0 .. MaxLen /\ done \in 0 .. MaxLen
  /\ phase \in ToSet(Phases) \cup {"idle", "sl_partial", "sl_pages", "panicked"}
  /\ pages \in Seq(DOMAIN file)
  /\ DOMAIN file = 0 .. (MaxPages - 1)
  /\ \A p \in DOMAIN file : Len(file[p]) = PageSize

(* What a call should make of the stream.                                  *)
Expected ==
  CASE request.op = "none" -> before
    [] request.op = "set_contents" -> request.data
    [] request.op = "set_len" ->
         [i \in 1 .. request.len |->
            IF i <= Len(before) THEN before[i] ELSE Zero]
    [] request.op = "write" ->
         [i \in 1 .. Greater(Len(before), request.at + Len(request.data)) |->
            IF i \in (request.at + 1) .. (request.at + Len(request.data))
              THEN request.data[i - request.at]
            ELSE IF i <= Len(before) THEN before[i] ELSE Zero]

(***************************************************************************)
(* When a call returns, the stream holds the bytes it held before, those   *)
(* written in their place, and zeroes in a gap between the two; nothing    *)
(* stale, whatever the alignment, the page runs and the pages' freshness.  *)
(***************************************************************************)
BytesAsWritten == phase = "idle" => Contents = Expected

(***************************************************************************)
(* Between calls, a stream has as many pages as its size calls for, all    *)
(* different, and none is free: what build_new_stream_dir and the mapper   *)
(* assert when the stream is next committed or read.                       *)
(***************************************************************************)
PagesMatchSize ==
  phase = "idle" =>
    /\ Len(pages) = PageCount(size)
    /\ \A i, j \in DOMAIN pages : pages[i] = pages[j] => i = j
    /\ ToSet(pages) \cap (free \cup freed) = {}

Loops == {"zx_pages", "ow_fresh", "ow_runs", "ap_pages"}

Rank(f) == CHOOSE i \in DOMAIN Phases : Phases[i] = f

(***************************************************************************)
(* write_core is straight-line code: having left a function, it is never   *)
(* in a situation that one of the earlier functions is there for, which is *)
(* what its assertions between the calls say.                              *)
(***************************************************************************)
StraightLine ==
  [][{phase, phase'} \subseteq ToSet(Phases) =>
       \/ Rank(phase) < Rank(phase')
       \/ phase' = phase /\ phase \in Loops]_vars

(* A slip: a read is taken to start at the start of its first page.        *)
MapLengthFromPage(o, wanted) ==
  Lesser(Lesser(size - o, wanted), LongestRun(Slot(o)) * PageSize)

(* StreamPageMapper::map: how many bytes from o on are together in the file.*)
MapLength(o, wanted) ==
  Lesser(Lesser(size - o, wanted), LongestRun(Slot(o)) * PageSize - Phase(o))

(* read_stream_core(o, dst) with n the length of dst.                      *)
ReadStream(o, n) ==
  LET read[q \in 0 .. MaxLen] ==
        IF q >= Lesser(size, o + n) THEN <<>>
        ELSE LET len == MapLength(q, o + n - q)
                 at == pages[Slot(q)] * PageSize + Phase(q)
             IN  [i \in 1 .. len |->
                    file[(at + i - 1) \div PageSize][Phase(at + i - 1) + 1]]
                 \o read[q + len]
  IN  read[o]

(***************************************************************************)
(* Reading back: whatever its offset and length, a read that goes over the *)
(* file one run of adjacent pages at a time returns the stream's bytes.    *)
(***************************************************************************)
ReadsSeeContents ==
  phase = "idle" =>
    \A o \in 0 .. MaxLen : \A n \in 1 .. (MaxLen - o) :
      ReadStream(o, n) = SubSeq(Contents, o + 1, Lesser(o + n, size))

(***************************************************************************)
(* The loops of a call make progress: each call returns, or panics.        *)
(***************************************************************************)
CallsEnd == []<>(phase \in {"idle", "panicked"})
=============================================================================

------------------------ MODULE StreamWriterInvariant ------------------------
(***************************************************************************)
(* The inductive invariant of StreamWriter: what each function of          *)
(* write_core may count on when it is called (the assertions of write.rs), *)
(* and what the stream and the data still to be written are together.      *)
(***************************************************************************)
EXTENDS StreamWriter

(***************************************************************************)
(* The calls of set_len with which a stream can grow as its code is: an    *)
(* empty stream by up to a page, and any other within its last page, which *)
(* panics.  The other ones miss the size asked for (see MCSetLen).         *)
(***************************************************************************)
GrowthWithinPage ==
  \A g \in GrowthCalls :
    IF Phase(g[1]) = 0 THEN g[1] = 0 /\ g[2] <= PageSize
    ELSE g[2] - g[1] < PageSize - Phase(g[1])

WritePhases ==
  {"zx_start", "zx_pages", "zx_end", "ow_start", "ow_fresh", "ow_runs", "ow_tail",
   "ap_start", "ap_pages", "ap_final"}

GrowPhases == {"sl_partial", "sl_pages"}

(* A sequence, of whatever.                                                *)
IsSeq(s) == Len(s) \in Nat /\ s = [i \in 1 .. Len(s) |-> s[i]]

WriterTyped ==
  /\ size \in 0 .. MaxLen /\ pos \in 0 .. MaxLen /\ done \in Nat
  /\ IsSeq(buf) /\ IsSeq(before)
  /\ phase \in WritePhases \cup GrowPhases \cup {"idle", "panicked"}

(* The stream's pages are its own: all different, and none free or special.*)
PagesOwned ==
  /\ \A i, j \in DOMAIN pages : pages[i] = pages[j] => i = j
  /\ \A i \in DOMAIN pages :
       pages[i] < numPages /\ ~IsSpecialPage(pages[i]) /\ pages[i] \notin free \cup freed

Storage ==
  /\ free \subseteq Nat /\ freed \subseteq Nat /\ fresh \subseteq Nat
  /\ numPages \in 3 .. MaxPages /\ hint \in 0 .. MaxPages
  /\ AllocatorConsistent
  /\ DOMAIN file = 0 .. (MaxPages - 1)
  /\ \A p \in DOMAIN file : file[p] = [j \in 1 .. PageSize |-> file[p][j]]
  /\ pages \in Seq(DOMAIN file)
  /\ PagesOwned

(* What the functions find when they are called.                           *)
AtPhase ==
  /\ phase \in WritePhases => buf # <<>> /\ pos + Len(buf) <= MaxLen
  /\ phase \in {"idle", "panicked"} \cup GrowPhases => buf = <<>>
  /\ phase # "ow_fresh" => done = 0
  /\ phase = "zx_start" => size < pos /\ Phase(size) # 0
  /\ phase = "zx_pages" => size < pos /\ Phase(size) = 0 /\ pos - size >= PageSize
  /\ phase = "zx_end" => size < pos /\ Phase(size) = 0 /\ pos - size < PageSize
  /\ phase = "ow_start" => pos < size /\ Phase(pos) # 0
  /\ phase \in {"ow_fresh", "ow_runs"} =>
       pos < size /\ Phase(pos) = 0 /\ Len(buf) >= PageSize
  /\ phase = "ow_fresh" => done < PagesToOverwrite
  /\ phase = "ow_tail" => pos < size /\ Phase(pos) = 0 /\ Len(buf) < PageSize
  /\ phase = "ap_start" => pos = size /\ Phase(pos) # 0
  /\ phase = "ap_pages" => pos = size /\ Phase(pos) = 0 /\ Len(buf) >= PageSize
  /\ phase = "ap_final" => pos = size /\ Phase(pos) = 0 /\ Len(buf) < PageSize
  /\ phase = "sl_partial" =>
       size < pos /\ Phase(size) # 0 /\ pos - size < PageSize - Phase(size)
  /\ phase = "sl_pages" => Phase(size) # 0 \/ (size = 0 /\ pos \in 1 .. PageSize)

(***************************************************************************)
(* The stream as it would be if the data that is left were put where it    *)
(* goes: bytes the data covers count as written, whatever is there now.    *)
(***************************************************************************)
Finished(c, p, b) ==
  [i \in 1 .. Greater(Len(c), p + Len(b)) |->
     IF i \in (p + 1) .. (p + Len(b)) THEN b[i - p]
     ELSE IF i <= Len(c) THEN c[i] ELSE Zero]

Grown(c, n) == [i \in 1 .. n |-> IF i <= Len(c) THEN c[i] ELSE Zero]

OnTheWay ==
  ~ShortWrites =>
    /\ phase = "idle" => Contents = Expected
    /\ phase \in WritePhases => Finished(Contents, pos, buf) = Expected
    /\ phase = "sl_partial" \/ (phase = "sl_pages" /\ size = 0) =>
         Grown(Contents, pos) = Expected

WriterInv ==
  /\ WriterTyped
  /\ Storage
  /\ Len(pages) = PageCount(size)
  /\ AtPhase
  /\ OnTheWay
=============================================================================

--------------------------- MODULE MCStreamWriter ---------------------------
(* StreamWriter for TLC: pages of four bytes, a few initial layouts.        *)
EXTENDS StreamWriter

Layout(n, ps, fr, total) ==
  [bytes |-> [i \in 1 .. n |-> <<0, i>>], pages |-> ps, free |-> fr, numPages |-> total]

(* A new file; pages out of order between free ones; a page of which only   *)
(* a part is used and a free page behind it; no free page at all.           *)
SomeLayouts ==
  { Layout(0, <<>>, {}, 3),
    Layout(6, <<7, 3>>, {4, 8}, 9),
    Layout(7, <<3, 4>>, {7, 11}, 14),
    Layout(4, <<8>>, {3, 4, 7}, 9) }

(* set_len extends an empty stream within its first page, which works, or   *)
(* by a byte a page that is not full then either, which panics.            *)
SomeGrowth == ({0} \X (1 .. PageSize)) \cup {<<5, 6>>, <<6, 7>>}

AnyGrowth == {g \in (0 .. MaxLen) \X (0 .. MaxLen) : g[1] < g[2]}
=============================================================================

------------------------------- MODULE Bytes -------------------------------
(***************************************************************************)
(* Byte buffers, as the record parsers of the repository see them          *)
(* (codeview/src/parser.rs, encoder.rs) and the hash functions over them   *)
(* (pdb/src/hash.rs).                                                      *)
(*                                                                         *)
(* A buffer is a sequence of 0..255.  A parser is the buffer that is left: *)
(* a method that advances it returns <<value, rest>>, and a method that    *)
(* fails (ParserError) returns Err.  A 32-bit hash is the set of the       *)
(* positions of its 1 bits, which makes XOR a symmetric difference.        *)
(***************************************************************************)
EXTENDS Integers, Sequences, SequencesExt, FiniteSetsExt

Err == <<>>

Drop(b, n) == SubSeq(b, n + 1, Len(b))

Take(b, n) == SubSeq(b, 1, n)

(* Parser::bytes.                                                          *)
TakeBytes(b, n) == IF Len(b) < n THEN Err ELSE <<Take(b, n), Drop(b, n)>>

U16At(b, at) == b[at + 1] + 256 * b[at + 2]

(* The reading of a u32.  Values of 2^31 and above do not occur.           *)
U32At(b, at) == U16At(b, at) + 65536 * U16At(b, at + 2)

(* Parser::strz: up to the first NUL, which is consumed too.               *)
TakeStrz(b) ==
  LET Ends == {i \in DOMAIN b : b[i] = 0}
  IN IF Ends = {} THEN Err
     ELSE <<Take(b, Min(Ends) - 1), Drop(b, Min(Ends))>>

(* Encoder: u16, u32, strz.                                                *)
PutU16(x) == <<x % 256, x \div 256>>

PutU32(x) == PutU16(x % 65536) \o PutU16(x \div 65536)

PutStrz(s) == Append(s, 0)

Zeros(n) == [i \in 1 .. n |-> 0]

Align4(n) == ((n + 3) \div 4) * 4

(* Iterating records: ItemAt gives the record at an offset and where it    *)
(* ends; the iteration ends at the first one that cannot be read.          *)
ItemsFrom(b, start, ItemAt(_, _)) ==
  LET From[at \in 0 .. Len(b)] ==
        LET Onward(item) == IF item = Err THEN <<>> ELSE item \o From[item[1].end]
        IN Onward(ItemAt(b, at))
  IN From[start]

(* Where a record of n bytes ends that is followed by padding: the padding *)
(* is skipped if it is there.                                              *)
PaddedEnd(b, at, n) ==
  IF at + Align4(n) <= Len(b) THEN at + Align4(n) ELSE at + n

(* The order of byte strings (Ord for [u8]).                               *)
Before(s, t) ==
  \/ IsStrictPrefix(s, t)
  \/ \E i \in DOMAIN s \cap DOMAIN t :
       Take(s, i - 1) = Take(t, i - 1) /\ s[i] < t[i]

(* The elements of a finite set in a strict total order: each has the      *)
(* place that the number of those before it says.  (SetToSortSeq does the  *)
(* same by TLC's SortSeq, of which the proof system has no definition.)    *)
ByRank(S, rank) == [i \in 1 .. Cardinality(S) |-> CHOOSE x \in S : rank[x] = i - 1]

SortedSeq(S, IsBefore(_, _)) ==
  ByRank(S, [x \in S |-> Cardinality({y \in S : IsBefore(y, x)})])

-----------------------------------------------------------------------------
(* The hashes.                                                             *)

BitsAt(byte, lane) ==
  {i + 8 * lane : i \in {j \in 0 .. 7 : (byte \div 2 ^ j) % 2 = 1}}

ShiftedRight(h, n) == {i - n : i \in {j \in h : j >= n}}

(* hash_u32 reads whole u32s, then a u16, then the byte that is left: the  *)
(* lane of the 32-bit value that byte k of pb is XORed into.               *)
Lane(pb, k) ==
  LET Whole == 4 * (Len(pb) \div 4)
  IN IF k < Whole THEN k % 4 ELSE (k - Whole) % 2

(* hash_u32: h |= 0x20202020.                                              *)
CaseFolded(h) == h \cup {5, 13, 21, 29}

HashU32(pb) ==
  LET Read == {i \in 0 .. 31 :
                 Cardinality({k \in 0 .. Len(pb) - 1 :
                                i \in BitsAt(pb[k + 1], Lane(pb, k))}) % 2 = 1}
      Mixed == SymDiff(CaseFolded(Read), ShiftedRight(CaseFolded(Read), 11))
  IN SymDiff(Mixed, ShiftedRight(Mixed, 16))

(* The remainder modulo m of the number with these bits, term by term: the *)
(* number itself may not fit an integer of TLC.                            *)
Remainder(h, m) ==
  MapThenSumSet(LAMBDA i : IF i = 31 THEN (2 * (2 ^ 30 % m)) % m ELSE 2 ^ i % m,
                h) % m

HashModU32(pb, m) == Remainder(HashU32(pb), m)

(* hash_mod_u16(pb, 0xffff_ffff): the remainder changes only the hash that *)
(* is all ones, and the low half is kept.                                  *)
HashU16(pb) ==
  IF HashU32(pb) = 0 .. 31 THEN 0 ELSE Remainder(HashU32(pb), 65536)

(* The table of hash_sig: the CRC of one byte, with the polynomial         *)
(* 0xEDB88320.                                                             *)
Polynomial == {5, 8, 9, 15, 19, 20, 21, 23, 24, 26, 27, 29, 30, 31}

CrcStep(h) ==
  IF 0 \in h THEN SymDiff(ShiftedRight(h, 1), Polynomial) ELSE ShiftedRight(h, 1)

CrcTable(low) == FoldLeft(LAMBDA h, i : CrcStep(h), low, <<1, 2, 3, 4, 5, 6, 7, 8>>)

HashSig(pb, sig) ==
  FoldLeft(LAMBDA h, byte :
             SymDiff(ShiftedRight(h, 8),
                     CrcTable(SymDiff(h \cap 0 .. 7, BitsAt(byte, 0)))),
           sig, pb)

(* Linear probing, in both hash tables of strings: the first slot that is  *)
(* not used, from home on and round the end of the table.                  *)
FreeSlot(used, size, home) ==
  LET Free(d) == (home + d) % size \notin used
      Steps == CHOOSE d \in 0 .. size - 1 : Free(d) /\ \A e \in 0 .. d - 1 : ~Free(e)
  IN (home + Steps) % size
=============================================================================

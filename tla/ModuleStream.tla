---------------------------- MODULE ModuleStream ----------------------------
(***************************************************************************)
(* A module stream (pdb/src/modi.rs): symbols, line data of the old and of *)
(* the new kind, and the global references behind a count of their bytes.  *)
(* The sizes of the first three are not in the stream but in the record of *)
(* the module in the DBI stream.                                           *)
(*                                                                         *)
(* ModiStreamData is a record: data, and the sizes sym, c11, c13, refs.    *)
(***************************************************************************)
EXTENDS Bytes

NoRefs == <<255, 255, 255, 255>>

(* ModiStreamData::new.  Bytes behind the global references are allowed.   *)
ParseModule(stream, sizes) ==
  LET Substreams == sizes.sym + sizes.c11 + sizes.c13
      Rest == Drop(stream, Substreams)
      Refs == IF Take(Rest, 4) = NoRefs THEN 0 ELSE U32At(Rest, 0)
      Module(refs) == <<[data |-> stream, sym |-> sizes.sym, c11 |-> sizes.c11,
                         c13 |-> sizes.c13, refs |-> refs]>>
  IN IF Len(stream) < Substreams THEN Err
     ELSE IF Rest = <<>> THEN Module(0)
     ELSE IF Len(Rest) < 4 \/ Len(Rest) < 4 + Refs THEN Err
     ELSE Module(Refs)

(* full_sym_data and sym_data, without and with the signature skipped.     *)
FullSymData(m) == Take(m.data, m.sym)

(* c13_line_data_bytes.                                                    *)
LineDataBytes(m) == SubSeq(m.data, m.sym + m.c11 + 1, m.sym + m.c11 + m.c13)

(* global_refs_range and global_refs.                                      *)
GlobalRefs(m) ==
  LET Start == m.sym + m.c11 + m.c13 + 4
  IN IF m.refs = 0 THEN <<>> ELSE SubSeq(m.data, Start + 1, Start + m.refs)

-----------------------------------------------------------------------------
(* slice::rotate_right.                                                    *)
RotatedRight(v, n) == Drop(v, Len(v) - n) \o Take(v, Len(v) - n)

(* replace_range_copy (utils/vec.rs): if the new values are more than the  *)
(* old ones those that are too many go to the end and are rotated into     *)
(* place.  The rotation is by the number of the old values.                *)
ReplaceRange(v, start, oldLen, values) ==
  LET Grown == Take(v, start) \o Take(values, oldLen) \o Drop(v, start + oldLen)
                 \o Drop(values, oldLen)
      Behind == Drop(Grown, start + oldLen)
  IN IF Len(values) <= oldLen
     THEN Take(v, start) \o values \o Drop(v, start + oldLen)
     ELSE Take(Grown, start + oldLen) \o RotatedRight(Behind, oldLen)

(* ModiStreamData::replace_sym_data.  (If there are fewer values behind    *)
(* the old ones than there are old ones the rotation panics.)              *)
ReplaceSymData(m, new) ==
  [m EXCEPT !.data = ReplaceRange(m.data, 0, m.sym, new), !.sym = Len(new)]

RotationPanics(m, new) == Len(new) > m.sym /\ Len(m.data) + Len(new) - 2 * m.sym < m.sym

(* truncate_global_refs.                                                   *)
TruncateGlobalRefs(m) ==
  IF m.refs = 0 THEN m
  ELSE [m EXCEPT !.data = Take(m.data, m.sym + m.c11 + m.c13), !.refs = 0]

-----------------------------------------------------------------------------
(* Replacing the symbols of a module leaves the rest of the stream as it   *)
(* is: the line data and the global references, and the stream can be      *)
(* parsed again with the new size.                                         *)
ReplacesSymbolsOnly(m, new) ==
  LET r == ReplaceSymData(m, new)
  IN ~RotationPanics(m, new) =>
       /\ FullSymData(r) = new
       /\ LineDataBytes(r) = LineDataBytes(m)
       /\ GlobalRefs(r) = GlobalRefs(m)
       /\ ParseModule(r.data, [sym |-> r.sym, c11 |-> r.c11, c13 |-> r.c13]) = <<r>>
=============================================================================

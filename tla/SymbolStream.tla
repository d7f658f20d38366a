--------------------------- MODULE SymbolStream ----------------------------
(***************************************************************************)
(* Streams of symbol records: building one (codeview/src/syms/builder.rs), *)
(* iterating one (syms/iter.rs, with the ranges of utils/iter.rs) and      *)
(* reading the record at an offset of the Global Symbol Stream             *)
(* (pdb/src/globals/gss.rs).                                               *)
(***************************************************************************)
EXTENDS SymbolRecords

(* SymBuilder::record and the drop of its RecordBuilder: a stream that ends *)
(* n bytes behind a multiple of 4 is padded by n bytes, and the length,    *)
(* which does not count itself, is the low 16 bits of the size.            *)
Build(stream, kind, payload) ==
  LET End == Len(stream) + 4 + Len(payload)
      Padding == SubSeq(<<241, 242, 243>>, 1, End % 4)
  IN stream \o PutU16((2 + Len(payload) + Len(Padding)) % 65536)
       \o PutU16(kind) \o payload \o Padding

(* SymBuilder::udt and pub32.                                              *)
UdtPayload(type, name) == PutU32(type) \o PutStrz(name)

PubPayload(flags, offset, segment, name) ==
  PutU32(flags) \o PutU32(offset) \o PutU16(segment) \o PutStrz(name)

(* Slip: a record that is torn at the end of the stream is taken as it is. *)
SymAtTorn(data, at) ==
  LET Rest == Drop(data, at)
  IN IF Len(Rest) < 4 \/ U16At(Rest, 0) < 2 THEN Err
     ELSE <<[at |-> at, end |-> Min({at + 2 + U16At(Rest, 0), Len(data)}),
             kind |-> U16At(Rest, 2),
             data |-> SubSeq(Rest, 5, Min({2 + U16At(Rest, 0), Len(Rest)}))]>>

(* SymIter::next at an offset: nothing if there is no complete record.     *)
SymAt(data, at) ==
  LET Rest == Drop(data, at)
  IN IF Len(Rest) < 4 \/ U16At(Rest, 0) < 2 \/ Len(Rest) < 2 + U16At(Rest, 0)
     THEN Err
     ELSE <<[at |-> at, end |-> at + 2 + U16At(Rest, 0),
             kind |-> U16At(Rest, 2), data |-> SubSeq(Rest, 5, 2 + U16At(Rest, 0))]>>

(* All records from an offset on; the iteration ends at the first failure. *)
SymsFrom(data, start) == ItemsFrom(data, start, SymAt)

(* SymIterMut::next: it looks at the length of what is left only for the   *)
(* header; a record that is longer than that is a panic of split_at_mut.   *)
MutSymAt(data, at) ==
  LET Rest == Drop(data, at)
  IN IF Len(Rest) < 4 \/ U16At(Rest, 0) < 2 THEN Err
     ELSE IF Len(Rest) < 2 + U16At(Rest, 0) THEN <<"panic">>
     ELSE <<[at |-> at, end |-> at + 2 + U16At(Rest, 0),
             kind |-> U16At(Rest, 2), data |-> SubSeq(Rest, 5, 2 + U16At(Rest, 0))]>>

(* GlobalSymbolStream::get_sym_at.                                         *)
GetSymAt(data, offset) == IF offset > Len(data) THEN Err ELSE SymAt(data, offset)

(* get_pub32_at: the fields of the record, if it is an S_PUB32.            *)
GetPubAt(data, offset) ==
  LET Sym == GetSymAt(data, offset)
  IN IF Sym = Err \/ Sym[1].kind # Kind.S_PUB32 THEN Err
     ELSE ParseFields(Pub, Sym[1].data)

(* The symbols of a module begin with a signature of 4 bytes:              *)
(* SymIter::for_module_syms.                                               *)
ModuleSyms(data) == IF Len(data) < 4 THEN <<>> ELSE SymsFrom(data, 4)

-----------------------------------------------------------------------------
(* An entry of a list of symbols to write: a kind and the encoded fields.  *)
Payload(entry) == FlattenSeq(entry.fields)

Stream(entries) ==
  FoldLeft(LAMBDA s, e : Build(s, e.kind, Payload(e)), <<>>, entries)

OpenEnded == {"gaps", "rest"}

(* The value that a parser gives for the bytes of a field.                 *)
ValueOf(role, bytes) ==
  CASE role \in {"name", "strz"} -> Take(bytes, Len(bytes) - 1)
    [] role = "strt" -> Drop(bytes, 1)
    [] OTHER -> bytes

(* A parsed record has the values that were written.  A field that takes   *)
(* the rest of the record takes its padding too.                           *)
ParsesBack(entry, data) ==
  LET Layout == SymLayout(entry.kind)
      Parsed == ParseFields(Layout, data)
  IN /\ Parsed # Err
     /\ \A i \in DOMAIN Layout :
          LET Value == ValueOf(Layout[i], entry.fields[i])
          IN IF Layout[i] \in OpenEnded \cup {"functions"}
             THEN IsPrefix(Value, Parsed[1][i].value)
             ELSE Parsed[1][i].value = Value

(* The readers of one record agree on its name: SymData, by which symbols  *)
(* are shown and searched in modules, and the indices of global symbols.   *)
(* The two structures of a managed procedure do not: they are left out.    *)
NamesAgree(kind, data) ==
  LET Global == ParseFields(GlobalLayout(kind), data)
      Shown == ParseFields(SymLayout(kind), data)
  IN kind \notin ManProcKinds /\ GlobalLayout(kind) # <<>> =>
       Global # Err /\ Field(Global[1], "name") = Field(Shown[1], "name")

(* What is built is walked: the records come out without gaps, each with   *)
(* its kind and its bytes, padded, through every reader, and when the      *)
(* stream is cut, what comes out is the records that are whole, whatever   *)
(* the torn one holds.                                                     *)
RecordsWalked(entries) ==
  LET data == Stream(entries)
      syms == SymsFrom(data, 0)
      Whole(n) == {i \in DOMAIN syms : syms[i].end <= n}
  IN /\ Len(syms) = Len(entries)
     /\ syms # <<>> => syms[1].at = 0 /\ syms[Len(syms)].end = Len(data)
     /\ \A i \in DOMAIN syms :
          /\ i > 1 => syms[i].at = syms[i - 1].end
          /\ syms[i].kind = entries[i].kind
          /\ Take(syms[i].data, Len(Payload(entries[i]))) = Payload(entries[i])
          /\ Len(syms[i].data) - Len(Payload(entries[i])) \in 0 .. 3
          /\ GetSymAt(data, syms[i].at) = <<syms[i]>>
          /\ MutSymAt(data, syms[i].at) = <<syms[i]>>
     /\ \A n \in 0 .. Len(data) :
          SymsFrom(Take(data, n), 0) = Take(syms, Cardinality(Whole(n)))

(* And each record has the fields that were written, and the same name for *)
(* both of its readers.  Its end is at a multiple of 4 if it was given an  *)
(* even number of bytes, and 2 bytes past one if not, where the builder    *)
(* (syms/builder.rs:65) says that it aligns the buffer to 4 bytes.         *)
SymbolsReadBack(entries) ==
  LET syms == SymsFrom(Stream(entries), 0)
  IN /\ RecordsWalked(entries)
     /\ \A i \in DOMAIN syms :
          /\ ParsesBack(entries[i], syms[i].data)
          /\ NamesAgree(syms[i].kind, syms[i].data)
          /\ syms[i].end % 4 = 2 * (Len(Payload(entries[i])) % 2)
=============================================================================

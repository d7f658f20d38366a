----------------------------- MODULE TypeStream -----------------------------
(***************************************************************************)
(* The streams of types and of items (pdb/src/tpi.rs): a header and the    *)
(* records one after another (codeview/src/types/iter.rs), each with the   *)
(* index that its place gives it; and the lists of fields, which may go on *)
(* in another record.                                                      *)
(***************************************************************************)
EXTENDS TypeRecords

MinBegin == \h1000

TypeHeaderLen == 56

(* TypesIter::next at an offset.                                           *)
TypeAt(b, at) ==
  LET Rest == Drop(b, at)
  IN IF Len(Rest) < 4 \/ U16At(Rest, 0) < 2 \/ Len(Rest) < 2 + U16At(Rest, 0)
     THEN Err
     ELSE <<[at |-> at, end |-> at + 2 + U16At(Rest, 0), kind |-> U16At(Rest, 2),
             data |-> SubSeq(Rest, 5, 2 + U16At(Rest, 0))]>>

TypesOf(b) == ItemsFrom(b, 0, TypeAt)

(* TypeStream::parse: the indices that the header gives, and the bytes of  *)
(* the records.  An empty stream has none.                                 *)
ParseTypes(b) ==
  LET HeaderSize == U32At(b, 4)
      Begin == U32At(b, 8)
      End == U32At(b, 12)
      Bytes == U32At(b, 16)
  IN IF b = <<>> THEN <<[begin |-> MinBegin, end |-> MinBegin, records |-> <<>>]>>
     ELSE IF Len(b) < TypeHeaderLen THEN Err
     ELSE IF End < Begin \/ Begin < MinBegin \/ HeaderSize < TypeHeaderLen THEN Err
     ELSE IF HeaderSize + Bytes > Len(b) THEN Err
     ELSE <<[begin |-> Begin, end |-> End,
             records |-> SubSeq(b, HeaderSize + 1, HeaderSize + Bytes)]>>

(* Slip: the end of the last record is not pushed.                         *)
TypesStartsOnly(b) ==
  LET Types == TypesOf(b)
  IN [i \in DOMAIN Types |-> Types[i].at]

(* build_types_starts: the offset of every record, and the end of the last *)
(* one that can be read.                                                   *)
TypesStarts(b) ==
  LET Types == TypesOf(b)
  IN Append([i \in DOMAIN Types |-> Types[i].at],
            IF Types = <<>> THEN 0 ELSE Types[Len(Types)].end)

(* TypeStream::is_primitive and record.  The end that the header gives is  *)
(* not looked at.                                                          *)
IsPrimitive(t, index) == index < t.begin

RecordOf(t, index) ==
  LET Starts == TypesStarts(t.records)
  IN IF IsPrimitive(t, index) \/ index - t.begin >= Len(Starts) THEN Err
     ELSE TypeAt(t.records, Starts[index - t.begin + 1])

(* TypeIndexMap::record_range.                                             *)
RecordRange(t, index) ==
  LET Starts == TypesStarts(t.records)
  IN IF IsPrimitive(t, index) \/ index - t.begin + 2 > Len(Starts) THEN Err
     ELSE <<[at |-> Starts[index - t.begin + 1], end |-> Starts[index - t.begin + 2]]>>

(* Slip: the links are handed out like the fields.                         *)
OneListWithLinks(fields) ==
  LET Links == {i \in DOMAIN fields : fields[i].kind = Leaf.LF_INDEX}
  IN [shown |-> fields,
      next |-> IF Links = {} THEN 0
               ELSE U32At(Field(fields[Max(Links)].fields, "type"), 0)]

(* One list of a chain: its fields but for the links, and the last of the  *)
(* links, 0 for none.                                                      *)
OneList(fields) ==
  LET Links == {i \in DOMAIN fields : fields[i].kind = Leaf.LF_INDEX}
  IN [shown |-> SelectSeq(fields, LAMBDA f : f.kind # Leaf.LF_INDEX),
      next |-> IF Links = {} THEN 0
               ELSE U32At(Field(fields[Max(Links)].fields, "type"), 0)]

ListOf(record) ==
  IF record = Err THEN Err
  ELSE IF record[1].kind # Leaf.LF_FIELDLIST THEN Err
  ELSE <<OneList(Fields(record[1].data))>>

(* iter_fields, IterFieldChain::next: one list after another, until there  *)
(* is no link or it does not lead to a list.  (A link back to a list that  *)
(* has been read would be followed for ever.)                              *)
FieldChain(t, list) ==
  LET Chain[index \in Nat] ==
        LET Onward(this) ==
              IF this = Err THEN <<>>
              ELSE this[1].shown \o IF this[1].next = 0 THEN <<>> ELSE Chain[this[1].next]
        IN Onward(ListOf(RecordOf(t, index)))
  IN IF list = 0 THEN <<>> ELSE Chain[list]

-----------------------------------------------------------------------------
(* The bytes of records one after another.                                 *)
LenOfAll(list) == FoldLeft(LAMBDA at, r : at + 4 + Len(r.data), 0, list)

(* A stream of the listed records: every index from the first one on is    *)
(* found by both of the ways to look it up, as the record in its place,    *)
(* and no other index is; the ranges are those of the records, also when   *)
(* bytes that are not a record follow.                                     *)
TypesIndexed(b, begin, list) ==
  LET t == ParseTypes(b)[1]
      Place(i) == LenOfAll(Take(list, i - 1))
  IN /\ ParseTypes(b) # Err
     /\ \A i \in DOMAIN list :
          /\ RecordOf(t, begin + i - 1) =
               <<[at |-> Place(i), end |-> Place(i + 1), kind |-> list[i].kind,
                  data |-> list[i].data]>>
          /\ RecordRange(t, begin + i - 1) = <<[at |-> Place(i), end |-> Place(i + 1)]>>
     /\ \A index \in {begin - 1, begin + Len(list), begin + Len(list) + 1} :
          RecordOf(t, index) = Err /\ RecordRange(t, index) = Err

(* The fields of a type come out the same, in their order, in whatever way *)
(* the list is split over records.                                         *)
WithoutPlaces(fields) ==
  [i \in DOMAIN fields |->
     <<fields[i].kind, [j \in DOMAIN fields[i].fields |-> fields[i].fields[j].value]>>]

SplitKeepsFields(split, splitAt, whole, wholeAt) ==
  WithoutPlaces(FieldChain(split, splitAt)) = WithoutPlaces(FieldChain(whole, wholeAt))
=============================================================================

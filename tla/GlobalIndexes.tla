--------------------------- MODULE GlobalIndexes ---------------------------
(***************************************************************************)
(* The indices of the Global Symbol Stream (pdb/src/globals.rs and         *)
(* globals/): the Global Symbol Index and the Public Symbol Index, which   *)
(* lead from a name to the symbol through a hash table, and the address    *)
(* map of the latter, which is sorted by address.                          *)
(*                                                                         *)
(* A name table in a stream is a record: records (the offsets of symbols,  *)
(* plus one), bitmap (the set of the buckets that are not empty) and       *)
(* pointers (where each of those begins, counted in bytes of the records   *)
(* as another program keeps them in memory: 12 for each).  In memory it is *)
(* records and buckets, a function from 0 .. the number of buckets.        *)
(***************************************************************************)
EXTENDS SymbolStream

HashRecordCalcLen == 12

(* An entry that has been pushed: HashEntry.  The order is by all fields.  *)
EntryBefore(a, b) == a.hash < b.hash \/ (a.hash = b.hash /\ a.offset < b.offset)

(* NameTableBuilder::push of every name and prepare, which sorts.          *)
SortedEntries(symbols, numBuckets) ==
  SortedSeq({[hash |-> HashModU32(s.name, numBuckets), offset |-> s.at + 1] :
                  s \in symbols}, EntryBefore)

(* Slip: pointers that count the records as they are in the stream.        *)
EncodeTableBytes(entries) ==
  LET Buckets == SortedSeq({entries[i].hash : i \in DOMAIN entries}, <)
      First(hash) == Min({i \in DOMAIN entries : entries[i].hash = hash})
  IN [records |-> [i \in DOMAIN entries |-> entries[i].offset],
      bitmap |-> {entries[i].hash : i \in DOMAIN entries},
      pointers |-> [j \in DOMAIN Buckets |-> 8 * (First(Buckets[j]) - 1)]]

(* NameTableBuilder::encode, over iter_nonempty_buckets.                   *)
EncodeTable(entries) ==
  LET Buckets == SortedSeq({entries[i].hash : i \in DOMAIN entries}, <)
      First(hash) == Min({i \in DOMAIN entries : entries[i].hash = hash})
  IN [records |-> [i \in DOMAIN entries |-> entries[i].offset],
      bitmap |-> {entries[i].hash : i \in DOMAIN entries},
      pointers |-> [j \in DOMAIN Buckets |->
                      HashRecordCalcLen * (First(Buckets[j]) - 1)]]

(* Slip: the pointers of the table are compared with each other only.      *)
PointersOrdered(pointers, used, numRecords) ==
  \A i \in 1 .. used :
    /\ pointers[i] >= 0 /\ pointers[i] % HashRecordCalcLen = 0
    /\ IF i = 1 THEN pointers[i] = 0 ELSE pointers[i] >= pointers[i - 1]

(* The checks of expand_buckets on each pointer in turn.                   *)
PointersValid(pointers, used, numRecords) ==
  \A i \in 1 .. used :
    /\ pointers[i] >= 0 /\ pointers[i] % HashRecordCalcLen = 0
    /\ pointers[i] \div HashRecordCalcLen < numRecords
    /\ IF i = 1 THEN pointers[i] = 0 ELSE pointers[i] >= pointers[i - 1]

(* expand_buckets: bits beyond the number of buckets are skipped, though   *)
(* they are counted (up to the number of buckets) in how many pointers     *)
(* there must be.  An empty bucket begins where the next one that is not   *)
(* empty does.                                                             *)
ExpandBuckets(bitmap, pointers, numBuckets, numRecords) ==
  LET Used == SortedSeq(bitmap \cap 0 .. numBuckets - 1, <)
      From(b) == {i \in DOMAIN Used : Used[i] >= b}
  IN IF \/ Len(pointers) < Min({Cardinality(bitmap), numBuckets})
        \/ ~PointersValid(pointers, Len(Used), numRecords)
     THEN Err
     ELSE <<[b \in 0 .. numBuckets |->
               IF From(b) = {} THEN numRecords
               ELSE pointers[Min(From(b))] \div HashRecordCalcLen]>>

(* NameTable::parse.                                                       *)
ParseTable(t, numBuckets) ==
  LET Buckets == ExpandBuckets(t.bitmap, t.pointers, numBuckets, Len(t.records))
  IN IF Buckets = Err THEN Err
     ELSE <<[records |-> t.records, buckets |-> Buckets[1]]>>

(* hash_records_for_bucket and hash_records_for_name.                      *)
RecordsForBucket(table, bucket) ==
  SubSeq(table.records, table.buckets[bucket] + 1, table.buckets[bucket + 1])

NumBuckets(table) == Cardinality(DOMAIN table.buckets) - 1

RecordsForName(table, name) ==
  IF NumBuckets(table) = 0 THEN <<>>
  ELSE RecordsForBucket(table, HashModU32(name, NumBuckets(table)))

-----------------------------------------------------------------------------
(* eq_ignore_ascii_case.                                                   *)
Lower(byte) == IF byte \in 65 .. 90 THEN byte + 32 ELSE byte

LowerCase(name) == [i \in DOMAIN name |-> Lower(name[i])]

SameName(a, b) == LowerCase(a) = LowerCase(b)

(* get_global_symbol_name: Err, or <<>> in a tuple for a kind without one. *)
NoName == <<"none">>

GlobalName(sym) ==
  LET Named(parsed) == IF parsed = Err THEN Err ELSE <<"name", Field(parsed[1], "name")>>
  IN IF GlobalLayout(sym.kind) = <<>> THEN NoName
     ELSE Named(ParseFields(GlobalLayout(sym.kind), sym.data))

(* NameTable::find_symbol: the first record of the bucket that is invalid  *)
(* (an error) or has the name; records with an offset of 0 are skipped.    *)
FindSymbol(table, gss, name) ==
  LET Outcome(sym, symName) ==
        IF sym = Err \/ symName = Err THEN Err
        ELSE IF symName # NoName /\ SameName(symName[2], name) THEN <<"found", sym[1]>>
        ELSE <<"none">>
      Tried(sym) == Outcome(sym, GlobalName(sym[1]))
      Search(answer, record) ==
        IF answer # <<"none">> \/ record = 0 THEN answer
        ELSE Tried(GetSymAt(gss, record - 1))
  IN FoldLeft(Search, <<"none">>, RecordsForName(table, name))

(* NameTable::check_hashes (publics): the records in a bucket that is not  *)
(* the one of their name.                                                  *)
WrongBuckets(table, gss) ==
  {b \in 0 .. NumBuckets(table) - 1 :
     \E i \in DOMAIN RecordsForBucket(table, b) :
       LET Parsed == GetPubAt(gss, RecordsForBucket(table, b)[i] - 1)
       IN Parsed # Err /\ HashModU32(Field(Parsed[1], "name"), NumBuckets(table)) # b}

-----------------------------------------------------------------------------
(* Slip: the offset is compared before the segment.                        *)
AddressByOffset(a, b) ==
  \/ a.offset < b.offset
  \/ a.offset = b.offset /\ a.segment < b.segment
  \/ a.segment = b.segment /\ a.offset = b.offset /\ a.at < b.at

(* An address is ordered by segment first (OffsetSegment::as_u64).         *)
AddressBefore(a, b) ==
  \/ a.segment < b.segment
  \/ a.segment = b.segment /\ a.offset < b.offset
  \/ a.segment = b.segment /\ a.offset = b.offset /\ a.at < b.at

(* sort_address_records.                                                   *)
SortedAddresses(publics) == SortedSeq(publics, AddressBefore)

(* build_global_symbols_index: publics go to the PSI, with their address;  *)
(* other symbols with a name go to the GSI, but for token and data refs.   *)
(* A record that cannot be parsed is an error.                             *)
BuildIndexes(gss, numBuckets) ==
  LET Syms == SymsFrom(gss, 0)
      Of(s) == [at |-> s.at, name |-> GlobalName(s)[2]]
      AddressOf(s) == LET Parsed == ParseFields(Pub, s.data)[1]
                      IN [at |-> s.at, segment |-> FieldU16(Parsed, "segment"),
                          offset |-> FieldU32(Parsed, "offset")]
      Kept == {s \in ToSet(Syms) : s.kind \notin {Kind.S_TOKENREF, Kind.S_DATAREF}}
      Publics == {s \in Kept : s.kind = Kind.S_PUB32}
      Globals == {s \in Kept \ Publics : GlobalName(s) # NoName}
  IN IF \E s \in Kept : GlobalName(s) = Err THEN Err
     ELSE LET Addresses == SortedAddresses({AddressOf(s) : s \in Publics})
          IN <<[gsi |-> EncodeTable(SortedEntries({Of(s) : s \in Globals}, numBuckets)),
                psi |-> EncodeTable(SortedEntries({Of(s) : s \in Publics}, numBuckets)),
                addresses |-> [i \in DOMAIN Addresses |-> Addresses[i].at]]>>

(* PublicSymbolIndex::find_symbol_by_addr: binary search over the map, in  *)
(* which only an exact hit counts.  What is left of the map is items.      *)
FindByAddress(addresses, gss, segment, offset) ==
  LET Slices == {s \in (0 .. Len(addresses)) \X (0 .. Len(addresses)) : s[1] <= s[2]}
      Search[items \in Slices] ==
        LET Mid == items[1] + (items[2] - items[1]) \div 2
            Parsed == GetPubAt(gss, addresses[Mid + 1])
            MidSegment == FieldU16(Parsed[1], "segment")
            MidOffset == FieldU32(Parsed[1], "offset")
            Low == segment < MidSegment \/ (segment = MidSegment /\ offset < MidOffset)
        IN IF items[1] = items[2] THEN <<"none">>
           ELSE IF Parsed = Err THEN Err
           ELSE IF segment = MidSegment /\ offset = MidOffset
                THEN <<"found", addresses[Mid + 1]>>
           ELSE IF Low THEN Search[<<items[1], Mid>>] ELSE Search[<<Mid + 1, items[2]>>]
  IN Search[<<0, Len(addresses)>>]

(* PublicSymbolIndex::check_consistency.                                   *)
AddressesInOrder(addresses, gss) ==
  LET Of(i) == GetPubAt(gss, addresses[i])[1]
      Segment(i) == FieldU16(Of(i), "segment")
  IN \A i \in 2 .. Len(addresses) :
       \/ Segment(i - 1) < Segment(i)
       \/ /\ Segment(i - 1) = Segment(i)
          /\ FieldU32(Of(i - 1), "offset") <= FieldU32(Of(i), "offset")

-----------------------------------------------------------------------------
(* Every symbol that an index covers is found by its name, in any case,    *)
(* and a name that no symbol has is not.  The public symbols are found in  *)
(* the PSI only and the others in the GSI only.                            *)
FindsExactly(table, gss, syms, queries) ==
  \A name \in queries :
    LET Right(same, answer) ==
          IF same = {} THEN answer = <<"none">>
          ELSE answer # Err /\ answer # <<"none">> /\ answer[2] \in same
    IN Right({s \in syms : SameName(GlobalName(s)[2], name)}, FindSymbol(table, gss, name))

(* Building the indices, writing them and reading them back.  Token and    *)
(* data references are in neither, and a name that only they have is not   *)
(* found, though globals.rs:83 and gsi.rs:22 list them as indexed.         *)
GlobalsFound(gss, numBuckets, queries) ==
  LET syms == {s \in ToSet(SymsFrom(gss, 0)) : GlobalName(s) # NoName}
      InGsi(s) == s.kind \notin {Kind.S_PUB32, Kind.S_DATAREF}
      InPsi(s) == s.kind = Kind.S_PUB32
      GsiFinds(gsi) ==
        gsi # Err /\ FindsExactly(gsi[1], gss, {s \in syms : InGsi(s)}, queries)
      PsiFinds(psi) ==
        /\ psi # Err /\ FindsExactly(psi[1], gss, {s \in syms : InPsi(s)}, queries)
        /\ WrongBuckets(psi[1], gss) = {}
      Found(built) ==
        built # Err => /\ GsiFinds(ParseTable(built[1].gsi, numBuckets))
                       /\ PsiFinds(ParseTable(built[1].psi, numBuckets))
  IN Found(BuildIndexes(gss, numBuckets))

(* The address map leads from the address of every public symbol to one at *)
(* that address, and from no other address to any: not to the nearest one, *)
(* which server.rs:306 promises and psi.rs:208 leaves to be done.          *)
PublicsFoundByAddress(gss, numBuckets, addresses) ==
  LET publics == {s \in ToSet(SymsFrom(gss, 0)) : s.kind = Kind.S_PUB32}
      IsAt(f, a) == FieldU16(f, "segment") = a[1] /\ FieldU32(f, "offset") = a[2]
      At(a) == {s.at : s \in {p \in publics : IsAt(ParseFields(Pub, p.data)[1], a)}}
      Right(at, answer) ==
        IF at = {} THEN answer = <<"none">>
        ELSE answer # Err /\ answer[1] = "found" /\ answer[2] \in at
      Found(built) ==
        built # Err =>
          /\ AddressesInOrder(built[1].addresses, gss)
          /\ \A a \in addresses :
               Right(At(a), FindByAddress(built[1].addresses, gss, a[1], a[2]))
  IN Found(BuildIndexes(gss, numBuckets))

(* Whatever the table in the file holds, either it is refused or each      *)
(* bucket is a range of the records, in order, and together they are all   *)
(* of them, unless every bucket is empty: no search can reach outside.     *)
BucketsCoverRecords(bitmap, pointers, numBuckets, numRecords) ==
  LET Buckets == ExpandBuckets(bitmap, pointers, numBuckets, numRecords)
      Start(b) == Buckets[1][b]
  IN Buckets # Err =>
       /\ \A b \in 0 .. numBuckets - 1 : Start(b) <= Start(b + 1)
       /\ Start(numBuckets) = numRecords
       /\ Start(0) = (IF bitmap \cap 0 .. numBuckets - 1 = {} THEN numRecords ELSE 0)
=============================================================================

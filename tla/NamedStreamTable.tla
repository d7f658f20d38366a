-------------------------- MODULE NamedStreamTable --------------------------
(***************************************************************************)
(* The PDB Information stream (pdb/src/pdbi.rs): its header, the Named     *)
(* Streams Table, which is a hash table with linear probing over offsets   *)
(* into a string buffer, and the list of features.                         *)
(*                                                                         *)
(* A map is a function from names (byte strings without NUL) to streams.   *)
(* The encoded table is a record with one field per u32 or bitmap of the   *)
(* stream, in the order in which they are written; a bitmap is the set of  *)
(* the positions of its 1 bits.                                            *)
(***************************************************************************)
EXTENDS Bytes, FiniteSets, Functions

(* Slip: a table as large as the map.                                      *)
HashSizeShort(n) == IF n = 0 THEN 10 ELSE n

(* The sizes of the hash table: 10 for no names, else a load of one half.  *)
HashSize(n) == IF n = 0 THEN 10 ELSE 2 * n

(* Where each string begins in the string buffer.                          *)
NameOffsets(names) ==
  [i \in DOMAIN names |->
     Len(FlattenSeq([j \in 1 .. i - 1 |-> PutStrz(names[j])]))]

(* NamedStreams::to_bytes: names in order, each at the first slot that is  *)
(* free from the one of its hash; only the slots in use are written.       *)
Encode(map, hash) ==
  LET Names == SortedSeq(DOMAIN map, Before)
      Offsets == NameOffsets(Names)
      Size == HashSize(Len(Names))
      Place(slots, i) ==
        LET slot == FreeSlot(DOMAIN slots, Size, hash[Names[i]] % Size)
        IN [t \in DOMAIN slots \cup {slot} |->
              IF t = slot THEN [key |-> Offsets[i], value |-> map[Names[i]]] ELSE slots[t]]
      Slots == FoldLeft(Place, <<>>, [i \in DOMAIN Names |-> i])
      Used == SortedSeq(DOMAIN Slots, <)
  IN [strings |-> FlattenSeq([i \in DOMAIN Names |-> PutStrz(Names[i])]),
      count |-> Len(Names), hashSize |-> Size,
      present |-> DOMAIN Slots, deleted |-> {},
      items |-> [i \in DOMAIN Used |-> Slots[Used[i]]],
      niMac |-> 0]

(* NamedStreams::parse: the items are taken one after another, whatever    *)
(* slot they stand for; of two items with one name the first counts.       *)
Decode(t) ==
  LET NameOf(item) ==
        IF item.key > Len(t.strings) THEN Err ELSE TakeStrz(Drop(t.strings, item.key))
      First(name) == Min({i \in DOMAIN t.items : NameOf(t.items[i])[1] = name})
  IN IF \/ Cardinality(t.present) # t.count
        \/ Len(t.items) < t.count
        \/ \E i \in DOMAIN t.items : NameOf(t.items[i]) = Err
     THEN Err
     ELSE <<[name \in {NameOf(t.items[i])[1] : i \in DOMAIN t.items} |->
               t.items[First(name)].value]>>

(* NamedStreams::insert and clear.                                         *)
Insert(map, name, stream) ==
  IF name \in DOMAIN map THEN map ELSE (name :> stream) @@ map

-----------------------------------------------------------------------------
(* The stream around the table.  impvVC70Dep is the last version without a *)
(* unique id.                                                              *)
HasUniqueId(version, lastWithout) == version > lastWithout

(* PdbiStream::to_bytes: fails if the version needs an id and there is     *)
(* none; an id that the version does not have is left out.                 *)
EncodeStream(s, lastWithout, hash) ==
  IF HasUniqueId(s.version, lastWithout) /\ s.uniqueId = <<>> THEN Err
  ELSE <<[version |-> s.version, signature |-> s.signature, age |-> s.age,
          uniqueId |-> IF HasUniqueId(s.version, lastWithout) THEN s.uniqueId ELSE <<>>,
          table |-> Encode(s.named, hash), features |-> s.features]>>

(* PdbiStream::parse: the features are all the u32s that are left.         *)
DecodeStream(b) ==
  IF Decode(b.table) = Err THEN Err
  ELSE <<[version |-> b.version, signature |-> b.signature, age |-> b.age,
          uniqueId |-> b.uniqueId, named |-> Decode(b.table)[1],
          features |-> b.features]>>

-----------------------------------------------------------------------------
(* A reader of the format itself: it goes from the slot of the hash until  *)
(* it meets the name or a slot that is not present, and knows the item of  *)
(* a slot by its rank among the slots that are present.                    *)
ItemOfSlot(t, slot) ==
  t.items[Cardinality({p \in t.present : p <= slot})]

FoundByProbing(t, name, hash) ==
  \E d \in 0 .. t.hashSize - 1 :
    LET Slot(e) == (hash[name] + e) % t.hashSize
    IN /\ \A e \in 0 .. d : Slot(e) \in t.present
       /\ TakeStrz(Drop(t.strings, ItemOfSlot(t, Slot(d)).key))[1] = name

(* What was written is read back, by this library, which takes the items   *)
(* in order, and by a reader that goes by the hashes, which must meet each *)
(* name before an absent slot, also when the probing went round the end of *)
(* the table.  A search for another name must end: some slot is absent.    *)
ReadsBack(s, lastWithout, hash) ==
  LET b == EncodeStream(s, lastWithout, hash)
  IN b # Err =>
       /\ DecodeStream(b[1]) =
            <<[s EXCEPT !.uniqueId =
                 IF HasUniqueId(s.version, lastWithout) THEN @ ELSE <<>>]>>
       /\ \A name \in DOMAIN s.named : FoundByProbing(b[1].table, name, hash)
       /\ b[1].table.present # 0 .. b[1].table.hashSize - 1
=============================================================================

----------------------------- MODULE NamesTable -----------------------------
(***************************************************************************)
(* The /names stream (pdb/src/names.rs): the strings that other tables     *)
(* refer to by their offset (NameIndex), with a hash table over them, and  *)
(* `rebuild`, which sorts it and removes duplicates and yields the mapping *)
(* by which those tables are then rewritten.                               *)
(*                                                                         *)
(* A stream is a record: signature, version, strings (the bytes of the     *)
(* string data), hashes (slot 0 is the first element; 0 is an empty slot)  *)
(* and numStrings.                                                         *)
(***************************************************************************)
EXTENDS Bytes, FiniteSets

Signature == "EFFEEFFE"

(* NamesStream::parse.                                                     *)
Parse(s) == IF s.signature # Signature \/ s.version # 1 THEN Err ELSE <<s>>

(* get_string: any offset into the strings, up to the next NUL.            *)
GetString(strings, at) ==
  IF at > Len(strings) \/ TakeStrz(Drop(strings, at)) = Err THEN Err
  ELSE <<TakeStrz(Drop(strings, at))[1]>>

(* IterNames with_ranges: the offsets at which the iteration begins a      *)
(* string.  Bytes after the last NUL are not a string, and end it.         *)
Starts(strings) ==
  {i \in 0 .. Len(strings) - 1 :
     (i = 0 \/ strings[i] = 0) /\ \E j \in i + 1 .. Len(strings) : strings[j] = 0}

StringAt(strings, i) == GetString(strings, i)[1]

Named(strings) == {i \in Starts(strings) : StringAt(strings, i) # <<>>}

(* Slip: offsets that forget the empty string at the front.                *)
NewIndexFromZero(sorted, i) == Len(FlattenSeq([j \in 1 .. i - 1 |-> PutStrz(sorted[j])]))

NumHashes(n) == (n * 6) \div 4

(* Where string i goes: after the empty string and those before it.        *)
NewIndex(sorted, i) == 1 + Len(FlattenSeq([j \in 1 .. i - 1 |-> PutStrz(sorted[j])]))

(* The hash table of the new stream, filled in the order of the strings.   *)
(* hash is the hash function, a function of strings.                       *)
HashTable(sorted, hash) ==
  LET Size == NumHashes(Len(sorted))
      Place(table, i) ==
        LET slot == FreeSlot({s \in 0 .. Size - 1 : table[s + 1] # 0}, Size,
                             hash[sorted[i]] % Size)
        IN [table EXCEPT ![slot + 1] = NewIndex(sorted, i)]
  IN FoldLeft(Place, Zeros(Size), [i \in DOMAIN sorted |-> i])

(* NamesStream::rebuild.  Of equal strings one is kept; which one, the     *)
(* unstable sort does not say: "first" or "last" in the stream.  The       *)
(* mapping is a set of pairs (old, new).                                   *)
Rebuild(s, hash, keep) ==
  LET Kept(S) == IF keep = "first" THEN Min(S) ELSE Max(S)
      At == [i \in Named(s.strings) |-> StringAt(s.strings, i)]
      Sorted == SortedSeq({At[i] : i \in DOMAIN At}, Before)
      Text == <<0>> \o FlattenSeq([j \in DOMAIN Sorted |-> PutStrz(Sorted[j])])
  IN IF s.strings = <<>> THEN [mapping |-> {}, stream |-> s]
     ELSE [mapping |->
             {<<0, 0>>} \cup
             {<<Kept({i \in DOMAIN At : At[i] = Sorted[j]}), NewIndex(Sorted, j)>> :
                j \in DOMAIN Sorted},
           stream |->
             [signature |-> Signature, version |-> 1,
              strings |-> Text \o Zeros(Align4(Len(Text)) - Len(Text)),
              hashes |-> HashTable(Sorted, hash),
              numStrings |-> Len(Sorted)]]

(* NameIndexMapping::map_old_to_new: 0 is never looked up.                 *)
MapOldToNew(mapping, name) ==
  IF name = 0 THEN <<0>>
  ELSE IF \A pair \in mapping : pair[1] # name THEN Err
  ELSE <<(CHOOSE pair \in mapping : pair[1] = name)[2]>>

(* find_collision_ranges: the run of used slots around slot i, and the run *)
(* at the other end of the table if the first one touches an end.          *)
CollisionRanges(hashes, i) ==
  LET Size == Len(hashes)
      Used(S) == \A s \in S : hashes[s + 1] # 0
      Run == {s \in 0 .. Size - 1 : Used(s .. i) /\ Used(i .. s)}
      AtFront == {s \in 0 .. Size - 1 : Used(0 .. s)}
      AtBack == {s \in 0 .. Size - 1 : Used(s .. Size - 1)}
  IN IF Run = 0 .. Size - 1 THEN <<Run, {}>>
     ELSE IF 0 \in Run THEN <<Run, AtBack>>
     ELSE IF Size - 1 \in Run THEN <<Run, AtFront>>
     ELSE <<Run, {}>>

-----------------------------------------------------------------------------
(* After a rebuild every reference that the mapping resolves means the     *)
(* string it meant.  A reference to a string that was there twice may be   *)
(* refused, but never for all of the copies.  The first string of a stream *)
(* is taken to be the empty one: offset 0 is not looked up.                *)
MappingKeepsStrings(s, r) ==
  \A i \in Named(s.strings) \ {0} :
    LET Copies == {j \in Named(s.strings) :
                     StringAt(s.strings, j) = StringAt(s.strings, i)}
        New == MapOldToNew(r.mapping, i)
    IN /\ New # Err => StringAt(r.stream.strings, New[1]) = StringAt(s.strings, i)
       /\ New = Err => \E j \in Copies : MapOldToNew(r.mapping, j) # Err

(* Every string is found by probing from the slot of its hash, before an   *)
(* empty slot and within one round, and each entry of the table lies in    *)
(* the run of collisions that holds its home slot, the runs that go round  *)
(* the end of the table included.                                          *)
HashesFindStrings(s, hash) ==
  \A i \in Named(s.strings) :
    LET Size == Len(s.hashes)
        Home == hash[StringAt(s.strings, i)] % Size
        Slot(d) == (Home + d) % Size
    IN \E d \in 0 .. Size - 1 :
         /\ s.hashes[Slot(d) + 1] = i
         /\ \A e \in 0 .. d : s.hashes[Slot(e) + 1] # 0
         /\ \E run \in {CollisionRanges(s.hashes, Slot(d))[n] : n \in 1 .. 2} :
              Home \in run

(* Rebuilding the Names stream loses nothing: the references keep their    *)
(* meaning, the hashes lead to the strings, and rebuilding once more       *)
(* changes nothing and maps every string to itself.                        *)
RebuildKeepsNames(s, hash, keep) ==
  LET NamesIn(strings) == {StringAt(strings, i) : i \in Named(strings)}
      Kept(r, again) ==
        /\ Parse(r.stream) = <<r.stream>>
        /\ MappingKeepsStrings(s, r)
        /\ NamesIn(r.stream.strings) = NamesIn(s.strings)
        /\ HashesFindStrings(r.stream, hash)
        /\ again.stream = r.stream
        /\ \A pair \in again.mapping : pair[1] = pair[2]
      KeptBy(r) == Kept(r, Rebuild(r.stream, hash, keep))
  IN s.strings # <<>> => KeptBy(Rebuild(s, hash, keep))
=============================================================================

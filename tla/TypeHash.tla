------------------------------ MODULE TypeHash ------------------------------
(***************************************************************************)
(* The hash of a type record (pdb/src/tpi/hash.rs), by which the hash      *)
(* stream of the type stream groups the records: a definition that the     *)
(* whole program can name goes by its name, any other record by its bytes. *)
(*                                                                         *)
(* A record is a record of its kind and its data.                          *)
(***************************************************************************)
EXTENDS TypeStream

(* UdtProperties::fwdref and scoped.                                       *)
Property(data, bit) == (U16At(data, 2) \div 2 ^ bit) % 2 = 1

ForwardRef(data) == Property(data, 7)

Scoped(data) == Property(data, 8)

(* is_udt_anon_name.  The two spellings of an unnamed tag stand as one.    *)
UnnamedTag == <<60, 62>>

Anonymous(name) == name = UnnamedTag \/ IsSuffix(<<58, 58>> \o UnnamedTag, name)

RecordBytes(r) == PutU16(2 + Len(r.data)) \o PutU16(r.kind) \o r.data

HashBytes(r) == HashSig(RecordBytes(r), {})

(* hash_udt_name, for the parsed fields of a record.                       *)
HashUdt(r, fields) ==
  LET Name == Field(fields, "name")
  IN IF ForwardRef(r.data) \/ Anonymous(Name) THEN HashBytes(r)
     ELSE IF ~Scoped(r.data) THEN HashU32(Name)
     ELSE IF HasField(fields, "strz") THEN HashU32(Field(fields, "strz"))
     ELSE HashBytes(r)

Udts ==
  {Leaf.LF_CLASS, Leaf.LF_STRUCTURE, Leaf.LF_INTERFACE, Leaf.LF_UNION, Leaf.LF_ENUM}

(* hash_type_record.                                                       *)
HashType(r) ==
  LET Of(parsed) ==
        IF parsed = Err THEN Err
        ELSE IF r.kind \in Udts THEN <<HashUdt(r, parsed[1])>>
        ELSE IF r.kind = Leaf.LF_ALIAS THEN <<HashU32(Field(parsed[1], "name"))>>
        ELSE IF r.kind \in {Leaf.LF_UDT_SRC_LINE, Leaf.LF_UDT_MOD_SRC_LINE}
             THEN <<HashU32(Field(parsed[1], "type"))>>
        ELSE <<HashBytes(r)>>
  IN Of(ParseFields(TypeLayout(r.kind, r.data), r.data))

-----------------------------------------------------------------------------
(* A lookup by name meets every definition of the name, of whatever kind   *)
(* and with whatever members, and no forward reference to it; two records  *)
(* that differ in one byte, and that are not found by a name, differ in    *)
(* their hashes.                                                           *)
NameOf(r) == Field(ParseFields(TypeLayout(r.kind, r.data), r.data)[1], "name")

GlobalDefinition(r) ==
  /\ r.kind \in Udts /\ HashType(r) # Err
  /\ ~ForwardRef(r.data) /\ ~Scoped(r.data) /\ ~Anonymous(NameOf(r))

DifferInOneByte(a, b) ==
  Len(a) = Len(b) /\ Cardinality({i \in DOMAIN a : a[i] # b[i]}) = 1

DefinitionsMeet(r, s) ==
  LET Meet(rHash, sHash) ==
        /\ GlobalDefinition(r) /\ s.kind \in Udts =>
             IF GlobalDefinition(s) THEN NameOf(r) = NameOf(s) => rHash = sHash
             ELSE ForwardRef(s.data) => rHash # sHash
        /\ /\ rHash = <<HashBytes(r)>> /\ sHash = <<HashBytes(s)>>
           /\ DifferInOneByte(RecordBytes(r), RecordBytes(s))
           => rHash # sHash
  IN Meet(HashType(r), HashType(s))
=============================================================================

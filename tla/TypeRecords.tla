---------------------------- MODULE TypeRecords ----------------------------
(***************************************************************************)
(* The records of types and items (codeview/src/types.rs and types/) and   *)
(* the visitor (types/visitor.rs), through which a tool sees or rewrites   *)
(* every index in a record without parsing it.  The two know the layouts   *)
(* of the records independently of each other.                             *)
(***************************************************************************)
EXTENDS CodeView

(* Leaf: the kinds of records and, below, of the fields of a field list.   *)
Leaf == [
  LF_VTSHAPE |-> \h000a, LF_LABEL |-> \h000e, LF_ENDPRECOMP |-> \h0014,
  LF_MODIFIER |-> \h1001, LF_POINTER |-> \h1002, LF_PROCEDURE |-> \h1008,
  LF_MFUNCTION |-> \h1009, LF_VFTPATH |-> \h100d, LF_SKIP |-> \h1200,
  LF_ARGLIST |-> \h1201, LF_FIELDLIST |-> \h1203, LF_DERIVED |-> \h1204,
  LF_BITFIELD |-> \h1205, LF_METHODLIST |-> \h1206, LF_DIMCONU |-> \h1207,
  LF_DIMCONLU |-> \h1208, LF_DIMVARU |-> \h1209, LF_ARRAY |-> \h1503,
  LF_CLASS |-> \h1504, LF_STRUCTURE |-> \h1505, LF_UNION |-> \h1506,
  LF_ENUM |-> \h1507, LF_PRECOMP |-> \h1509, LF_ALIAS |-> \h150a,
  LF_INTERFACE |-> \h1519, LF_VFTABLE |-> \h151d, LF_FUNC_ID |-> \h1601,
  LF_MFUNC_ID |-> \h1602, LF_BUILDINFO |-> \h1603, LF_SUBSTR_LIST |-> \h1604,
  LF_STRING_ID |-> \h1605, LF_UDT_SRC_LINE |-> \h1606,
  LF_UDT_MOD_SRC_LINE |-> \h1607, LF_CLASS2 |-> \h1608,
  LF_STRUCTURE2 |-> \h1609, LF_UNION2 |-> \h160a, LF_INTERFACE2 |-> \h160b,
  LF_FRIENDCLS |-> \h040b, LF_BCLASS |-> \h1400, LF_VBCLASS |-> \h1401,
  LF_IVBCLASS |-> \h1402, LF_INDEX |-> \h1404, LF_VFUNCTAB |-> \h1409,
  LF_VFUNCOFF |-> \h140c, LF_ENUMERATE |-> \h1502, LF_FRIENDFCN |-> \h150c,
  LF_MEMBER |-> \h150d, LF_STMEMBER |-> \h150e, LF_METHOD |-> \h150f,
  LF_NESTEDTYPE |-> \h1510, LF_ONEMETHOD |-> \h1511, LF_NESTEDTYPEEX |-> \h1512]

Repeated(n, role) == [i \in 1 .. n |-> role]

(* A count in front of a list, 0 if there is not even that.                *)
Count16(data) == IF Len(data) < 2 THEN 0 ELSE U16At(data, 0)

Count32(data) == IF Len(data) < 4 THEN 0 ELSE U32At(data, 0)

(* introduces_virtual: the kinds of methods that bring a slot of a table.  *)
IntroducesVirtual(attr) == (attr \div 4) % 16 \in {4, 6}

(* UdtProperties::hasuniquename, of the properties behind the count.       *)
UniqueName(data) ==
  IF Len(data) >= 4 /\ (U16At(data, 2) \div 512) % 2 = 1 THEN <<"strz">> ELSE <<>>

(* types/records.rs: the structures with their from_parser.                *)
Enum(data) == <<"u16", "u16", "type", "type", "name">> \o UniqueName(data)

Array == <<"type", "type", "number", "name">>

Struct(data) ==
  <<"u16", "u16", "type", "type", "type", "number", "name">> \o UniqueName(data)

UnionType(data) == <<"u16", "u16", "type", "number", "name">> \o UniqueName(data)

TypeModifier == <<"type", "u16">>

Bitfield == <<"type", "u8", "u8">>

Procedure == <<"type", "u8", "u8", "u16", "type">>

MemberFunc == <<"type", "type", "type", "u8", "u8", "u16", "type", "u32">>

VTableShape == <<"u16", "rest">>

Pointer == <<"type", "u32", "rest">>

ArgList(data) == <<"u32">> \o Repeated(Count32(data), "type")

Alias == <<"type", "name">>

UdtSrcLine == <<"type", "name_index", "u32">>

UdtModSrcLine == <<"type", "name_index", "u32", "u16">>

(* The hash of the decorated name is there if eight bytes are left.        *)
WithNameHash(fixed, data) ==
  LET Named == ParseFields(fixed, data)
  IN IF Named # Err /\ Len(Named[2]) >= 8 THEN Append(fixed, "u64") ELSE fixed

FuncId(data) == WithNameHash(<<"item", "type", "name">>, data)

MFuncId(data) == WithNameHash(<<"type", "type", "name">>, data)

StringId == <<"item", "name">>

SubStrList(data) == <<"u32">> \o Repeated(Count32(data), "item")

BuildInfoRecord(data) == <<"u16">> \o Repeated(Count16(data), "item")

VFTable == <<"type", "type", "u32", "u16">>

(* One entry of LF_METHODLIST (MethodList::next), with the bytes in front. *)
MethodEntry(rest) ==
  <<"u16", "u16", "type">>
    \o IF IntroducesVirtual(Count16(rest)) THEN <<"u32">> ELSE <<>>

(* Field::parse and the structures of types/fields.rs, behind the kind.    *)
FieldLayout(kind, rest) ==
  CASE kind = Leaf.LF_BCLASS -> <<"u16", "type", "number">>
    [] kind = Leaf.LF_VBCLASS -> <<"u16", "type", "type", "number", "number">>
    [] kind = Leaf.LF_IVBCLASS -> <<"u16", "type", "type", "number", "number">>
    [] kind = Leaf.LF_ENUMERATE -> <<"u16", "number", "name">>
    [] kind = Leaf.LF_FRIENDFCN -> <<"u16", "type", "name">>
    [] kind = Leaf.LF_INDEX -> <<"u16", "type">>
    [] kind = Leaf.LF_MEMBER -> <<"u16", "type", "number", "name">>
    [] kind = Leaf.LF_STMEMBER -> <<"u16", "type", "name">>
    [] kind = Leaf.LF_METHOD -> <<"u16", "type", "name">>
    [] kind = Leaf.LF_NESTEDTYPE -> <<"u16", "type", "name">>
    [] kind = Leaf.LF_VFUNCTAB -> <<"u16", "type">>
    [] kind = Leaf.LF_FRIENDCLS -> <<"u16", "type">>
    [] kind = Leaf.LF_ONEMETHOD ->
         <<"u16", "type">>
           \o (IF IntroducesVirtual(Count16(rest)) THEN <<"u32">> ELSE <<>>)
           \o <<"name">>
    [] kind = Leaf.LF_VFUNCOFF -> <<"u16", "type", "u32">>
    [] kind = Leaf.LF_NESTEDTYPEEX -> <<"u16", "type", "name">>
    [] OTHER -> <<>>

(* An item of a list of records in a record: where it ends, and its fields *)
(* with their places in the whole.                                         *)
Placed(fields, at) == [i \in DOMAIN fields |-> [fields[i] EXCEPT !.at = @ + at]]

ItemOf(b, at, parsed) ==
  IF parsed = Err THEN Err
  ELSE <<[end |-> Len(b) - Len(parsed[2]), fields |-> Placed(parsed[1], at)]>>

(* MethodList::next.                                                       *)
MethodAt(b, at) ==
  IF at = Len(b) THEN Err
  ELSE ItemOf(b, at, ParseFields(MethodEntry(Drop(b, at)), Drop(b, at)))

MethodsOf(b) == ItemsFrom(b, 0, MethodAt)

(* The bytes 0xf0 and above in front of a field are padding.               *)
PaddingLen(rest) ==
  Min({n \in 0 .. Len(rest) : n = Len(rest) \/ rest[n + 1] < 240})

(* IterFields::next: nothing at the end, and at a field that is not known  *)
(* or cannot be parsed.                                                    *)
FieldAt(b, at) ==
  LET Known(start, kind, layout, rest) ==
        IF layout = <<>> \/ ParseFields(layout, rest) = Err THEN Err
        ELSE <<[kind |-> kind] @@ ItemOf(b, start, ParseFields(layout, rest))[1]>>
      At(start) ==
        IF Len(b) < start THEN Err
        ELSE Known(start, U16At(b, start - 2),
                   FieldLayout(U16At(b, start - 2), Drop(b, start)), Drop(b, start))
  IN At(at + PaddingLen(Drop(b, at)) + 2)

Fields(b) == ItemsFrom(b, 0, FieldAt)

(* TypeData::parse: the layout of a record, <<>> for the lists of records  *)
(* and for the kinds that it does not know.                                *)
TypeLayout(kind, data) ==
  CASE kind = Leaf.LF_ARRAY -> Array
    [] kind \in {Leaf.LF_CLASS, Leaf.LF_STRUCTURE, Leaf.LF_INTERFACE} -> Struct(data)
    [] kind = Leaf.LF_UNION -> UnionType(data)
    [] kind = Leaf.LF_ENUM -> Enum(data)
    [] kind = Leaf.LF_PROCEDURE -> Procedure
    [] kind \in {Leaf.LF_MFUNCTION, Leaf.LF_MEMBER} -> MemberFunc
    [] kind = Leaf.LF_VTSHAPE -> VTableShape
    [] kind = Leaf.LF_VFTABLE -> VFTable
    [] kind = Leaf.LF_POINTER -> Pointer
    [] kind = Leaf.LF_MODIFIER -> TypeModifier
    [] kind = Leaf.LF_BITFIELD -> Bitfield
    [] kind = Leaf.LF_ARGLIST -> ArgList(data)
    [] kind = Leaf.LF_ALIAS -> Alias
    [] kind = Leaf.LF_UDT_SRC_LINE -> UdtSrcLine
    [] kind = Leaf.LF_UDT_MOD_SRC_LINE -> UdtModSrcLine
    [] kind = Leaf.LF_FUNC_ID -> FuncId(data)
    [] kind = Leaf.LF_MFUNC_ID -> MFuncId(data)
    [] kind = Leaf.LF_STRING_ID -> StringId
    [] kind = Leaf.LF_SUBSTR_LIST -> SubStrList(data)
    [] kind = Leaf.LF_BUILDINFO -> BuildInfoRecord(data)
    [] OTHER -> <<>>

(* All the fields of a record, with those of the records of a list.        *)
ParsedFields(kind, data) ==
  LET AllOf(items) == <<FlattenSeq([i \in DOMAIN items |-> items[i].fields])>>
      Parsed == ParseFields(TypeLayout(kind, data), data)
  IN IF kind = Leaf.LF_FIELDLIST THEN AllOf(Fields(data))
     ELSE IF kind = Leaf.LF_METHODLIST THEN AllOf(MethodsOf(data))
     ELSE IF Parsed = Err THEN Err ELSE <<Parsed[1]>>

-----------------------------------------------------------------------------
(* visit_type_indexes_in_record.                                           *)

(* The pointer to a member (mode 2) or a method (mode 3) has a class too.  *)
VisitedPointer(data) ==
  LET Mode == IF Len(data) < 8 THEN 0 ELSE (data[5] \div 32) % 8
  IN <<"type", "u32">> \o IF Mode \in {2, 3} THEN <<"type">> ELSE <<>>

VisitedStruct == <<"u16", "u16", "type", "type", "type">>

Visited2 == <<"u32", "type", "type", "type">>

(* The records without indices, and those that are not known: an error.    *)
VisitedEmpty ==
  {Leaf.LF_LABEL, Leaf.LF_VTSHAPE, Leaf.LF_PRECOMP, Leaf.LF_ENDPRECOMP, Leaf.LF_SKIP}

NotVisited == <<"error">>

VisitLayout(kind, data) ==
  CASE kind \in VisitedEmpty -> <<>>
    [] kind \in {Leaf.LF_MODIFIER, Leaf.LF_ALIAS, Leaf.LF_BITFIELD,
                 Leaf.LF_DIMCONU, Leaf.LF_DIMCONLU} -> <<"type">>
    [] kind = Leaf.LF_POINTER -> VisitedPointer(data)
    [] kind \in {Leaf.LF_ARRAY, Leaf.LF_VFTABLE, Leaf.LF_MFUNC_ID} -> <<"type", "type">>
    [] kind \in {Leaf.LF_CLASS, Leaf.LF_STRUCTURE} -> VisitedStruct
    [] kind = Leaf.LF_ENUM -> <<"u16", "u16", "type", "type">>
    [] kind = Leaf.LF_UNION -> <<"u16", "u16", "type">>
    [] kind = Leaf.LF_PROCEDURE -> <<"type", "u32", "type">>
    [] kind = Leaf.LF_MFUNCTION -> <<"type", "type", "type", "u32", "type">>
    [] kind \in {Leaf.LF_ARGLIST, Leaf.LF_DERIVED, Leaf.LF_VFTPATH} ->
         <<"u32">> \o Repeated(Count32(data), "type")
    [] kind = Leaf.LF_DIMVARU -> <<"u32", "type">> \o Repeated(Count32(data), "type")
    [] kind \in {Leaf.LF_CLASS2, Leaf.LF_STRUCTURE2, Leaf.LF_UNION2, Leaf.LF_INTERFACE2} ->
         Visited2
    [] kind = Leaf.LF_FUNC_ID -> <<"item", "type">>
    [] kind = Leaf.LF_BUILDINFO -> <<"u16">> \o Repeated(Count16(data), "item")
    [] kind = Leaf.LF_SUBSTR_LIST -> <<"u32">> \o Repeated(Count32(data), "item")
    [] kind = Leaf.LF_STRING_ID -> <<"item">>
    [] kind \in {Leaf.LF_UDT_SRC_LINE, Leaf.LF_UDT_MOD_SRC_LINE} -> <<"type", "name_index">>
    [] OTHER -> NotVisited

NamedFields ==
  {Leaf.LF_FRIENDFCN, Leaf.LF_STMEMBER, Leaf.LF_METHOD, Leaf.LF_NESTEDTYPE,
   Leaf.LF_NESTEDTYPEEX}

(* Slip: the slot of a method that brings one is not stepped over.         *)
VisitedFieldNoSlot(kind, rest) ==
  IF kind = Leaf.LF_ONEMETHOD THEN <<"u16", "type", "strz">> ELSE FieldLayout(kind, rest)

VisitedField(kind, rest) ==
  CASE kind = Leaf.LF_BCLASS -> <<"u16", "type", "number">>
    [] kind \in {Leaf.LF_VBCLASS, Leaf.LF_IVBCLASS} ->
         <<"u16", "type", "type", "number", "number">>
    [] kind = Leaf.LF_ENUMERATE -> <<"u16", "number", "strz">>
    [] kind \in NamedFields -> <<"u16", "type", "strz">>
    [] kind \in {Leaf.LF_INDEX, Leaf.LF_VFUNCTAB, Leaf.LF_FRIENDCLS} -> <<"u16", "type">>
    [] kind = Leaf.LF_MEMBER -> <<"u16", "type", "number", "strz">>
    [] kind = Leaf.LF_ONEMETHOD ->
         <<"u16", "type">>
           \o (IF IntroducesVirtual(Count16(rest)) THEN <<"u32">> ELSE <<>>)
           \o <<"strz">>
    [] kind = Leaf.LF_VFUNCOFF -> <<"u16", "type", "u32">>
    [] OTHER -> <<>>

(* An item of a list that fails to parse: the visitor fails, where the     *)
(* iterators end.                                                          *)
Failed(b) == <<[end |-> Len(b), fields |-> Err]>>

OrFailed(b, item) == IF item = Err THEN Failed(b) ELSE item

VisitedFieldAt(b, at) ==
  LET Known(start, layout) ==
        IF layout = <<>> THEN Err
        ELSE OrFailed(b, ItemOf(b, start, ParseFields(layout, Drop(b, start))))
      At(start) ==
        IF start = Len(b) + 2 THEN Err
        ELSE IF Len(b) < start THEN Failed(b)
        ELSE Known(start, VisitedField(U16At(b, start - 2), Drop(b, start)))
  IN At(at + PaddingLen(Drop(b, at)) + 2)

VisitedMethodAt(b, at) ==
  IF at = Len(b) THEN Err ELSE OrFailed(b, MethodAt(b, at))

(* What the visitor goes through, or Err if it fails.                      *)
VisitedFields(kind, data) ==
  LET Parsed == ParseFields(VisitLayout(kind, data), data)
      Joined(items) ==
        IF \E i \in DOMAIN items : items[i].fields = Err THEN Err
        ELSE <<FlattenSeq([i \in DOMAIN items |-> items[i].fields])>>
  IN IF kind = Leaf.LF_FIELDLIST THEN Joined(ItemsFrom(data, 0, VisitedFieldAt))
     ELSE IF kind = Leaf.LF_METHODLIST THEN Joined(ItemsFrom(data, 0, VisitedMethodAt))
     ELSE IF VisitLayout(kind, data) = NotVisited \/ Parsed = Err THEN Err
     ELSE <<Parsed[1]>>

IndexRoles == {"type", "item", "name_index"}

Indices(fields) == SelectSeq(fields, LAMBDA f : f.role \in IndexRoles)

(* visit_type_indexes_in_record_slice_mut: each of the indices that the    *)
(* visitor goes through is replaced by its new value.                      *)
Remapped(data, indices, new) ==
  LET Put(b, i) == Take(b, indices[i].at) \o new[i] \o Drop(b, indices[i].at + 4)
  IN FoldLeft(Put, data, [i \in DOMAIN new |-> i])

-----------------------------------------------------------------------------
(* The visitor sees the indices of a record that its parser sees, each     *)
(* once, and those of a pointer to a member, which the parser leaves       *)
(* alone, behind them; and it changes the indices only: after a rewriting  *)
(* the record has the same fields with the indices replaced.  A tool that  *)
(* remaps types leaves no index behind and writes over nothing else.       *)
VisitsWhatIsParsed(kind, data, New(_, _)) ==
  LET Changed(f) == IF f.role \in IndexRoles
                    THEN [f EXCEPT !.value = New(f.role, @)] ELSE f
      Rewritten(indices) ==
        Remapped(data, indices, [i \in DOMAIN indices |-> Changed(indices[i]).value])
      Agree(parsed, visited) ==
        /\ parsed # Err /\ visited # Err
        /\ IF kind = Leaf.LF_POINTER
           THEN IsPrefix(Indices(parsed[1]), Indices(visited[1]))
           ELSE /\ Indices(visited[1]) = Indices(parsed[1])
                /\ ParsedFields(kind, Rewritten(Indices(visited[1]))) =
                     <<[i \in DOMAIN parsed[1] |-> Changed(parsed[1][i])]>>
  IN Agree(ParsedFields(kind, data), VisitedFields(kind, data))
=============================================================================

--------------------------- MODULE SymbolRecords ---------------------------
(***************************************************************************)
(* The records of symbols (codeview/src/syms.rs, syms/kind.rs): for each   *)
(* kind its layout, and what is read out of it.                            *)
(***************************************************************************)
EXTENDS CodeView

(* SymKind: the kinds that the code tells apart.                           *)
Kind == [
  S_END |-> \h0006, S_PUB32_ST |-> \h1009, S_LPROC32_ST |-> \h100a,
  S_GPROC32_ST |-> \h100b, S_FRAMEPROC |-> \h1012, S_ANNOTATION |-> \h1019,
  S_OBJNAME |-> \h1101, S_THUNK32 |-> \h1102, S_BLOCK32 |-> \h1103,
  S_LABEL32 |-> \h1105, S_CONSTANT |-> \h1107, S_UDT |-> \h1108,
  S_LDATA32 |-> \h110c, S_GDATA32 |-> \h110d, S_PUB32 |-> \h110e,
  S_LPROC32 |-> \h110f, S_GPROC32 |-> \h1110, S_REGREL32 |-> \h1111,
  S_LTHREAD32 |-> \h1112, S_GTHREAD32 |-> \h1113, S_LMANDATA |-> \h111c,
  S_GMANDATA |-> \h111d, S_UNAMESPACE |-> \h1124, S_PROCREF |-> \h1125,
  S_DATAREF |-> \h1126, S_LPROCREF |-> \h1127, S_ANNOTATIONREF |-> \h1128,
  S_TOKENREF |-> \h1129, S_GMANPROC |-> \h112a, S_LMANPROC |-> \h112b,
  S_TRAMPOLINE |-> \h112c, S_MANCONSTANT |-> \h112d, S_SEPCODE |-> \h1132,
  S_SECTION |-> \h1136, S_COFFGROUP |-> \h1137, S_CALLSITEINFO |-> \h1139,
  S_FRAMECOOKIE |-> \h113a, S_COMPILE3 |-> \h113c, S_LOCAL |-> \h113e,
  S_DEFRANGE |-> \h113f, S_DEFRANGE_REGISTER |-> \h1141,
  S_DEFRANGE_FRAMEPOINTER_REL |-> \h1142,
  S_DEFRANGE_SUBFIELD_REGISTER |-> \h1143,
  S_DEFRANGE_FRAMEPOINTER_REL_FULL_SCOPE |-> \h1144,
  S_DEFRANGE_REGISTER_REL |-> \h1145, S_LPROC32_ID |-> \h1146,
  S_GPROC32_ID |-> \h1147, S_BUILDINFO |-> \h114c, S_INLINESITE |-> \h114d,
  S_INLINESITE_END |-> \h114e, S_PROC_ID_END |-> \h114f,
  S_LPROC32_DPC |-> \h1155, S_LPROC32_DPC_ID |-> \h1156,
  S_ARMSWITCHTABLE |-> \h1159, S_CALLEES |-> \h115a, S_CALLERS |-> \h115b,
  S_INLINESITE2 |-> \h115d, S_HEAPALLOCSITE |-> \h115e,
  S_INLINEES |-> \h1168, S_HOTPATCHFUNC |-> \h1169]

OffsetSegment == <<"offset", "segment">>

BlockHeader == <<"parent", "end">>

Proc ==
  BlockHeader \o <<"next", "length", "u32", "u32", "type">>
    \o OffsetSegment \o <<"u8", "name">>

(* The two structures of a managed procedure.  They differ by one byte of  *)
(* padding before the register.                                            *)
ManagedProc ==
  BlockHeader \o <<"next", "length", "u32", "u32", "token">>
    \o OffsetSegment \o <<"u8", "u16", "name">>

ManProcSym ==
  BlockHeader \o <<"next", "length", "u32", "u32", "token">>
    \o OffsetSegment \o <<"u8", "u8", "u16", "name">>

Thunk == BlockHeader \o <<"next">> \o OffsetSegment \o <<"u16", "u8", "name", "rest">>

Pub == <<"flags">> \o OffsetSegment \o <<"name">>

PubSt == <<"flags">> \o OffsetSegment \o <<"strt">>

Constant == <<"type", "number", "name">>

RefSym2 == <<"checksum", "symbolOffset", "module", "name">>

ThreadStorageData == <<"type">> \o OffsetSegment \o <<"name">>

Data == <<"type">> \o OffsetSegment \o <<"name">>

Udt == <<"type", "name">>

ObjectName == <<"u32", "name">>

Compile3 == <<"flags">> \o [i \in 1 .. 9 |-> "u16"] \o <<"strz">>

FrameProc == <<"u32", "u32", "u32", "u32", "u32", "u16", "u16", "u32">>

RegRel == <<"u32", "type", "u16", "name">>

Block == BlockHeader \o <<"length">> \o OffsetSegment \o <<"name">>

Local == <<"type", "flags16", "name">>

LVarAddrRange == OffsetSegment \o <<"u16">>

DefRange == <<"u32">> \o LVarAddrRange \o <<"gaps">>

DefRangeRegister == <<"u16", "u16", "rest">>

DefRangeRegisterRel == <<"u16", "u16", "u32">> \o LVarAddrRange \o <<"rest">>

DefRangeFramePointerRelFullScope == <<"u32">>

DefRangeSubFieldRegister == <<"u16", "u16", "u32">> \o LVarAddrRange \o <<"rest">>

Trampoline == <<"u16", "u16", "u32", "u32", "segment", "segment", "rest">>

BuildInfo == <<"item">>

UsingNamespace == <<"strz">>

Label == OffsetSegment \o <<"u8", "name">>

FunctionList == <<"functions">>

InlineSite == BlockHeader \o <<"item", "rest">>

InlineSite2 == BlockHeader \o <<"item", "u32", "rest">>

FrameCookie == <<"u32", "u16", "u8", "u8">>

CallSiteInfo == OffsetSegment \o <<"u16", "type">>

HeapAllocSite == OffsetSegment \o <<"u16", "type">>

Annotation == OffsetSegment \o <<"u16", "rest">>

HotPatchFunc == <<"item", "name">>

ArmSwitchTable == <<"u32", "segment", "u16", "u32", "u32", "segment", "segment", "u32">>

CoffGroup == <<"u32", "u32">> \o OffsetSegment \o <<"name">>

Section == <<"segment", "u8", "u8", "u32", "u32", "u32", "name">>

(* SymData::from_parser: the layout by which a kind is parsed; <<>> for the*)
(* kinds without fields and for those that it does not know.               *)
RefKinds == {Kind.S_PROCREF, Kind.S_LPROCREF, Kind.S_DATAREF, Kind.S_ANNOTATIONREF}

DataKinds == {Kind.S_LDATA32, Kind.S_GDATA32, Kind.S_LMANDATA, Kind.S_GMANDATA}

ThreadKinds == {Kind.S_LTHREAD32, Kind.S_GTHREAD32}

ManProcKinds == {Kind.S_GMANPROC, Kind.S_LMANPROC}

SymLayout(kind) ==
  CASE kind = Kind.S_OBJNAME -> ObjectName
    [] kind \in {Kind.S_GPROC32, Kind.S_LPROC32} -> Proc
    [] kind = Kind.S_THUNK32 -> Thunk
    [] kind = Kind.S_COMPILE3 -> Compile3
    [] kind = Kind.S_UDT -> Udt
    [] kind \in {Kind.S_CONSTANT, Kind.S_MANCONSTANT} -> Constant
    [] kind = Kind.S_PUB32 -> Pub
    [] kind = Kind.S_PUB32_ST -> PubSt
    [] kind \in RefKinds -> RefSym2
    [] kind \in DataKinds -> Data
    [] kind \in ThreadKinds -> ThreadStorageData
    [] kind = Kind.S_FRAMEPROC -> FrameProc
    [] kind = Kind.S_REGREL32 -> RegRel
    [] kind = Kind.S_BLOCK32 -> Block
    [] kind = Kind.S_LOCAL -> Local
    [] kind \in {Kind.S_DEFRANGE, Kind.S_DEFRANGE_FRAMEPOINTER_REL} -> DefRange
    [] kind = Kind.S_DEFRANGE_REGISTER -> DefRangeRegister
    [] kind = Kind.S_DEFRANGE_REGISTER_REL -> DefRangeRegisterRel
    [] kind = Kind.S_DEFRANGE_FRAMEPOINTER_REL_FULL_SCOPE ->
         DefRangeFramePointerRelFullScope
    [] kind = Kind.S_DEFRANGE_SUBFIELD_REGISTER -> DefRangeSubFieldRegister
    [] kind = Kind.S_TRAMPOLINE -> Trampoline
    [] kind = Kind.S_BUILDINFO -> BuildInfo
    [] kind = Kind.S_UNAMESPACE -> UsingNamespace
    [] kind = Kind.S_LABEL32 -> Label
    [] kind \in {Kind.S_CALLEES, Kind.S_CALLERS, Kind.S_INLINEES} -> FunctionList
    [] kind = Kind.S_INLINESITE -> InlineSite
    [] kind = Kind.S_INLINESITE2 -> InlineSite2
    [] kind = Kind.S_FRAMECOOKIE -> FrameCookie
    [] kind = Kind.S_CALLSITEINFO -> CallSiteInfo
    [] kind = Kind.S_HEAPALLOCSITE -> HeapAllocSite
    [] kind \in ManProcKinds -> ManagedProc
    [] kind = Kind.S_ANNOTATION -> Annotation
    [] kind = Kind.S_HOTPATCHFUNC -> HotPatchFunc
    [] kind = Kind.S_ARMSWITCHTABLE -> ArmSwitchTable
    [] kind = Kind.S_COFFGROUP -> CoffGroup
    [] kind = Kind.S_SECTION -> Section
    [] OTHER -> <<>>

(* get_global_symbol_name (pdb/src/globals.rs): the layout by which the    *)
(* indices of global symbols read the name of a kind, <<>> for no name.    *)
GlobalLayout(kind) ==
  CASE kind = Kind.S_PUB32 -> Pub
    [] kind = Kind.S_CONSTANT -> Constant
    [] kind \in RefKinds -> RefSym2
    [] kind = Kind.S_UDT -> Udt
    [] kind \in DataKinds -> Data
    [] kind \in ThreadKinds -> ThreadStorageData
    [] kind \in ManProcKinds -> ManProcSym
    [] OTHER -> <<>>

(* SymKind::starts_scope, is_proc, ends_scope.                             *)
StartsScope ==
  {Kind.S_GPROC32, Kind.S_LPROC32, Kind.S_LPROC32_DPC, Kind.S_LPROC32_DPC_ID,
   Kind.S_GPROC32_ID, Kind.S_BLOCK32, Kind.S_THUNK32, Kind.S_INLINESITE,
   Kind.S_INLINESITE2, Kind.S_SEPCODE} \cup ManProcKinds

IsProc ==
  {Kind.S_GPROC32, Kind.S_GPROC32_ID, Kind.S_GPROC32_ST, Kind.S_LPROC32,
   Kind.S_LPROC32_DPC, Kind.S_LPROC32_DPC_ID, Kind.S_LPROC32_ID, Kind.S_LPROC32_ST}

EndsScope == {Kind.S_END, Kind.S_PROC_ID_END, Kind.S_INLINESITE_END}
=============================================================================

----------------------------- MODULE ProcQuery -----------------------------
(***************************************************************************)
(* The query get_proc of the server (pdb-mcp/src/tools/proc.rs): from a    *)
(* name, or a module and an offset, to a procedure, and from there through *)
(* the symbols behind it to its parameters, locals, blocks and inlined     *)
(* functions.                                                              *)
(*                                                                         *)
(* A PDB is a record: modules (the streams of symbols, each beginning with *)
(* a signature), gss and gsi.                                              *)
(***************************************************************************)
EXTENDS GlobalIndexes

All == {"params", "locals", "blocks", "inlinees"}

(* resolve_proc_ref.  The index in a reference is 1 for the first module.  *)
ReferredTo(parsed) ==
  IF parsed = Err THEN Err
  ELSE <<"proc", Max({FieldU16(parsed[1], "module") - 1, 0}),
         FieldU32(parsed[1], "symbolOffset")>>

RefIn(found) ==
  IF found = Err \/ found = <<"none">> THEN found
  ELSE IF found[2].kind \notin RefKinds THEN <<"none">>
  ELSE ReferredTo(ParseFields(RefSym2, found[2].data))

ResolveProcRef(pdb, name) == RefIn(FindSymbol(pdb.gsi, pdb.gss, name))

(* Slip: what lies deeper than the procedure itself does not count.        *)
CollectedAtTop(acc, sym, show) ==
  LET Var == ParseFields(IF sym.kind = Kind.S_LOCAL THEN Local ELSE RegRel, sym.data)
      IsParam == sym.kind = Kind.S_LOCAL /\ FieldU16(Var[1], "flags16") % 2 = 1
      List == IF IsParam THEN "params" ELSE "locals"
  IN IF sym.kind \notin {Kind.S_LOCAL, Kind.S_REGREL32} \/ Var = Err \/ acc.depth > 0
     THEN acc
     ELSE IF List \notin show THEN acc
     ELSE [acc EXCEPT ![List] = Append(@, Field(Var[1], "name"))]

(* A variable, at any depth.  S_REGREL32 does not say whether it is a      *)
(* parameter.                                                              *)
Collected(acc, sym, show) ==
  LET Var == ParseFields(IF sym.kind = Kind.S_LOCAL THEN Local ELSE RegRel, sym.data)
      IsParam == sym.kind = Kind.S_LOCAL /\ FieldU16(Var[1], "flags16") % 2 = 1
      List == IF IsParam THEN "params" ELSE "locals"
  IN IF sym.kind \notin {Kind.S_LOCAL, Kind.S_REGREL32} \/ Var = Err THEN acc
     ELSE IF List \notin show THEN acc
     ELSE [acc EXCEPT ![List] = Append(@, Field(Var[1], "name"))]

InlineKinds == {Kind.S_INLINESITE, Kind.S_INLINESITE2}

(* The beginning of a scope: a block is listed with its depth, an inlined  *)
(* function with its id.                                                   *)
Entered(acc, sym, show) ==
  LET BlockFields == ParseFields(Block, sym.data)
      Site == ParseFields(InlineSite, sym.data)
  IN [acc EXCEPT
        !.depth = @ + 1,
        !.blocks = IF sym.kind = Kind.S_BLOCK32 /\ "blocks" \in show /\ BlockFields # Err
                   THEN Append(@, <<acc.depth, Field(BlockFields[1], "name")>>) ELSE @,
        !.inlinees = IF sym.kind \in InlineKinds /\ "inlinees" \in show /\ Site # Err
                     THEN Append(@, FieldU32(Site[1], "item")) ELSE @]

(* The walk over the symbols behind the procedure: scopes are counted, and *)
(* the end of a scope at depth 0 is the end of the procedure.              *)
Step(acc, sym, show) ==
  IF acc.done THEN acc
  ELSE IF sym.kind \in EndsScope
       THEN IF acc.depth = 0 THEN [acc EXCEPT !.done = TRUE]
            ELSE [acc EXCEPT !.depth = @ - 1]
  ELSE IF sym.kind \in StartsScope THEN Entered(acc, sym, show)
  ELSE Collected(acc, sym, show)

ListsIn(acc) == [list \in All |-> acc[list]]

Walk(syms, show) ==
  ListsIn(FoldLeft(LAMBDA acc, sym : Step(acc, sym, show),
                   [done |-> FALSE, depth |-> 0, params |-> <<>>, locals |-> <<>>,
                    blocks |-> <<>>, inlinees |-> <<>>],
                   syms))

(* get_proc for a module and an offset.                                    *)
ProcBehind(bytes, module, sym, parsed, show) ==
  IF sym.kind \notin IsProc \/ parsed = Err THEN Err
  ELSE <<"proc", [module |-> module, name |-> Field(parsed[1], "name"),
                  lists |-> Walk(SymsFrom(bytes, sym.end), show)]>>

ProcIn(bytes, module, offset, show) ==
  LET Behind(sym) ==
        IF sym = Err THEN Err
        ELSE ProcBehind(bytes, module, sym[1], ParseFields(Proc, sym[1].data), show)
  IN IF bytes = <<>> \/ offset > Len(bytes) THEN Err ELSE Behind(SymAt(bytes, offset))

ProcAt(pdb, module, offset, show) ==
  ProcIn(IF module < Len(pdb.modules) THEN pdb.modules[module + 1] ELSE <<>>,
         module, offset, show)

(* get_proc for a name.                                                    *)
ProcNamed(pdb, name, show) ==
  LET ProcOf(ref) ==
        IF ref = Err \/ ref = <<"none">> THEN ref ELSE ProcAt(pdb, ref[2], ref[3], show)
  IN ProcOf(ResolveProcRef(pdb, name))

-----------------------------------------------------------------------------
(* What belongs to a procedure by the offsets that the symbols themselves  *)
(* hold: a scope reaches from its symbol to the one whose offset is in its *)
(* "end" field.                                                            *)
EndOf(sym) == FieldU32(ParseFields(BlockHeader, sym.data)[1], "end")

Inside(syms, proc) ==
  SelectSeq(syms, LAMBDA s : s.at > proc.at /\ s.at < EndOf(proc))

Depth(syms, proc, sym) ==
  Cardinality({s \in ToSet(Inside(syms, proc)) :
                 s.kind \in StartsScope /\ s.at < sym.at /\ sym.at < EndOf(s)})

NamesOf(syms, layout) ==
  [i \in DOMAIN syms |-> Field(ParseFields(layout, syms[i].data)[1], "name")]

ListsOf(syms, proc) ==
  LET In(kind) == SelectSeq(Inside(syms, proc), LAMBDA s : s.kind = kind)
      Flag(s) == FieldU16(ParseFields(Local, s.data)[1], "flags16") % 2
      Vars == SelectSeq(Inside(syms, proc),
                        LAMBDA s : \/ s.kind = Kind.S_REGREL32
                                   \/ s.kind = Kind.S_LOCAL /\ Flag(s) = 0)
      NameOf(s) ==
        Field(ParseFields(IF s.kind = Kind.S_LOCAL THEN Local ELSE RegRel, s.data)[1], "name")
  IN [params |-> NamesOf(SelectSeq(In(Kind.S_LOCAL), LAMBDA s : Flag(s) = 1), Local),
      locals |-> [i \in DOMAIN Vars |-> NameOf(Vars[i])],
      blocks |-> [i \in DOMAIN In(Kind.S_BLOCK32) |->
                    LET b == In(Kind.S_BLOCK32)[i]
                    IN <<Depth(syms, proc, b),
                         Field(ParseFields(Block, b.data)[1], "name")>>],
      inlinees |-> LET Sites == SelectSeq(Inside(syms, proc),
                                          LAMBDA s : s.kind \in InlineKinds)
                   IN [i \in DOMAIN Sites |->
                         FieldU32(ParseFields(InlineSite, Sites[i].data)[1], "item")]]

Namesakes(gss, name) ==
  {s \in ToSet(SymsFrom(gss, 0)) :
     GlobalName(s) # NoName /\ SameName(GlobalName(s)[2], name)}

(* What is answered for a name, given the right answer and the symbols     *)
(* that have the name.                                                     *)
AnswersName(answer, right, namesakes) ==
  /\ Cardinality(namesakes) = 1 => answer = right
  /\ answer = <<"none">> => \E s \in namesakes : s.kind \notin RefKinds
  /\ answer # Err

AnswersOffset(pdb, module, offset, right) ==
  \A show \in SUBSET All :
    ProcAt(pdb, module, offset, show) =
      [right EXCEPT ![2].lists =
         [list \in All |-> IF list \in show THEN @[list] ELSE <<>>]]

Answers(pdb, module, offset, right) ==
  /\ AnswersOffset(pdb, module, offset, right)
  /\ AnswersName(ProcNamed(pdb, right[2].name, All), right, Namesakes(pdb.gss, right[2].name))

ProcsFound(pdb, module, syms) ==
  \A proc \in {s \in ToSet(syms) : s.kind \in IsProc} :
    Answers(pdb, module, proc.at,
            <<"proc", [module |-> module, lists |-> ListsOf(syms, proc),
                       name |-> Field(ParseFields(Proc, proc.data)[1], "name")]>>)

(* A procedure that is found by its name is the one that has it, with what *)
(* lies between it and its end and nothing of another procedure.  Only if  *)
(* a symbol of another kind has the same name, in any case, may it hide    *)
(* the procedure.  Parameters and locals come from every depth, those of   *)
(* inlined functions too, whatever else is to be shown: the comment at     *)
(* proc.rs:183 says that it takes what is deeper only if locals are shown. *)
ProceduresFound(pdb) ==
  \A m \in DOMAIN pdb.modules : ProcsFound(pdb, m - 1, ModuleSyms(pdb.modules[m]))
=============================================================================

---------------------------- MODULE AddressQuery ----------------------------
(***************************************************************************)
(* The queries for addresses (pdb-mcp/src/tools/addr.rs): between relative *)
(* virtual addresses and places in sections, and from an address to the    *)
(* module, the procedure, the file and the line.                           *)
(*                                                                         *)
(* A PDB is a record: sections, contribs (the section contributions),      *)
(* modules (records of the bytes of their symbols and of their line data)  *)
(* and strings (those of the Names stream).                                *)
(***************************************************************************)
EXTENDS Dbi, LineData, SymbolStream

NotKnown == <<"none">>

(* rva_to_sec_off and rva_to_section: the first section that holds it.     *)
RvaToSecOff(sections, rva) ==
  LET Found == {i \in DOMAIN sections :
                  /\ rva >= sections[i].start
                  /\ rva < sections[i].start + sections[i].size}
  IN IF Found = {} THEN NotKnown
     ELSE <<Min(Found), rva - sections[Min(Found)].start>>

(* section_to_rva: any offset, also one beyond the section.                *)
SectionToRva(sections, section, offset) ==
  IF section \notin DOMAIN sections THEN NotKnown
  ELSE <<"rva", sections[section].start + offset>>

(* find_enclosing_proc: the first procedure that holds the address.        *)
EnclosingProc(syms, section, offset) ==
  LET ProcOf(s) == ParseFields(Proc, s.data)
      Holds(s) ==
        /\ s.kind \in IsProc /\ ProcOf(s) # Err
        /\ FieldU16(ProcOf(s)[1], "segment") = section
        /\ offset >= FieldU32(ProcOf(s)[1], "offset")
        /\ offset < FieldU32(ProcOf(s)[1], "offset") + FieldU32(ProcOf(s)[1], "length")
      Found == SelectSeq(ModuleSyms(syms), Holds)
  IN IF Found = <<>> THEN NotKnown ELSE <<"name", Field(ProcOf(Found[1])[1], "name")>>

(* Slip: the first line from the offset on is taken.                       *)
BestLineAbove(lines, rel) ==
  Min({i \in DOMAIN lines : lines[i].offset > rel} \cup {Len(lines) + 1})

(* The last of the lines of a block up to the first one beyond the offset; *)
(* 0 if there is none.                                                     *)
BestLine(lines, rel) ==
  Min({i \in DOMAIN lines : lines[i].offset > rel} \cup {Len(lines) + 1}) - 1

(* resolve_file_name.                                                      *)
FileName(b, strings, file) ==
  LET File == IF FindChecksums(b) = Err THEN Err ELSE GetFile(FindChecksums(b)[1], file)
  IN IF File = Err \/ GetString(strings, File[1].name) = Err THEN NotKnown
     ELSE <<"name", GetString(strings, File[1].name)[1]>>

(* The scan over the LINES subsections: those whose range holds the        *)
(* address, in order, and in each the blocks in order; the first block     *)
(* with a line at or before the address ends the scan.                     *)
FindLine(b, strings, section, offset) ==
  LET Holds(s) ==
        LET lines == ParseLines(s.data)[1]
        IN /\ ParseLines(s.data) # Err
           /\ lines.segment = section
           /\ offset >= lines.offset /\ offset < lines.offset + lines.size
      BlocksOf(s) ==
        LET lines == ParseLines(s.data)[1]
        IN [i \in DOMAIN Blocks(lines) |->
              [block |-> Blocks(lines)[i], rel |-> offset - lines.offset]]
      Held == SelectSeq(OfKind(b, LINES), Holds)
      Scanned == FlattenSeq([i \in DOMAIN Held |-> BlocksOf(Held[i])])
      Best(c) == BestLine(LinesOf(c.block), c.rel)
      Found == SelectSeq(Scanned, LAMBDA c : Best(c) \in DOMAIN LinesOf(c.block))
      Line == LinesOf(Found[1].block)[Best(Found[1])]
  IN IF Found = <<>> THEN NotKnown
     ELSE <<"line", FileName(b, strings, Found[1].block.file), Line.line,
            Found[1].rel - Line.offset>>

(* addr_to_line for a section and an offset.                               *)
AddrToLine(pdb, section, offset) ==
  LET Found == FindIndex(pdb.contribs, section, offset)
      Index == pdb.contribs[Found[1] + 1].module
      Module == pdb.modules[Index + 1]
  IN IF Found = <<>> THEN NotKnown
     ELSE IF Index >= Len(pdb.modules) THEN <<"module", Index>>
     ELSE <<"module", Index, EnclosingProc(Module.syms, section, offset),
            FindLine(Module.lines, pdb.strings, section, offset)>>

AddrToLineOfRva(pdb, rva) ==
  LET At == RvaToSecOff(pdb.sections, rva)
  IN IF At = NotKnown THEN NotKnown ELSE AddrToLine(pdb, At[1], At[2])

-----------------------------------------------------------------------------
(* A linked image is a sequence of pieces, each the code that one module   *)
(* contributed to one place: its section, offset and size, its module, the *)
(* name of its procedure (<<>> for none) and the sources of its lines: for *)
(* each of its files a block, a set of records of offset, line and file.   *)
(*                                                                         *)
(* What may be answered about a line: the nearest line before the address  *)
(* among those of a file, and none only if no file has one.  So it is the  *)
(* nearest of all if the piece has one file.  With several it need not be: *)
(* addr.rs:251 takes the first block that has a line before the address.   *)
RightLines(piece, offset) ==
  LET Earlier(block) == {l \in block : piece.offset + l.offset <= offset}
      Near(block) == CHOOSE l \in Earlier(block) : \A k \in Earlier(block) : k.offset <= l.offset
      AnswerOf(l) == <<"line", <<"name", l.file>>, l.line, offset - piece.offset - l.offset>>
      Tried == {block \in ToSet(piece.blocks) : Earlier(block) # {}}
  IN IF Tried = {} THEN {NotKnown} ELSE {AnswerOf(Near(block)) : block \in Tried}

RightAnswers(piece, offset) ==
  {<<"module", piece.module,
     IF piece.name = <<>> THEN NotKnown ELSE <<"name", piece.name>>,
     line>> : line \in RightLines(piece, offset)}

(* Every address of the image is answered with the module that contributed *)
(* it, its procedure, and a file and the line of that file that begins     *)
(* last at or before it; an address by its RVA gives the same answer as by *)
(* its section, and the two ways of naming it agree.                       *)
AddressesAnswered(pdb, image) ==
  \A i \in DOMAIN image :
    \A offset \in image[i].offset .. image[i].offset + image[i].size - 1 :
      LET rva == SectionToRva(pdb.sections, image[i].section, offset)
          Answer == AddrToLine(pdb, image[i].section, offset)
      IN /\ Answer \in RightAnswers(image[i], offset)
         /\ RvaToSecOff(pdb.sections, rva[2]) = <<image[i].section, offset>>
         /\ AddrToLineOfRva(pdb, rva[2]) = Answer
=============================================================================

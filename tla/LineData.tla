------------------------------ MODULE LineData ------------------------------
(***************************************************************************)
(* The stream of a module (pdb/src/modi.rs) and the line data in it        *)
(* (pdb/src/lines.rs, lines/): subsections, of which the LINES map code to *)
(* lines of files, and the FILE_CHECKSUMS name the files by their offsets  *)
(* in the Names stream.  A file is known to the lines by the offset of its *)
(* record in the checksums.                                                *)
(***************************************************************************)
EXTENDS NamesTable

LINES == \hf2

FILE_CHECKSUMS == \hf4

(* SubsectionIter::next.                                                   *)
SubsectionAt(b, at) ==
  LET Rest == Drop(b, at)
      Size == U32At(Rest, 4)
  IN IF Len(Rest) < 8 \/ Len(Rest) < 8 + Size THEN Err
     ELSE <<[kind |-> U32At(Rest, 0), at |-> at + 8, data |-> SubSeq(Rest, 9, 8 + Size),
             end |-> PaddedEnd(b, at, 8 + Size)]>>

Subsections(b) == ItemsFrom(b, 0, SubsectionAt)

OfKind(b, kind) == SelectSeq(Subsections(b), LAMBDA s : s.kind = kind)

(* FileChecksumIter::next: name, size and kind of the checksum, checksum.  *)
ChecksumAt(b, at) ==
  LET Rest == Drop(b, at)
  IN IF Len(Rest) < 6 \/ Len(Rest) < 6 + Rest[5] THEN Err
     ELSE <<[at |-> at, end |-> PaddedEnd(b, at, 6 + Rest[5]),
             name |-> U32At(Rest, 0), checksum |-> SubSeq(Rest, 5, 6 + Rest[5])]>>

Checksums(b) == ItemsFrom(b, 0, ChecksumAt)

(* FileChecksumsSubsection::get_file: any offset at which a record can be  *)
(* read.                                                                   *)
GetFile(checksums, file) == IF file > Len(checksums) THEN Err ELSE ChecksumAt(checksums, file)

(* LineData::find_checksums: the first subsection of the kind.             *)
FindChecksums(b) ==
  LET Found == OfKind(b, FILE_CHECKSUMS)
  IN IF Found = <<>> THEN Err ELSE <<Found[1].data>>

(* LinesSubsection::parse: the Contribution and the blocks behind it.      *)
ParseLines(data) ==
  IF Len(data) < 12 THEN Err
  ELSE <<[offset |-> U32At(data, 0), segment |-> U16At(data, 4),
          haveColumns |-> U16At(data, 6) % 2 = 1, size |-> U32At(data, 8),
          blocks |-> Drop(data, 12)]>>

(* IterBlocks::next.                                                       *)
BlockAt(b, at) ==
  LET Rest == Drop(b, at)
      Size == U32At(Rest, 8)
  IN IF Len(Rest) < 12 \/ Size < 12 \/ Len(Rest) < Size THEN Err
     ELSE <<[at |-> at, end |-> at + Size, file |-> U32At(Rest, 0),
             numLines |-> U32At(Rest, 4), data |-> SubSeq(Rest, 13, Size)]>>

Blocks(lines) == ItemsFrom(lines.blocks, 0, BlockAt)

(* Block::lines: none if the data is too short for them.  Bits 24 and      *)
(* above of a line are not part of its number.                             *)
LinesOf(block) ==
  IF Len(block.data) < 8 * block.numLines THEN <<>>
  ELSE [i \in 1 .. block.numLines |->
          [offset |-> U32At(block.data, 8 * (i - 1)),
           line |-> U32At(block.data, 8 * (i - 1) + 4) % 2 ^ 24]]

(* Block::columns: they follow the lines.                                  *)
ColumnsOf(lines, block) ==
  IF ~lines.haveColumns \/ Len(block.data) < 12 * block.numLines THEN Err
  ELSE <<[i \in 1 .. block.numLines |->
            LET At == 8 * block.numLines + 4 * (i - 1)
            IN <<U16At(block.data, At), U16At(block.data, At + 2)>>]>>

-----------------------------------------------------------------------------
(* Rewriting in place: subsection i becomes new[i], of the same length.    *)
Rewritten(b, new) ==
  LET Put(acc, i) ==
        LET s == Subsections(b)[i] IN Take(acc, s.at) \o new[i] \o Drop(acc, s.at + Len(s.data))
  IN FoldLeft(Put, b, [i \in DOMAIN new |-> i])

WithU32(b, at, x) == Take(b, at) \o PutU32(x) \o Drop(b, at + 4)

(* Every name in the checksums mapped to its new offset.                   *)
RenamedChecksums(mapping, data) ==
  FoldLeft(LAMBDA b, c : WithU32(b, c.at, MapOldToNew(mapping, c.name)[1]),
           data, Checksums(data))

NamesMapped(mapping, b) ==
  \A s \in ToSet(OfKind(b, FILE_CHECKSUMS)) :
    \A c \in ToSet(Checksums(s.data)) : MapOldToNew(mapping, c.name) # Err

(* LineDataMut::remap_name_indexes.                                        *)
RemapNameIndexes(b, mapping) ==
  IF ~NamesMapped(mapping, b) THEN Err
  ELSE LET New(s) == IF s.kind = FILE_CHECKSUMS
                     THEN RenamedChecksums(mapping, s.data) ELSE s.data
       IN <<Rewritten(b, [i \in DOMAIN Subsections(b) |-> New(Subsections(b)[i])])>>

(* fixup_c13_line_data sorts the checksums by a permutation that maps new  *)
(* indices to old ones (0 is the first): the records, in the new order.    *)
Permuted(permutation, data) ==
  FlattenSeq([i \in DOMAIN permutation |->
                LET c == Checksums(data)[permutation[i] + 1]
                IN SubSeq(data, c.at + 1, c.end)])

(* Slip: the permutation is read as one from old indices to new ones.      *)
FileMovesInverse(permutation, data) ==
  {<<Checksums(data)[i].at,
     Len(Permuted(Take(permutation, permutation[i]), data))>> : i \in DOMAIN permutation}

(* Where the record at an old offset is found: pairs (old, new).           *)
FileMoves(permutation, data) ==
  {<<Checksums(data)[permutation[i] + 1].at,
     Len(Permuted(Take(permutation, i - 1), data))>> : i \in DOMAIN permutation}

(* The files of the blocks of a LINES subsection, by their new offsets.    *)
MovedLines(moves, data) ==
  LET Moved(b, block) ==
        WithU32(b, 12 + block.at, (CHOOSE p \in moves : p[1] = block.file)[2])
  IN FoldLeft(Moved, data, Blocks(ParseLines(data)[1]))

(* The assertion and the indexing of fixup_c13_line_data: a panic.         *)
PermutationFits(b, permutation) ==
  \A s \in ToSet(OfKind(b, FILE_CHECKSUMS)) :
    /\ \A i \in DOMAIN permutation : permutation[i] < Len(Checksums(s.data))
    /\ Len(Permuted(permutation, s.data)) = Len(s.data)

(* fixup_c13_line_data.                                                    *)
FixupLineData(b, permutation, mapping) ==
  LET moves == UNION {FileMoves(permutation, s.data) : s \in ToSet(OfKind(b, FILE_CHECKSUMS))}
      Known(s) == /\ ParseLines(s.data) # Err
                  /\ \A block \in ToSet(Blocks(ParseLines(s.data)[1])) :
                       \E p \in moves : p[1] = block.file
      New(s) == IF s.kind = FILE_CHECKSUMS
                THEN Permuted(permutation, RenamedChecksums(mapping, s.data))
                ELSE IF s.kind = LINES THEN MovedLines(moves, s.data) ELSE s.data
  IN IF ~NamesMapped(mapping, b) THEN Err
     ELSE IF ~PermutationFits(b, permutation) THEN <<"panic">>
     ELSE IF \E s \in ToSet(OfKind(b, LINES)) : ~Known(s) THEN Err
     ELSE <<Rewritten(b, [i \in DOMAIN Subsections(b) |-> New(Subsections(b)[i])])>>

-----------------------------------------------------------------------------
(* What the line data says: for each block of each contribution the name   *)
(* and the checksum of its file, and its lines and columns.                *)
FileNameOf(b, strings, file) ==
  LET c == GetFile(FindChecksums(b)[1], file)
  IN IF FindChecksums(b) = Err \/ c = Err THEN Err
     ELSE <<GetString(strings, c[1].name), c[1].checksum>>

Meaning(b, strings) ==
  LET OfContribution(s) ==
        LET lines == ParseLines(s.data)[1]
        IN [i \in DOMAIN Blocks(lines) |->
              <<lines.segment, lines.offset,
                FileNameOf(b, strings, Blocks(lines)[i].file),
                LinesOf(Blocks(lines)[i]), ColumnsOf(lines, Blocks(lines)[i])>>]
  IN [i \in DOMAIN OfKind(b, LINES) |-> OfContribution(OfKind(b, LINES)[i])]

(* Sorting the Names stream and the files of a module changes no line's    *)
(* file: through the new checksums and the new strings it has the name and *)
(* the checksum that it had.  If only the names are mapped the files stay  *)
(* where they are, with the same meaning.                                  *)
FixupKeepsFiles(b, permutation, s, hash, keep) ==
  LET KeepsMeaning(r, fixed, renamed, meaning) ==
        /\ fixed # <<"panic">>
        /\ fixed = Err <=> renamed = Err
        /\ fixed # Err => /\ Meaning(fixed[1], r.stream.strings) = meaning
                          /\ Meaning(renamed[1], r.stream.strings) = meaning
                          /\ Len(fixed[1]) = Len(b)
      KeptBy(r) ==
        KeepsMeaning(r, FixupLineData(b, permutation, r.mapping),
                     RemapNameIndexes(b, r.mapping), Meaning(b, s.strings))
  IN KeptBy(Rebuild(s, hash, keep))
=============================================================================

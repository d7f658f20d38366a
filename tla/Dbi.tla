-------------------------------- MODULE Dbi --------------------------------
(***************************************************************************)
(* The DBI stream (pdb/src/dbi.rs, dbi/): a header with the sizes of its   *)
(* substreams, and the substreams that the repository reads: the modules,  *)
(* the section contributions, the sources of each module and the list of   *)
(* the optional streams.                                                   *)
(*                                                                         *)
(* The header is a record of sizes, which may be negative (i32); stream    *)
(* indices are numbers, with NilIndex for none.                            *)
(***************************************************************************)
EXTENDS CodeView, FiniteSets

HeaderLen == 64

NilIndex == 65535

(* dbi_substreams!: the order in the stream, which is not quite the one of *)
(* the sizes in the header.                                                *)
Substreams ==
  <<"mod_info", "section_contribution", "section_map", "source_info",
    "type_server_map", "edit_and_continue", "optional_dbg_header">>

SizeBefore(sizes, i) ==
  FoldLeft(LAMBDA sum, name : sum + sizes[name], 0, Take(Substreams, i - 1))

(* Slip: a size is compared with the length of the stream.                 *)
FitsStream(sizes, streamLen, i) == sizes[Substreams[i]] \in 0 .. streamLen

(* A substream must not go beyond the end of the stream.                   *)
Fits(sizes, streamLen, i) ==
  sizes[Substreams[i]] \in 0 .. streamLen - HeaderLen - SizeBefore(sizes, i)

(* DbiSubstreamRanges::from_sizes: for each the offsets of its first byte  *)
(* and behind its last one.  Bytes behind the last substream are allowed.  *)
FromSizes(sizes, streamLen) ==
  IF streamLen < HeaderLen \/ \E i \in DOMAIN Substreams : ~Fits(sizes, streamLen, i)
  THEN Err
  ELSE <<[name \in ToSet(Substreams) |->
            LET i == CHOOSE j \in DOMAIN Substreams : Substreams[j] = name
                Start == HeaderLen + SizeBefore(sizes, i)
            IN [start |-> Start, end |-> Start + sizes[name]]]>>

(* modules_range, sources_range, total_substreams_len of the header, which *)
(* are computed without regard to the stream.                              *)
ModulesRange(sizes) == [start |-> HeaderLen, end |-> HeaderLen + sizes.mod_info]

SourcesRange(sizes) ==
  LET Start == HeaderLen + sizes.mod_info + sizes.section_contribution
                 + sizes.section_map
  IN [start |-> Start, end |-> Start + sizes.source_info]

TotalLen(sizes) ==
  IF \E i \in DOMAIN Substreams : sizes[Substreams[i]] < 0 THEN Err
  ELSE <<SizeBefore(sizes, Len(Substreams) + 1)>>

-----------------------------------------------------------------------------
(* ModuleInfoFixed, of which the first section contribution is one field   *)
(* of 28 bytes, then the name of the module and of its object file.        *)
ModuleFixedLen == 64

(* IterModuleInfo::next.                                                   *)
ModuleAt(b, at) ==
  LET Rest == Drop(b, at)
      Name == TakeStrz(Drop(Rest, ModuleFixedLen))
      Obj == TakeStrz(Name[2])
      Used == Len(Rest) - Len(Obj[2])
  IN IF Len(Rest) < ModuleFixedLen \/ Name = Err THEN Err
     ELSE IF Obj = Err THEN Err
     ELSE IF Len(Rest) < Align4(Used) THEN Err
     ELSE <<[end |-> at + Align4(Used), stream |-> U16At(Rest, 34),
             sym |-> U32At(Rest, 36), c11 |-> U32At(Rest, 40), c13 |-> U32At(Rest, 44),
             name |-> Name[1], obj |-> Obj[1]]>>

Modules(b) == ItemsFrom(b, 0, ModuleAt)

-----------------------------------------------------------------------------
(* SectionContributionsSubstream: a version and entries of 28 bytes.       *)
Ver60 == <<45, 186, 46, 241>>

ContribLen == 28

ParseContribs(b) ==
  LET Entry(i) == SubSeq(b, 5 + ContribLen * (i - 1), 4 + ContribLen * i)
  IN IF b = <<>> THEN << <<>> >>
     ELSE IF Take(b, 4) # Ver60 \/ (Len(b) - 4) % ContribLen # 0 THEN Err
     ELSE <<[i \in 1 .. (Len(b) - 4) \div ContribLen |->
               [section |-> U16At(Entry(i), 0), offset |-> U32At(Entry(i), 4),
                size |-> U32At(Entry(i), 8), module |-> U16At(Entry(i), 16)]]>>

(* SectionContribEntry::contains_offset.                                   *)
ContainsOffset(c, offset) == offset >= c.offset /\ offset - c.offset < c.size

ContribBefore(c, section, offset) ==
  c.section < section \/ (c.section = section /\ c.offset < offset)

(* Slip: the neighbour in front is looked for where the entry itself is.   *)
FindIndexBehind(contribs, section, offset) ==
  LET i == Cardinality({k \in DOMAIN contribs : ContribBefore(contribs[k], section, offset)})
      Here(k) == k \in DOMAIN contribs /\ ContainsOffset(contribs[k], offset)
  IN IF i < Len(contribs) /\ contribs[i + 1].section = section
        /\ contribs[i + 1].offset = offset THEN <<i>>
     ELSE IF Here(i + 1) THEN <<i>>
     ELSE IF Here(i + 2) THEN <<i + 1>>
     ELSE <<>>

(* find_index on a table that is sorted: i entries are before the address. *)
(* The entry that begins there, or else the one before, or else the second *)
(* one behind, of any section.                                             *)
FindIndex(contribs, section, offset) ==
  LET i == Cardinality({k \in DOMAIN contribs : ContribBefore(contribs[k], section, offset)})
      Here(k) == k \in DOMAIN contribs /\ ContainsOffset(contribs[k], offset)
  IN IF i < Len(contribs) /\ contribs[i + 1].section = section
        /\ contribs[i + 1].offset = offset THEN <<i>>
     ELSE IF Here(i) THEN <<i - 1>>
     ELSE IF Here(i + 2) THEN <<i + 1>>
     ELSE <<>>

(* find_index_brute.                                                       *)
FindIndexBrute(contribs, section, offset) ==
  LET Found == {k \in DOMAIN contribs : contribs[k].section = section
                                        /\ ContainsOffset(contribs[k], offset)}
  IN IF Found = {} THEN <<>> ELSE <<Min(Found) - 1>>

(* remap_module_indexes.                                                   *)
RemapModules(contribs, oldToNew) ==
  IF \E i \in DOMAIN contribs : contribs[i].module >= Len(oldToNew) THEN Err
  ELSE <<[i \in DOMAIN contribs |-> [contribs[i] EXCEPT !.module = oldToNew[@ + 1]]]>>

-----------------------------------------------------------------------------
(* Slip: the number of files is the one in its field.                      *)
ParseSourcesByField(b) ==
  LET N == U16At(b, 0)
      Files == U16At(b, 2)
      Names == 4 + 4 * N + 4 * Files
  IN IF Len(b) < 4 THEN Err
     ELSE IF Len(b) < Names THEN Err
     ELSE <<[starts |-> [m \in 1 .. N |-> U16At(b, 4 + 2 * (m - 1))],
             counts |-> [m \in 1 .. N |-> U16At(b, 4 + 2 * N + 2 * (m - 1))],
             offsets |-> [i \in 1 .. Files |-> U32At(b, 4 + 4 * N + 4 * (i - 1))],
             names |-> Drop(b, Names)]>>

(* DbiSourcesSubstream::parse: the number of files is the sum of the       *)
(* counts, since the field for it is too small.                            *)
ParseSources(b) ==
  LET N == U16At(b, 0)
      Count(m) == U16At(b, 4 + 2 * N + 2 * (m - 1))
      Files == FoldFunction(+, 0, [m \in 1 .. N |-> Count(m)])
      Names == 4 + 4 * N + 4 * Files
  IN IF Len(b) < 4 THEN Err
     ELSE IF Len(b) < 4 + 4 * N THEN Err
     ELSE IF Len(b) < Names THEN Err
     ELSE <<[starts |-> [m \in 1 .. N |-> U16At(b, 4 + 2 * (m - 1))],
             counts |-> [m \in 1 .. N |-> Count(m)],
             offsets |-> [i \in 1 .. Files |-> U32At(b, 4 + 4 * N + 4 * (i - 1))],
             names |-> Drop(b, Names)]>>

(* name_offsets_for_module, with modules and files counted from 0.         *)
FilesOfModule(s, module) ==
  LET Start == s.starts[module + 1]
      End == Start + s.counts[module + 1]
  IN IF End > Len(s.offsets) THEN Err ELSE <<SubSeq(s.offsets, Start + 1, End)>>

(* get_source_file_name_at.                                                *)
SourceName(s, at) ==
  IF at > Len(s.names) \/ TakeStrz(Drop(s.names, at)) = Err THEN Err
  ELSE <<TakeStrz(Drop(s.names, at))[1]>>

(* sources_map: Err if one of the names cannot be read.                    *)
SourcesMap(s) ==
  IF \E at \in ToSet(s.offsets) : SourceName(s, at) = Err THEN Err
  ELSE <<[at \in ToSet(s.offsets) |-> SourceName(s, at)[1]]>>

(* iter_sources, which ends at a name that cannot be read.                 *)
IterSources(s) ==
  LET Bad == {i \in DOMAIN s.offsets : SourceName(s, s.offsets[i]) = Err}
      Read == IF Bad = {} THEN Len(s.offsets) ELSE Min(Bad) - 1
  IN [i \in 1 .. Read |-> <<s.offsets[i], SourceName(s, s.offsets[i])[1]>>]

(* Pdb::optional_debug_stream, from 0 on.                                  *)
OptionalStream(b, i) ==
  IF 2 * i + 2 > Len(b) \/ U16At(b, 2 * i) = NilIndex THEN Err ELSE <<U16At(b, 2 * i)>>

-----------------------------------------------------------------------------
(* DbiStream::parse and the access to the substreams: a stream is a record *)
(* of the sizes in its header and the bytes behind the header.             *)
Substream(dbi, name) ==
  LET Place == FromSizes(dbi.sizes, HeaderLen + Len(dbi.data))[1][name]
  IN SubSeq(dbi.data, Place.start - HeaderLen + 1, Place.end - HeaderLen)

(* validate_dbi_stream.                                                    *)
ValidDbi(dbi) ==
  LET Sources == ParseSources(Substream(dbi, "source_info"))
  IN /\ FromSizes(dbi.sizes, HeaderLen + Len(dbi.data)) # Err
     /\ Sources # Err
     /\ Len(Sources[1].starts) = Len(Modules(Substream(dbi, "mod_info")))

-----------------------------------------------------------------------------
(* Whatever sizes the header holds, they are refused or the substreams lie *)
(* one behind the other, the first behind the header and all within the    *)
(* stream, at the places that the header computes for two of them without  *)
(* regard to the stream.  Bytes may be left behind the last one, where a   *)
(* comment in parse (dbi.rs:391) says it was verified that there are none. *)
SubstreamsTile(sizes, streamLen) ==
  LET Ranges == FromSizes(sizes, streamLen)
  IN /\ Ranges # Err =>
          /\ \A i \in DOMAIN Substreams :
               LET R == Ranges[1][Substreams[i]]
               IN /\ HeaderLen <= R.start /\ R.start <= R.end /\ R.end <= streamLen
                  /\ i > 1 => R.start = Ranges[1][Substreams[i - 1]].end
          /\ Ranges[1].mod_info = ModulesRange(sizes)
          /\ Ranges[1].source_info = SourcesRange(sizes)
     /\ Ranges # Err <=> /\ streamLen >= HeaderLen
                         /\ TotalLen(sizes) # Err
                         /\ HeaderLen + TotalLen(sizes)[1] <= streamLen

(* In a table that is sorted, without overlaps, with no empty entry, the   *)
(* search finds for every address that a contribution covers the one that  *)
(* covers it, also when contributions of other sections lie at the same    *)
(* offsets.  For an address that none covers it finds none, or one of      *)
(* another section that holds the offset: see SectionsMatch.               *)
ContribsFound(contribs, queries) ==
  \A q \in queries :
    LET Answer == FindIndex(contribs, q[1], q[2])
        Right == FindIndexBrute(contribs, q[1], q[2])
    IN /\ Right # <<>> => Answer = Right
       /\ Answer # <<>> => ContainsOffset(contribs[Answer[1] + 1], q[2])

(* section_contrib.rs:109 of find_index: "The `section` must match          *)
(* exactly."  What it finds for an address is of the address's section.    *)
SectionsMatch(contribs, queries) ==
  \A q \in queries :
    LET Answer == FindIndex(contribs, q[1], q[2])
    IN Answer # <<>> => contribs[Answer[1] + 1].section = q[1]

(* The DBI stream of a linked image is read as the linker wrote it: every  *)
(* module with its names, its stream and the sizes in it; for each module  *)
(* its source files, which lie in tables shared by all, through the count  *)
(* of each and not through the obsolete total; the same files by all the   *)
(* ways to list them; the contributions, which also survive a renumbering  *)
(* of the modules and its inverse; and the optional streams, with none     *)
(* beyond the end of the list.                                             *)
ModulesReadBack(dbi, image) ==
  LET info == Modules(Substream(dbi, "mod_info"))
  IN [m \in DOMAIN info |-> [name |-> info[m].name, obj |-> info[m].obj,
                             stream |-> info[m].stream, sym |-> info[m].sym,
                             c11 |-> info[m].c11, c13 |-> info[m].c13]] = image.modules

SourcesReadBack(dbi, image) ==
  LET s == ParseSources(Substream(dbi, "source_info"))[1]
      FilesOf(m) == LET at == FilesOfModule(s, m - 1)[1]
                    IN [i \in DOMAIN at |-> SourceName(s, at[i])[1]]
  IN /\ [i \in DOMAIN IterSources(s) |-> IterSources(s)[i][2]] = FlattenSeq(image.files)
     /\ [m \in DOMAIN image.files |-> FilesOf(m)] = image.files
     /\ \A i \in DOMAIN IterSources(s) :
          SourcesMap(s)[1][IterSources(s)[i][1]] = IterSources(s)[i][2]

ContribsReadBack(dbi, image, renumbering, inverse) ==
  LET contribs == ParseContribs(Substream(dbi, "section_contribution"))
      moved == RemapModules(contribs[1], renumbering)
  IN /\ contribs = <<image.contribs>>
     /\ moved # Err /\ RemapModules(moved[1], inverse) = contribs

OptionalReadBack(dbi, image) ==
  LET b == Substream(dbi, "optional_dbg_header")
  IN \A i \in 0 .. Len(image.optional) :
       OptionalStream(b, i) =
         IF i = Len(image.optional) THEN Err
         ELSE IF image.optional[i + 1] = NilIndex THEN Err
         ELSE <<image.optional[i + 1]>>

DbiReadsBack(dbi, image, renumbering, inverse) ==
  /\ ValidDbi(dbi)
  /\ ModulesReadBack(dbi, image)
  /\ SourcesReadBack(dbi, image)
  /\ ContribsReadBack(dbi, image, renumbering, inverse)
  /\ OptionalReadBack(dbi, image)
=============================================================================

------------------------------ MODULE MCTables ------------------------------
(***************************************************************************)
(* The readers, writers, indices and queries of the tables of a PDB over   *)
(* bounded inputs.  A behaviour picks a table, then an input for it; the   *)
(* invariants say what holds for every input of their table.               *)
(***************************************************************************)
EXTENDS AddressQuery, ProcQuery, TypeHash, NamedStreamTable, PdzEncode

CONSTANTS
  MaxStrings,  \* strings in a Names stream, with repetitions
  MaxSyms,     \* symbols in a stream of global symbols
  MaxScopes,   \* symbols in a module that is asked for its procedures
  MaxPieces,   \* pieces of code in an image
  MaxFields,   \* fields in a list that is split over records
  MaxRecords   \* records in a stream that is cut into chunks

ASSUME BoundsAssumption ==
  /\ MaxStrings \in Nat /\ MaxSyms \in Nat /\ MaxScopes \in Nat
  /\ MaxPieces \in Nat /\ MaxFields \in Nat /\ MaxRecords \in Nat

VARIABLES table, input

vars == <<table, input>>

Tables == {"named", "names", "symbols", "globals", "buckets", "files", "sizes",
           "image", "contribs", "address", "procs", "record", "list", "split",
           "hash", "encode"}

-----------------------------------------------------------------------------
(* Named streams.  A hash is a number: -1 for the hash of the code, else   *)
(* one that collides for the strings of a length.                          *)
Words == {<<>>, <<1>>, <<2>>, <<1, 2>>, <<2, 1>>}

HashOf(k, s) == IF k < 0 THEN HashU16(s) ELSE k + Len(s)

NamedInputs ==
  [named : UNION {[D -> {1, 2}] : D \in SUBSET Words}, hash : -1 .. 9,
   version : {1}, uniqueId : {<<>>}]
    \cup [named : [{<<1>>} -> {1}], hash : {0}, version : {0, 1}, uniqueId : {<<>>, <<9>>}]

(* pdbi.rs: parsing a map of named streams that was encoded gives the map  *)
(* again, and each name is found, also where names collide.                *)
NamedStreamsRead ==
  table = "named" /\ input # <<>> =>
    LET x == input[1]
    IN ReadsBack([version |-> x.version, signature |-> 7, age |-> 1,
                  uniqueId |-> x.uniqueId, named |-> x.named, features |-> <<3>>],
                 1, [s \in Words |-> HashOf(x.hash, s)])

(* Names.  The remainder by 12 is one by the size of each table here.      *)
Texts == {<<>>, <<97>>, <<98>>, <<97, 98>>}

NamesInputs ==
  [strings : SeqOf(Texts, MaxStrings), tail : {<<>>, <<99>>}, hash : {-1, 0, 2},
   keep : {"first", "last"}]

StringsOf(x) == <<0>> \o FlattenSeq([i \in DOMAIN x.strings |-> PutStrz(x.strings[i])]) \o x.tail

NamesHash(k, s) == IF k < 0 THEN HashModU32(s, 12) ELSE k + Len(s)

(* names.rs: after the Names stream is rebuilt, each offset that is mapped *)
(* names the string it named before, and the new hash table finds it.      *)
NamesRebuilt ==
  table = "names" /\ input # <<>> =>
    LET x == input[1]
    IN RebuildKeepsNames(
         [signature |-> Signature, version |-> 1, strings |-> StringsOf(x),
          hashes |-> <<>>, numStrings |-> 0],
         [s \in Texts |-> NamesHash(x.hash, s)], x.keep)

-----------------------------------------------------------------------------
(* Symbols.  A symbol is a kind and a number that varies its fields.       *)
FieldBytes(role, v) ==
  CASE role \in {"name", "strz"} -> PutStrz([i \in 1 .. v |-> 96 + i])
    [] role = "strt" -> <<v>> \o [i \in 1 .. v |-> 96 + i]
    [] role = "number" -> IF v = 0 THEN <<5, 0>> ELSE <<3, 128, 1, 2, 3, 4>>
    [] role = "functions" -> PutU32(v) \o [i \in 1 .. 8 * v |-> i]
    [] role = "gaps" -> [i \in 1 .. 4 * v |-> i]
    [] role = "rest" -> [i \in 1 .. v |-> i]
    [] OTHER -> [i \in 1 .. Width(role) |-> i + v]

KnownKinds == {k \in {Kind[name] : name \in DOMAIN Kind} : SymLayout(k) # <<>>}

Plain(kind, v) ==
  [kind |-> kind,
   fields |-> [i \in DOMAIN SymLayout(kind) |-> FieldBytes(SymLayout(kind)[i], v)]]

SymbolInputs ==
  {<<s>> : s \in KnownKinds \X (0 .. 2)}
    \cup SeqOf({Kind.S_END, Kind.S_UDT, Kind.S_PUB32} \X {0, 1}, 3)

(* syms.rs, syms/iter.rs: what the builder writes, the iterators and the   *)
(* reader at an offset return, symbol by symbol, up to a symbol that is    *)
(* cut short.                                                              *)
SymbolsRead ==
  table = "symbols" /\ input # <<>> =>
    SymbolsReadBack([i \in DOMAIN input[1] |-> Plain(input[1][i][1], input[1][i][2])])

(* Global symbols: publics at addresses, other kinds with a name.          *)
Spellings == {<<97>>, <<65>>, <<98>>}

Addresses == {<<1, 4>>, <<1, 8>>, <<2, 0>>}

Globals ==
  [kind : {Kind.S_PUB32}, name : {<<97>>, <<65>>}, address : Addresses]
    \cup [kind : {Kind.S_UDT}, name : Spellings, address : {<<0, 0>>}]
    \cup [kind : {Kind.S_PROCREF, Kind.S_DATAREF, Kind.S_TOKENREF, Kind.S_END},
          name : {<<97>>}, address : {<<0, 0>>}]

GlobalEntry(g) ==
  [kind |-> g.kind,
   fields |->
     CASE g.kind = Kind.S_PUB32 ->
            <<PubPayload(2, g.address[2], g.address[1], g.name)>>
       [] g.kind = Kind.S_UDT -> <<UdtPayload(116, g.name)>>
       [] g.kind = Kind.S_END -> <<>>
       [] OTHER -> <<PutU32(0), PutU32(4), PutU16(1), PutStrz(g.name)>>]

GlobalInputs == [symbols : SeqOf(Globals, MaxSyms), buckets : 1 .. 2]

GssOf(symbols) == Stream([i \in DOMAIN symbols |-> GlobalEntry(symbols[i])])

(* globals: every global symbol but data and token references is found by  *)
(* its name, in the PSI if it is public and in the GSI if not; a public    *)
(* symbol by its very address, and from no address near it; and nothing is *)
(* found that is not there.                                                *)
SymbolsIndexed ==
  table = "globals" /\ input # <<>> =>
    LET gss == GssOf(input[1].symbols)
    IN /\ GlobalsFound(gss, input[1].buckets, Spellings \cup {<<>>, <<66>>})
       /\ PublicsFoundByAddress(gss, input[1].buckets, (0 .. 3) \X {0, 4, 6, 8})

(* The hash tables that a file may hold.                                   *)
BucketInputs ==
  [bitmap : SUBSET (0 .. 3), pointers : SeqOf({-12, 0, 6, 12, 24}, 3),
   buckets : 0 .. 3, records : 0 .. 2]

(* globals/name_table.rs: a table of buckets that is accepted has ranges   *)
(* that lie within the records and share none of them.                     *)
BucketsInRange ==
  table = "buckets" /\ input # <<>> =>
    LET x == input[1]
    IN BucketsCoverRecords(x.bitmap, x.pointers, x.buckets, x.records)

-----------------------------------------------------------------------------
(* Line data: a subsection is its kind, its size and its bytes, padded.    *)
Padded(b) == b \o Zeros(Align4(Len(b)) - Len(b))

Subsection(kind, data) == PutU32(kind) \o PutU32(Len(data)) \o Padded(data)

ChecksumEntry(name, checksum) ==
  Padded(PutU32(name) \o <<Len(checksum), 1>> \o checksum)

LinesBlock(file, lines, columns) ==
  LET Bytes == FlattenSeq([i \in DOMAIN lines |->
                            PutU32(lines[i].offset) \o PutU32(lines[i].line)])
                \o (IF columns THEN [i \in 1 .. 4 * Len(lines) |-> i] ELSE <<>>)
  IN PutU32(file) \o PutU32(Len(lines)) \o PutU32(12 + Len(Bytes)) \o Bytes

LinesOfCode(segment, offset, size, columns, blocks) ==
  Subsection(LINES, PutU32(offset) \o PutU16(segment)
                      \o PutU16(IF columns THEN 1 ELSE 0) \o PutU32(size)
                      \o FlattenSeq(blocks))

(* Two or three files whose names are in any order, the last one perhaps   *)
(* there twice, and blocks for any of the files.                           *)
FileInputs ==
  {x \in [names : Permutations({1, 2, 3}), files : 2 .. 3, order : Permutations({0, 1, 2}),
          blocks : SeqOf(1 .. 3, 2), columns : BOOLEAN, first : BOOLEAN,
          twice : BOOLEAN, keep : {"first", "last"}] :
     /\ \A i \in DOMAIN x.blocks : x.blocks[i] <= x.files
     /\ x.files = 2 => x.order[2] = 2
     /\ ~x.twice => x.keep = "first"}

(* A text per name; the offsets in the order of the names.                 *)
FileText(x, n) == IF x.twice /\ n = 3 THEN <<98>> ELSE <<96 + n>>

FileStrings(x) == <<0>> \o FlattenSeq([i \in 1 .. 3 |-> PutStrz(FileText(x, x.names[i]))])

FileEntry(i) == ChecksumEntry(1 + 2 * (i - 1), IF i = 2 THEN <<7, 7, 7>> ELSE <<i>>)

FileEntries(n) == FlattenSeq([i \in 1 .. n |-> FileEntry(i)])

LineBytes(x) ==
  LET Sums == Subsection(FILE_CHECKSUMS, FileEntries(x.files))
      OfFile(i) == LinesBlock(Len(FileEntries(x.blocks[i] - 1)),
                             <<[offset |-> 0, line |-> i], [offset |-> 4, line |-> 9]>>,
                             x.columns)
      Code == LinesOfCode(1, 16, 8, x.columns, [i \in DOMAIN x.blocks |-> OfFile(i)])
      Other == Subsection(241, <<1, 2, 3, 4, 5>>)
  IN IF x.first THEN Sums \o Other \o Code ELSE Code \o Sums \o Other

(* lines.rs: sorting the file checksums and renaming their files leaves    *)
(* every line with the file it belonged to.                                *)
FilesKept ==
  table = "files" /\ input # <<>> =>
    LET x == input[1]
        Order == [i \in 1 .. x.files |-> x.order[i - 1]]
    IN FixupKeepsFiles(
         LineBytes(x), Order,
         [signature |-> Signature, version |-> 1, strings |-> FileStrings(x),
          hashes |-> <<>>, numStrings |-> 0],
         [s \in {FileText(x, n) : n \in 1 .. 3} |-> NamesHash(-1, s)], x.keep)

-----------------------------------------------------------------------------
(* The DBI stream.  The bytes of an entry that are not listed are 0.       *)
EntryBytes(length, at, bytes) == Zeros(at) \o bytes \o Zeros(length - at - Len(bytes))

ContribBytes(c) ==
  PutU16(c.section) \o Zeros(2) \o PutU32(c.offset) \o PutU32(c.size) \o Zeros(4)
    \o PutU16(c.module) \o Zeros(10)

ModuleBytes(m) ==
  Padded(EntryBytes(ModuleFixedLen, 34,
                    PutU16(m.stream) \o PutU32(m.sym) \o PutU32(m.c11) \o PutU32(m.c13))
           \o PutStrz(m.name) \o PutStrz(m.obj))

(* The names of files are shared; the total is left to be 0, as it may be. *)
SourceBytes(files) ==
  LET All0 == FlattenSeq(files)
      Names == SetToSortSeq(ToSet(All0), Before)
      Place(name) == CHOOSE n \in DOMAIN Names : Names[n] = name
      At(name) == Len(FlattenSeq([i \in 1 .. Place(name) - 1 |-> PutStrz(Names[i])]))
      Start(m) == Len(FlattenSeq(Take(files, m - 1)))
  IN PutU16(Len(files)) \o PutU16(0)
       \o FlattenSeq([m \in DOMAIN files |-> PutU16(Start(m))])
       \o FlattenSeq([m \in DOMAIN files |-> PutU16(Len(files[m]))])
       \o FlattenSeq([i \in DOMAIN All0 |-> PutU32(At(All0[i]))])
       \o FlattenSeq([i \in DOMAIN Names |-> PutStrz(Names[i])])

Size0 == [name \in ToSet(Substreams) |-> 0]

SizeInputs == [sizes : [ToSet(Substreams) -> {-1, 0, 2}], length : {63, 64, 66, 70}]

ImageInputs ==
  [files : SeqOf(SeqOf({<<97>>, <<98>>}, 2), 2), contribs : BOOLEAN,
   optional : SeqOf({3, NilIndex}, 2)]

ImageOf(x) ==
  [modules |-> [m \in DOMAIN x.files |->
                  [name |-> [i \in 1 .. m |-> 109], obj |-> IF m = 1 THEN <<>> ELSE <<111>>,
                   stream |-> IF m = 1 THEN NilIndex ELSE 12, sym |-> m, c11 |-> 0,
                   c13 |-> 4 * m]],
   files |-> x.files,
   contribs |-> IF x.contribs
                THEN [m \in DOMAIN x.files |->
                        [section |-> 1, offset |-> 16 * m, size |-> m,
                         module |-> Len(x.files) - m]]
                ELSE <<>>,
   optional |-> x.optional]

DbiOf(image) ==
  LET Modi == FlattenSeq([m \in DOMAIN image.modules |-> ModuleBytes(image.modules[m])])
      Contribs == Ver60 \o FlattenSeq([c \in DOMAIN image.contribs |->
                                        ContribBytes(image.contribs[c])])
      Sources == SourceBytes(image.files)
      Optional == FlattenSeq([i \in DOMAIN image.optional |-> PutU16(image.optional[i])])
  IN [sizes |-> [Size0 EXCEPT !.mod_info = Len(Modi),
                              !.section_contribution = Len(Contribs),
                              !.section_map = 4, !.source_info = Len(Sources),
                              !.edit_and_continue = 3,
                              !.optional_dbg_header = Len(Optional)],
      data |-> Modi \o Contribs \o <<1, 2, 3, 4>> \o Sources \o <<5, 6, 7>> \o Optional
                 \o <<8>>]

(* dbi.rs: the substreams lie one behind another from the header on and    *)
(* within the stream, or it is rejected; bytes behind the last one belong  *)
(* to none; modules, contributions and sources parse as they were written. *)
DbiRead ==
  /\ table = "sizes" /\ input # <<>> => SubstreamsTile(input[1].sizes, input[1].length)
  /\ table = "image" /\ input # <<>> =>
       LET n == Len(input[1].files)
           Turned == [m \in 1 .. n |-> n - m]
       IN DbiReadsBack(DbiOf(ImageOf(input[1])), ImageOf(input[1]), Turned, Turned)

-----------------------------------------------------------------------------
(* An image of pieces of code one behind another in two sections, with     *)
(* gaps.  A piece has a procedure or none, and a block of lines for each   *)
(* of its files: one of its own, one that all pieces include, or none.     *)
Pieces ==
  [section : {1, 2}, module : {0, 1}, gap : {0, 4}, proc : BOOLEAN,
   files : {<<>>, <<"own">>, <<"own", "shared">>, <<"shared", "own">>}]

PieceSize == 8

Shared == <<104>>

PieceLines(i, file) ==
  IF file = "shared" THEN {[offset |-> 3, line |-> 7, file |-> Shared]}
  ELSE {[offset |-> 1, line |-> 10 * i, file |-> <<96 + i>>],
        [offset |-> 5, line |-> 10 * i + 1, file |-> <<96 + i>>]}

ImageInput(pieces) ==
  LET InFront(i) == {j \in 1 .. i : pieces[j].section = pieces[i].section}
      Offset(i) == FoldFunctionOnSet(+, 0, [j \in 1 .. i |-> pieces[j].gap], InFront(i))
                     + PieceSize * (Cardinality(InFront(i)) - 1)
  IN [i \in DOMAIN pieces |->
        [section |-> pieces[i].section, offset |-> Offset(i), size |-> PieceSize,
         module |-> pieces[i].module,
         name |-> IF pieces[i].proc THEN [j \in 1 .. i |-> 112] ELSE <<>>,
         blocks |-> [b \in DOMAIN pieces[i].files |-> PieceLines(i, pieces[i].files[b])]]]

(* The names of the files are in the reverse of the order of the pieces,   *)
(* and the shared one is the last.                                         *)
NameAt(n, i) == 1 + 2 * (n - i)

ProcEntry(p) ==
  [kind |-> Kind.S_GPROC32,
   fields |-> [i \in DOMAIN Proc |->
                 CASE Proc[i] = "length" -> PutU32(p.size)
                   [] Proc[i] = "offset" -> PutU32(p.offset)
                   [] Proc[i] = "segment" -> PutU16(p.section)
                   [] Proc[i] = "name" -> PutStrz(p.name)
                   [] OTHER -> Zeros(Width(Proc[i]))]]

EndEntry == [kind |-> Kind.S_END, fields |-> <<>>]

ImageModule(image, module) ==
  LET Mine == SelectSeq([i \in DOMAIN image |-> i], LAMBDA i : image[i].module = module)
      Procs == SelectSeq(Mine, LAMBDA i : image[i].name # <<>>)
      Names == [k \in DOMAIN Mine |-> NameAt(Len(image), Mine[k])]
                 \o <<NameAt(Len(image), 0)>>
      Sums == [k \in DOMAIN Names |-> ChecksumEntry(Names[k], <<>>)]
      FileAt(k, lines) ==
        8 * (IF \A l \in lines : l.file = Shared THEN Len(Mine) ELSE k - 1)
      Sorted(S) == SetToSortSeq(S, LAMBDA a, b : a.offset < b.offset)
      CodeOf(k) ==
        LET p == image[Mine[k]]
        IN LinesOfCode(p.section, p.offset, p.size, FALSE,
                       [b \in DOMAIN p.blocks |->
                          LinesBlock(FileAt(k, p.blocks[b]), Sorted(p.blocks[b]), FALSE)])
  IN [syms |-> PutU32(4)
                 \o Stream(FlattenSeq([k \in DOMAIN Procs |->
                                         <<ProcEntry(image[Procs[k]]), EndEntry>>])),
      lines |-> FlattenSeq([k \in DOMAIN Mine |-> CodeOf(k)])
                  \o Subsection(FILE_CHECKSUMS, FlattenSeq(Sums))]

InOrder(contribs) ==
  SetToSortSeq(contribs, LAMBDA c, d : ContribBefore(c, d.section, d.offset))

PdbOfImage(image) ==
  LET n == Len(image)
      Contribs == {[section |-> image[i].section, offset |-> image[i].offset,
                    size |-> image[i].size, module |-> image[i].module] : i \in DOMAIN image}
  IN [sections |-> <<[start |-> 16, size |-> 64], [start |-> 128, size |-> 64]>>,
      contribs |-> InOrder(Contribs),
      modules |-> <<ImageModule(image, 0), ImageModule(image, 1)>>,
      strings |-> <<0>> \o FlattenSeq([i \in 1 .. n |-> PutStrz(<<96 + n + 1 - i>>)])
                    \o PutStrz(Shared)]

Contribs0 == [section : {1, 2}, offset : {0, 4, 8}, size : {1, 4}, module : {0}]

ContribInputs ==
  {S \in SUBSET Contribs0 :
     \A c \in S, d \in S : c # d => c.section # d.section \/ c.offset # d.offset}

ContribQueries == (0 .. 3) \X (0 .. 13)

AddressInputs == SeqOf(Pieces, MaxPieces)

(* section_contrib.rs, pdb-mcp/addr.rs: the contribution, line and         *)
(* procedure that are found for an address that code covers are those that *)
(* contain it, the line as far as the lines of its file tell.              *)
AddressesFound ==
  /\ table = "address" /\ input # <<>> =>
       LET image == ImageInput(input[1])
       IN AddressesAnswered(PdbOfImage(image), image)
  /\ table = "contribs" /\ input # <<>> =>
       ContribsFound(InOrder(input[1]), ContribQueries)

(* section_contrib.rs:109: "The `section` must match exactly."  What is    *)
(* found for an address in one section never lies in another, whether the  *)
(* address is covered or not.                                              *)
ContribsOfSection ==
  table = "contribs" /\ input # <<>> => SectionsMatch(InOrder(input[1]), ContribQueries)

-----------------------------------------------------------------------------
(* Modules of procedures: the symbols of one, as tokens, well nested.      *)
Openers == {"proc", "block", "inline", "sep"}

Tokens == Openers \cup {"param", "local", "reg", "end"}

Nesting(ts) ==
  FoldLeft(LAMBDA d, t : IF t \in Openers THEN d + 1 ELSE IF t = "end" THEN d - 1 ELSE d,
           0, ts)

(* A scope is opened only if it can still be closed within the bound.      *)
CanFollow(ts, t) ==
  /\ t = "proc" <=> Nesting(ts) = 0
  /\ Len(ts) + 1 + Nesting(Append(ts, t)) <= MaxScopes

ScopesOf[n \in 0 .. MaxScopes] ==
  IF n = 0 THEN {<<>>}
  ELSE UNION {{Append(ts, t) : t \in {u \in Tokens : CanFollow(ts, u)}} : ts \in ScopesOf[n - 1]}

ProcInputs ==
  [scopes : {ts \in UNION {ScopesOf[n] : n \in 0 .. MaxScopes} : Nesting(ts) = 0},
   namesake : BOOLEAN]

Match(ts, i) == Min({j \in i + 1 .. Len(ts) : Nesting(SubSeq(ts, i, j)) = 0})

Opener(ts, j) == CHOOSE i \in 1 .. j : ts[i] \in Openers /\ Match(ts, i) = j

KindOf(ts, i) ==
  CASE ts[i] = "proc" -> Kind.S_GPROC32
    [] ts[i] = "block" -> Kind.S_BLOCK32
    [] ts[i] = "inline" -> Kind.S_INLINESITE
    [] ts[i] = "sep" -> Kind.S_SEPCODE
    [] ts[i] \in {"param", "local"} -> Kind.S_LOCAL
    [] ts[i] = "reg" -> Kind.S_REGREL32
    [] OTHER -> IF ts[Opener(ts, i)] = "inline" THEN Kind.S_INLINESITE_END ELSE Kind.S_END

(* S_SEPCODE is known to the scopes only, not to the parser.               *)
ScopeLayout(kind) ==
  IF kind = Kind.S_SEPCODE THEN BlockHeader \o <<"length">> ELSE SymLayout(kind)

ScopeEntry(ts, i, end) ==
  LET Layout == ScopeLayout(KindOf(ts, i))
      Bytes(role) ==
        CASE role = "name" -> PutStrz(<<96 + i>>)
          [] role = "end" -> PutU32(end)
          [] role = "flags16" -> PutU16(IF ts[i] = "param" THEN 257 ELSE 2)
          [] role = "item" -> PutU32(4096 + i)
          [] role = "rest" -> <<7, 6>>
          [] OTHER -> Zeros(Width(role))
  IN [kind |-> KindOf(ts, i), fields |-> [f \in DOMAIN Layout |-> Bytes(Layout[f])]]

(* Where symbol n + 1 of a module begins.                                  *)
PlaceAfter(ts, n) == 4 + Len(Stream([i \in 1 .. n |-> ScopeEntry(ts, i, 0)]))

ScopesModule(ts) ==
  LET End(i) == IF ts[i] \in Openers THEN PlaceAfter(ts, Match(ts, i) - 1) ELSE 0
  IN PutU32(4) \o Stream([i \in DOMAIN ts |-> ScopeEntry(ts, i, End(i))])

RefsTo(ts, module) ==
  LET Procs == SelectSeq([i \in DOMAIN ts |-> i], LAMBDA i : ts[i] = "proc")
  IN [k \in DOMAIN Procs |->
        [kind |-> Kind.S_PROCREF,
         fields |-> <<PutU32(0), PutU32(PlaceAfter(ts, Procs[k] - 1)), PutU16(module),
                      PutStrz(<<96 + Procs[k]>>)>>]]

(* A second module has a procedure of the name of the first one of this.   *)
Other == <<"proc", "param", "end">>

Namesake == [kind |-> Kind.S_UDT, fields |-> <<UdtPayload(116, <<65>>)>>]

(* pdb-mcp/proc.rs: what is answered for a procedure is what lies in its   *)
(* scope at any depth, however it was asked for.                           *)
ProceduresAnswered ==
  table = "procs" /\ input # <<>> =>
    LET ts == input[1].scopes
        gss == Stream((IF input[1].namesake THEN <<Namesake>> ELSE <<>>)
                        \o RefsTo(Other, 1) \o RefsTo(ts, 2))
    IN ProceduresFound([modules |-> <<ScopesModule(Other), ScopesModule(ts)>>, gss |-> gss,
                        gsi |-> ParseTable(BuildIndexes(gss, 2)[1].gsi, 2)[1]])

-----------------------------------------------------------------------------
(* Types.  The first number of a record is a count or its attributes, the  *)
(* others are a number that varies.                                        *)
TypeBytes(role, first, n, attr) ==
  CASE role \in IndexRoles -> <<n, 16, 0, 0>>
    [] role = "number" -> IF attr = 0 THEN <<5, 0>> ELSE <<3, 128, 1, 2, 3, 4>>
    [] role \in {"name", "strz"} -> IF attr = 0 THEN <<97, 0>> ELSE <<240, 98, 0>>
    [] role = "u8" -> <<9>>
    [] role = "u16" -> PutU16(IF first THEN n ELSE attr)
    [] role = "u32" -> PutU32(IF first THEN n ELSE attr)
    [] role = "u64" -> <<8, 7, 6, 5, 4, 3, 2, 1>>
    [] role = "rest" -> <<77, 16, 0, 0, 1, 0>>

Filled(layout, n, attr) ==
  FlattenSeq([i \in DOMAIN layout |-> TypeBytes(layout[i], i = 1, n, attr)])

TypeData(kind, n, attr) == Filled(TypeLayout(kind, PutU16(n) \o PutU16(attr)), n, attr)

(* The kinds that both the parser and the visitor know, but for lists.     *)
Lists == {Leaf.LF_ARGLIST, Leaf.LF_SUBSTR_LIST, Leaf.LF_BUILDINFO}

BothKnow ==
  {k \in {Leaf[name] : name \in DOMAIN Leaf} \ Lists :
     /\ k \notin {Leaf.LF_MEMBER, Leaf.LF_FIELDLIST, Leaf.LF_METHODLIST}
     /\ TypeLayout(k, <<>>) # <<>> /\ VisitLayout(k, <<>>) # NotVisited}

Attributes == {0, 16, 64, 96, 512}

Tails == {<<>>, <<242, 241>>, <<1, 2, 3, 4, 5, 6, 7, 8>>}

FieldOf(kind, attr) ==
  LET Bytes == PutU16(kind) \o Filled(FieldLayout(kind, PutU16(attr)), attr, attr)
  IN Bytes \o SubSeq(<<243, 242, 241>>, 1, Align4(Len(Bytes)) - Len(Bytes))

FieldKinds ==
  {k \in {Leaf[name] : name \in DOMAIN Leaf} : FieldLayout(k, <<>>) # <<>>}

RecordInputs ==
  [kind : BothKnow, count : {3}, attr : Attributes, tail : Tails]
    \cup [kind : Lists, count : 0 .. 2, attr : {0}, tail : Tails]
    \cup [kind : {Leaf.LF_METHODLIST}, attrs : SeqOf({0, 16, 24}, 3)]
    \cup [kind : {Leaf.LF_FIELDLIST}, fields : SeqOf(FieldKinds \X {0, 16}, 2)]

DataOf(x) ==
  CASE x.kind = Leaf.LF_METHODLIST ->
         FlattenSeq([i \in DOMAIN x.attrs |->
                       Filled(MethodEntry(PutU16(x.attrs[i])), x.attrs[i], 0)])
    [] x.kind = Leaf.LF_FIELDLIST ->
         FlattenSeq([i \in DOMAIN x.fields |-> FieldOf(x.fields[i][1], x.fields[i][2])])
    [] OTHER -> TypeData(x.kind, x.count, x.attr) \o x.tail

NewIndexOf(role, old) ==
  <<old[1], IF role = "type" THEN 17 ELSE IF role = "item" THEN 18 ELSE 19, 0, 0>>

(* Streams of records, with what may be behind the last one.               *)
TypesBytes(begin, records, tail) ==
  LET Bytes == FlattenSeq([i \in DOMAIN records |-> RecordBytes(records[i])]) \o tail
  IN PutU32(0) \o PutU32(TypeHeaderLen) \o PutU32(begin) \o PutU32(begin + Len(records))
       \o PutU32(Len(Bytes)) \o Zeros(TypeHeaderLen - 20) \o Bytes \o <<1, 2>>

ListInputs ==
  [records : SeqOf({[kind |-> Leaf.LF_MODIFIER, data |-> TypeData(Leaf.LF_MODIFIER, 0, 0)],
                    [kind |-> Leaf.LF_ALIAS, data |-> Append(TypeData(Leaf.LF_ALIAS, 0, 0), 241)],
                    [kind |-> 0, data |-> <<>>]}, 3),
   tail : {<<>>, <<5>>, <<0, 0, 1, 0>>, <<9, 0, 1, 16>>}]

(* A list of fields, whole and cut behind some of them: each part but the  *)
(* last ends in a link to the next, which lies in front of it.             *)
SplitInputs ==
  {x \in [fields : SeqOf({Leaf.LF_MEMBER, Leaf.LF_ONEMETHOD, Leaf.LF_ENUMERATE}, MaxFields),
          cuts : SUBSET (0 .. MaxFields - 1)] : \A c \in x.cuts : c < Len(x.fields)}

LinkTo(index) == PutU16(Leaf.LF_INDEX) \o <<0, 0>> \o PutU32(index)

PartsOf(fields, cuts) ==
  LET Ends == SetToSortSeq(cuts \cup {Len(fields)}, <)
      Start(j) == IF j = 1 THEN 1 ELSE Ends[j - 1] + 1
      Parts == Reverse([j \in DOMAIN Ends |-> SubSeq(fields, Start(j), Ends[j])])
      BytesOf(part) == FlattenSeq([i \in DOMAIN part |-> FieldOf(part[i], 16)])
  IN [j \in DOMAIN Parts |->
        [kind |-> Leaf.LF_FIELDLIST,
         data |-> BytesOf(Parts[j]) \o IF j = 1 THEN <<>> ELSE LinkTo(MinBegin + j - 2)]]

SplitTypes(fields, cuts) == ParseTypes(TypesBytes(MinBegin, PartsOf(fields, cuts), <<>>))[1]

(* Pairs of records to hash: kind, properties, name, and the type of the   *)
(* members.                                                                *)
HashRecords ==
  [kind : {Leaf.LF_STRUCTURE, Leaf.LF_ENUM, Leaf.LF_ARRAY}, property : {0, 128, 768},
   name : {<<97>>, UnnamedTag}, members : {0, 1}]

HashInputs == HashRecords \X HashRecords

Hashed(x) ==
  LET Layout == TypeLayout(x.kind, PutU16(0) \o PutU16(x.property))
      Bytes(i) ==
        CASE Layout[i] = "type" -> PutU32(MinBegin + x.members)
          [] Layout[i] = "name" -> PutStrz(x.name)
          [] Layout[i] = "strz" -> PutStrz(<<117>> \o x.name)
          [] Layout[i] = "u16" -> PutU16(IF i = 2 THEN x.property ELSE x.members)
          [] OTHER -> <<4, 0>>
  IN [kind |-> x.kind, data |-> FlattenSeq([i \in DOMAIN Layout |-> Bytes(i)])]

(* types/visitor.rs, tpi.rs, tpi/hash.rs: the visitor sees the type        *)
(* indices that the parser reads, records are found by their index, fields *)
(* do not depend on how their list is cut, and a definition has the hash   *)
(* of a copy of it.                                                        *)
TypesRead ==
  /\ table = "record" /\ input # <<>> =>
       VisitsWhatIsParsed(input[1].kind, DataOf(input[1]), NewIndexOf)
  /\ table = "list" /\ input # <<>> =>
       TypesIndexed(TypesBytes(4097, input[1].records, input[1].tail), 4097,
                    input[1].records)
  /\ table = "split" /\ input # <<>> =>
       SplitKeepsFields(SplitTypes(input[1].fields, input[1].cuts),
                        MinBegin + Cardinality(input[1].cuts),
                        SplitTypes(input[1].fields, {}), MinBegin)
  /\ table = "hash" /\ input # <<>> =>
       DefinitionsMeet(Hashed(input[1][1]), Hashed(input[1][2]))

-----------------------------------------------------------------------------
(* A PDB to encode: the PDB, TPI, DBI and IPI streams, a plain one, one of *)
(* six bytes to be hashes, 7 with symbols, a nil one and a plain one.      *)
EncodeInput0 ==
  [pdb |-> TRUE, dbi |-> "whole", sizes |-> <<2, 1, 1, 1>>, symbols |-> <<2, 3>>,
   tpi |-> "whole", ipi |-> "whole", records |-> <<2, 3>>, tail |-> <<>>, hashed |-> 6,
   regions |-> <<1, 2, 3>>, max |-> 4, alone |-> FALSE]

EncodeVariants ==
  [sizes : [1 .. 4 -> {-1, 0, 2, 6}], alone : BOOLEAN]
    \cup [pdb : BOOLEAN, dbi : {"nil", "short", "whole"}, tpi : {"nil", "short", "long", "whole"},
          ipi : {"nil", "short", "long", "whole"}, hashed : {3, 6, 7, NilIndex}, alone : BOOLEAN]
    \cup [records : SeqOf(1 .. 3, MaxRecords), tail : {<<>>, <<7>>, <<9, 0, 1, 16>>},
          max : {4, 20, 30}]
    \cup [symbols : SeqOf(1 .. 3, MaxRecords), tail : {<<>>, <<9, 0, 1, 16>>},
          max : {4, 20, 30}]
    \cup [regions : [1 .. 3 -> 1 .. 5], hashed : {6, 7}, max : {1, 4}]

PutI32(n) == IF n < 0 THEN <<255, 255, 255, 255>> ELSE PutU32(n)

(* Where a region of the hash stream begins, and how long it is.           *)
Regions == << <<-1, 2>>, <<0, 0>>, <<0, 2>>, <<1, 3>>, <<4, 3>> >>

EncodedSymbol(k) == <<Plain(Kind.S_END, 0), Plain(Kind.S_UDT, 0), Plain(Kind.S_PUB32, 0)>>[k]

EncodedType(k) ==
  <<RecordBytes([kind |-> 0, data |-> <<>>]),
    RecordBytes([kind |-> Leaf.LF_MODIFIER, data |-> TypeData(Leaf.LF_MODIFIER, 0, 0)]),
    RecordBytes([kind |-> Leaf.LF_ALIAS, data |-> TypeData(Leaf.LF_ALIAS, 0, 0)])>>[k]

TypesToEncode(x, state) ==
  LET Body == FlattenSeq([i \in DOMAIN x.records |-> EncodedType(x.records[i])]) \o x.tail
      RegionBytes(r) == PutI32(r[1]) \o PutU32(r[2])
  IN CASE state = "nil" -> <<>>
       [] state = "short" -> << <<1, 2, 3>> >>
       [] OTHER -> <<Zeros(16) \o PutU32(Len(Body) + IF state = "long" THEN 9 ELSE 0)
                       \o PutU16(x.hashed) \o Zeros(10)
                       \o FlattenSeq([i \in 1 .. 3 |-> RegionBytes(Regions[x.regions[i]])])
                       \o Body \o <<4, 5>> >>

DbiToEncode(x) ==
  CASE x.dbi = "nil" -> <<>>
    [] x.dbi = "short" -> << <<1, 2, 3>> >>
    [] OTHER -> <<Zeros(20) \o <<7, 0, 0, 0>>
                    \o FlattenSeq([i \in 1 .. 4 |-> PutI32(x.sizes[i])])
                    \o Zeros(24) \o <<1, 2, 3, 4, 5, 6, 7>> >>

StreamsToEncode(x) ==
  LET Symbols == Stream([i \in DOMAIN x.symbols |-> EncodedSymbol(x.symbols[i])])
  IN <<IF x.pdb THEN << <<1, 2>> >> ELSE <<>>,
       TypesToEncode(x, x.tpi), DbiToEncode(x), TypesToEncode(x, x.ipi),
       << <<8, 9>> >>, << <<1, 2, 3, 4, 5, 6>> >>, <<Symbols \o x.tail>>, <<>>, << <<7>> >> >>

EncodeInput(x) == [streams |-> StreamsToEncode(x), max |-> x.max, alone |-> x.alone]

EncodeInputs == {EncodeInput(v @@ EncodeInput0) : v \in EncodeVariants}

(* pdz/encode.rs: pdz-encode copies every stream, splits no record over    *)
(* two chunks, lets no stream that is written in parts share one, ends,    *)
(* and keeps to the rules of MsfzWriter.                                   *)
StreamsEncoded ==
  table = "encode" /\ input # <<>> =>
    StreamsEncodedFrom(input[1].streams, input[1].max, input[1].alone)

-----------------------------------------------------------------------------
(* The hashes of the tests of hash.rs (61-100 and 154-174).                *)
ASSUME KnownHashes ==
  /\ HashModU32(<<>>, 262143) = 3081
  /\ HashModU32(<<104, 101, 108, 108, 111>>, 262143) = 106466
  /\ HashModU32(<<72, 69, 76, 76, 79>>, 262143) = 106466
  /\ HashModU32(<<1, 2, 3, 4, 5, 6, 7>>, 262143) = 232809
  /\ HashModU32(<<5, 6, 7, 8>>, 262143) = 136427
  /\ Remainder(HashSig(<<104, 101, 108, 108, 111, 33>>, {}), 65536) = \h68c3

InputsOf(t) ==
  CASE t = "named" -> NamedInputs
    [] t = "names" -> NamesInputs
    [] t = "symbols" -> SymbolInputs
    [] t = "globals" -> GlobalInputs
    [] t = "buckets" -> BucketInputs
    [] t = "files" -> FileInputs
    [] t = "sizes" -> SizeInputs
    [] t = "image" -> ImageInputs
    [] t = "contribs" -> ContribInputs
    [] t = "address" -> AddressInputs
    [] t = "procs" -> ProcInputs
    [] t = "record" -> RecordInputs
    [] t = "list" -> ListInputs
    [] t = "split" -> SplitInputs
    [] t = "hash" -> HashInputs
    [] t = "encode" -> EncodeInputs

Init == table = "none" /\ input = <<>>

Open == table = "none" /\ table' \in Tables /\ UNCHANGED input

Give ==
  /\ table # "none" /\ input = <<>>
  /\ \E x \in InputsOf(table) : input' = <<x>>
  /\ UNCHANGED table

Close == input # <<>> /\ table' = "none" /\ input' = <<>>

Next == Open \/ Give \/ Close

Spec == Init /\ [][Next]_vars
=============================================================================

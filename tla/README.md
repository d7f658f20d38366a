# Verification of pdb-rs

Specifications, model-checking configurations and proofs for the program in
this repository: a library that reads and edits Program Database (PDB) files,
in the MSF and MSFZ containers, and the tools built on it.

The project covers

* the **MSF container** (crate `msf`), which is where a mistake costs a user's file:
  the page allocator, copy-on-write editing, the two-phase commit, opening a file
  again after a crash, and the byte-level stream writer;
* the **MSFZ container** (crate `msfz`), its writer and what a reader makes of the file;
* the **PDB facade** (crate `pdb`): named streams, flushing, committing, cached
  streams, and the command `pdbtool add-src` that drives them;
* the **tables** in the streams of a PDB (crates `pdb` and `codeview`): named streams,
  the Names stream, global symbols, the DBI stream, module streams, line data,
  symbols and types, down to their bytes;
* the **server** `pdb-mcp`: the table of open files and its queries;
* the command **`pdbtool pdz-encode`**, which turns an MSF file into an MSFZ file.

## 1. Inventory

| Component | Code | State it keeps | Operations | Hard behaviour | What makes it correct |
|---|---|---|---|---|---|
| Page allocator | `msf/src/pages.rs` | bit vectors `fpm`, `fpm_freed`, `fresh`; `next_free_page_hint`, `num_pages` | `alloc_pages`, `make_page(s)_fresh`, `merge_freed_into_free` | growth across intervals with their reserved pages; deleted pages must wait for the commit | pages handed out were free; none is special; nothing leaks |
| MSF editor | `msf/src/{lib,write,commit,check}.rs` | stream sizes, committed page lists, modified page lists, active FPM | `new_stream`, `nil_stream`, `write_stream`, page writes, `commit` | crash or failing write between any two writes; many commits in a row | the file is always the last commit; it opens again |
| Opening, creating | `msf/src/open.rs` | – (builds the editor's state from disk) | `create*`, `open*`, `modify*` | rebuilding the allocator's state from the directory | memory after opening equals memory after committing |
| Stream writer, reader | `msf/src/{stream_writer,write,read,stream_reader}.rs` | one stream's size and page list | `write_at`, `set_len`, `set_contents`, `read_at` | alignment of offset, end of stream and page; runs of adjacent pages; short writes | bytes as written, zeroes in gaps, nothing stale |
| MSFZ writer | `msfz/src/writer.rs` | current chunk, chunk table, fragments of each stream | `write`, `end_chunk`, `finish` | writes of several streams interleaved in a chunk; merging fragments | a stream reads back as written |
| MSFZ reader | `msfz/src/reader.rs` | fragment tables, cache of decompressed chunks | `read_stream`, `read_at` | threads racing to fill a cache slot | one value per slot, right bytes |
| PDB facade | `pdb/src/{lib,container,embedded_sources}.rs` | cached parsed streams, named streams and their `modified` mark | `add_or_replace_named_stream`, `flush_all`, `commit` | two-step durability: stream now, its name at flush | no name without stream, no stream lost |
| PDBI, named streams | `pdb/src/pdbi.rs` | name to stream map | `parse`, `insert`, `to_bytes` | hash table with linear probing | parse after encode is the identity |
| Names stream | `pdb/src/names.rs` | string table | `rebuild`, `map_old_to_new` | deduplication, remapping, wrap-around | old and new offset name one string |
| Global symbols | `pdb/src/globals*` | name table, address map | build, encode, find | empty buckets, bitmap width, case folding | every symbol found, and in its bucket |
| DBI, modules, lines | `pdb/src/{dbi*,modi,lines*}.rs` | parsed views of a stream | iterate, search, sort, edit in place | nested lengths, sorted searches, two passes over one buffer | a search finds what covers the address; what is rearranged keeps its meaning |
| TPI, IPI | `pdb/src/tpi*` | parsed stream, table of record offsets | find by type index, hash | field lists that go on in other records | the record that the scan would find |
| CodeView | `codeview/src` | cursors | parse, iterate, encode, visit indices | lengths, alignment, numeric leaves, two decoders of one record | decode after encode; both decoders agree |
| COFF | `coff/src` | none | accessors | none | – |
| pdbtool | `pdbtool/src` | none | drives the above: `addsrc`, `copy`, `pdz-encode`, dumps | order of flush and commit; where chunks end | all or nothing; every stream copied, no record split |
| pdb-mcp | `pdb-mcp/src` | table of open files behind a mutex | open, close, queries | check and insert under separate locks | an alias names the file it was opened for |

How they interact: all calls are synchronous and an editor has one owner
(`&mut Msf`), so inside the MSF crate the concurrency is between the editor and
the fate of the process: it may die, or a write may fail, at any write. A
`StreamWriter` borrows the allocator and one stream's size and page list from
the `Msf`. `Pdb` sits on an `Msf` or an `Msfz` (`container.rs`) and writes its
buffered map of named streams to stream 1 in `flush_all`, which is separate from
`Msf::commit`. The only threads of the system are the tasks of the server, which
look up, open and insert files under separate locks of one mutex and hold it for
a whole query; an MSFZ reader's chunk cache is made for being shared, but nothing
in the repository shares one.

`PROJECT.json` lists the components with their status, every hazard found in
the code at its line, and which property watches it.

## 2. Modules

| Module | What it is |
|---|---|
| `PageAllocator` | `pages.rs`: the allocator's variables and operations |
| `Msf` | the container at the granularity of pages: streams, editing, commit, crash, reopening |
| `AtomicStore` | what the container promises: a table of streams that changes on disk only at a commit, all at once |
| `MsfCreateOver` | `Msf` with `Msf::create` over an existing file |
| `MsfInvariant` | the inductive invariants of `Msf`: `IInv` for safety, `RecoveryInv` for opening again |
| `PageAllocatorProofs` | proofs about the allocator |
| `MsfProofs` | proofs: tables of page lists; `IInv`, `RecoveryInv` and what follows from them; that `Msf` implements `AtomicStore` |
| `StreamWriter` | writing and reading one stream, byte by byte, over the same `PageAllocator` |
| `StreamWriterInvariant`, `StreamWriterProofs` | the inductive invariant of `StreamWriter`; proofs |
| `MsfzReader` | opening an MSFZ file and reading from it, as functions of the file |
| `MsfzWriter` | writing an MSFZ file, from `new` to the last write of `finish` |
| `StreamArchive` | what an MSFZ file promises: streams that only grow by whole calls of `write`, published once |
| `MsfzWriterInvariant`, `MsfzProofs` | the inductive invariants of `MsfzWriter`; proofs, also that `MsfzReader` finds what `MsfzWriter` wrote |
| `PdbSession` | a program, or `add-src`, that opens a PDB, adds named streams, flushes and commits, over `AtomicStore` |
| `NamedStore` | what named streams promise: a map of names that reaches the disk in one step |
| `McpServer` | the table of open files under concurrent requests |
| `PdbSessionProofs` | proofs about `PdbSession`, and about `McpServer` beside it |
| `Bytes` | buffers, cursors, numbers and strings in bytes; the hash functions |
| `NamedStreamTable`, `NamesTable` | the PDB Information stream; the Names stream |
| `CodeView`, `SymbolRecords`, `SymbolStream` | what records share; the layout of every kind of symbol; streams of symbols |
| `GlobalIndexes` | the name table of the GSI and PSI, the address map, and the finding of symbols |
| `Dbi`, `ModuleStream`, `LineData` | the DBI stream and its substreams; the stream of a module; its line data |
| `TypeRecords`, `TypeStream`, `TypeHash` | the layout of every kind of type, twice; streams of types; the hash of a record |
| `AddressQuery`, `ProcQuery` | the server's answers about addresses and procedures |
| `PdzEncode` | `pdbtool pdz-encode`: the calls by which it copies the streams of a PDB to an MSFZ file |
| `TableProofs` | proofs about the tables: named streams, the Names stream, name-table buckets, substreams, contributions |
| `RecordProofs` | proofs about streams of records: type records by their index, symbols that are written and walked, global symbols by name and by address |
| `SequenceLemmas` | what `MsfzProofs`, `TableProofs` and `RecordProofs` share: induction over sets of numbers, folds and joined sequences, sets in order, remainders |
| `MCMsf`, `MCMsfCreateOver`, `MCStreamWriter`, `MCMsfzWriter`, `MCPdbSession`, `MCTables`, `MCReplace` | instances for TLC |

### PageAllocator

The three bit vectors are the sets `free`, `freed`, `fresh`. `AllocPages(n, p, k)`
says that `alloc_pages(n)` returns first page `p` and run length `k`: either the
first run of free pages at or behind the hint (`FreeRun`), or new pages at the
end of the file (`GrownRun`), which steps over the FPM pages of the interval and
may end with the first page of the next one. `MaxPages` bounds the file.
The module has no `Next` of its own; `Msf` and `StreamWriter` compose its
operations with theirs.

### Msf

| Variable | Code |
|---|---|
| `file` | the pages on disk: a record with field `data`, `dir`, `map`, `fpm` or `header` |
| `stage` | where the editor is: `closed`, `idle`, a stage of `commit`, or `failed` |
| `sizes`, `committed`, `modified` | `stream_sizes`, `committed_stream_pages` cut by `committed_stream_page_starts`, `modified_streams` |
| `activeFpm` | `active_fpm` |
| `dirPages`, `mapPages`, `interval` | the locals of `write_new_stream_dir` and `write_fpm` |

| Action | Code |
|---|---|
| `Create`, `Reopen` | `create_for`; `new_with_access_mode` for read-write on Big MSF, with the checks that can reject the file |
| `NewStream`, `NilStream`, `WriteStream` | the functions of those names in `write.rs` |
| `OverwriteFreshPage`, `CowPage` | `cow_page_and_write` (and `make_page_fresh`) on one page of a stream |
| `AppendPages`, `AppendFails` | a run allocated, listed, counted and written, by zero-extension and appending writes; the second is a failing write in `write_append_complete_pages` |
| `Truncate` | `set_len` to a smaller size |
| `BeginCommit`, `WriteDirPage`, `WriteMapPage`, `MergeFreed`, `WriteFpmPage`, `WriteHeader` | `commit`, cut at each of its writes; the last one includes the clean-up of memory, which cannot fail |
| `CommitFails` | a write of the commit fails |
| `Crash` | the process dies, panics, or drops the `Msf` |

A stream's size is its number of pages here. A directory page holds a copy of
the whole directory and the number of its part, so that what is checked on
reading is that every part is present, current and in its place. Names of
contents are model values; the bytes are `StreamWriter`'s subject.

### StreamWriter

`write_core` walks from the end of the stream, or the position of the write, to
the end of the data. Each function it calls, and each turn of a loop in them, is
an action; `phase` is the function about to run and `Route` says which one that
is. Every written byte is distinct (the call's number and its index), so a
property on contents tells every misplaced byte. `Truncate`, `SetContents` and
`Extend` are `set_len` and `set_contents`; `ReadStream` is `read_stream_core` on
top of `StreamPageMapper::map`.

### MsfzReader and MsfzWriter

A file is a sequence of cells. A cell is a byte of a stream, which tells the
stream, the call of `write` and its place in it; one of the cells a chunk or the
directory was compressed to; a field of the directory; an entry of the chunk
table; or the header. What matters about compression is that the whole image is
needed to get the data back and that its length is unrelated to the data's. An
alignment of two cells stands for 4 and for 16 bytes.

| Variable of `MsfzWriter` | Code |
|---|---|
| `out`, `pos` | the file and its position |
| `chunkData`, `chunks`, `threshold` | `uncompressed_chunk_data`, `chunks`, `uncompressed_chunk_size_threshold` |
| `streams` | `streams`: `Nil` for `None`, or the fragments |
| `writer` | the `StreamWriter` that borrows the `MsfzWriter`, with its settings |
| `stage`, `header` | where `finish` is, and the header it will write |
| `calls`, `failures` | count the calls of `write` and the writes that failed |

`WriteCompressed`, `WriteUncompressed` and the four ways in which `write` returns
an error are actions; `FinishCurrentChunk` is part of those that call it. A write
of the file that fails leaves any part of its cells and moves the position.
`finish` is cut into `FinishChunk`, `WriteStreamDir`, `WriteChunkTable`,
`WriteFileHeader`, `ExtendToMinFileSize`.

`MsfzReader` decodes what is in the file, with the checks of `from_file` and
`decode_stream_dir`, and does not look at the writer's variables. The refinement
of `StreamArchive` maps its `contents` to what the fragments of the writer reach,
in the file or in the chunk in memory, and its `image` to those streams from the
moment the header is there; `ReadsBack` shows that this image is the one the
reader decodes. The two together say that whoever opens the file finds exactly
the calls of `write` that returned `Ok`.

### PdbSession, NamedStore and McpServer

| Variable of `PdbSession` | Code |
|---|---|
| `stable`, `working` | the streams on disk and those the container shows, as in `AtomicStore`; stream 1 holds the map of names |
| `session` | the `Pdb`: `pdbi.named_streams` with its mark `modified`, the cell that caches the Names stream, and how it was opened |
| `job` | the run of `add-src`: the files it was asked for, how it ended, what the file held before |
| `mishaps`, `session.touched` | history, for the properties only |

| Action | Code |
|---|---|
| `OpenLibrary`, `OpenAddSrc` | `Pdb::from_file_access` as a library or as `add-src` |
| `AddUnchanged`, `AddReplaces`, `AddNew`, `AddReplaceFails`, `AddNewFails` | the ways through `add_or_replace_named_stream` |
| `FlushAll`, `FlushNothing`, `FlushFails` | `flush_all` |
| `Commit`, `Drop` | `Msf::commit` through the container; everything that ends a session without one |
| `LoadNames` | `Pdb::names` |

The container is `AtomicStore`, which the MSF runs show `Msf` to implement, so a
commit is one step here. The rows of `AtomicStore` and `NamedStore` are related by
a mapping that looks streams up by their names.

`McpServer` has one `pdbs` table; `CheckAlias`, `OpenFile` (or `OpenFails`) and
`InsertPdb` are the three parts of `open_pdb` between which other requests run.

### The tables of a PDB

These modules have no variables. They define the readers, writers and searches of
the code as operators over byte sequences: a parser is the bytes that are left, and
an operator that fails returns `Err`, as the methods of `Parser` do. A record is a
row of roles (`CodeView`): a field is a type index, a name, a number of a width, and
so on, so that the layout of every symbol and type is a line of a table
(`SymLayout`, `TypeLayout`), read by the same `Fields` that the properties use.
The layouts that the type visitor knows are a second table (`VisitLayout`),
because the code has two decoders for one record and the property is that they
agree. 32-bit hashes are sets of bit positions, which keeps them exact within TLC's
integers. What the code sorts is a set put in order (`SortedSeq`), by counting for
each element those before it.

`PdzEncode` is on top of these: the parsers decide where `pdz-encode` cuts a stream. Its
result is the sequence of calls to `MsfzWriter`. `StreamsEncoded` and the run
`msfz_writer` meet in the middle: the calls obey the rules (`StreamOnce`, `Adjacent`)
under which that run shows that streams read back, and `ChunkShape` there says that no
call is split, so a record that lies within one call lies within one chunk.

Each module ends with what must hold of its definitions for an input. `MCTables`
has inputs for each: a behaviour picks a table, then an input, so that TLC
enumerates one table's inputs at a time and counts each once.

## 3. What the runs check

| Run | Bounds | Shows |
|---|---|---|
| `msf_edits` | 5 edits in a behaviour, appends that may fail (after which that stream is not shrunk), any number of crashes, reopenings and failing commits between them; 4-page intervals, 18 pages, 3 streams of up to 2 pages, 2 contents | type invariant; `ReopenSucceeds`; `PagesOwnedOnce`; `NoPageLost`; `MemoryMatchesDisk`; `CommittedUntouched`; `GrowsOnlyWhenFull`; refinement of `AtomicStore` |
| `msf_layout` | 2 entries per directory or map page, 5 bits per FPM page, 5-page intervals, 26 pages | the same file layout with every loop of `commit` going round more than once: `CommittedUntouched` and the refinement again, `CommitEnds`, and `RecoveryInv`, the inductive invariant that is proved in general (it contains `IInv`) |
| `stream_writer` | pages of 4 bytes, streams of up to 10 bytes, 2 calls, 4 initial layouts | `BytesAsWritten`, `PagesMatchSize`, `ReadsSeeContents`, `StraightLine`, `CallsEnd` |
| `msfz_writer` | 3 calls of 1 or 2 bytes, 3 streams, thresholds 2 and 3, alignments 1 and 2, streams shorter than 5 bytes, offsets up to 7, one failing write | `ChunkShape`, `ReadsBack`, `ReadAtAgrees` (every offset and length), refinement of `StreamArchive` |
| `pdb_session` | 3 names, 2 contents of which one does not parse as a Names stream, 3 new streams, 5 calls that add, any number of sessions, flushes, commits and failures; 2 requests, 1 alias, 2 files at the server | `NamesResolve`, `NoOrphans`, `AddSrcAllOrNothing`, `NamesCurrent`, refinement of `NamedStore`; `ReplacedOnlyByOverlap` |
| `tables` | see below; 65,843 states | eleven properties of the tables of a PDB and of what is computed from them |
| `msf_append_leak`, `msf_create_over`, `set_len_growth`, `msfz_coalesce`, `replace_symbols`, `contrib_section` | as above; modules of up to 3 words of symbols; the contributions of `AddressesFound` | a violation each, see section 5 |

| Property of `tables` | Inputs | Shows |
|---|---|---|
| `NamedStreamsRead` | every map from 5 names to 2 streams, the hash of the code and ten that collide | parsing what was encoded gives the map again, and `get` finds each name |
| `NamesRebuilt` | up to 3 strings out of 4, duplicates, an unterminated tail, 3 hashes | after `rebuild` every mapped offset names the string it named before, and the hash table finds it |
| `SymbolsRead` | every kind of symbol with 3 fillings, streams of up to 3 | what the builder wrote is iterated and parsed again; both iterators and the offset reader agree; a cut stream gives its whole records (the immutable iterator and the offset reader only); a record ends 2 bytes past a multiple of 4 if its bytes are odd in number (section 5) |
| `SymbolsIndexed` | up to 3 global symbols of 6 kinds, names that differ in case, 3 addresses and others asked for, 1 or 2 buckets | every symbol but data and token references is found by name, publics in the PSI and the others in the GSI; a public by its very address and from no other, the nearest ones included (section 5) |
| `BucketsInRange` | any bitmap and up to 3 pointers, well formed or not | a table that is accepted has ranges that cover its records once |
| `FilesKept` | 2 or 3 files in every order, duplicate names, blocks of lines with and without columns | sorting the checksums and remapping names leaves every line in its file |
| `DbiRead` | every vector of sizes -1, 0, 2 over the substreams; up to 2 modules with 2 sources each | the substreams lie one behind another from the header on and within the stream, or it is rejected; bytes behind the last are accepted and belong to none (section 5); parsing gives what was written; renumbering modules twice changes nothing |
| `AddressesFound` | images of up to 2 pieces of code, each with no lines, those of one file, or those of two in either order; every set of disjoint or overlapping contributions out of 12 | for an address that a contribution covers the binary search finds it as a scan does; the procedure at an address is that of its code, and the line the nearest of its file (of all, if there is one file) |
| `ProceduresAnswered` | every well-nested module of up to 6 symbols | `get_proc` gives the parameters, locals, blocks and inlined functions of that procedure, at every depth, and of no other; parameters of inlined functions are among them (section 5) |
| `TypesRead` | every kind of record that both decoders know, with attributes and tails; lists of fields cut over up to 4 records; pairs of records to hash | the visitor sees the indices that the parser parses; a record is found by its index; a list cut in parts has the same fields; a definition and its duplicate share a hash |
| `StreamsEncoded` | a PDB of 9 streams: header sizes -1, 0, 2, 6 of the DBI substreams; absent, short, inconsistent and whole streams; up to 3 records of 3 lengths with an unreadable tail; regions of hashes that overlap, leave gaps or lie outside; maxima below, at and above the smallest chunk | the calls of `pdz-encode` copy every stream; a type record or symbol is never split over chunks; streams in parts share no chunk; the loop ends; the calls keep to the rules of `msfz_writer` |

Why the bounds are enough for the interesting cases. With intervals of four
pages a file of 18 pages crosses four FPM boundaries, in each of the phases
`alloc_pages` distinguishes. Five edits make two or three commits: the second is
where pages freed by the first are reused, and the third is where a wrong
clean-up of the second shows. Two pages per stream give runs, and two streams
that can be edited give competition for the same free pages. Four-byte pages and
ten-byte streams give every relation of a write to two page boundaries.
`MaxEdits`, `MaxPages`, `MaxStreams`, `MaxStreamPages`, `MaxLen`, `MaxCalls` and
`ShrinkAfterFailure` (what `msf_append_leak` allows and `msf_edits` does not) are the only bounds; a behaviour that would pass `MaxPages` stops there, which is
why the configurations switch deadlock checking off: the application may also
simply stop editing.

For MSFZ, three calls of two lengths give the three fragments that are needed to
merge, not to merge, and to read across two boundaries; threshold, size and offset
limits are so low that each is met exactly and passed. `MaxStreams`, `MaxCalls` and
`MaxFailures` are the bounds; a writer that has finished stops.

For sessions, three names are the Names stream and two others, so that a name is
added, replaced and left alone in one session; five calls make two sessions that
both add, with everything that can go wrong in between. `MaxStreams` and
`MaxEdits` are the bounds; deadlock checking is off because calls that add run out,
and because a file whose map is damaged does not open again. The server shares
no state with a session, so each is explored while the other rests.

For tables, an input of each kind has the smallest size at which every branch of the
definitions is taken: three strings are two equal ones and another; three symbols
are a collision and another bucket; two pieces are neighbours, with and without a
gap, in one section or two, and two files the fewest between which the
search for a line can go wrong; six symbols are a procedure with a block that holds a
block; three records make up to three chunks. `MaxStrings`, `MaxSyms`, `MaxScopes`,
`MaxPieces`, `MaxFields` and `MaxRecords` are the bounds; `MinChunkLen` stands for
`MIN_CHUNK_LEN`: the longest record of the inputs fits, as the longest of a PDB
does. What the inputs leave out is listed in section 6.

In `msfz_writer` callers keep to two rules, both switched off by `AnyCalls` in
`msfz_coalesce`: `StreamOnce`, that a stream's writer is taken once, which one of
two contradictory comments asks for (`writer.rs:435`; line 205 says both), and
`Adjacent`, that nothing else goes to the file between two uncompressed writes to
a stream. Nothing in the documentation asks for the second; without it the code
merges fragments that are not adjacent (section 5). Within these rules merging
is right. No caller writes to stream 0, which is reserved.

Assumptions that the code makes too. Page 0 is written atomically (the comment
on `commit` says so), and so is the header of an MSFZ file, which is shorter
than a sector. A crash is the death of the process: the code never calls
for the operating system to flush its cache, so writes that were issued are
there afterwards, in order; a power failure is not covered. Streams are numbered
from 1 (`write_stream(0)` is documented as reserved). An editor whose `commit`
returned an error is given up, as its documentation asks. A failing write of an
appended run is taken to have written nothing of the run.

Fairness. `CommitEnds` assumes weak fairness of the steps of a commit, which are
consecutive statements of one function; failing or dying in between is not
excluded, it also ends the commit. `CallsEnd` assumes weak fairness of a call
that has begun. The application is not assumed to do anything.

Each property of a passing run has a mutant in `PROJECT.json`: a change of one
definition, of the kind a mistake in that code would be, with which TLC refutes
the property. The definitions introduced as slips in the modules are those.

## 4. What is proved

### The container

For all values of the constants allowed by the assumptions in `PageAllocator`
and `Msf`: any page size of at least 3, any number of pages, streams and entries
per page. `FixedStreams` is at least 1, since stream 0 exists in every file, and below
`MaxStreams`; an FPM page has at least as many bits as an interval has pages (8 times
as many in the code); the values that stand for a missing size or header (`Nil`,
`NoHeader`) are not sizes, page lists or tables.

| Theorem (`MsfProofs`) | Statement |
|---|---|
| `InductiveInvariant` | `Spec => []IInv` |
| `TypeCorrect` | `Spec => []TypeOK` |
| `OwnedOnce` | `Spec => []PagesOwnedOnce` |
| `CommittedSafe` | `Spec => CommittedUntouched` |
| `RecoveryInvariant` | `Spec => []RecoveryInv` |
| `ReopenAlways`, `NoLeak`, `MemoryAsOnDisk` | `~AppendErrors` implies `Spec => []ReopenSucceeds`, `[]NoPageLost`, `[]MemoryMatchesDisk` |
| `GrowsWhenFull` | `Spec => GrowsOnlyWhenFull` |
| `StoreRefined` | `Spec => ImplementsStore`, that is, `Store!Spec` |

Three of them need that the write of an appended run does not fail. The code does: after
such a failure pages are lost and `modify` rejects the file (section 5), so that the
statements are false without it, as run `msf_append_leak` shows. The others, crash
safety and the refinement among them, hold with failing appends too.

*Safety.* `PagesOwnedOnce` and `CommittedUntouched` are not inductive: that a
write hits no committed page depends on where pages come from. `IInv` adds:

1. `AllocatorConsistent`: free and deleted pages lie in the file, are not
   special and are disjoint. `PageAllocatorProofs` shows that every run
   `alloc_pages` returns consists of free pages or of pages behind the end of
   the file, none of them special (`AllocPagesEffect`); the arithmetic on
   intervals is `GrowthBounds` and `GrowthNotSpecial`.
2. `StableProtected`: until `merge_freed_into_free`, what the header on disk
   reaches (`StablePages`) is neither free nor fresh. Writes go to pages just
   allocated or to fresh ones, hence never there.
3. `DiskWellFormed` and `ActiveFpmKnown`: after the merge only pages
   `FpmPage(i, 3 - activeFpm)` are written before the header. They are special,
   so not in `StablePages`, and differ from those of the active FPM.
4. `CommitProgress`: the directory and map pages written so far hold what they
   should, so that when the header is written the directory it reaches is the
   editor's, whose pages are, by `PagesOwnedOnce`, not free. This restores
   `StableProtected` for the new header.

`MsfProofs` treats the page lists of all streams as one table and shows that
replacing, appending and truncating keep its entries distinct. It has one
lemma per action (`CowPageStep`, `AppendRunStep`, `WriteHeaderStep`, ...), each
for the invariant and for `CommittedUntouched`, and combines them in `NextInvariant`.

*Recovery.* That the file opens again is decided when the header is written, by what the
stages of the commit before it did. `RecoveryInv` adds to `IInv`:

1. `NoPageLost`, which accounts for each page (`AllocAccounts`, and one lemma per action);
   it makes the free pages that `open` computes from the page lists those of the editor.
2. `FpmProgress`: in the intervals written so far the new FPM holds exactly the free pages.
   When the last interval is written, every bit of it agrees (`NewFpmReads`), which is
   the check of `open` that a lost page fails.
3. `SizesWithinPages` and `CommitPagesDistinct`: a stream has the pages its size calls for,
   and no page is found busy twice (`NewFreeComputed`).
4. `HintBehindFree`: no free page lies in front of the hint. `GrowsOnlyWhenFull` follows:
   the search from the hint misses none. It does not hold while the FPM and the
   header are written, when nothing is allocated.
5. `ClosedIsNew`, `DataTyped`: what `Create` and the refinement find.

`NewHeaderOpens` puts these together: every check of `open` passes on the file that
`WriteHeader` leaves. All other steps leave what `open` reads as it was
(`OpenUnchanged`), whether a crash follows or not. `CommitMemory` and `OpenMemory` show
that `WriteHeader` and `Reopen` establish `MemoryMatchesDisk`; edits mark what they modify.

*Refinement.* `AtomicStore` sees the streams that the header on disk reaches and those of
the editor. By `CommittedUntouched` the first change with `WriteHeader` alone
(`StableKeeps`). Every edit changes the second for one stream as `AtomicStore` allows:
the pages it writes belong, by `PagesOwnedOnce`, to no other (`StreamEdit`). Directory, map
and FPM pages belong to no stream, so that those steps stutter. At `WriteHeader` the
new directory is the editor's table, hence `Store!Commit`. The proof also shows that the
fresh file of `Create` and the one that `Reopen` builds are the steps the store has for them.

### The stream writer

For every page size, size of file and stream, number of calls and set of `Layouts` whose
streams are as `write_stream` finds them: as many pages as their size calls for, all
different, none free or special (`LayoutsAssumption`; `mark_stream_pages_busy` checks it
on opening, and `PagesOwnedOnce` and `SizesWithinPages` are what `Msf` proves of it).

| Theorem (`StreamWriterProofs`) | Statement, each under `GrowthWithinPage` |
|---|---|
| `WriterInvariant` | `Spec => []WriterInv` |
| `WriterTypes` | `Spec => []TypeOK` |
| `StreamOwnsItsPages` | `Spec => []PagesMatchSize` |
| `CallsWriteWhatTheyShould` | `~ShortWrites` implies `Spec => []BytesAsWritten` |
| `NeverBack` | `Spec => StraightLine` |
| `ReadsAreContents` | `Spec => []ReadsSeeContents` |

`GrowthWithinPage` restricts the calls of `set_len` with a larger size to those
that the code gets right or answers with a panic: an empty stream to at most a page, others
within their last page. Elsewhere it is wrong (run `set_len_growth`). No restriction is put on
`write`, on `set_contents` or on shrinking. `BytesAsWritten` needs `~ShortWrites`, because the
code drops the result of `write_at` (section 5); the other theorems do without.

The argument. `BytesAsWritten` speaks of the moment at which a call returns. In
between, the stream is neither the old nor the new one, and the page list may be ahead of the data.
`WriterInv` says what is true then:

1. `Storage`: the pages of the stream are different, in the file, and neither free nor
   special; pages appended come from `alloc_pages`, those replaced from
   `make_page_fresh`.
2. `Len(pages) = PageCount(size)` at every step, not between calls only.
3. `AtPhase`: what the function about to run may count on. These are the assertions of
   `write.rs` and the relations of position, size and page boundary that they leave unsaid;
   each is shown where the function is chosen (`Routed`).
4. `OnTheWay`: `Finished(Contents, pos, buf) = Expected`. The data that is left, put where
   it goes, gives what the call asked for. A function that writes n bytes and drops n
   from `buf` keeps this (`FinishedAfter`, `Consumed`); with `buf` empty it is `BytesAsWritten`
   (`Returned`).

Which byte of which page an offset is at is the subject of the first lemmas (`ByteAddress`,
`BaseOrder`, `PagesNeeded`); `PartWritten`, `PagesAppended` and `RunWritten` say what
writing a part of a page, a run of new pages and a run of fresh ones does to `Contents`.
One lemma per function (`ZeroExtendStartKeeps`, ...) combines them.

`StraightLine` follows from `WriterInv` and the phase reached after each function
(`StepsOnward`). `ReadStream` is a recursive function; instead of an induction the proof
gives the function that it should be, shows that it satisfies the equation
(`CutInTwo`, `MappedBytes`), and that any two solutions are equal, since
otherwise there would be a largest offset at which they differ (`LargestExists`).

### The MSFZ writer

For all lengths of calls, thresholds, alignments, sizes to which a chunk is compressed, limits
on streams and offsets, and any number of streams, calls and failing writes.
`MsfzValuesAssumption` says that the values standing for a nil stream and for an error
are not bytes or fragments, and that an error is no sequence of cells, fields or entries either.

| Theorem (`MsfzProofs`) | Statement |
|---|---|
| `MsfzInvariant` | `Spec => []MsfzInv` |
| `MsfzTypes` | `Spec => []TypeOK` |
| `ChunksKeepCalls` | `Spec => []ChunkShape` |
| `ArchiveRefined` | `~AnyCalls` implies `Spec => ImplementsArchive`, that is, `Archive!Spec` |
| `ReadInvariant` | `Spec => []ReadInv` |
| `FileReadsBack` | `Spec => []ReadsBack` |
| `PartsReadBack` | `~AnyCalls` implies `Spec => []ReadAtAgrees` |

Those with `~AnyCalls` need callers that keep to `StreamOnce` and `Adjacent` (section 3): without
them they are false, since fragments merged by the wrong size reach beyond their chunk, as the
run `msfz_coalesce` shows. The others hold for any calls.

A fragment is a promise: it names a chunk that may not be written yet, or a place
in a file that goes on being written, possibly again where a write failed. `MsfzInv` says
why the promise is kept:

1. `ChunksOnDisk`: each entry of the chunk table names cells behind the header and, until the
   header is written, in front of the position, which hold all of the chunk. Such cells are
   `Kept`: every write begins at or behind the position (`OffsetBehind`, `WrittenBehind`),
   a failed one too (`WriteFailed`), so none of them is written again (`OutKept`).
2. `StreamsStored`: so is each uncompressed fragment; a compressed one lies within
   its chunk, on disk or in memory. Bytes join the chunk in memory at its end or a new chunk
   (`ChunkStep`), and a chunk that is written stays what it was (`ChunksStay`); so what a
   fragment reaches stays what it was (`FragmentKept`, `StreamKept`).
3. `EndsWithChunk`: if the stream being written ends in the chunk in memory, it ends where
   that chunk does. The code merges by the size of the new fragment in place of the last
   one's; under `EndsWithChunk` and `Adjacent` the condition implies that the two sizes are
   equal and that the fragments are adjacent (`LastPending`).
4. `ChunksApart`: a chunk is below the threshold or of one call, and no two chunks share a
   call. Calls are numbered, so that the bytes of a new one are in no chunk.
5. `InStage`: the header cell stays zero until `WriteFileHeader`; the chunk in memory is empty
   from `FinishChunk` on, so the chunk table is complete when it is written.

All steps but the two successful writes add no bytes (`Quiet`); `BytesReachChunk`,
`CellsReadOn` and `StreamGrows` say what those two add. For the refinement it remains that a
quiet step shows no other contents (`QuietContents`), that a call appends
its bytes to the stream it is made on (`AppendedArchive`), and that the header turns
`NoImage` into the contents (`HeaderArchive`). `FlattenSeq` and `FoldLeft` are
recursive functions; `FlattenPrefixes` and `SizeSums` show that they are sums over
prefixes. That such functions exist is shown by induction over a set of lengths (`StepByStep`),
which needs no operator as a parameter.

*Reading.* `ReadInv` adds to `MsfzInv` what the checks of the reader ask for: every compressed
fragment begins within its chunk (`OffsetsWithin`), and what `finish` has written of the
directory, the chunk table and the header stays in the file as it was written, over any
failed write (`FinishInv`). With them a file whose header is written passes every check of
`open`, and the directory decodes to the fragments it was encoded from: the decoder of a
stream's fragments is a recursive function, shown to be at the i-th fragment of the i-th
step. The fragments lead to the bytes by `StreamsStored`. `read_at` folds over the
fragments with an offset into the file, a position in the buffer and the bytes that are
left; `ReadSoFar` says what the fold has put together after i fragments, and the lemmas on cuts
of joined sequences that this is the part of the stream asked for.

### Sessions and the server

For every set of names and contents, every number of streams and every number of
calls, sessions and failures (the assumptions of `PdbSession` say that the values
that stand for nothing are not names, contents or maps of them):

| Theorem (`PdbSessionProofs`) | Statement |
|---|---|
| `SessionInvariant` | `Spec => []IInv` |
| `NamesAlwaysResolve`, `OrphansComeFromMishaps`, `AddSrcIsAllOrNothing`, `NamesStayCurrent` | `Spec => []NamesResolve`, `[]NoOrphans`, `[]AddSrcAllOrNothing`, `[]NamesCurrent` |
| `SessionImplementsStore` | `Spec => ImplementsNamedStore`, that is, `Named!Spec` |

There are three maps of names: in memory, in the container and on disk. None of the
properties is inductive alone, because a commit copies the second to the third
while the first is what the program sees. `IInv` adds `MapKept`: the map in the
container is a part of the one in memory, and equal to it unless the latter is
marked as modified. So a `flush_all` that does nothing loses nothing, and what a
commit makes durable are the streams under the names last flushed, which is
`Named!Commit`. `JobKept` is the form of `AddSrcAllOrNothing` that holds before the
commit. One lemma per action shows that `IInv` is preserved, and one per action
that the step is a step of `NamedStore` or changes nothing there.

For any number of clients, aliases and files, the module proves of `McpServer`
`ReplacementIsOverlap`: `Server!Spec => ReplacedOnlyByOverlap`. The invariant behind it is
that a pending request whose alias is in use has been marked by the request that
inserted there.

### The tables

The modules of the tables have no variables, so that most of what is to be proved is about
operators, for inputs of every size. Four of these facts are also what an invariant of
`tables` says, and are stated of `MCTables!Spec` too, for any bound on the inputs.

| Theorem (`TableProofs`, from `TypesAlwaysIndexed` on `RecordProofs`) | Statement |
|---|---|
| `NamedStreamsAlwaysRead`, `NamedStreamsStayRead` | `ReadsBack`, for every finite map from names to streams and every hash function of the names; `Spec => []NamedStreamsRead` |
| `NamesAlwaysKept`, `NamesStayRebuilt` | `RebuildKeepsNames`, for every stream, whatever its bytes, every hash function of its strings, and either copy of equal strings kept; `Spec => []NamesRebuilt` |
| `BucketsAlwaysCover`, `BucketsStayInRange` | `BucketsCoverRecords`, for any bitmap, pointers and numbers of buckets and records; `Spec => []BucketsInRange` |
| `SubstreamsAlwaysTile` | `SubstreamsTile`, for any sizes and any length of the DBI stream, bytes behind the last substream included |
| `ContribsAlwaysFound` | for every table in order and every address: where a scan finds a contribution `find_index` finds the same; where none covers the address, what it finds holds the offset, in whichever section |
| `TypesAlwaysIndexed` | `TypesIndexed`, for every list of type records, whatever they hold, and whatever lies behind them that is not a record |
| `SymbolsAlwaysWalked` | `RecordsWalked`, the part of `SymbolsRead` about whole streams: for every list of symbols of any kinds and fields that are not too long for the length in their record, the iterators and the reader at an offset find the records that were written, and all the whole ones of a stream that is cut anywhere |
| `GlobalsAlwaysFound` | `GlobalsFound`, whatever bytes are in the stream of global symbols, for every number of buckets and every name asked for |
| `PublicsAlwaysFound` | `PublicsFoundByAddress`, for the same streams and any address: a public at that very address, or none |
| `SymbolsStayIndexed` | `Spec => []SymbolsIndexed` |

What they rest on, the first two in 1 to 5:

1. *Order.* `SortedSeq` gives each element of a finite set the place that the number of those
   before it says. For a strict total order that is a bijection from `1 .. n`, in order
   (`OrderedByPlace`). That `<` on byte strings is one (`BytesOrdered`) follows from its
   reading place by place (`BeforeMeans`).
2. *Strings in buffers.* Joined strings lie where the sums of the lengths before them say, each
   with its NUL (`StringsPlaced`), and are read there, wherever the buffer has been put
   (`StringsRead`). For the Names stream also the converse: a string that is not empty
   begins nowhere else, neither in the padding nor in a tail without NUL (`BufferStrings`).
3. *Probing.* Strings are placed by a fold over a table. `FoldExists` shows that the recursive
   function exists, `FoldValues` what it is after i strings. While fewer strings than slots have
   been placed a free slot is found (`FreeSlotIs`); it is met from the home of its string
   without passing an empty one, and stays so, because slots are never freed (`Probed`). In the
   Names stream, what lies between home and slot is one run of used slots, or two when it
   goes round the end; these are the ranges of `CollisionRanges` (`HomeInRun`).
4. *Named streams.* `Encode` writes the items in the order of their slots, so that the bit of a
   slot counts those before it (`RankInSorted`), and reading each item at its key gives the map
   again (`KeysRead`, `TableDecoded`). The table has more slots than names, so one is absent.
5. *A rebuild.* The new text holds each name once (`NamesAreSorted`, `TextHoldsStrings`), at the
   offset the mapping gives to the copy that was kept (`MappingKeeps`). So the names of the new
   stream are those of the old one, a second rebuild sorts the same set, and each string has one
   copy to be kept: it stays (`MappingStays`).
6. *Records.* The walk over a stream is a recursive function of the offset. It exists because
   every record has bytes, so that the function at an offset needs only its values further on
   (`WalkExists`, by induction over a set of lengths). Of joined records it is the sequence of
   them, each at the sum of the lengths before it (`RecordsJoined`, `RecordsFound`); of a part
   cut off it is those that end within the part, which are the first ones, because the places
   ascend (`RecordsCut`). The builder is a fold that adds one record of at most three bytes of
   padding to a stream (`BuildIs`, `SymbolsWritten`). `ShortSymbols` are the symbols for
   which the length of the record, with three bytes of padding, fits its two bytes: the builder
   writes the low 16 bits of the length, and what a longer one is cut to is not a theorem.
7. *Global symbols.* What the walk gives is, for each of its symbols, what the reader at an
   offset gives there (`SymbolsAreFound`), and what is read of it depends on that alone: its name
   and its address are bytes, of the widths of their roles (`FieldsParsed`, an invariant of the
   fold over the layout). A bucket in the file is the range of the sorted entries with its hash
   (`TableReadBack`, from the first entry of each hash and the bitmap), so its records are
   those of its symbols (`BucketIs`). Letters of either case have the same hash, because
   `HashU32` sets the bit in which they differ in every byte (`BitOfLower`, `SameHash`); hence
   a symbol with the name is in the bucket that is searched, and the search, which goes past
   other names and fails on none, ends at one (`SearchFinds`). The binary search among addresses
   is a recursive function on the slices of the map: it exists because each step shortens the
   slice (`BinaryExists`), and a symbol at the address stays inside (`BinaryFinds`).
   No hypothesis is made on the bytes: `BuildIndexes` fails if a name cannot be read.

### Checked by TLC and not proved

* The other properties of `tables`, and `replace_symbols`: `SymbolsRead`, `FilesKept`,
  `DbiRead` but for `SubstreamsTile`, `AddressesFound` but for the search among
  contributions, `ProceduresAnswered`, `TypesRead` but for `TypesIndexed`, `StreamsEncoded`. Of
  `SymbolsRead` and `TypesRead` it is the fields within a record that remain, read
  by recursion over the bytes, along layouts of some eighty kinds; the others walk from
  record to record by what those fields say. Each needs an induction over that data, and the
  library's induction theorems take an operator as a parameter, which the provers here cannot
  instantiate. (The proofs above go by sets of numbers instead, `StepByStep`, one invariant
  for each loop.)
* `CommitEnds` and `CallsEnd`: the proof system does not reason about fairness and ENABLED.

## 5. Findings

* `set_len` to a larger size (`stream_writer.rs:148-205`) uses `len` both as the
  final size and as an increment, and allocates one run only. Run `set_len_growth`.
  The passing run asks for growth only where the code gets it right or panics, and so do the theorems.
* A failed append leaves listed but uncounted pages; shrinking the stream leaks
  them and the next commit produces a file that `modify` rejects. Run
  `msf_append_leak`. What was committed stays protected even then (the
  theorem `CommittedSafe`); and when the stream is not shrunk, nothing is lost and the file opens
  (`msf_edits`).
* The rule that merges fragments of MSFZ streams uses the size of the new fragment
  in place of the last one's (`msfz/src/writer.rs:578, 615`). With `end_chunk`
  between uncompressed writes, or a stream written again, a stream reads back
  foreign bytes. Run `msfz_coalesce`.
* `Msf::create` does not truncate an existing file, against its documentation.
  Run `msf_create_over`. `Msf` itself models creation on a file without a header.
* `replace_range_copy` (`pdb/src/utils/vec.rs:30`), through which
  `ModiStreamData::replace_sym_data` goes, rotates by the length of the old range
  when the new one is longer: the line data and references behind the symbols get
  mixed with the new symbols. Run `replace_symbols`.
* `find_index` among the section contributions (`pdb/src/dbi/section_contrib.rs:109-131`)
  "must match exactly" the section and compares the two neighbours of the place of
  insertion by offset only. For an address that no contribution covers it may answer one of another
  section. Run `contrib_section`. Addresses that are covered are found right.

In the following the passing run `tables` has the case among its inputs, and its property
states what the code does there:

* `RecordBuilder`'s drop (`codeview/src/syms/builder.rs:65-71`) is to align the buffer
  to 4 bytes and adds as many bytes as the buffer is past a boundary: one for 1, three for
  3. After a symbol with an odd number of bytes the stream is 2 bytes past one
  (`SymbolsRead`). The readers do not mind.
* `addr_to_line` takes the first block of a contribution that has a line at or in front of
  the address (`pdb-mcp/src/tools/addr.rs:251`), though the next, of another file, may be
  nearer: inside code that was inlined from a header it names the file around it, or the other
  way round (`AddressesFound`).
* `find_public_by_addr` promises the public "at or nearest to" an address
  (`pdb-mcp/src/server.rs:306`), and `symbols.rs:104` prints the distance; the search has that as
  a TODO (`pdb/src/globals/psi.rs:208`) and knows exact hits only (`SymbolsIndexed`).
* The list of what the GSI indexes has `S_DATAREF` (`globals.rs:83`, `server.rs:60, 262`) and
  `S_TOKENREF` (`gsi.rs:22`); `build_global_symbols_index` skips both (`globals.rs:175`). Its comment
  that publics go to both indexes (`globals.rs:165`) is wrong too (`SymbolsIndexed`).
* A comment in `DbiStream::parse` (`pdb/src/dbi.rs:391`) has it verified that the substreams end with the
  stream; `from_sizes` only warns if bytes are left (`DbiRead`).
* A comment in `get_proc` (`pdb-mcp/src/tools/proc.rs:183`) limits parameters and locals to the
  procedure itself unless locals are shown; the code takes them at any depth
  (`ProceduresAnswered`).

Met while modelling, and not turned into runs: results of `write_at` are ignored in
`write_runs` and the zero-extension functions (`msf/src/write.rs:374, 422, 820`),
so that a short write would go unnoticed (`MCStreamWriter` with `ShortWrites = TRUE`
shows it; `write_at` of a file writes all or fails in practice);
the name index of managed procedures goes by another layout than their parser
(`pdb/src/globals.rs:126`, `codeview/src/syms.rs:190, 923`).

## 6. Not modelled

*MSF.* Small MSF (read-only legacy format), opening for reading only, the 32-bit edge
of stream sizes, the room for the directory map in page 0, `write_stream(0)` and
`write_stream` beyond the limit, an editor that goes on after a failed commit,
`copy_stream*` (sequences of modelled calls), caching and tracing.

*MSFZ.* Files that no writer produced, the choice of the compression, the cache of
chunks and threads that share it (no component shares a reader between threads).

*PDB.* The fixups of the DBI header and the section map (fixed layouts), inlinee
lines and line data of the old kind (passed over by the code), the hash substreams of
the TPI, the substreams of a PSI for incremental linking, `Msf::read_stream` of PDZ
files through the facade. In `dbi/sources.rs` the start of a module's files is a
`u16`; more than 65535 files in front of a module are not among the inputs.
The facade reads the symbols of a module through `read_module_symbols`; the
queries take them as they are in the stream.

*CodeView.* Names of registers and primitive types, formatting. Left out of the
inputs, though the layouts are in the modules as the code has them: managed
procedures (see above); `LF_INTERFACE`, which the parser accepts and the visitor
rejects; `LF_MEMBER` as a record, which is not one; a chain of `LF_INDEX` that is a cycle, which
`iter_fields` follows for ever; the hash
of forward references, which differs from the definition's by design; symbols longer than
65535 bytes, whose length the builder wraps; records cut short under the mutable iterator,
which panics (`codeview/src/syms/iter.rs:219`); local variables as `S_REGREL32` in `get_proc`; addresses at the end
of the 32-bit range; inline sites beside separated code.

*pdbtool, pdb-mcp.* Commands and tools that list, count and print. Of `pdz-encode`, the
reading of options (a maximum chunk size of 0 panics in `chunks(0)`) and files that are
not PDBs; a nil PDB or DBI stream comes out as an empty one, which only `--verify`
notices and `StreamsEncoded` states. `describe_type`
recurses without a bound over types that a compiler would not emit.

*COFF.* Constant tables and fixed layouts without state.

## 7. Plan

Done: the containers, the facade, the tables, `pdz-encode` and the server as above; the proofs
of every safety property of `Msf`, `StreamWriter`, `MsfzWriter`, `PdbSession` and `McpServer` that
a run checks, and of the refinements of `AtomicStore`, `NamedStore` and `StreamArchive`; the theorems about
tables and streams of records.

What is left, in order:

1. The hash substreams of the TPI and the fixups of the DBI header.
2. An MSFZ reader shared by threads, once something shares one.

----------------------------- MODULE MsfzReader -----------------------------
(***************************************************************************)
(* Reading an MSFZ file (msfz/src/reader.rs), as functions of the file.    *)
(*                                                                         *)
(* A file is a sequence of cells, file offset o being file[o + 1].  A cell *)
(* is a tuple that starts with its kind:                                   *)
(*   <<"zero">>              never written, or written as zero             *)
(*   <<"byte", s, c, i>>     byte i of call c of write, made to stream s   *)
(*   <<"z", data, i, k>>     cell i of the k that compress data            *)
(*   <<"u32", n>>, <<"u64", location>>   fields of the stream directory    *)
(*   <<"entry", e>>          an entry of the chunk table                   *)
(*   <<"header", h>>         the file header                               *)
(* A location is <<"chunk", index, offset>>, <<"file", offset>> or Nowhere.*)
(***************************************************************************)
EXTENDS Integers, Sequences, FiniteSets, FiniteSetsExt, SequencesExt

CONSTANTS
  Nil,            \* None: a nil stream of the writer
  Error,          \* the Err of the reading functions
  NilSize,        \* NIL_STREAM_SIZE
  MaxFileOffset   \* MAX_UNCOMPRESSED_FILE_OFFSET

ASSUME MsfzReaderAssumption == NilSize \in Nat \ {0} /\ MaxFileOffset \in Nat

Zero == <<"zero">>
Nowhere == <<"nil">>

IsCompressed(location) == location[1] = "chunk"

(* n cells at an offset of a file or of a chunk.                            *)
ReadExact(file, offset, n) ==
  IF offset + n <= Len(file) THEN SubSeq(file, offset + 1, offset + n) ELSE Error

(* The same of a chunk, if it could be loaded.                              *)
GetChunkSlice(data, offset, n) ==
  IF data = Error THEN Error ELSE ReadExact(data, offset, n)

Compressed(data, k) == [i \in 1 .. k |-> <<"z", data, i, k>>]

(* What the n cells at an offset decompress to: the decoder wants the whole *)
(* image, and at least size units in it.                                    *)
Decompress(file, offset, n, size) ==
  LET data == file[offset + 1][2]
  IN IF /\ offset + n <= Len(file)
        /\ file[offset + 1][1] = "z"
        /\ \A i \in 1 .. n : file[offset + i] = <<"z", data, i, n>>
        /\ size <= Len(data)
     THEN SubSeq(data, 1, size)
     ELSE Error

LoadChunkData(file, entry) ==
  Decompress(file, entry.fileOffset, entry.compressedSize, entry.size)

-----------------------------------------------------------------------------
(* The stream directory.                                                    *)

(* The record of a fragment is refused unless its chunk exists and reaches  *)
(* beyond its offset; of an offset in the file 48 bits are used.            *)
LocationValid(location, chunkTable) ==
  IsCompressed(location) =>
    /\ location[2] < Len(chunkTable)
    /\ location[3] < chunkTable[location[2] + 1].size

Masked(location) ==
  IF IsCompressed(location) THEN location
  ELSE <<"file", location[2] % (MaxFileOffset + 1)>>

NilField == <<"u32", NilSize>>
EndField == <<"u32", 0>>

(* Where the fields of the stream that begins at field p end: at a single   *)
(* nil, or at the first size that is zero.  Past the last field when they   *)
(* run out of fields.                                                       *)
StreamEnd(fields, p) ==
  LET ends == {q \in p .. Len(fields) : (q - p) % 2 = 0 /\ fields[q] = EndField}
  IN CASE p > Len(fields) -> p
       [] p <= Len(fields) /\ fields[p] = NilField -> p
       [] OTHER -> Min(ends \cup {Len(fields) + 1})

StreamBegins(fields, numStreams) ==
  LET begin[s \in 0 .. numStreams] ==
        IF s = 0 THEN 1 ELSE StreamEnd(fields, begin[s - 1]) + 1
  IN begin

(* A fragment's fields are a size, not nil, and a location that is valid.   *)
FieldsValid(fields, p, chunkTable) ==
  \/ fields[p] = NilField
  \/ \A q \in p .. StreamEnd(fields, p) - 1 :
       IF (q - p) % 2 = 0
       THEN fields[q][1] = "u32" /\ fields[q] # NilField
       ELSE fields[q][1] = "u64" /\ LocationValid(fields[q][2], chunkTable)

(* A nil stream gets a fragment that no other has, to be told from an empty *)
(* one.                                                                     *)
DecodedFragments(fields, p) ==
  IF fields[p] = NilField
  THEN << [size |-> 0, location |-> Nowhere] >>
  ELSE [i \in 1 .. (StreamEnd(fields, p) - p) \div 2 |->
          [size |-> fields[p + 2 * i - 2][2], location |-> Masked(fields[p + 2 * i - 1][2])]]

(* The fragments of all streams, and where those of each stream start.      *)
DecodeStreamDir(fields, numStreams, chunkTable) ==
  LET begin == StreamBegins(fields, numStreams)
      decoded == [i \in 1 .. numStreams |-> DecodedFragments(fields, begin[i - 1])]
  IN IF /\ begin[numStreams] <= Len(fields) + 1
        /\ \A s \in 0 .. numStreams - 1 : FieldsValid(fields, begin[s], chunkTable)
     THEN [fragments |-> FlattenSeq(decoded),
           starts |-> [i \in 1 .. numStreams + 1 |-> Len(FlattenSeq(SubSeq(decoded, 1, i - 1)))],
           chunkTable |-> chunkTable]
     ELSE Error

ChunkTable(file, h) ==
  LET cells == IF h.numChunks = 0 THEN <<>> ELSE ReadExact(file, h.chunkTableOffset, h.numChunks)
  IN IF cells = Error \/ \E i \in DOMAIN cells : cells[i][1] # "entry"
     THEN Error
     ELSE [i \in DOMAIN cells |-> cells[i][2]]

StreamDirFields(file, h) ==
  IF h.dirCompressed THEN Decompress(file, h.dirOffset, h.dirCompressedSize, h.dirSize)
  ELSE ReadExact(file, h.dirOffset, h.dirCompressedSize)

(* Opens the file.                                                          *)
FromFile(file) ==
  IF file = <<>> \/ file[1][1] # "header" THEN Error
  ELSE LET h == file[1][2]
           fields == StreamDirFields(file, h)
           table == ChunkTable(file, h)
       IN IF fields = Error \/ table = Error THEN Error
          ELSE DecodeStreamDir(fields, h.numStreams, table)

-----------------------------------------------------------------------------
(* Reading from an opened file m.                                           *)

NumStreams(m) == Len(m.starts) - 1

RawFragments(m, s) == SubSeq(m.fragments, m.starts[s + 1] + 1, m.starts[s + 2])

IsNilStream(m, s) == RawFragments(m, s) # <<>> /\ RawFragments(m, s)[1].location = Nowhere

StreamFragments(m, s) == IF IsNilStream(m, s) THEN <<>> ELSE RawFragments(m, s)

StreamSize(m, s) == FoldLeft(LAMBDA n, f : n + f.size, 0, StreamFragments(m, s))

(* n bytes at offset `skip` of a fragment.                                  *)
ReadFragment(file, m, f, skip, n) ==
  IF IsCompressed(f.location)
  THEN GetChunkSlice(LoadChunkData(file, m.chunkTable[f.location[2] + 1]), f.location[3] + skip, n)
  ELSE ReadExact(file, f.location[2] + skip, n)

Joined(parts) == IF \E i \in DOMAIN parts : parts[i] = Error THEN Error ELSE FlattenSeq(parts)

ReadStream(file, m, s) ==
  LET fragments == StreamFragments(m, s)
  IN Joined([i \in DOMAIN fragments |-> ReadFragment(file, m, fragments[i], 0, fragments[i].size)])

(* A slip: the offset within the first fragment is kept for the next ones.  *)
ReadAtKeepsOffset(file, m, r, f) ==
  LET n == IF r.want <= f.size - r.skip THEN r.want ELSE f.size - r.skip
  IN CASE r.want = 0 -> r
       [] r.want # 0 /\ r.skip >= f.size -> [r EXCEPT !.skip = @ - f.size]
       [] OTHER -> [r EXCEPT !.want = @ - n,
                             !.bytes = Joined(<<@, ReadFragment(file, m, f, r.skip, n)>>)]

(* The body of read_at's loop: skip is current_offset, want the length of   *)
(* the rest of the buffer.  The loop is left when the buffer is full.       *)
ReadAtFragment(file, m, r, f) ==
  LET n == IF r.want <= f.size - r.skip THEN r.want ELSE f.size - r.skip
  IN CASE r.want = 0 -> r
       [] r.want # 0 /\ r.skip >= f.size -> [r EXCEPT !.skip = @ - f.size]
       [] OTHER -> [skip |-> 0, want |-> r.want - n,
                    bytes |-> Joined(<<r.bytes, ReadFragment(file, m, f, r.skip, n)>>)]

ReadAt(file, m, s, offset, n) ==
  FoldLeft(LAMBDA r, f : ReadAtFragment(file, m, r, f),
           [skip |-> offset, want |-> n, bytes |-> <<>>], StreamFragments(m, s)).bytes
=============================================================================

----------------------------- MODULE MsfzWriter -----------------------------
(***************************************************************************)
(* Writing an MSFZ file (msfz/src/writer.rs): MsfzWriter, one StreamWriter *)
(* after another, the chunk being filled, and finish, cut between its      *)
(* writes.  The output file is that of MsfzReader; offsets, sizes and      *)
(* alignments are counted in cells.                                        *)
(*                                                                         *)
(* Any write to the file may fail after part of its cells.                 *)
(***************************************************************************)
EXTENDS MsfzReader

CONSTANTS
  Lengths,           \* the lengths of the calls of write
  DefaultThreshold,  \* DEFAULT_CHUNK_THRESHOLD
  Thresholds,        \* values given to set_uncompressed_chunk_size_threshold
  Alignments,        \* values given to set_alignment
  CompressedSizes,   \* numbers of cells a compressed chunk or directory may take
  MinFileSizes,      \* values of min_file_size
  MaxStreams,        \* bound on the number of streams
  MaxCalls,          \* bound on the calls of write
  MaxFailures,       \* bound on the writes to the file that fail
  AnyCalls,          \* FALSE: callers keep to the rules of StreamOnce and Adjacent
  NoWriter, NoImage

ASSUME MsfzWriterAssumption ==
  /\ Lengths \subseteq Nat \ {0} /\ Alignments \subseteq Nat \ {0}
  /\ CompressedSizes \subseteq Nat \ {0} /\ MinFileSizes \subseteq Nat
  /\ DefaultThreshold \in Nat /\ Thresholds \subseteq Nat
  /\ MaxStreams \in Nat \ {0} /\ MaxCalls \in Nat /\ MaxFailures \in Nat
  /\ AnyCalls \in BOOLEAN

(* The bytes and the fragments of streams; the entries of the chunk table,  *)
(* the fields of the directory, and the directory as the reader has it.     *)
ByteCells == {"byte"} \X Nat \X Nat \X Nat
Locations == ({"chunk"} \X Nat \X Nat) \cup ({"file"} \X Nat)
Fragments == [size : Nat, location : Locations]
Entries == [size : Nat \ {0}, compressedSize : Nat \ {0}, fileOffset : Nat]
FieldCells == ({"u32"} \X Nat) \cup ({"u64"} \X Locations)
Directories ==
  [fragments : Seq([size : Nat, location : Locations \cup {Nowhere}]),
   starts : Seq(Nat), chunkTable : Seq(Entries)]

(* The values that stand for nothing are nothing else.                      *)
ASSUME MsfzValuesAssumption ==
  /\ Error \notin Seq(ByteCells) \cup Seq(FieldCells) \cup Seq({"entry"} \X Entries)
                   \cup Seq(Entries) \cup Directories
  /\ Nil \notin Seq(ByteCells) \cup Seq(Fragments)

HeaderSize == 2
DirAlignment == 2
DefaultAlignment == 2

VARIABLES
  out, pos,     \* the output file and the position in it
  threshold,    \* uncompressed_chunk_size_threshold
  chunkData,    \* uncompressed_chunk_data
  chunks,       \* the entries of the chunks written so far
  streams,      \* stream |-> Nil or its fragments
  writer,       \* the StreamWriter that is open
  calls,        \* the calls of write so far; numbers the bytes
  failures,     \* the writes that failed so far
  stage,        \* where finish is
  header        \* the file header as far as finish has computed it

fileVars == <<out, pos>>
chunkVars == <<chunkData, chunks>>
finishVars == <<stage, header>>
msfzVars == <<out, pos, threshold, chunkData, chunks, streams, writer, calls, failures,
              stage, header>>

-----------------------------------------------------------------------------
(* The output file.                                                         *)

(* Cells written at an offset; a gap behind the old end reads as zero.      *)
Overlay(file, offset, cells) ==
  LET gap == [i \in 1 .. offset - Len(file) |-> Zero]
      before == SubSeq(file \o gap, 1, offset)
      after == SubSeq(file, offset + Len(cells) + 1, Len(file))
  IN IF cells = <<>> THEN file ELSE before \o cells \o after

AlignUp(p, alignment) == ((p + alignment - 1) \div alignment) * alignment

WriteAll(offset, cells) ==
  /\ out' = Overlay(out, offset, cells)
  /\ pos' = offset + Len(cells)

(* write_all fails after some of the cells.                                 *)
WriteFails(offset, cells) ==
  /\ failures < MaxFailures
  /\ failures' = failures + 1
  /\ \E n \in 0 .. Len(cells) - 1 : WriteAll(offset, SubSeq(cells, 1, n))

Init ==
  /\ out = <<Zero, Zero>> /\ pos = HeaderSize
  /\ threshold = DefaultThreshold
  /\ chunkData = <<>> /\ chunks = <<>>
  /\ streams = [s \in {0} |-> <<>>]
  /\ writer = NoWriter
  /\ calls = 0 /\ failures = 0
  /\ stage = "writing" /\ header = Zero

-----------------------------------------------------------------------------
(* Streams and their writers.                                               *)

NewWriter(s) == [stream |-> s, compressed |-> TRUE, alignment |-> DefaultAlignment]

(* A StreamWriter borrows the MsfzWriter: whatever is called on that drops  *)
(* the open one.                                                            *)
ReserveNumStreams(n) ==
  /\ stage = "writing"
  /\ n > Cardinality(DOMAIN streams)
  /\ streams' = [s \in 0 .. n - 1 |-> IF s \in DOMAIN streams THEN streams[s] ELSE Nil]
  /\ writer' = NoWriter
  /\ UNCHANGED <<fileVars, threshold, chunkVars, calls, failures, finishVars>>

(* "This function can only be called once for each stream index."  Stream 0 *)
(* is reserved; the code does not refuse it, but no caller here writes it.  *)
StreamOnce(s) == AnyCalls \/ streams[s] = Nil

OpenStreamWriter(s) ==
  /\ stage = "writing"
  /\ s \in DOMAIN streams /\ StreamOnce(s)
  /\ streams' = [streams EXCEPT ![s] = IF @ = Nil THEN <<>> ELSE @]
  /\ writer' = NewWriter(s)
  /\ UNCHANGED <<fileVars, threshold, chunkVars, calls, failures, finishVars>>

NewStreamWriter ==
  LET s == Cardinality(DOMAIN streams)
  IN /\ stage = "writing"
     /\ s < MaxStreams
     /\ streams' = [t \in 0 .. s |-> IF t = s THEN <<>> ELSE streams[t]]
     /\ writer' = NewWriter(s)
     /\ UNCHANGED <<fileVars, threshold, chunkVars, calls, failures, finishVars>>

SetThreshold(t) ==
  /\ stage = "writing" /\ t # threshold
  /\ threshold' = t
  /\ writer' = NoWriter
  /\ UNCHANGED <<fileVars, chunkVars, streams, calls, failures, finishVars>>

SetCompressionEnabled(b) ==
  /\ writer # NoWriter /\ writer.compressed # b
  /\ writer' = [writer EXCEPT !.compressed = b]
  /\ UNCHANGED <<fileVars, threshold, chunkVars, streams, calls, failures, finishVars>>

SetAlignment(a) ==
  /\ writer # NoWriter /\ writer.alignment # a
  /\ writer' = [writer EXCEPT !.alignment = a]
  /\ UNCHANGED <<fileVars, threshold, chunkVars, streams, calls, failures, finishVars>>

-----------------------------------------------------------------------------
(* Chunks.                                                                  *)

ChunkEntry(k) == [size |-> Len(chunkData), compressedSize |-> k, fileOffset |-> pos]

(* finish_current_chunk, after which the next chunk holds data.             *)
FinishCurrentChunk(data) ==
  /\ chunkData' = data
  /\ \/ /\ chunkData = <<>>
        /\ UNCHANGED <<fileVars, chunks>>
     \/ /\ chunkData # <<>>
        /\ \E k \in CompressedSizes :
             /\ WriteAll(pos, Compressed(chunkData, k))
             /\ chunks' = Append(chunks, ChunkEntry(k))

(* A slip: the buffer is cleared before the write is known to have worked.  *)
ChunkLostOnError ==
  /\ chunkData # <<>> /\ chunkData' = <<>>
  /\ \E k \in CompressedSizes : WriteFails(pos, Compressed(chunkData, k))
  /\ UNCHANGED chunks

(* The chunk stays, to be written again by the next call.                   *)
FinishCurrentChunkFails ==
  /\ chunkData # <<>>
  /\ \E k \in CompressedSizes : WriteFails(pos, Compressed(chunkData, k))
  /\ UNCHANGED chunkVars

(* A slip: the chunk may reach the threshold.                               *)
ChunkIsOverfull(n) == n + Len(chunkData) > threshold

ChunkIsFull(n) == n + Len(chunkData) >= threshold

WriteToChunks(data) ==
  IF ChunkIsFull(Len(data))
  THEN FinishCurrentChunk(data)
  ELSE /\ chunkData' = chunkData \o data
       /\ UNCHANGED <<fileVars, chunks>>

(* end_chunk of the StreamWriter that is open, or of the MsfzWriter, after  *)
(* which the open one, if any, is not used again.                           *)
EndChunk ==
  /\ stage = "writing" /\ chunkData # <<>>
  /\ FinishCurrentChunk(<<>>)
  /\ UNCHANGED <<threshold, streams, writer, calls, failures, finishVars>>

EndChunkFails ==
  /\ stage = "writing"
  /\ FinishCurrentChunkFails
  /\ UNCHANGED <<threshold, streams, writer, calls, finishVars>>

-----------------------------------------------------------------------------
(* StreamWriter::write.                                                     *)

FragmentsSize(fragments) == FoldLeft(LAMBDA n, f : n + f.size, 0, fragments)

(* A slip: a stream may become as long as NIL_STREAM_SIZE.                  *)
FitsUpToNil(fragments, n) == n <= NilSize - FragmentsSize(fragments)

(* The stream's size must stay below NIL_STREAM_SIZE.                       *)
FitsStream(fragments, n) == n < NilSize - FragmentsSize(fragments)

Extended(fragments, n) == [fragments EXCEPT ![Len(fragments)].size = @ + n]

(* The last fragment is extended if the new one begins where a fragment of  *)
(* the new one's size, at the place of the last, would end.                 *)
AddFragmentCompressed(fragments, n, chunk, offset) ==
  IF /\ fragments # <<>>
     /\ IsCompressed(Last(fragments).location)
     /\ Last(fragments).location[2] = chunk
     /\ Last(fragments).location[3] + n = offset
  THEN Extended(fragments, n)
  ELSE Append(fragments, [size |-> n, location |-> <<"chunk", chunk, offset>>])

AddFragmentUncompressed(fragments, n, offset) ==
  IF /\ fragments # <<>>
     /\ ~IsCompressed(Last(fragments).location)
     /\ Last(fragments).location[2] + n = offset
  THEN Extended(fragments, n)
  ELSE Append(fragments, [size |-> n, location |-> <<"file", offset>>])

Bytes(s, c, n) == [i \in 1 .. n |-> <<"byte", s, c, i>>]

(* The stream that is written, and the call that is made.                   *)
Calling(n) ==
  /\ writer # NoWriter /\ calls < MaxCalls
  /\ calls' = calls + 1
  /\ UNCHANGED <<threshold, writer, finishVars>>

WriteCompressed(n) ==
  LET s == writer.stream
      data == Bytes(s, calls + 1, n)
  IN /\ Calling(n)
     /\ writer.compressed /\ FitsStream(streams[s], n)
     /\ WriteToChunks(data)
     /\ streams' = [streams EXCEPT
          ![s] = AddFragmentCompressed(@, n, Len(chunks'), Len(chunkData') - n)]
     /\ UNCHANGED failures

FragmentOffset ==
  IF FragmentsSize(streams[writer.stream]) = 0 THEN AlignUp(pos, writer.alignment) ELSE pos

(* Nothing was written to the file since the last uncompressed fragment.    *)
Adjacent(fragments) ==
  ~AnyCalls /\ fragments # <<>> /\ ~IsCompressed(Last(fragments).location)
    => pos = Last(fragments).location[2] + Last(fragments).size

OffsetFits == FragmentOffset <= MaxFileOffset

WriteUncompressed(n) ==
  LET s == writer.stream
  IN /\ Calling(n)
     /\ ~writer.compressed /\ FitsStream(streams[s], n) /\ Adjacent(streams[s])
     /\ OffsetFits
     /\ WriteAll(FragmentOffset, Bytes(s, calls + 1, n))
     /\ streams' = [streams EXCEPT ![s] = AddFragmentUncompressed(@, n, FragmentOffset)]
     /\ UNCHANGED <<chunkVars, failures>>

(* Calls that return an error: the stream would be too long; the offset is  *)
(* too large, found out after the file was aligned; the file fails.         *)
WriteTooLong(n) ==
  /\ Calling(n)
  /\ ~FitsStream(streams[writer.stream], n)
  /\ UNCHANGED <<fileVars, chunkVars, streams, failures>>

WriteTooFar(n) ==
  /\ Calling(n)
  /\ ~writer.compressed /\ FitsStream(streams[writer.stream], n) /\ ~OffsetFits
  /\ pos' = FragmentOffset
  /\ UNCHANGED <<out, chunkVars, streams, failures>>

WriteCompressedFails(n) ==
  /\ Calling(n)
  /\ writer.compressed /\ FitsStream(streams[writer.stream], n)
  /\ ChunkIsFull(n)
  /\ FinishCurrentChunkFails
  /\ UNCHANGED streams

WriteUncompressedFails(n) ==
  LET s == writer.stream
  IN /\ Calling(n)
     /\ ~writer.compressed /\ FitsStream(streams[s], n) /\ Adjacent(streams[s])
     /\ OffsetFits
     /\ WriteFails(FragmentOffset, Bytes(s, calls + 1, n))
     /\ UNCHANGED <<chunkVars, streams>>

-----------------------------------------------------------------------------
(* finish.  It consumes the writer: when one of its writes fails, or the    *)
(* process dies, the behaviour just stops between two of these steps, with  *)
(* some of the cells of the failed write behind the header.                 *)

(* A slip: a nil stream is written as a stream without fragments.           *)
StreamFieldsWithoutNil(fragments) ==
  IF fragments = Nil THEN << <<"u32", 0>> >>
  ELSE FlattenSeq([i \in DOMAIN fragments |->
                     << <<"u32", fragments[i].size>>, <<"u64", fragments[i].location>> >>])
       \o << <<"u32", 0>> >>

StreamFields(fragments) ==
  IF fragments = Nil THEN << <<"u32", NilSize>> >>
  ELSE FlattenSeq([i \in DOMAIN fragments |->
                     << <<"u32", fragments[i].size>>, <<"u64", fragments[i].location>> >>])
       \o << <<"u32", 0>> >>

EncodeStreamDir ==
  FlattenSeq([i \in 1 .. Cardinality(DOMAIN streams) |-> StreamFields(streams[i - 1])])

FinishChunk ==
  /\ stage = "writing"
  /\ FinishCurrentChunk(<<>>)
  /\ stage' = "directory"
  /\ writer' = NoWriter
  /\ UNCHANGED <<threshold, streams, calls, failures, header>>

WriteStreamDir(compress) ==
  LET offset == AlignUp(pos, DirAlignment)
      fields == EncodeStreamDir
  IN /\ stage = "directory"
     /\ \E k \in IF compress THEN CompressedSizes ELSE {Len(fields)} :
          /\ WriteAll(offset, IF compress THEN Compressed(fields, k) ELSE fields)
          /\ header' = [dirOffset |-> offset, dirCompressed |-> compress,
                        dirCompressedSize |-> k, dirSize |-> Len(fields)]
     /\ stage' = "chunk table"
     /\ UNCHANGED <<threshold, chunkVars, streams, writer, calls, failures>>

WriteChunkTable ==
  LET offset == AlignUp(pos, DirAlignment)
  IN /\ stage = "chunk table"
     /\ WriteAll(offset, [i \in DOMAIN chunks |-> <<"entry", chunks[i]>>])
     /\ header' = [dirOffset |-> header.dirOffset, dirCompressed |-> header.dirCompressed,
                   dirCompressedSize |-> header.dirCompressedSize, dirSize |-> header.dirSize,
                   numStreams |-> Cardinality(DOMAIN streams), numChunks |-> Len(chunks),
                   chunkTableOffset |-> offset]
     /\ stage' = "header"
     /\ UNCHANGED <<threshold, chunkVars, streams, writer, calls, failures>>

(* The header is smaller than a sector: it is written or it is not.         *)
WriteFileHeader ==
  /\ stage = "header"
  /\ WriteAll(0, << <<"header", header>>, Zero >>)
  /\ stage' = "padding"
  /\ UNCHANGED <<threshold, chunkVars, streams, writer, calls, failures, header>>

ExtendToMinFileSize(size) ==
  /\ stage = "padding"
  /\ IF Len(out) < size THEN WriteAll(size - 1, <<Zero>>) ELSE UNCHANGED fileVars
  /\ stage' = "finished"
  /\ UNCHANGED <<threshold, chunkVars, streams, writer, calls, failures, header>>

-----------------------------------------------------------------------------
Next ==
  \/ \E n \in 1 .. MaxStreams : ReserveNumStreams(n)
  \/ \E s \in DOMAIN streams \ {0} : OpenStreamWriter(s)
  \/ NewStreamWriter
  \/ \E t \in Thresholds : SetThreshold(t)
  \/ \E b \in BOOLEAN : SetCompressionEnabled(b)
  \/ \E a \in Alignments : SetAlignment(a)
  \/ EndChunk
  \/ EndChunkFails
  \/ \E n \in Lengths :
       \/ WriteCompressed(n)
       \/ WriteUncompressed(n)
       \/ WriteTooLong(n)
       \/ WriteTooFar(n)
       \/ WriteCompressedFails(n)
       \/ WriteUncompressedFails(n)
  \/ FinishChunk
  \/ \E compress \in BOOLEAN : WriteStreamDir(compress)
  \/ WriteChunkTable
  \/ WriteFileHeader
  \/ \E size \in MinFileSizes : ExtendToMinFileSize(size)

Spec == Init /\ [][Next]_msfzVars

-----------------------------------------------------------------------------
(* What a stream holds while the file is being written: as a reader sees it *)
(* but for the chunk in memory.                                             *)
PendingChunk(f) == IsCompressed(f.location) /\ f.location[2] = Len(chunks)

FragmentBytes(f) ==
  IF PendingChunk(f) THEN ReadExact(chunkData, f.location[3], f.size)
  ELSE ReadFragment(out, [chunkTable |-> chunks], f, 0, f.size)

StreamContents(s) ==
  IF streams[s] = Nil THEN Nil ELSE Joined([i \in DOMAIN streams[s] |-> FragmentBytes(streams[s][i])])

Contents == [s \in DOMAIN streams |-> StreamContents(s)]

(* The streams, once the header is on disk.                                 *)
Published == IF out[1] = Zero THEN NoImage ELSE Contents

(* What whoever opens the file finds.                                       *)
Image ==
  LET m == FromFile(out)
  IN IF m = Error THEN NoImage
     ELSE [s \in 0 .. NumStreams(m) - 1 |->
             IF IsNilStream(m, s) THEN Nil ELSE ReadStream(out, m, s)]

-----------------------------------------------------------------------------
(* Properties.                                                              *)

Fragment(f) ==
  /\ f.size \in 1 .. NilSize - 1
  /\ IF IsCompressed(f.location)
     THEN f.location[2] \in 0 .. Len(chunks) /\ f.location[3] \in Nat
     ELSE f.location[1] = "file" /\ f.location[2] \in 0 .. MaxFileOffset

(* Every variable keeps to its type; no fragment is empty or of the size    *)
(* that means "nil", and no stream reaches that size (the assertions of     *)
(* encode_stream_dir and the check of StreamWriter::write).                 *)
TypeOK ==
  /\ pos \in Nat /\ threshold \in Thresholds \cup {DefaultThreshold}
  /\ \A i \in DOMAIN chunks : chunks[i].size \in Nat \ {0} /\ chunks[i].fileOffset \in Nat
  /\ \E n \in 1 .. MaxStreams : DOMAIN streams = 0 .. n - 1
  /\ \A s \in DOMAIN streams :
       streams[s] # Nil =>
         /\ \A i \in DOMAIN streams[s] : Fragment(streams[s][i])
         /\ FragmentsSize(streams[s]) < NilSize
  /\ writer = NoWriter \/ writer.stream \in {s \in DOMAIN streams : streams[s] # Nil}
  /\ calls \in 0 .. MaxCalls /\ failures \in 0 .. MaxFailures
  /\ stage \in {"writing", "directory", "chunk table", "header", "padding", "finished"}

ChunkBytes == {chunkData} \cup {LoadChunkData(out, chunks[i]) : i \in DOMAIN chunks}

(* write_to_chunks keeps a chunk below the threshold, or else it holds the  *)
(* bytes of one call; and no call's bytes are split between two chunks.     *)
ChunkShape ==
  /\ \A data \in ChunkBytes :
       \/ \E t \in Thresholds \cup {DefaultThreshold} : Len(data) < t
       \/ \A i \in DOMAIN data : data[i][3] = data[1][3]
  /\ \A a, b \in ChunkBytes :
       (\E i \in DOMAIN a, j \in DOMAIN b : a[i][3] = b[j][3]) => a = b

(* At every moment, also between the writes of finish and after one failed, *)
(* the file either does not open, which is so until the header is written,  *)
(* or the reader decodes from its directory, chunk table and chunks exactly *)
(* the streams of the writer, nil ones as nil.                              *)
ReadsBack == Image = Published

(* Reading a part of a stream of the finished file with read_at returns     *)
(* that part of what read_stream returns, however the part lies to the      *)
(* fragments, up to the end of the stream, and size is their sum.           *)
ReadAtAgrees ==
  LET m == FromFile(out)
  IN m # Error =>
       \A s \in 0 .. NumStreams(m) - 1 :
         LET bytes == ReadStream(out, m, s)
         IN /\ StreamSize(m, s) = Len(bytes)
            /\ \A offset \in 0 .. Len(bytes) : \A n \in 0 .. NilSize :
                 ReadAt(out, m, s, offset, n)
                   = SubSeq(bytes, offset + 1,
                            IF offset + n < Len(bytes) THEN offset + n ELSE Len(bytes))

(* Every stream holds bytes that were written to it, in the order of the    *)
(* calls: "Calling it more than once for the same stream is permitted."     *)
OwnBytes ==
  \A s \in DOMAIN streams :
    LET bytes == StreamContents(s)
    IN bytes # Nil =>
         /\ bytes # Error
         /\ \A i \in DOMAIN bytes : bytes[i][1] = "byte" /\ bytes[i][2] = s
         /\ \A i, j \in DOMAIN bytes :
              i < j => \/ bytes[i][3] < bytes[j][3]
                       \/ bytes[i][3] = bytes[j][3] /\ bytes[i][4] < bytes[j][4]

(* The writer implements StreamArchive: a call of write appends its bytes   *)
(* to its stream and to no other, or nothing if it fails, and no other call *)
(* changes a stream, whatever is merged, compressed, aligned, refused or    *)
(* written twice on the way; the streams are published in one step, as they *)
(* are then, and stay so.  ReadsBack relates what is published to the file. *)
Archive == INSTANCE StreamArchive WITH contents <- Contents, image <- Published

ImplementsArchive == Archive!Spec
=============================================================================

------------------------- MODULE MsfzWriterInvariant -------------------------
(***************************************************************************)
(* The inductive invariant of MsfzWriter: everything a stream refers to    *)
(* lies behind the header and in front of the position at which the file   *)
(* is written, or in the chunk in memory.                                  *)
(***************************************************************************)
EXTENDS MsfzWriter

IsSeq(s) == Len(s) \in Nat /\ s = [i \in 1 .. Len(s) |-> s[i]]

(* The stages before the header is written.                                *)
Unpublished == {"writing", "directory", "chunk table", "header"}

Writers == [stream : DOMAIN streams, compressed : BOOLEAN, alignment : Nat \ {0}]

WriterTyped ==
  /\ IsSeq(out) /\ Len(out) >= HeaderSize /\ pos \in Nat
  /\ threshold \in Thresholds \cup {DefaultThreshold}
  /\ chunkData \in Seq(ByteCells) /\ chunks \in Seq(Entries)
  /\ \E n \in 1 .. MaxStreams : streams \in [0 .. n - 1 -> {Nil} \cup Seq(Fragments)]
  /\ writer # NoWriter => writer \in Writers /\ streams[writer.stream] # Nil
  /\ calls \in 0 .. MaxCalls /\ failures \in 0 .. MaxFailures
  /\ stage \in Unpublished \cup {"padding", "finished"}

InStage ==
  /\ writer # NoWriter => stage = "writing"
  /\ stage # "writing" => chunkData = <<>>
  /\ stage \in Unpublished => out[1] = Zero /\ pos >= HeaderSize
  /\ stage \notin Unpublished => out[1] # Zero

(* No fragment is empty, refers to a chunk that will not be, or lies too   *)
(* far in the file, and no stream is as long as a nil one.                 *)
FragmentsTyped ==
  \A s \in DOMAIN streams :
    streams[s] # Nil =>
      /\ \A i \in DOMAIN streams[s] : Fragment(streams[s][i])
      /\ FragmentsSize(streams[s]) < NilSize

(* Cells that were written behind the header, and are not written again.   *)
Kept(offset, n) ==
  /\ HeaderSize <= offset /\ offset + n <= Len(out)
  /\ stage \in Unpublished => offset + n <= pos

ChunkOf(k) == LoadChunkData(out, chunks[k])

(* Each chunk is on disk as a whole.                                       *)
ChunksOnDisk ==
  \A k \in DOMAIN chunks :
    /\ Kept(chunks[k].fileOffset, chunks[k].compressedSize)
    /\ ChunkOf(k) \in Seq(ByteCells) /\ Len(ChunkOf(k)) = chunks[k].size
    /\ \A i \in 1 .. chunks[k].compressedSize :
         out[chunks[k].fileOffset + i] = <<"z", ChunkOf(k), i, chunks[k].compressedSize>>

(* So is each fragment, or it will be with the chunk it is in.             *)
Stored(f) ==
  IF IsCompressed(f.location)
  THEN f.location[3] + f.size
         <= IF PendingChunk(f) THEN Len(chunkData) ELSE chunks[f.location[2] + 1].size
  ELSE /\ Kept(f.location[2], f.size)
       /\ \A i \in 1 .. f.size : out[f.location[2] + i] \in ByteCells

(* A stream that is being written ends where the chunk in memory does, if  *)
(* it ends there at all: this is why merging by the new fragment's size    *)
(* (see MCMsfzCoalesce) is right for callers that keep to the rules.       *)
EndsWithChunk ==
  writer # NoWriter /\ streams[writer.stream] # <<>> =>
    LET f == Last(streams[writer.stream])
    IN PendingChunk(f) => f.location[3] + f.size = Len(chunkData)

StreamsStored ==
  ~AnyCalls =>
    /\ \A s \in DOMAIN streams :
         streams[s] # Nil => \A i \in DOMAIN streams[s] : Stored(streams[s][i])
    /\ EndsWithChunk

(* The calls of write whose bytes are in a chunk.                          *)
CallsIn(data) == {data[i][3] : i \in DOMAIN data}

ChunkFits(data) ==
  \/ \E t \in Thresholds \cup {DefaultThreshold} : Len(data) < t
  \/ \A i, j \in DOMAIN data : data[i][3] = data[j][3]

ChunksApart ==
  /\ ChunkFits(chunkData) /\ CallsIn(chunkData) \subseteq 1 .. calls
  /\ \A k \in DOMAIN chunks :
       /\ ChunkFits(ChunkOf(k)) /\ CallsIn(ChunkOf(k)) \subseteq 1 .. calls
       /\ CallsIn(ChunkOf(k)) \cap CallsIn(chunkData) = {}
  /\ \A j, k \in DOMAIN chunks : j # k => CallsIn(ChunkOf(j)) \cap CallsIn(ChunkOf(k)) = {}

MsfzInv ==
  /\ WriterTyped
  /\ InStage
  /\ FragmentsTyped
  /\ ChunksOnDisk
  /\ StreamsStored
  /\ ChunksApart

-----------------------------------------------------------------------------
(* What finish has written.                                                *)

(* A fragment begins within its chunk: the reader asks for it.             *)
Begins(f) ==
  IsCompressed(f.location) =>
    f.location[3] < IF PendingChunk(f) THEN Len(chunkData) ELSE chunks[f.location[2] + 1].size

OffsetsWithin ==
  \A s \in DOMAIN streams :
    streams[s] # Nil => \A i \in DOMAIN streams[s] : Begins(streams[s][i])

DirectoryWritten ==
  /\ header.dirOffset \in Nat /\ header.dirCompressedSize \in Nat
  /\ header.dirSize = Len(EncodeStreamDir)
  /\ Kept(header.dirOffset, header.dirCompressedSize)
  /\ \A i \in 1 .. header.dirCompressedSize :
       out[header.dirOffset + i] =
         IF header.dirCompressed THEN <<"z", EncodeStreamDir, i, header.dirCompressedSize>>
         ELSE EncodeStreamDir[i]
  /\ IF header.dirCompressed THEN header.dirCompressedSize # 0
     ELSE header.dirCompressedSize = Len(EncodeStreamDir)

TableWritten ==
  /\ header.numStreams = Cardinality(DOMAIN streams) /\ header.numChunks = Len(chunks)
  /\ header.chunkTableOffset \in Nat
  /\ chunks # <<>> =>
       /\ Kept(header.chunkTableOffset, Len(chunks))
       /\ \A i \in DOMAIN chunks : out[header.chunkTableOffset + i] = <<"entry", chunks[i]>>

FinishInv ==
  /\ stage \notin {"writing", "directory"} => DirectoryWritten
  /\ stage \notin {"writing", "directory", "chunk table"} => TableWritten
  /\ stage \notin Unpublished => out[1] = <<"header", header>>

ReadInv == MsfzInv /\ OffsetsWithin /\ FinishInv
=============================================================================

----------------------------- MODULE PdzEncode ------------------------------
(***************************************************************************)
(* The command pdz-encode (pdbtool/src/pdz/encode.rs), which copies the    *)
(* streams of a PDB to an MSFZ file and chooses where its chunks end.      *)
(*                                                                         *)
(* A PDB is a sequence of streams, from stream 1 on: <<>> for a nil one,   *)
(* else <<bytes>>.  What is encoded is the sequence of the calls that the  *)
(* command makes to MsfzWriter: to open a stream, to write a range of its  *)
(* bytes, compressed or not, and to end the chunk; CallsFor adds the       *)
(* stream to each.                                                         *)
(***************************************************************************)
EXTENDS Dbi, SymbolStream, TypeStream

CONSTANT MinChunkLen  \* MIN_CHUNK_LEN: a record of any kind fits into a chunk

ASSUME PdzEncodeAssumption == MinChunkLen \in Nat \ {0}

(* The reading of an i32.                                                  *)
I32At(b, at) ==
  LET High == U16At(b, at + 2)
  IN U16At(b, at) + 65536 * (IF High < 32768 THEN High ELSE High - 65536)

OpenWriter == << [op |-> "open"] >>

EndChunk == << [op |-> "end"] >>

(* write_all, which makes no call for nothing.                             *)
WriteRange(from, to, compressed) ==
  IF from = to THEN <<>>
  ELSE << [op |-> "write", from |-> from, to |-> to, compressed |-> compressed] >>

Offsets(n) == [i \in 1 .. n |-> i - 1]

(* A stream that is written in chunks of its own, from each of the starts. *)
WriteChunks(starts, end) ==
  FlattenSeq([i \in DOMAIN starts |->
    WriteRange(starts[i], IF i = Len(starts) THEN end ELSE starts[i + 1], TRUE) \o EndChunk])

(* write_stream_fallback.                                                  *)
WriteFallback(b) == WriteRange(0, Len(b), TRUE) \o EndChunk

-----------------------------------------------------------------------------
(* write_dbi.  get_next_substream!: where the first four substreams end,   *)
(* up to a size that is negative or too large.                             *)
SubstreamEnds(b) ==
  FoldLeft(LAMBDA ends, i :
             LET size == I32At(b, 20 + 4 * i)
             IN IF Len(ends) = i /\ size \in 0 .. Len(b) - Last(ends)
                THEN Append(ends, Last(ends) + size) ELSE ends,
           <<HeaderLen>>, <<1, 2, 3, 4>>)

SectionMap == 3

WriteDbi(b) ==
  LET Ends == SubstreamEnds(b)
      Part(i) == WriteRange(Ends[i], Ends[i + 1], i # SectionMap) \o EndChunk
  IN IF Len(b) < HeaderLen
     THEN EndChunk \o WriteRange(0, Len(b), FALSE) \o EndChunk
     ELSE EndChunk \o WriteRange(0, HeaderLen, FALSE) \o EndChunk
            \o FlattenSeq([i \in 1 .. Len(Ends) - 1 |-> Part(i)])
            \o WriteRange(Last(Ends), Len(b), TRUE) \o EndChunk

-----------------------------------------------------------------------------
(* Records.  A maximum that is too small for any record is promoted.       *)
Promoted(max) == IF max < MinChunkLen THEN MinChunkLen ELSE max

(* Slip: chunks end after max bytes, wherever that is.                     *)
ChunkStartsByLength(records, max, end) ==
  SelectSeq(Offsets(end), LAMBDA n : n % Promoted(max) = 0)

(* The loop 'top of write_tpi_or_ipi and write_global_symbols_stream: a    *)
(* chunk begins at each record that does not fit into the last one; what   *)
(* cannot be read stays in the last one.  A record longer than a chunk     *)
(* would be tried again for ever (NeverEnds).                              *)
ChunkStarts(records, max, end) ==
  IF end = 0 THEN <<>>
  ELSE FoldLeft(LAMBDA starts, r :
                  IF r.end - Last(starts) > Promoted(max) THEN Append(starts, r.at)
                  ELSE starts,
                <<0>>, records)

NeverEnds(records, max) == \E i \in DOMAIN records : records[i].end - records[i].at > Promoted(max)

WriteGlobalSymbols(b, max) ==
  EndChunk \o WriteChunks(ChunkStarts(SymsFrom(b, 0), max, Len(b)), Len(b))

(* The header of a TPI or IPI stream, if it can be used.                   *)
TypeHeader(b) ==
  IF Len(b) < TypeHeaderLen THEN Err
  ELSE IF Len(b) - TypeHeaderLen < U32At(b, 16) THEN Err
  ELSE <<Take(b, TypeHeaderLen)>>

(* The records begin behind the header, whatever header_size says.         *)
EncodedTypes(b) == SubSeq(b, TypeHeaderLen + 1, TypeHeaderLen + U32At(b, 16))

WriteTypes(b, max) ==
  LET records == EncodedTypes(b)
      starts == ChunkStarts(TypesOf(records), max, Len(records))
      end == TypeHeaderLen + Len(records)
  IN IF TypeHeader(b) = Err THEN EndChunk \o WriteFallback(b)
     ELSE EndChunk \o WriteRange(0, TypeHeaderLen, FALSE)
            \o WriteChunks([i \in DOMAIN starts |-> TypeHeaderLen + starts[i]], end)
            \o (IF starts = <<>> THEN EndChunk ELSE <<>>)
            \o WriteRange(end, Len(b), TRUE) \o EndChunk

(* write_tpi_or_ipi_hash_stream: the regions of the header that lie within *)
(* the stream give the boundaries; between two of them the chunks are max  *)
(* bytes long, which is not promoted here.                                 *)
Boundaries(b, header) ==
  LET Region(at) ==
        LET start == I32At(header, at)
            length == U32At(header, at + 4)
        IN IF length # 0 /\ start \in 0 .. Len(b) /\ length <= Len(b) - start
           THEN {start, start + length} ELSE {}
  IN {0, Len(b)} \cup Region(32) \cup Region(40) \cup Region(48)

WriteTypeHashes(b, max, header) ==
  LET Bounds == Boundaries(b, header)
      IsStart(n) == (n - Max({p \in Bounds : p <= n})) % max = 0
  IN EndChunk \o WriteChunks(SelectSeq(Offsets(Len(b)), IsStart), Len(b))

-----------------------------------------------------------------------------
(* pdz_encode.                                                              *)
PDB == 1
TPI == 2
DBI == 3
IPI == 4

(* A nil stream is read as an empty one.                                   *)
StreamBytes(streams, s) == IF streams[s] = Err THEN <<>> ELSE streams[s][1]

(* The headers that were read, and whether a stream is the one that the    *)
(* header of the TPI or IPI stream, or of the DBI stream, names.           *)
HashedBy(streams, types, s) ==
  LET b == StreamBytes(streams, types)
  IN TypeHeader(b) # Err /\ U16At(b, 20) = s

IsGlobalSymbols(streams, s) ==
  LET b == StreamBytes(streams, DBI) IN Len(b) >= HeaderLen /\ U16At(b, 20) = s

TransferAny(streams, s, max, alone) ==
  LET b == StreamBytes(streams, s)
      HashTypes == {t \in {TPI, IPI} : HashedBy(streams, t, s)}
  IN IF HashTypes # {}
     THEN WriteTypeHashes(b, max, TypeHeader(StreamBytes(streams, Min(HashTypes)))[1]) \o EndChunk
     ELSE IF IsGlobalSymbols(streams, s) THEN WriteGlobalSymbols(b, max) \o EndChunk
     ELSE WriteRange(0, Len(b), TRUE) \o (IF alone THEN EndChunk ELSE <<>>)

Transfer(streams, s, max, alone) ==
  LET b == StreamBytes(streams, s)
  IN OpenWriter
       \o CASE s = PDB -> WriteRange(0, Len(b), FALSE) \o (IF alone THEN EndChunk ELSE <<>>)
            [] s = DBI -> WriteDbi(b) \o EndChunk
            [] s \in {TPI, IPI} -> WriteTypes(b, max)
            [] OTHER -> TransferAny(streams, s, max, alone)

CallsFor(streams, s, max, alone) ==
  LET calls == Transfer(streams, s, max, alone)
  IN [i \in DOMAIN calls |-> [stream |-> s] @@ calls[i]]

(* The PDB and the DBI stream are transferred even if they are nil.        *)
TransferOrder(streams) ==
  LET Valid(s) == streams[s] # Err
  IN <<PDB, DBI>> \o SelectSeq(<<TPI, IPI>>, Valid)
       \o SelectSeq([i \in 1 .. Len(streams) - 4 |-> i + 4], Valid)

PdzEncode(streams, max, alone) ==
  FoldLeft(LAMBDA calls, s : calls \o CallsFor(streams, s, max, alone), <<>>,
           TransferOrder(streams))

-----------------------------------------------------------------------------
(* What the calls come to: the streams of the file, as a reader sees them. *)
Opens(calls, s) == {i \in DOMAIN calls : calls[i].op = "open" /\ calls[i].stream = s}

WritesTo(calls, s) == {i \in DOMAIN calls : calls[i].op = "write" /\ calls[i].stream = s}

Called(out, streams, c) ==
  CASE c.op = "open" -> [out EXCEPT ![c.stream] = IF @ = Err THEN << <<>> >> ELSE @]
    [] c.op = "write" ->
         [out EXCEPT ![c.stream] = <<@[1] \o SubSeq(streams[c.stream][1], c.from + 1, c.to)>>]
    [] OTHER -> out

PdzStreams(streams, calls) ==
  FoldLeft(LAMBDA out, c : Called(out, streams, c), [s \in DOMAIN streams |-> Err], calls)

(* verify_pdz: every stream has the same validity, size and bytes.         *)
VerifyPdz(input, output) ==
  /\ Len(input) = Len(output)
  /\ \A s \in DOMAIN input :
       /\ (input[s] # Err) = (output[s] # Err)
       /\ input[s] # Err => Len(input[s][1]) = Len(output[s][1])
       /\ input[s] # Err => input[s][1] = output[s][1]

-----------------------------------------------------------------------------
(* The file holds the streams of the PDB: the verification accepts it,     *)
(* unless the PDB or the DBI stream was nil, which becomes an empty one.   *)
SameStreams(streams, calls) ==
  VerifyPdz(streams, PdzStreams(streams, calls))
    <=> streams[PDB] # Err /\ streams[DBI] # Err

(* "Type records never cross chunk boundaries", nor do global symbols: no  *)
(* record is split between two calls, and MsfzWriter splits no call; the   *)
(* loop that takes care of it ends; and no chunk of more than one record   *)
(* is longer than the promoted maximum, but for bytes that are no record.  *)
RecordsWhole(calls, s, records, base, max) ==
  /\ ~NeverEnds(records, max)
  /\ \A r \in ToSet(records) :
       \E i \in WritesTo(calls, s) :
         /\ calls[i].from <= base + r.at /\ base + r.end <= calls[i].to
         /\ base + r.end - calls[i].from <= Promoted(max)

(* Streams that are written in parts do not share a chunk: every end_chunk *)
(* that is needed is there.  (Streams that are written in one call may.)   *)
PartsApart(streams, calls) ==
  LET InParts == {s \in DOMAIN streams : Cardinality(WritesTo(calls, s)) > 1}
      Compressed == {i \in DOMAIN calls : calls[i].op = "write" /\ calls[i].compressed}
  IN \A i, j \in Compressed :
       i < j /\ {calls[i].stream, calls[j].stream} \cap InParts # {}
         => \E k \in i .. j : calls[k].op = "end"

(* The calls keep to the rules under which MsfzWriter is shown to lose     *)
(* nothing (AnyCalls = FALSE): a stream is opened once, so that its writes *)
(* follow each other, and between two uncompressed ones no chunk reaches   *)
(* the file, since none is begun.                                          *)
Pending(calls, i) ==
  \E j \in 1 .. i : /\ calls[j].op = "write" /\ calls[j].compressed
                    /\ \A k \in j .. i : calls[k].op # "end"

KeepsRules(calls) ==
  LET Uncompressed == {i \in DOMAIN calls : calls[i].op = "write" /\ ~calls[i].compressed}
  IN /\ \A i \in DOMAIN calls :
          calls[i].op = "open" => Opens(calls, calls[i].stream) = {i}
     /\ \A i, j \in Uncompressed :
          /\ i < j /\ calls[i].stream = calls[j].stream
          /\ \A k \in i + 1 .. j - 1 : calls[k].op # "write"
          => ~Pending(calls, i)

(* All of it for one PDB: types are those of a TPI or IPI stream with a    *)
(* header that can be used, symbols those of the stream that the DBI       *)
(* header names unless it is taken for one of hashes.                      *)
StreamsEncodedFrom(streams, max, alone) ==
  LET calls == PdzEncode(streams, max, alone)
      IsTypes(s) == s \in {TPI, IPI} /\ TypeHeader(StreamBytes(streams, s)) # Err
      IsSymbols(s) == /\ s > IPI /\ streams[s] # Err /\ IsGlobalSymbols(streams, s)
                      /\ \A t \in {TPI, IPI} : ~HashedBy(streams, t, s)
  IN /\ SameStreams(streams, calls)
     /\ PartsApart(streams, calls)
     /\ KeepsRules(calls)
     /\ \A s \in DOMAIN streams :
          /\ IsTypes(s) =>
               RecordsWhole(calls, s, TypesOf(EncodedTypes(StreamBytes(streams, s))),
                            TypeHeaderLen, max)
          /\ IsSymbols(s) => RecordsWhole(calls, s, SymsFrom(StreamBytes(streams, s), 0), 0, max)
=============================================================================

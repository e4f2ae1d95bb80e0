------------------------------- MODULE Layout -------------------------------
(***************************************************************************)
(* How a video becomes segments.  The seed command splits it into chunks   *)
(* and segments (src/pkg/posl); IPFS splits the same bytes into UnixFS     *)
(* blocks, and the Bitswap client counts which of the segments the blocks  *)
(* it received have completed ("virtual segments").  Bytes are numbered    *)
(* from 0; a range is a pair <<first, end>> that excludes its end.         *)
(***************************************************************************)
EXTENDS Integers, Sequences, FiniteSetsExt, SequencesExt

CONSTANTS
  Files,        \* pairs: the size of a video, the chunker of its UnixFS import
  ChunkSize,    \* -chunk-bytes of the seed command
  SegmentSize   \* -segment-bytes

\* what BuildLayoutFromReader checks before it starts
ASSUME LayoutAssumption ==
  /\ Files \subseteq (Nat \ {0}) \X (Nat \ {0})
  /\ ChunkSize \in Nat \ {0} /\ SegmentSize \in Nat \ {0} /\ SegmentSize % ChunkSize = 0

VARIABLES
  file,      \* size, block size, and whether its first two blocks are equal
  read,      \* bytesRead
  nodes,     \* segmentNodes: the chunks of the segment being built
  segments   \* segmentLinks: the chunks of the segments that are stored

layoutVars == <<file, read, nodes, segments>>

CeilDiv(a, b) == (a + b - 1) \div b
Smaller(a, b) == IF a < b THEN a ELSE b
Larger(a, b) == IF a > b THEN a ELSE b

-----------------------------------------------------------------------------
(* BuildLayoutFromReader.                                                  *)

segmentChunkCapacity == SegmentSize \div ChunkSize

\* Seeded faults (Bug...): plausible slips in the operator below them, used by
\* no specification.

\* the segment takes one chunk more
BugFull(chunks) == Len(chunks) > segmentChunkCapacity

Full(chunks) == Len(chunks) >= segmentChunkCapacity

\* the last chunk is read as long as the others
BugChunkEnd == read + ChunkSize

ChunkEnd == read + Smaller(ChunkSize, file.size - read)

\* one turn of the loop: a chunk is read and stored, a full segment is flushed
BuildChunk ==
  LET chunks == Append(nodes, <<read, ChunkEnd>>) IN
  /\ read < file.size
  /\ read' = ChunkEnd
  /\ IF Full(chunks) THEN segments' = Append(segments, chunks) /\ nodes' = <<>>
                     ELSE nodes' = chunks /\ UNCHANGED segments
  /\ UNCHANGED file

\* after the loop: the last segment may be short
FlushLast ==
  /\ read = file.size /\ nodes # <<>>
  /\ segments' = Append(segments, nodes)
  /\ nodes' = <<>>
  /\ UNCHANGED <<file, read>>

Built == read = file.size /\ nodes = <<>>

\* ReadSegmentWithCallback: the bytes of the chunks, in order
ReadSegment(chunks) ==
  FlattenSeq([i \in 1..Len(chunks) |-> [k \in 1..(chunks[i][2] - chunks[i][1]) |-> chunks[i][1] + k - 1]])

\* decodeRoot computes the number of chunks that the builder counted
DecodedChunkCount == CeilDiv(file.size, ChunkSize)

LayoutInit ==
  /\ file \in {[size |-> f[1], block |-> f[2], twins |-> t] : f \in Files, t \in BOOLEAN}
  /\ file.twins => file.size >= 2 * file.block
  /\ read = 0 /\ nodes = <<>> /\ segments = <<>>

-----------------------------------------------------------------------------
(* The Bitswap client's view: blocks with content ids, and segments counted *)
(* from 0.                                                                 *)

SegmentCount == Len(segments)
Segs == 0..(SegmentCount - 1)

Blocks == 0..(CeilDiv(file.size, file.block) - 1)
CidOf(b) == IF file.twins /\ b = 1 THEN 0 ELSE b
mediaCIDs == {CidOf(b) : b \in Blocks}

\* the entry of a block in buildUnixFSRangeIndex: all ranges it has in the file
Index(c) ==
  {<<b * file.block, Smaller((b + 1) * file.block, file.size)>> : b \in {x \in Blocks : CidOf(x) = c}}

\* the end of a range is taken for its last byte
BugSegmentsForRanges(ranges) ==
  UNION {(r[1] \div SegmentSize)..(r[2] \div SegmentSize) : r \in ranges}

segmentsForRanges(ranges) ==
  UNION {(r[1] \div SegmentSize)..((r[2] - 1) \div SegmentSize) : r \in ranges}

Overlap(r, s) ==
  Larger(0, Smaller(r[2], (s + 1) * SegmentSize) - Larger(r[1], s * SegmentSize))

\* blocks count as a whole for every segment they touch
BugAddBlock(got, ranges) ==
  [s \in Segs |->
     IF got[s] >= SegmentSize THEN got[s]
     ELSE got[s] + MapThenSumSet(LAMBDA r : IF Overlap(r, s) > 0 THEN r[2] - r[1] ELSE 0, ranges)]

\* segmentReadiness.addBlock; a segment is ready when it has got needed =
\* SegmentSize bytes, the short last one, too
addBlock(got, ranges) ==
  [s \in Segs |->
     IF got[s] >= SegmentSize THEN got[s]
     ELSE got[s] + MapThenSumSet(LAMBDA r : Overlap(r, s), ranges)]

NewlyReady(got, ranges) ==
  {s \in Segs : got[s] < SegmentSize /\ addBlock(got, ranges)[s] >= SegmentSize}
=============================================================================

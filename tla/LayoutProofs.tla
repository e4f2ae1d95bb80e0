---------------------------- MODULE LayoutProofs ----------------------------
(***************************************************************************)
(* What BuildLayoutFromReader builds, for a video of any size and any      *)
(* chunk and segment sizes: chunks that lie side by side, the same number  *)
(* in each segment but the last.                                           *)
(***************************************************************************)
EXTENDS Layout, SumLemmas, SequenceTheorems, TLAPS

capacity == segmentChunkCapacity

\* the files that are seeded are not empty
LEMMA FileTypes ==
  ASSUME LayoutInit
  PROVE  file.size \in Nat \ {0} /\ file.block \in Nat \ {0}
<1>1. PICK f \in Files, t \in BOOLEAN : file = [size |-> f[1], block |-> f[2], twins |-> t]
  BY DEF LayoutInit
<1>2. f[1] \in Nat \ {0} /\ f[2] \in Nat \ {0}
  BY LayoutAssumption
<1> QED BY <1>1, <1>2

LEMMA Capacity == ChunkSize \in Nat \ {0} /\ capacity \in Nat \ {0}
BY LayoutAssumption DEF capacity, segmentChunkCapacity

LEMMA CapacityExact == SegmentSize = capacity * ChunkSize
BY LayoutAssumption DEF capacity, segmentChunkCapacity

\* Where chunk k starts, and the first chunk of segment i (from 0).
ChunkAt(k) == k * ChunkSize
FirstChunk(i) == i * capacity

LEMMA StartZero == ChunkAt(0) = 0
BY Capacity DEF ChunkAt

LEMMA StartNext ==
  ASSUME NEW k \in Nat
  PROVE  ChunkAt(k) \in Nat /\ ChunkAt(k + 1) = ChunkAt(k) + ChunkSize
BY Capacity DEF ChunkAt

LEMMA FirstZero == FirstChunk(0) = 0
BY Capacity DEF FirstChunk

LEMMA FirstNext ==
  ASSUME NEW i \in Nat
  PROVE  FirstChunk(i) \in Nat /\ FirstChunk(i + 1) = FirstChunk(i) + capacity
BY Capacity DEF FirstChunk

LEMMA StartFirst == \A i \in Nat : ChunkAt(FirstChunk(i)) = i * SegmentSize
<1> SUFFICES ASSUME NEW i \in Nat PROVE (i * capacity) * ChunkSize = i * (capacity * ChunkSize)
  BY CapacityExact DEF ChunkAt, FirstChunk
<1> QED BY Capacity

\* Chunk k of the video.
Chunk(k) == <<ChunkAt(k), Smaller(ChunkAt(k + 1), file.size)>>

LayoutTypes ==
  /\ file.size \in Nat \ {0} /\ read \in Nat /\ read \in 0..file.size
  /\ nodes \in Seq(Nat \X Nat) /\ segments \in Seq(Seq(Nat \X Nat))

\* Chunks are numbered through all segments.
Numbered ==
  /\ \A j \in 1..Len(nodes) : nodes[j] = Chunk(FirstChunk(Len(segments)) + j - 1)
  /\ \A i \in 1..Len(segments) : \A j \in 1..Len(segments[i]) :
       segments[i][j] = Chunk(FirstChunk(i - 1) + j - 1)

AllFull(n) == \A i \in 1..n : Len(segments[i]) = capacity

\* k chunks have been read, none of them empty.
UpTo(k) == read = Smaller(file.size, ChunkAt(k)) /\ (k > 0 => ChunkAt(k - 1) < file.size)

LastLen == Len(segments[Len(segments)])

Growing ==
  /\ AllFull(Len(segments)) /\ Len(nodes) < capacity
  /\ UpTo(FirstChunk(Len(segments)) + Len(nodes))
Finished ==
  /\ read = file.size /\ nodes = <<>> /\ Len(segments) > 0
  /\ AllFull(Len(segments) - 1) /\ LastLen \in 1..capacity
  /\ UpTo(FirstChunk(Len(segments) - 1) + LastLen)

LayoutInv == LayoutTypes /\ Numbered /\ (Growing \/ Finished)

LEMMA InitLayoutInv == LayoutInit => LayoutInv
<1> SUFFICES ASSUME LayoutInit PROVE LayoutInv
  OBVIOUS
<1>1. file.size \in Nat \ {0} /\ read = 0 /\ nodes = <<>> /\ segments = <<>>
  BY FileTypes DEF LayoutInit
<1>2. Len(nodes) = 0 /\ Len(segments) = 0
  BY <1>1
<1>3. UpTo(0)
  BY <1>1, StartZero DEF UpTo, Smaller
<1>4. FirstChunk(Len(segments)) + Len(nodes) = 0
  BY <1>2, FirstZero
<1> QED BY <1>1, <1>2, <1>3, <1>4, Capacity DEF LayoutInv, LayoutTypes, Numbered, Growing, AllFull

\* The next chunk to be read is the next in number.
LEMMA NextChunk ==
  ASSUME LayoutInv, read < file.size
  PROVE  /\ Growing /\ read = ChunkAt(FirstChunk(Len(segments)) + Len(nodes))
         /\ <<read, ChunkEnd>> = Chunk(FirstChunk(Len(segments)) + Len(nodes))
         /\ ChunkEnd = Smaller(file.size, ChunkAt(FirstChunk(Len(segments)) + Len(nodes) + 1))
         /\ ChunkEnd \in Nat
<1> DEFINE k == FirstChunk(Len(segments)) + Len(nodes)
<1>1. Growing /\ file.size \in Nat /\ read \in Nat
  BY DEF LayoutInv, LayoutTypes, Finished
<1>2. k \in Nat
  <2>1. Len(segments) \in Nat /\ Len(nodes) \in Nat
    BY DEF LayoutInv, LayoutTypes
  <2>2. FirstChunk(Len(segments)) \in Nat
    BY <2>1, FirstNext
  <2> QED BY <2>1, <2>2
<1>3. UpTo(k)
  BY <1>1 DEF Growing
<1> HIDE DEF k
<1>4. ChunkAt(k) \in Nat /\ ChunkAt(k + 1) = ChunkAt(k) + ChunkSize
  BY <1>2, StartNext
<1>7. read = ChunkAt(k)
  BY <1>1, <1>2, <1>3, <1>4 DEF UpTo, Smaller
<1>5. ChunkEnd = Smaller(ChunkAt(k + 1), file.size) /\ ChunkEnd = Smaller(file.size, ChunkAt(k + 1))
  BY <1>1, <1>4, <1>7, Capacity DEF ChunkEnd, Smaller
<1>6. ChunkEnd \in Nat
  BY <1>1, Capacity DEF ChunkEnd, Smaller
<1> QED BY <1>1, <1>7, <1>5, <1>6 DEF Chunk, k

LEMMA BuildLayoutInv ==
  ASSUME LayoutInv, BuildChunk
  PROVE  LayoutInv'
<1>1. PICK m \in Nat, n \in Nat, k \in Nat :
        m = Len(segments) /\ n = Len(nodes) /\ k = FirstChunk(m) + n
  <2>1. Len(segments) \in Nat /\ Len(nodes) \in Nat
    BY DEF LayoutInv, LayoutTypes
  <2>2. FirstChunk(Len(segments)) \in Nat
    BY <2>1, FirstNext
  <2> QED BY <2>1, <2>2
<1> DEFINE chunks == Append(nodes, <<read, ChunkEnd>>)
<1>2. /\ Growing /\ <<read, ChunkEnd>> = Chunk(k) /\ ChunkEnd \in Nat /\ read < file.size
      /\ read = ChunkAt(k) /\ ChunkEnd = Smaller(file.size, ChunkAt(k + 1))
  BY <1>1, NextChunk DEF BuildChunk
<1>3. /\ file' = file /\ read' = ChunkEnd /\ file.size \in Nat \ {0}
      /\ nodes \in Seq(Nat \X Nat) /\ segments \in Seq(Seq(Nat \X Nat)) /\ read \in Nat
  BY DEF LayoutInv, LayoutTypes, BuildChunk
<1>4. /\ chunks \in Seq(Nat \X Nat) /\ Len(chunks) = n + 1
      /\ \A j \in 1..n : chunks[j] = nodes[j]
      /\ chunks[n + 1] = Chunk(k)
  <2>1. PICK c \in Nat \X Nat : c = <<read, ChunkEnd>>
    BY <1>2, <1>3
  <2>2. /\ Append(nodes, c) \in Seq(Nat \X Nat) /\ Len(Append(nodes, c)) = n + 1
        /\ \A j \in 1..n : Append(nodes, c)[j] = nodes[j]
        /\ Append(nodes, c)[n + 1] = c
    BY <1>1, <1>3
  <2> QED BY <1>2, <2>1, <2>2
<1>5. \A j \in 1..(n + 1) : chunks[j] = Chunk(FirstChunk(m) + j - 1)
  <2>1. \A j \in 1..n : chunks[j] = Chunk(FirstChunk(m) + j - 1)
    BY <1>1, <1>4 DEF LayoutInv, Numbered
  <2>2. k = FirstChunk(m) + (n + 1) - 1
    BY <1>1, FirstNext
  <2>3. \A j \in 1..(n + 1) : j \in 1..n \/ j = n + 1
    OBVIOUS
  <2> HIDE DEF chunks
  <2> QED BY <1>4, <2>1, <2>2, <2>3
<1>6. \A j : Chunk(j)' = Chunk(j)
  BY <1>3 DEF Chunk
<1>7. UpTo(k + 1)'
  <2>1. (k + 1) - 1 = k
    OBVIOUS
  <2> QED BY <1>2, <1>3, <2>1 DEF UpTo
<1>0. read' \in 0..file'.size
  <2>1. ChunkAt(k + 1) \in Nat
    <3>1. k + 1 \in Nat
      OBVIOUS
    <3> QED BY <3>1, StartNext
  <2> QED BY <1>2, <1>3, <2>1 DEF Smaller
<1>8. AllFull(m) /\ n < capacity
  BY <1>1, <1>2 DEF Growing
<1> HIDE DEF chunks
<1>9. CASE Full(chunks)
  <2>1. segments' = Append(segments, chunks) /\ nodes' = <<>>
    BY <1>9 DEF BuildChunk, chunks
  <2>2. n + 1 = capacity
    BY <1>4, <1>8, <1>9, Capacity DEF Full, capacity
  <2>3. /\ Len(segments') = m + 1 /\ segments' \in Seq(Seq(Nat \X Nat)) /\ Len(nodes') = 0
        /\ \A i \in 1..m : segments'[i] = segments[i]
        /\ segments'[m + 1] = chunks
    BY <1>1, <1>3, <1>4, <2>1
  <2>0. \A i \in 1..(m + 1) : i \in 1..m \/ i = m + 1
    OBVIOUS
  <2>4. k + 1 = FirstChunk(m + 1) + 0
    <3>1. FirstChunk(m) \in Nat /\ FirstChunk(m + 1) = FirstChunk(m) + capacity
      BY FirstNext
    <3> QED BY <1>1, <2>2, <3>1
  <2>5. AllFull(m + 1)'
    BY <1>4, <1>8, <2>2, <2>3, <2>0 DEF AllFull
  <2>6. Growing'
    BY <1>7, <2>3, <2>4, <2>5, Capacity DEF Growing
  <2>7. Numbered'
    <3>1. (m + 1) - 1 = m
      OBVIOUS
    <3>2. \A i \in 1..(m + 1) : \A j \in 1..Len(segments'[i]) :
            segments'[i][j] = Chunk(FirstChunk(i - 1) + j - 1)
      <4>1. ASSUME NEW i \in 1..m, NEW j \in 1..Len(segments'[i])
            PROVE  segments'[i][j] = Chunk(FirstChunk(i - 1) + j - 1)
        <5>1. segments'[i] = segments[i]
          BY <2>3
        <5>2. i \in 1..Len(segments) /\ j \in 1..Len(segments[i])
          BY <1>1, <5>1
        <5>3. segments[i][j] = Chunk(FirstChunk(i - 1) + j - 1)
          BY <5>2 DEF LayoutInv, Numbered
        <5> QED BY <5>1, <5>3
      <4>2. ASSUME NEW j \in 1..Len(segments'[m + 1])
            PROVE  segments'[m + 1][j] = Chunk(FirstChunk((m + 1) - 1) + j - 1)
        BY <1>4, <1>5, <2>3, <3>1
      <4> QED BY <2>0, <4>1, <4>2
    <3> QED BY <1>6, <2>3, <3>2 DEF Numbered
  <2> QED BY <1>0, <1>2, <1>3, <2>1, <2>3, <2>6, <2>7 DEF LayoutInv, LayoutTypes
<1>10. CASE ~Full(chunks)
  <2>1. segments' = segments /\ nodes' = chunks
    BY <1>10 DEF BuildChunk, chunks
  <2>2. n + 1 < capacity
    BY <1>4, <1>10, Capacity DEF Full, capacity
  <2>3. AllFull(m)' /\ FirstChunk(m) + (n + 1) = k + 1
    <3>1. FirstChunk(m) \in Nat
      BY FirstNext
    <3>2. FirstChunk(m) + (n + 1) = k + 1
      BY <1>1, <3>1
    <3> QED BY <1>8, <2>1, <3>2 DEF AllFull
  <2>4. Growing'
    BY <1>1, <1>4, <1>7, <2>1, <2>2, <2>3 DEF Growing
  <2>5. Numbered'
    BY <1>1, <1>4, <1>5, <1>6, <2>1 DEF LayoutInv, Numbered
  <2> QED BY <1>0, <1>2, <1>3, <1>4, <2>1, <2>4, <2>5 DEF LayoutInv, LayoutTypes
<1> QED BY <1>9, <1>10

LEMMA FlushLayoutInv ==
  ASSUME LayoutInv, FlushLast
  PROVE  LayoutInv'
<1>1. PICK m \in Nat, n \in Nat \ {0} : m = Len(segments) /\ n = Len(nodes)
  BY DEF LayoutInv, LayoutTypes, FlushLast
<1>2. /\ UNCHANGED <<file, read>> /\ read = file.size
      /\ nodes \in Seq(Nat \X Nat) /\ segments \in Seq(Seq(Nat \X Nat))
      /\ segments' = Append(segments, nodes) /\ nodes' = <<>> /\ Growing
  BY DEF LayoutInv, LayoutTypes, FlushLast, Finished
<1>3. /\ Len(segments') = m + 1 /\ segments' \in Seq(Seq(Nat \X Nat)) /\ Len(nodes') = 0
      /\ \A i \in 1..m : segments'[i] = segments[i]
      /\ segments'[m + 1] = nodes
  BY <1>1, <1>2
<1>4. \A j : Chunk(j)' = Chunk(j)
  BY <1>2 DEF Chunk
<1>5. (m + 1) - 1 = m /\ m + 1 > 0 /\ \A i \in 1..(m + 1) : i \in 1..m \/ i = m + 1
  OBVIOUS
<1>6. Numbered'
  <2>1. \A i \in 1..(m + 1) : \A j \in 1..Len(segments'[i]) :
          segments'[i][j] = Chunk(FirstChunk(i - 1) + j - 1)
    <3>1. ASSUME NEW i \in 1..m, NEW j \in 1..Len(segments'[i])
          PROVE  segments'[i][j] = Chunk(FirstChunk(i - 1) + j - 1)
      <4>1. i \in 1..Len(segments) /\ segments'[i] = segments[i]
        BY <1>1, <1>3
      <4> QED BY <4>1 DEF LayoutInv, Numbered
    <3>2. ASSUME NEW j \in 1..Len(segments'[m + 1])
          PROVE  segments'[m + 1][j] = Chunk(FirstChunk((m + 1) - 1) + j - 1)
      BY <1>1, <1>2, <1>3, <1>5 DEF LayoutInv, Numbered
    <3> QED BY <1>5, <3>1, <3>2
  <2> QED BY <1>3, <1>4, <2>1 DEF Numbered
<1>7. AllFull(m) /\ n \in 1..capacity /\ UpTo(FirstChunk(m) + n)
  BY <1>1, <1>2, Capacity DEF Growing
<1>8. AllFull(m)' /\ UpTo(FirstChunk(m) + n)'
  BY <1>2, <1>3, <1>7 DEF AllFull, UpTo
<1>9. Finished'
  BY <1>1, <1>2, <1>3, <1>5, <1>7, <1>8 DEF Finished, LastLen
<1> QED BY <1>2, <1>3, <1>6, <1>9 DEF LayoutInv, LayoutTypes

\* A layout that is built is finished.
LEMMA BuiltIsFinished ==
  ASSUME LayoutInv, Built
  PROVE  Finished
<1> SUFFICES ASSUME Growing PROVE Finished
  BY DEF LayoutInv
<1>1. PICK m \in Nat : m = Len(segments)
  BY DEF LayoutInv, LayoutTypes
<1>2. Len(nodes) = 0 /\ read = file.size /\ nodes = <<>> /\ file.size \in Nat \ {0}
  BY DEF LayoutInv, LayoutTypes, Built
<1>3. FirstChunk(m) \in Nat /\ FirstChunk(m) + 0 = FirstChunk(m)
  BY FirstNext
<1>4. UpTo(FirstChunk(m)) /\ AllFull(m)
  BY <1>1, <1>2, <1>3 DEF Growing
<1>5. m > 0
  <2> SUFFICES ASSUME m = 0 PROVE FALSE
    OBVIOUS
  <2>1. UpTo(0)
    BY <1>4, FirstZero
  <2> QED BY <1>2, <2>1, StartZero DEF UpTo, Smaller
<1>6. m - 1 \in Nat /\ (m - 1) + 1 = m
  BY <1>5
<1>7. FirstChunk(m - 1) + capacity = FirstChunk(m)
  BY <1>6, FirstNext
<1>8. LastLen = capacity /\ AllFull(m - 1)
  BY <1>1, <1>4, <1>5 DEF AllFull, LastLen
<1> QED BY <1>1, <1>2, <1>4, <1>5, <1>7, <1>8, Capacity DEF Finished

-----------------------------------------------------------------------------
(* What is built: as many segments and chunks as the sizes say, each       *)
(* segment the bytes of its range.                                         *)

LEMMA Quotient ==
  ASSUME NEW a \in Int, NEW d \in Nat \ {0}, NEW n \in Int, n * d <= a, a < n * d + d
  PROVE  a \div d = n
<1>1. d * (a \div d) <= a /\ a < d * (a \div d) + d /\ a \div d \in Int
  OBVIOUS
<1> DEFINE x == (a \div d) - n
<1>2. x \in Int /\ d * x < d /\ -d < d * x
  BY <1>1
<1>3. x < 1 /\ -1 < x
  <2> HIDE DEF x
  <2> QED BY <1>2
<1> QED BY <1>1, <1>3

LEMMA CeilDivIs ==
  ASSUME NEW a \in Nat, NEW d \in Nat \ {0}, NEW n \in Nat \ {0}, (n - 1) * d < a, a <= n * d
  PROVE  CeilDiv(a, d) = n
<1>1. (n - 1) * d = n * d - d /\ n * d \in Nat
  OBVIOUS
<1>2. n * d <= a + d - 1 /\ a + d - 1 < n * d + d
  BY <1>1
<1> QED BY <1>2, Quotient DEF CeilDiv

LEMMA StartGrows ==
  ASSUME NEW j \in Nat, NEW k \in Nat, j <= k
  PROVE  ChunkAt(j) <= ChunkAt(k)
<1>1. j * ChunkSize <= k * ChunkSize
  BY Capacity
<1> QED BY <1>1 DEF ChunkAt

\* The shape of a layout that is built: m segments, k chunks.
BuiltShape(m, last, k) ==
  /\ m = Len(segments) /\ k = FirstChunk(m - 1) + last
  /\ AllFull(m - 1) /\ Len(segments[m]) = last
  /\ ChunkAt(k - 1) < file.size /\ file.size <= ChunkAt(k)

LEMMA ShapeExists ==
  ASSUME LayoutInv, Built
  PROVE  \E m \in Nat \ {0}, last \in 1..capacity, k \in Nat \ {0} : BuiltShape(m, last, k)
<1>1. PICK m \in Nat \ {0}, last \in 1..capacity : m = Len(segments) /\ last = LastLen
  BY BuiltIsFinished DEF LayoutInv, LayoutTypes, Finished
<1>2. FirstChunk(m - 1) \in Nat
  BY FirstNext
<1>3. PICK k \in Nat \ {0} : k = FirstChunk(m - 1) + last
  BY <1>2, Capacity
<1>4. Finished /\ file.size \in Nat
  BY BuiltIsFinished DEF LayoutInv, LayoutTypes
<1>5. UpTo(k) /\ AllFull(m - 1) /\ read = file.size
  BY <1>1, <1>3, <1>4 DEF Finished
<1>6. ChunkAt(k) \in Nat
  BY StartNext
<1>7. ChunkAt(k - 1) < file.size /\ file.size <= ChunkAt(k)
  BY <1>4, <1>5, <1>6 DEF UpTo, Smaller
<1> QED BY <1>1, <1>3, <1>5, <1>7 DEF BuiltShape, LastLen

\* The numbers of segments and chunks.
LEMMA BuiltCounts ==
  ASSUME LayoutInv, NEW m \in Nat \ {0}, NEW last \in 1..capacity, NEW k \in Nat \ {0},
         BuiltShape(m, last, k)
  PROVE  /\ m = CeilDiv(file.size, SegmentSize) /\ k = DecodedChunkCount
         /\ (m - 1) * SegmentSize < file.size /\ file.size <= m * SegmentSize
<1>1. file.size \in Nat /\ ChunkSize \in Nat \ {0} /\ SegmentSize \in Nat \ {0} /\ capacity \in Nat \ {0}
  BY Capacity, LayoutAssumption DEF LayoutInv, LayoutTypes
<1>2. m - 1 \in Nat /\ k - 1 \in Nat /\ (m - 1) + 1 = m
  OBVIOUS
<1>3. FirstChunk(m - 1) \in Nat /\ FirstChunk(m) = FirstChunk(m - 1) + capacity
  BY <1>2, FirstNext
<1>4. FirstChunk(m - 1) <= k - 1 /\ k <= FirstChunk(m) /\ FirstChunk(m) \in Nat
  BY <1>1, <1>3 DEF BuiltShape
<1>5. /\ ChunkAt(FirstChunk(m - 1)) <= ChunkAt(k - 1) /\ ChunkAt(k) <= ChunkAt(FirstChunk(m))
      /\ ChunkAt(k) \in Nat /\ ChunkAt(k - 1) \in Nat
  BY <1>2, <1>3, <1>4, StartGrows, StartNext
<1>6. ChunkAt(FirstChunk(m - 1)) = (m - 1) * SegmentSize /\ ChunkAt(FirstChunk(m)) = m * SegmentSize
  BY <1>2, StartFirst
<1>7. (m - 1) * SegmentSize \in Nat /\ m * SegmentSize \in Nat
  BY <1>1
<1>8. (m - 1) * SegmentSize < file.size /\ file.size <= m * SegmentSize
  BY <1>1, <1>5, <1>6, <1>7 DEF BuiltShape
<1>9. m = CeilDiv(file.size, SegmentSize)
  BY <1>1, <1>8, CeilDivIs
<1>10. k = CeilDiv(file.size, ChunkSize)
  BY <1>1, CeilDivIs DEF BuiltShape, ChunkAt
<1> QED BY <1>8, <1>9, <1>10 DEF DecodedChunkCount

\* The lengths of the segments add up to the number of chunks.
LEMMA ChunkSum ==
  ASSUME LayoutInv, NEW m \in Nat \ {0}, NEW last \in 1..capacity, NEW k \in Nat \ {0},
         BuiltShape(m, last, k)
  PROVE  FoldSeq(LAMBDA chunks, n : n + Len(chunks), 0, segments) = k
<1> DEFINE F == [i \in 1..m |-> Len(segments[i])]
           Sum(n) == SumFunctionOnSet(F, 1..n)
<1>1. segments \in Seq(Seq(Nat \X Nat)) /\ m = Len(segments) /\ DOMAIN segments = 1..m /\ capacity \in Nat
  BY Capacity DEF LayoutInv, LayoutTypes, BuiltShape
<1>2. \A i \in 1..m : F[i] \in Int /\ F[i] = Len(segments[i])
  <2>1. \A i \in 1..m : segments[i] \in Seq(Nat \X Nat)
    BY <1>1
  <2> QED BY <2>1
<1>3. FoldSeq(LAMBDA chunks, n : n + Len(chunks), 0, segments) = Sum(m)
  <2> DEFINE adds(iter) == iter = [s \in SUBSET (1..m) |->
             IF s = {} THEN 0 ELSE iter[s \ {Some(s)}] + F[Some(s)]]
             folds(iter) == iter = [s \in SUBSET (1..m) |->
             IF s = {} THEN 0 ELSE iter[s \ {Some(s)}] + Len(segments[Some(s)])]
  <2>1. FoldSeq(LAMBDA chunks, n : n + Len(chunks), 0, segments) = (CHOOSE iter : folds(iter))[1..m]
    BY <1>1, Zenon DEF FoldSeq, FoldFunction, FoldFunctionOnSet, MapThenFoldSet, Some
  <2>2. \A s \in SUBSET (1..m) : s # {} => F[Some(s)] = Len(segments[Some(s)])
    BY <1>2, SomeIsIn
  <2>3. \A iter : adds(iter) <=> folds(iter)
    <3> HIDE DEF F
    <3> QED BY <2>2
  <2>4. (CHOOSE iter : folds(iter)) = (CHOOSE iter : adds(iter))
    <3> HIDE DEF adds, folds
    <3> QED BY <2>3, Zenon
  <2>5. (CHOOSE iter : adds(iter))[1..m] = Sum(m)
    <3>1. IsFiniteSet(1..m)
      BY FS_Interval
    <3> HIDE DEF F
    <3> QED BY <1>2, <3>1, SumLast
  <2> HIDE DEF adds, folds
  <2> QED BY <2>1, <2>4, <2>5
<1>4. \A n \in Nat : n < m => Sum(n) = FirstChunk(n)
  <2> DEFINE P == {n \in Nat : n < m => Sum(n) = FirstChunk(n)}
  <2>1. 0 \in P
    <3>1. 1..0 = {}
      OBVIOUS
    <3> QED BY <3>1, SumEmpty, FirstZero
  <2>2. ASSUME NEW n \in Nat, n \in P PROVE n + 1 \in P
    <3> SUFFICES ASSUME n + 1 < m PROVE Sum(n + 1) = FirstChunk(n + 1)
      OBVIOUS
    <3>1. Sum(n) = FirstChunk(n)
      BY <2>2
    <3>2. Sum(n + 1) = F[n + 1] + Sum(n)
      <4>1. \A i \in 1..(n + 1) : F[i] \in Int
        BY <1>2
      <4> HIDE DEF F
      <4> QED BY <4>1, SumUpTo
    <3>3. F[n + 1] = capacity
      BY <1>2 DEF BuiltShape, AllFull
    <3>4. FirstChunk(n) \in Nat /\ FirstChunk(n + 1) = FirstChunk(n) + capacity
      BY FirstNext
    <3> HIDE DEF Sum, F
    <3> QED BY <1>1, <3>1, <3>2, <3>3, <3>4
  <2> HIDE DEF P
  <2>3. \A n \in Nat : n \in P
    BY <2>1, <2>2, Inducts
  <2> QED BY <2>3 DEF P
<1>5. Sum(m) = F[m] + Sum(m - 1)
  <2>1. m - 1 \in Nat /\ (m - 1) + 1 = m
    OBVIOUS
  <2> HIDE DEF F
  <2>2. \A i \in 1..((m - 1) + 1) : F[i] \in Int
    BY <1>2
  <2>3. Sum((m - 1) + 1) = F[(m - 1) + 1] + Sum(m - 1)
    BY <2>1, <2>2, SumUpTo
  <2> QED BY <2>1, <2>3
<1>6. F[m] = last
  BY <1>2 DEF BuiltShape
<1> HIDE DEF Sum, F
<1>7. m - 1 \in Nat /\ m - 1 < m
  OBVIOUS
<1>8. Sum(m - 1) = FirstChunk(m - 1) /\ FirstChunk(m - 1) \in Nat
  BY <1>4, <1>7, FirstNext
<1>9. k = FirstChunk(m - 1) + last /\ last \in Nat
  BY <1>1 DEF BuiltShape
<1>10. Sum(m) = k
  BY <1>5, <1>6, <1>8, <1>9
<1> QED BY <1>3, <1>10

\* The bytes from a to b, in order.
BytesFrom(a, b) == [x \in 1..(b - a) |-> a + x - 1]

LEMMA BytesJoin ==
  ASSUME NEW a \in Nat, NEW b \in Nat, NEW c \in Nat, a <= b, b <= c
  PROVE  BytesFrom(a, b) \o BytesFrom(b, c) = BytesFrom(a, c)
<1> DEFINE l == BytesFrom(a, b)
           r == BytesFrom(b, c)
<1>1. l \in Seq(Nat) /\ r \in Seq(Nat) /\ Len(l) = b - a /\ Len(r) = c - b
  BY DEF BytesFrom
<1>2. \A i \in 1..(c - a) : (l \o r)[i] = a + i - 1
  <2> SUFFICES ASSUME NEW i \in 1..(c - a) PROVE (l \o r)[i] = a + i - 1
    OBVIOUS
  <2>1. CASE i <= b - a
    <3>1. (l \o r)[i] = l[i] /\ l[i] = a + i - 1
      <4>1. l[i] = a + i - 1
        BY <2>1 DEF BytesFrom
      <4> HIDE DEF l, r
      <4> QED BY <1>1, <2>1, <4>1
    <3> QED BY <3>1
  <2>2. CASE ~(i <= b - a)
    <3>1. i - (b - a) \in 1..(c - b)
      BY <2>2
    <3>2. r[i - (b - a)] = b + (i - (b - a)) - 1
      BY <3>1 DEF BytesFrom
    <3>3. (l \o r)[i] = r[i - (b - a)]
      <4> HIDE DEF l, r
      <4> QED BY <1>1, <2>2, <3>1
    <3> QED BY <3>2, <3>3
  <2> QED BY <2>1, <2>2
<1>3. l \o r \in Seq(Nat) /\ Len(l \o r) = c - a
  <2> HIDE DEF l, r
  <2> QED BY <1>1
<1>4. BytesFrom(a, c) \in Seq(Nat) /\ Len(BytesFrom(a, c)) = c - a
      /\ \A i \in 1..(c - a) : BytesFrom(a, c)[i] = a + i - 1
  BY DEF BytesFrom
<1> HIDE DEF l, r
<1>5. l \o r = BytesFrom(a, c)
  <2>1. \A i \in 1..Len(l \o r) : (l \o r)[i] = BytesFrom(a, c)[i]
    BY <1>2, <1>3, <1>4
  <2> QED BY <1>3, <1>4, <2>1, SeqEqual
<1> QED BY <1>5 DEF l, r

\* Ranges that lie side by side, flattened.
LEMMA FlattenRanges ==
  ASSUME NEW n \in Nat \ {0}, NEW seqs, DOMAIN seqs = 1..n, Len(seqs) = n,
         NEW off \in [1..(n + 1) -> Nat], \A i \in 1..n : off[i] <= off[i + 1],
         \A i \in 1..n : seqs[i] = BytesFrom(off[i], off[i + 1])
  PROVE  FlattenSeq(seqs) = BytesFrom(off[1], off[n + 1]) /\ off[1] <= off[n + 1]
<1> DEFINE flattens(f) == f = [i \in 1..n |-> IF i = 1 THEN seqs[i] ELSE f[i - 1] \o seqs[i]]
           joined == [i \in 1..n |-> BytesFrom(off[1], off[i + 1])]
<1>1. \A i \in Nat : i \in 1..n => off[1] <= off[i + 1]
  <2> DEFINE P == {i \in Nat : i \in 1..n => off[1] <= off[i + 1]}
  <2>1. 0 \in P
    OBVIOUS
  <2>2. ASSUME NEW i \in Nat, i \in P PROVE i + 1 \in P
    <3> SUFFICES ASSUME i + 1 \in 1..n PROVE off[1] <= off[(i + 1) + 1]
      OBVIOUS
    <3>1. off[i + 1] <= off[(i + 1) + 1] /\ off[1] \in Nat /\ off[i + 1] \in Nat /\ off[(i + 1) + 1] \in Nat
      OBVIOUS
    <3>2. CASE i = 0
      BY <3>1, <3>2
    <3>3. CASE i # 0
      <4>1. off[1] <= off[i + 1]
        BY <2>2, <3>3
      <4> QED BY <3>1, <4>1
    <3> QED BY <3>2, <3>3
  <2> HIDE DEF P
  <2>3. \A i \in Nat : i \in P
    BY <2>1, <2>2, Inducts
  <2> QED BY <2>3 DEF P
<1>2. flattens(joined)
  <2>1. ASSUME NEW i \in 1..n
        PROVE  joined[i] = IF i = 1 THEN seqs[i] ELSE joined[i - 1] \o seqs[i]
    <3>1. CASE i = 1
      BY <3>1
    <3>2. CASE i # 1
      <4>1. i - 1 \in 1..n /\ (i - 1) + 1 = i
        BY <3>2
      <4>2. off[1] <= off[i] /\ off[i] <= off[i + 1]
            /\ off[1] \in Nat /\ off[i] \in Nat /\ off[i + 1] \in Nat
        <5>1. i - 1 \in Nat /\ i \in Nat /\ i \in 1..(n + 1) /\ i + 1 \in 1..(n + 1) /\ 1 \in 1..(n + 1)
          BY <4>1
        <5>2. off[1] <= off[(i - 1) + 1]
          BY <1>1, <4>1, <5>1
        <5> QED BY <4>1, <5>1, <5>2
      <4>3. BytesFrom(off[1], off[i]) \o BytesFrom(off[i], off[i + 1]) = BytesFrom(off[1], off[i + 1])
        BY <4>2, BytesJoin
      <4> QED BY <3>2, <4>1, <4>3
    <3> QED BY <3>1, <3>2
  <2> QED BY <2>1
<1>3. ASSUME NEW f, flattens(f)
      PROVE  \A i \in Nat : i \in 1..n => f[i] = joined[i]
  <2> DEFINE P == {i \in Nat : i \in 1..n => f[i] = joined[i]}
  <2>1. 0 \in P
    OBVIOUS
  <2>2. ASSUME NEW i \in Nat, i \in P PROVE i + 1 \in P
    <3> SUFFICES ASSUME i + 1 \in 1..n PROVE f[i + 1] = joined[i + 1]
      OBVIOUS
    <3> HIDE DEF joined
    <3>1. /\ f[i + 1] = IF i + 1 = 1 THEN seqs[i + 1] ELSE f[(i + 1) - 1] \o seqs[i + 1]
          /\ joined[i + 1] = IF i + 1 = 1 THEN seqs[i + 1] ELSE joined[(i + 1) - 1] \o seqs[i + 1]
      BY <1>2, <1>3
    <3>2. (i + 1) - 1 = i /\ (i + 1 # 1 => i \in 1..n)
      OBVIOUS
    <3>3. i + 1 # 1 => f[i] = joined[i]
      BY <2>2, <3>2
    <3> HIDE DEF flattens
    <3> QED BY <3>1, <3>2, <3>3
  <2> HIDE DEF P
  <2>3. \A i \in Nat : i \in P
    BY <2>1, <2>2, Inducts
  <2> QED BY <2>3 DEF P
<1>4. FlattenSeq(seqs) = (CHOOSE f : flattens(f))[n]
  <2>1. Len(seqs) # 0
    OBVIOUS
  <2> QED BY <2>1, Zenon DEF FlattenSeq
<1> HIDE DEF flattens
<1>5. flattens(CHOOSE f : flattens(f))
  BY <1>2, Zenon
<1>6. n \in Nat /\ n \in 1..n
  OBVIOUS
<1>7. (CHOOSE f : flattens(f))[n] = joined[n]
  BY <1>3, <1>5, <1>6
<1> QED BY <1>1, <1>4, <1>6, <1>7

LEMMA FirstGrows ==
  ASSUME NEW i \in Nat, NEW j \in Nat, i <= j
  PROVE  FirstChunk(i) <= FirstChunk(j)
<1>1. i * capacity <= j * capacity
  BY Capacity
<1> QED BY <1>1 DEF FirstChunk

\* Segment s + 1 of a built layout, read back, is the range of its bytes.
LEMMA SegmentIsRange ==
  ASSUME LayoutInv, Built, NEW s \in 0..(Len(segments) - 1)
  PROVE  /\ ReadSegment(segments[s + 1])
              = BytesFrom(s * SegmentSize, Smaller((s + 1) * SegmentSize, file.size))
         /\ s * SegmentSize < file.size
<1>1. PICK m \in Nat \ {0}, last \in 1..capacity, k \in Nat \ {0} : BuiltShape(m, last, k)
  BY ShapeExists
<1>2. /\ m = Len(segments) /\ segments \in Seq(Seq(Nat \X Nat)) /\ file.size \in Nat
      /\ capacity \in Nat \ {0} /\ SegmentSize \in Nat \ {0}
  BY <1>1, Capacity, LayoutAssumption DEF BuiltShape, LayoutInv, LayoutTypes
<1>3. s \in Nat /\ s <= m - 1 /\ s + 1 \in 1..m /\ (s + 1) - 1 = s /\ s + 1 \in Nat /\ m - 1 \in Nat
  BY <1>2
<1>4. PICK f \in Nat : f = FirstChunk(s) /\ FirstChunk(s + 1) = f + capacity
  BY <1>3, FirstNext
<1>5. PICK n \in Nat : n = Len(segments[s + 1])
  <2>1. segments[s + 1] \in Seq(Nat \X Nat)
    BY <1>2, <1>3
  <2> QED BY <2>1
<1>6. 0 < n /\ f + n <= k /\ (s = m - 1 => f + n = k) /\ (s # m - 1 => n = capacity)
  <2>1. CASE s = m - 1
    <3>1. n = last /\ k = f + last
      BY <1>1, <1>4, <1>5, <2>1 DEF BuiltShape
    <3> QED BY <1>2, <2>1, <3>1
  <2>2. CASE s # m - 1
    <3>1. s + 1 \in 1..(m - 1)
      BY <1>3, <2>2
    <3>2. n = capacity
      BY <1>1, <1>5, <3>1 DEF BuiltShape, AllFull
    <3>3. FirstChunk(s + 1) <= FirstChunk(m - 1) /\ FirstChunk(m - 1) \in Nat
      <4>1. s + 1 \in Nat /\ m - 1 \in Nat /\ s + 1 <= m - 1
        BY <1>3, <3>1
      <4> QED BY <4>1, FirstGrows, FirstNext
    <3>4. k = FirstChunk(m - 1) + last
      BY <1>1 DEF BuiltShape
    <3> QED BY <1>2, <1>4, <2>2, <3>2, <3>3, <3>4
  <2> QED BY <2>1, <2>2
<1> DEFINE off == [i \in 1..(n + 1) |-> Smaller(ChunkAt(f + i - 1), file.size)]
<1>7. ASSUME NEW i \in 1..n
      PROVE  /\ off[i] = ChunkAt(f + i - 1) /\ off[i + 1] = Smaller(ChunkAt(f + i), file.size)
             /\ off[i] \in Nat /\ off[i + 1] \in Nat /\ off[i] <= off[i + 1]
             /\ off[i] < file.size
  <2>1. f + i - 1 \in Nat /\ f + i - 1 <= k - 1 /\ k - 1 \in Nat /\ (f + i - 1) + 1 = f + i
    BY <1>6
  <2>2. ChunkAt(f + i - 1) <= ChunkAt(k - 1)
    BY <2>1, StartGrows
  <2>3. /\ ChunkAt(f + i - 1) \in Nat /\ ChunkAt(k - 1) \in Nat
        /\ ChunkAt(f + i) = ChunkAt(f + i - 1) + ChunkSize
    BY <2>1, StartNext
  <2>4. ChunkAt(f + i - 1) < file.size
    <3>1. ChunkAt(k - 1) < file.size /\ file.size \in Nat
      BY <1>1, <1>2 DEF BuiltShape
    <3> QED BY <2>2, <2>3, <3>1
  <2>5. f + (i + 1) - 1 = f + i
    OBVIOUS
  <2>6. off[i] = Smaller(ChunkAt(f + i - 1), file.size) /\ off[i + 1] = Smaller(ChunkAt(f + (i + 1) - 1), file.size)
    <3>1. i \in 1..(n + 1) /\ i + 1 \in 1..(n + 1)
      OBVIOUS
    <3> QED BY <3>1
  <2> HIDE DEF off
  <2>7. off[i] = ChunkAt(f + i - 1) /\ off[i + 1] = Smaller(ChunkAt(f + i), file.size)
    BY <1>2, <2>3, <2>4, <2>5, <2>6 DEF Smaller
  <2>8. PICK a \in Nat, z \in Nat, d \in Nat :
          a = ChunkAt(f + i - 1) /\ z = file.size /\ d = ChunkSize /\ ChunkAt(f + i) = a + d
    BY <1>2, <2>3, Capacity
  <2>9. off[i] = a /\ a < z /\ off[i + 1] = Smaller(a + d, z)
    BY <2>4, <2>7, <2>8
  <2> QED BY <2>7, <2>8, <2>9 DEF Smaller
<1>8. off \in [1..(n + 1) -> Nat]
  <2>1. ASSUME NEW i \in 1..(n + 1) PROVE Smaller(ChunkAt(f + i - 1), file.size) \in Nat
    <3>1. f + i - 1 \in Nat
      OBVIOUS
    <3>2. ChunkAt(f + i - 1) \in Nat
      BY <3>1, StartNext
    <3> QED BY <1>2, <3>2 DEF Smaller
  <2> QED BY <2>1
<1> DEFINE chunks == segments[s + 1]
           seqs == [i \in 1..Len(chunks) |-> [x \in 1..(chunks[i][2] - chunks[i][1]) |-> chunks[i][1] + x - 1]]
<1>9. \A i \in 1..n : chunks[i] = <<off[i], off[i + 1]>>
  <2> SUFFICES ASSUME NEW i \in 1..n PROVE chunks[i] = <<off[i], off[i + 1]>>
    OBVIOUS
  <2>1. chunks[i] = Chunk(FirstChunk((s + 1) - 1) + i - 1)
    BY <1>2, <1>3, <1>5 DEF LayoutInv, Numbered
  <2>2. chunks[i] = Chunk(f + i - 1)
    BY <1>3, <1>4, <2>1
  <2>3. (f + i - 1) + 1 = f + i
    OBVIOUS
  <2>4. Chunk(f + i - 1) = <<ChunkAt(f + i - 1), Smaller(ChunkAt(f + i), file.size)>>
    BY <2>3 DEF Chunk
  <2> HIDE DEF off, chunks
  <2> QED BY <1>7, <2>2, <2>4
<1> HIDE DEF off
<1>10. seqs = [i \in 1..n |-> BytesFrom(off[i], off[i + 1])]
  <2>1. \A i \in 1..n : chunks[i][1] = off[i] /\ chunks[i][2] = off[i + 1]
    BY <1>9
  <2>2. seqs = [i \in 1..n |-> [x \in 1..(chunks[i][2] - chunks[i][1]) |-> chunks[i][1] + x - 1]]
    BY <1>5
  <2> HIDE DEF chunks, seqs
  <2> QED BY <2>1, <2>2 DEF BytesFrom
<1>11. ReadSegment(chunks) = BytesFrom(off[1], off[n + 1])
  <2>1. ReadSegment(chunks) = FlattenSeq(seqs)
    BY DEF ReadSegment
  <2> HIDE DEF chunks, seqs
  <2>2. DOMAIN seqs = 1..n /\ Len(seqs) = n /\ \A i \in 1..n : seqs[i] = BytesFrom(off[i], off[i + 1])
    BY <1>10
  <2>3. \A i \in 1..n : off[i] <= off[i + 1]
    BY <1>7
  <2>4. n \in Nat \ {0}
    BY <1>6
  <2>5. FlattenSeq(seqs) = BytesFrom(off[1], off[n + 1])
    BY Zenon, <1>8, <2>2, <2>3, <2>4, FlattenRanges
  <2> QED BY <2>1, <2>5
<1>12. off[1] = s * SegmentSize /\ off[1] < file.size
  <2>1. 1 \in 1..n /\ f + 1 - 1 = f
    BY <1>6
  <2>2. off[1] = ChunkAt(f + 1 - 1) /\ off[1] < file.size
    BY <1>7, <2>1
  <2>3. ChunkAt(FirstChunk(s)) = s * SegmentSize
    BY <1>3, StartFirst
  <2> QED BY <1>4, <2>1, <2>2, <2>3
<1>13. off[n + 1] = Smaller((s + 1) * SegmentSize, file.size)
  <2>1. off[n + 1] = Smaller(ChunkAt(f + n), file.size)
    <3>1. n + 1 \in 1..(n + 1) /\ f + (n + 1) - 1 = f + n
      OBVIOUS
    <3> QED BY <3>1 DEF off
  <2>2. ChunkAt(FirstChunk(s + 1)) = (s + 1) * SegmentSize
    BY <1>3, StartFirst
  <2>3. CASE s = m - 1
    <3>1. file.size <= ChunkAt(f + n) /\ ChunkAt(f + n) \in Nat
      BY <1>1, <1>6, <2>3, StartNext DEF BuiltShape
    <3>2. file.size <= m * SegmentSize /\ s + 1 = m
      BY <1>1, <2>3, BuiltCounts
    <3>3. PICK x \in Nat : x = (s + 1) * SegmentSize
      BY <1>2, <1>3
    <3>4. file.size <= x
      BY <3>2, <3>3
    <3>5. Smaller(ChunkAt(f + n), file.size) = Smaller(x, file.size)
      BY <1>2, <3>1, <3>4 DEF Smaller
    <3> QED BY <2>1, <3>3, <3>5
  <2>4. CASE s # m - 1
    <3>1. f + n = FirstChunk(s + 1)
      BY <1>4, <1>6, <2>4
    <3> QED BY <2>1, <2>2, <3>1
  <2> QED BY <2>3, <2>4
<1> QED BY <1>11, <1>12, <1>13
=============================================================================

---------------------------- MODULE PlayoutProofs ----------------------------
(***************************************************************************)
(* What both clients measure of one video, for videos and peers of any     *)
(* number and size.                                                        *)
(***************************************************************************)
EXTENDS Playout, LayoutProofs

-----------------------------------------------------------------------------
(* The layout under the clients, and the types of the variables.           *)

LayoutKept == LayoutInv /\ (phase # "build" => Built)

LEMMA SizeTypes ==
  ASSUME TypeOK
  PROVE  /\ file.size \in Nat \ {0} /\ file.block \in Nat \ {0}
         /\ ChunkSize \in Nat \ {0} /\ SegmentSize \in Nat \ {0}
<1>1. <<file.size, file.block>> \in (Nat \ {0}) \X (Nat \ {0})
  BY LayoutAssumption DEF TypeOK
<1> QED BY <1>1, LayoutAssumption

LEMMA PlaybackType ==
  ASSUME TypeOK
  PROVE  playbackMs \in Nat \ {0} /\ speed \in Nat \ {0} /\ indexing \in Nat
<1>1. speed \in Nat \ {0} /\ indexing \in Nat /\ BasePlaybackMs \in Nat \ {0}
  BY PlayoutAssumption DEF TypeOK
<1>2. (2 * BasePlaybackMs + speed) \div (2 * speed) \in Int
  BY <1>1
<1> QED BY <1>1, <1>2 DEF playbackMs, Larger

\* What is defined by the layout stays when the layout stays.
LEMMA SameLayout ==
  ASSUME UNCHANGED layoutVars
  PROVE  /\ Segs' = Segs /\ mediaCIDs' = mediaCIDs /\ SegmentCount' = SegmentCount
         /\ Blocks' = Blocks /\ LayoutInv' = LayoutInv /\ Built' = Built /\ Models' = Models
BY DEF layoutVars, Models, Segs, mediaCIDs, SegmentCount, Blocks, CidOf, LayoutInv, LayoutTypes,
       Numbered, Chunk, Growing, Finished, AllFull, UpTo, LastLen, Built

LEMMA SegsType ==
  ASSUME TypeOK
  PROVE  SegmentCount \in Nat /\ Segs = 0..(SegmentCount - 1) /\ IsFiniteSet(Segs)
<1>1. SegmentCount \in Nat
  BY DEF TypeOK, SegmentCount
<1>2. IsFiniteSet(0..(SegmentCount - 1))
  BY <1>1, FS_Interval
<1> QED BY <1>1, <1>2 DEF Segs

\* There is a segment.
LEMMA FirstSegment ==
  ASSUME LayoutKept, phase # "build"
  PROVE  0 \in Segs /\ SegmentCount \in Nat \ {0}
<1>1. PICK m \in Nat \ {0}, last \in 1..capacity, k \in Nat \ {0} : BuiltShape(m, last, k)
  BY ShapeExists DEF LayoutKept
<1> QED BY <1>1 DEF BuiltShape, Segs, SegmentCount

LEMMA InitKept == Init => LayoutKept
BY InitLayoutInv DEF Init, LayoutKept

LEMMA NextKept ==
  ASSUME LayoutKept, [Next]_vars
  PROVE  LayoutKept'
<1>1. ASSUME UNCHANGED layoutVars, phase' = phase PROVE LayoutKept'
  BY <1>1, SameLayout DEF LayoutKept
<1>2. CASE Build
  <2>1. LayoutInv'
    BY <1>2, BuildLayoutInv, FlushLayoutInv DEF Build, LayoutKept
  <2> QED BY <1>2, <2>1 DEF Build, LayoutKept
<1>3. CASE Start \/ Summarise
  <2>1. UNCHANGED layoutVars /\ Built
    BY <1>3 DEF Start, Summarise, Played, LayoutKept
  <2> QED BY <2>1, SameLayout DEF LayoutKept
<1>4. ASSUME NEW p \in Peers, NEW c \in mediaCIDs, Receive(c, p) PROVE LayoutKept'
  BY <1>1, <1>4 DEF Receive
<1>5. ASSUME NEW p \in Peers, NEW s \in Segs, LateResult(s, p) PROVE LayoutKept'
  BY <1>1, <1>5 DEF LateResult
<1>6. ASSUME NEW line \in results, ReadResult(line) PROVE LayoutKept'
  BY <1>1, <1>6 DEF ReadResult
<1>7. CASE Consume \/ Tick \/ SummaryStep
  BY <1>1, <1>7 DEF Consume, Tick, SummaryStep
<1>8. CASE UNCHANGED vars
  BY <1>1, <1>8 DEF vars
<1> QED BY <1>2, <1>3, <1>4, <1>5, <1>6, <1>7, <1>8 DEF Next

-----------------------------------------------------------------------------
(* Blocks, segments and the bytes they hold.                               *)

\* The block a byte is in.
BlockOf(x) == x \div file.block
FileBytes == 0..(file.size - 1)

\* Block b of a file holds the bytes that are in it by division.
HoldsItsBytes(size, block, b) ==
  \A x \in 0..(size - 1) :
    x \in (b * block)..(Smaller((b + 1) * block, size) - 1) <=> x \div block = b

LEMMA BlockBytes ==
  ASSUME NEW size \in Nat \ {0}, NEW block \in Nat \ {0},
         NEW b \in 0..(CeilDiv(size, block) - 1)
  PROVE  /\ b \in Nat /\ b * block \in Nat /\ (b + 1) * block = b * block + block
         /\ b * block < size /\ HoldsItsBytes(size, block, b)
<1>1. b \in Nat /\ b * block \in Nat /\ (b + 1) * block = b * block + block
  BY DEF CeilDiv
<1> DEFINE y == size + block - 1
<1>2. block * (y \div block) <= y /\ y \div block \in Int
  OBVIOUS
<1>3. b + 1 <= y \div block
  BY <1>2 DEF CeilDiv
<1>4. (b + 1) * block <= (y \div block) * block /\ (y \div block) * block = block * (y \div block)
  <2>1. PICK e \in Int : e = y \div block
    BY <1>2
  <2>2. b + 1 <= e
    BY <1>3, <2>1
  <2> HIDE DEF y
  <2>3. (b + 1) * block <= e * block /\ e * block = block * e
    BY <1>1, <2>2
  <2> QED BY <2>1, <2>3
<1>5. b * block < size
  <2>1. PICK z \in Int : z = block * (y \div block)
    BY <1>2
  <2>2. b * block + block <= z
    BY <1>1, <1>4, <2>1
  <2>3. z <= size + block - 1
    BY <1>2, <2>1
  <2>4. PICK w \in Nat : w = b * block
    BY <1>1
  <2> QED BY <2>2, <2>3, <2>4
<1>6. ASSUME NEW x \in 0..(size - 1)
      PROVE  x \in (b * block)..(Smaller((b + 1) * block, size) - 1) <=> x \div block = b
  <2>1. PICK w \in Nat : w = b * block
    BY <1>1
  <2>2. x \in (b * block)..(Smaller((b + 1) * block, size) - 1) <=> w <= x /\ x < w + block
    BY <1>1, <2>1 DEF Smaller
  <2>3. w <= x /\ x < w + block => x \div block = b
    BY <1>1, <2>1, Quotient
  <2>4. ASSUME x \div block = b PROVE w <= x /\ x < w + block
    <3>1. block * (x \div block) <= x /\ x < block * (x \div block) + block
      OBVIOUS
    <3>2. block * (x \div block) = w
      <4>1. block * b = b * block
        BY <1>1
      <4> QED BY <2>1, <2>4, <4>1
    <3> QED BY <3>1, <3>2
  <2> QED BY <2>2, <2>3, <2>4
<1> QED BY <1>1, <1>5, <1>6 DEF HoldsItsBytes

\* Every byte is in a block.
LEMMA ByteIsInBlock ==
  ASSUME NEW size \in Nat \ {0}, NEW block \in Nat \ {0}, NEW x \in 0..(size - 1)
  PROVE  x \div block \in 0..(CeilDiv(size, block) - 1)
<1> DEFINE y == size + block - 1
<1>1. /\ block * (x \div block) <= x /\ x < block * (x \div block) + block /\ x \div block \in Int
      /\ block * (y \div block) <= y /\ y < block * (y \div block) + block /\ y \div block \in Int
  OBVIOUS
<1>2. PICK p \in Int, e \in Int : p = x \div block /\ e = y \div block
  BY <1>1
<1>3. block * p <= x /\ x < block * p + block /\ y < block * e + block
  BY <1>1, <1>2
<1>4. x + block <= y
  OBVIOUS
<1> HIDE DEF y
<1>5. 0 <= p
  <2> SUFFICES ASSUME p <= -1 PROVE FALSE
    BY <1>2
  <2>1. block * p <= -block
    BY <2>1
  <2>2. PICK z \in Int : z = block * p
    OBVIOUS
  <2> QED BY <1>3, <2>1, <2>2
<1>6. p < e
  <2> SUFFICES ASSUME e <= p PROVE FALSE
    BY <1>2
  <2>1. block * e <= block * p
    OBVIOUS
  <2>2. PICK z \in Int, w \in Int : z = block * p /\ w = block * e
    OBVIOUS
  <2>3. z <= x /\ y < w + block /\ w <= z /\ x + block <= y /\ y \in Int
    BY <1>3, <1>4, <2>1, <2>2 DEF y
  <2> QED BY <2>2, <2>3
<1>7. CeilDiv(size, block) = e
  BY <1>2 DEF CeilDiv, y
<1> QED BY <1>2, <1>5, <1>6, <1>7

\* The ranges of a block lie in the file and share no byte.
LEMMA RangesOfBlock ==
  ASSUME TypeOK, NEW c
  PROVE  /\ IsFiniteSet(Index(c))
         /\ \A r \in Index(c) : r \in Nat \X Nat /\ r[1] < r[2] /\ r[2] <= file.size
         /\ \A r, o \in Index(c) : r # o =>
              (r[1]..(r[2] - 1)) \cap (o[1]..(o[2] - 1)) = {}
         /\ c \in mediaCIDs => Index(c) # {}
<1>1. file.size \in Nat \ {0} /\ file.block \in Nat \ {0}
  BY SizeTypes
<1> DEFINE bs == {x \in Blocks : CidOf(x) = c}
           range(b) == <<b * file.block, Smaller((b + 1) * file.block, file.size)>>
<1>2. Index(c) = {range(b) : b \in bs}
  BY DEF Index
<1>3. \A b \in Blocks :
        /\ b \in Nat /\ b * file.block \in Nat /\ (b + 1) * file.block = b * file.block + file.block
        /\ b * file.block < file.size
        /\ \A x \in 0..(file.size - 1) :
             x \in (range(b)[1])..(range(b)[2] - 1) <=> x \div file.block = b
  <2> SUFFICES ASSUME NEW b \in Blocks
               PROVE  /\ b \in Nat /\ b * file.block \in Nat
                      /\ (b + 1) * file.block = b * file.block + file.block
                      /\ b * file.block < file.size
                      /\ \A x \in 0..(file.size - 1) :
                           x \in (range(b)[1])..(range(b)[2] - 1) <=> x \div file.block = b
    OBVIOUS
  <2>1. b \in 0..(CeilDiv(file.size, file.block) - 1)
    BY DEF Blocks
  <2>2. range(b)[1] = b * file.block /\ range(b)[2] = Smaller((b + 1) * file.block, file.size)
    OBVIOUS
  <2>3. /\ b \in Nat /\ b * file.block \in Nat
        /\ (b + 1) * file.block = b * file.block + file.block /\ b * file.block < file.size
        /\ \A x \in 0..(file.size - 1) :
             x \in (b * file.block)..(Smaller((b + 1) * file.block, file.size) - 1)
               <=> x \div file.block = b
    <3>1. PICK size \in Nat \ {0}, block \in Nat \ {0} : size = file.size /\ block = file.block
      BY <1>1
    <3>2. b \in 0..(CeilDiv(size, block) - 1)
      BY <2>1, <3>1
    <3>3. b \in Nat /\ b * block \in Nat
      BY <3>2, BlockBytes
    <3>4. (b + 1) * block = b * block + block /\ b * block < size
      BY <3>2, BlockBytes
    <3>5. HoldsItsBytes(size, block, b)
      BY <3>2, BlockBytes
    <3>6. HoldsItsBytes(file.size, file.block, b)
      BY <3>1, <3>5
    <3> QED BY <3>1, <3>3, <3>4, <3>6 DEF HoldsItsBytes
  <2> HIDE DEF range
  <2>4. \A x \in 0..(file.size - 1) :
          x \in (range(b)[1])..(range(b)[2] - 1) <=> x \div file.block = b
    BY Zenon, <2>2, <2>3
  <2> QED BY <2>3, <2>4
<1>4. ASSUME NEW b \in Blocks
      PROVE  /\ range(b) \in Nat \X Nat /\ range(b)[1] < range(b)[2] /\ range(b)[2] <= file.size
             /\ range(b)[1] \in (range(b)[1])..(range(b)[2] - 1)
  <2>1. PICK w \in Nat : w = b * file.block /\ (b + 1) * file.block = w + file.block /\ w < file.size
    BY <1>3
  <2>2. range(b) = <<w, Smaller(w + file.block, file.size)>>
    BY <2>1
  <2>3. /\ Smaller(w + file.block, file.size) \in Nat /\ w < Smaller(w + file.block, file.size)
        /\ Smaller(w + file.block, file.size) <= file.size
    BY <1>1, <2>1 DEF Smaller
  <2> HIDE DEF range
  <2> QED BY <2>2, <2>3
<1>5. IsFiniteSet(Index(c))
  <2>1. IsFiniteSet(Blocks) /\ bs \in SUBSET Blocks
    <3>1. CeilDiv(file.size, file.block) - 1 \in Int
      BY <1>1 DEF CeilDiv
    <3> QED BY <3>1, FS_Interval DEF Blocks
  <2>2. IsFiniteSet(bs)
    BY <2>1, FS_Subset
  <2> DEFINE g == [b \in bs |-> range(b)]
  <2>3. g \in Surjection(bs, Index(c))
    <3> HIDE DEF bs, range
    <3> QED BY <1>2 DEF Surjection
  <2> QED BY <2>2, <2>3, FS_Surjection
<1> HIDE DEF range
<1>6. ASSUME NEW a \in Blocks, NEW b \in Blocks, range(a) # range(b)
      PROVE  (range(a)[1]..(range(a)[2] - 1)) \cap (range(b)[1]..(range(b)[2] - 1)) = {}
  <2> SUFFICES ASSUME NEW x \in (range(a)[1]..(range(a)[2] - 1)) \cap (range(b)[1]..(range(b)[2] - 1))
               PROVE  FALSE
    OBVIOUS
  <2>1. x \in 0..(file.size - 1)
    BY <1>1, <1>4
  <2>2. x \div file.block = a /\ x \div file.block = b
    BY <1>3, <2>1
  <2> QED BY <1>6, <2>2
<1>7. c \in mediaCIDs => bs # {}
  BY DEF mediaCIDs
<1>8. \A r \in Index(c) : r \in Nat \X Nat /\ r[1] < r[2] /\ r[2] <= file.size
  BY <1>2, <1>4
<1>9. \A r, o \in Index(c) : r # o => (r[1]..(r[2] - 1)) \cap (o[1]..(o[2] - 1)) = {}
  BY <1>2, <1>6
<1>10. c \in mediaCIDs => Index(c) # {}
  BY <1>2, <1>7
<1> QED BY <1>5, <1>8, <1>9, <1>10

\* The bytes of a block are those whose block has its content id.
LEMMA IndexBytes ==
  ASSUME TypeOK, NEW c
  PROVE  BytesOf(Index(c)) = {x \in FileBytes : CidOf(BlockOf(x)) = c}
<1>1. file.size \in Nat \ {0} /\ file.block \in Nat \ {0}
  BY SizeTypes
<1> DEFINE range(b) == <<b * file.block, Smaller((b + 1) * file.block, file.size)>>
<1>2. \A b \in Blocks : \A x \in FileBytes :
        x \in (range(b)[1])..(range(b)[2] - 1) <=> BlockOf(x) = b
  <2> SUFFICES ASSUME NEW b \in Blocks
               PROVE  \A x \in FileBytes : x \in (range(b)[1])..(range(b)[2] - 1) <=> BlockOf(x) = b
    OBVIOUS
  <2>1. HoldsItsBytes(file.size, file.block, b)
    BY <1>1, BlockBytes DEF Blocks
  <2>2. range(b)[1] = b * file.block /\ range(b)[2] = Smaller((b + 1) * file.block, file.size)
    OBVIOUS
  <2> HIDE DEF range
  <2> QED BY <2>1, <2>2 DEF HoldsItsBytes, FileBytes, BlockOf
<1>3. Index(c) = {range(b) : b \in {x \in Blocks : CidOf(x) = c}}
  BY DEF Index
<1>4. \A x \in FileBytes : BlockOf(x) \in Blocks
  BY <1>1, ByteIsInBlock DEF Blocks, FileBytes, BlockOf
<1> HIDE DEF range
<1>5. ASSUME NEW x \in BytesOf(Index(c)) PROVE x \in FileBytes /\ CidOf(BlockOf(x)) = c
  <2>1. PICK r \in Index(c) : x \in r[1]..(r[2] - 1)
    BY DEF BytesOf
  <2>2. PICK b \in Blocks : CidOf(b) = c /\ r = range(b)
    BY <1>3
  <2>3. r \in Nat \X Nat /\ r[2] <= file.size
    BY RangesOfBlock
  <2>4. x \in FileBytes
    BY <1>1, <2>1, <2>3 DEF FileBytes
  <2> QED BY <1>2, <2>1, <2>2, <2>4
<1>6. ASSUME NEW x \in FileBytes, CidOf(BlockOf(x)) = c PROVE x \in BytesOf(Index(c))
  <2>1. x \in (range(BlockOf(x))[1])..(range(BlockOf(x))[2] - 1)
    BY <1>2, <1>4
  <2>2. range(BlockOf(x)) \in Index(c)
    BY <1>3, <1>4, <1>6
  <2> QED BY <2>1, <2>2 DEF BytesOf
<1> QED BY <1>5, <1>6

LEMMA CidOfByte ==
  ASSUME TypeOK, NEW x \in FileBytes
  PROVE  CidOf(BlockOf(x)) \in mediaCIDs
<1>1. BlockOf(x) \in Blocks
  BY SizeTypes, ByteIsInBlock DEF Blocks, FileBytes, BlockOf
<1> QED BY <1>1 DEF mediaCIDs

\* What has arrived.
LEMMA ArrivedBytes ==
  ASSUME TypeOK, NEW f
  PROVE  Arrived(f) = {x \in FileBytes : f[CidOf(BlockOf(x))] # "none"}
<1>1. \A x : x \in Arrived(f) <=> \E c \in mediaCIDs : f[c] # "none" /\ x \in BytesOf(Index(c))
  BY DEF Arrived
<1>2. \A c : BytesOf(Index(c)) = {x \in FileBytes : CidOf(BlockOf(x)) = c}
  BY IndexBytes
<1> QED BY <1>1, <1>2, CidOfByte

LEMMA SegmentBytes ==
  ASSUME TypeOK, LayoutKept, phase # "build", NEW s \in Segs
  PROVE  /\ s \in Nat /\ s * SegmentSize \in Nat
         /\ (s + 1) * SegmentSize = s * SegmentSize + SegmentSize
         /\ s * SegmentSize < file.size /\ s * SegmentSize \in Bytes(s)
         /\ Bytes(s) \subseteq FileBytes /\ IsFiniteSet(Bytes(s))
         /\ Cardinality(Bytes(s)) = Smaller((s + 1) * SegmentSize, file.size) - s * SegmentSize
         /\ Cardinality(Bytes(s)) \in Nat /\ Cardinality(Bytes(s)) <= SegmentSize
<1>1. file.size \in Nat \ {0} /\ SegmentSize \in Nat \ {0} /\ s \in Nat /\ s \in 0..(Len(segments) - 1)
  BY SizeTypes, SegsType DEF Segs, SegmentCount
<1>2. s * SegmentSize < file.size
  BY <1>1, SegmentIsRange DEF LayoutKept
<1>3. PICK w \in Nat : w = s * SegmentSize /\ (s + 1) * SegmentSize = w + SegmentSize
  BY <1>1
<1>4. Bytes(s) = w..(Smaller(w + SegmentSize, file.size) - 1)
  BY <1>3 DEF Bytes
<1>5. /\ Smaller(w + SegmentSize, file.size) \in Nat /\ w < Smaller(w + SegmentSize, file.size)
      /\ Smaller(w + SegmentSize, file.size) <= file.size
      /\ Smaller(w + SegmentSize, file.size) <= w + SegmentSize
  BY <1>1, <1>2, <1>3 DEF Smaller
<1>6. PICK e \in Nat : e = Smaller(w + SegmentSize, file.size)
  BY <1>5
<1>7. IsFiniteSet(w..(e - 1)) /\ Cardinality(w..(e - 1)) = e - w
  <2>1. w < e /\ e - 1 \in Int
    BY <1>5, <1>6
  <2>2. ~(w > e - 1) /\ (e - 1) - w + 1 = e - w
    BY <2>1
  <2>3. /\ IsFiniteSet(w..(e - 1))
        /\ Cardinality(w..(e - 1)) = IF w > e - 1 THEN 0 ELSE (e - 1) - w + 1
    BY <2>1, FS_Interval
  <2> QED BY <2>2, <2>3
<1>8. w \in Bytes(s) /\ Bytes(s) \subseteq FileBytes
  BY <1>1, <1>4, <1>5, <1>6 DEF FileBytes
<1>9. e - w \in Nat /\ e - w <= SegmentSize
  BY <1>1, <1>5, <1>6
<1> QED BY <1>1, <1>2, <1>3, <1>4, <1>6, <1>7, <1>8, <1>9

-----------------------------------------------------------------------------
(* What a block adds to a virtual segment.                                 *)

RangeBytes(r) == r[1]..(r[2] - 1)

LEMMA OverlapIs ==
  ASSUME TypeOK, LayoutKept, phase # "build", NEW s \in Segs,
         NEW r \in Nat \X Nat, r[1] < r[2], r[2] <= file.size
  PROVE  /\ Overlap(r, s) \in Nat
         /\ Overlap(r, s) = Cardinality(RangeBytes(r) \cap Bytes(s))
<1>1. file.size \in Nat \ {0} /\ SegmentSize \in Nat \ {0}
  BY SizeTypes
<1>2. PICK w \in Nat : w = s * SegmentSize /\ (s + 1) * SegmentSize = w + SegmentSize
  BY SegmentBytes
<1>3. PICK a \in Nat, b \in Nat : r[1] = a /\ r[2] = b /\ a < b /\ b <= file.size
  OBVIOUS
<1>4. PICK lo \in Nat, hi \in Nat : lo = Larger(a, w) /\ hi = Smaller(b, w + SegmentSize)
  BY <1>1 DEF Larger, Smaller
<1>5. Overlap(r, s) = Larger(0, hi - lo)
  BY <1>2, <1>3, <1>4 DEF Overlap
<1>6. RangeBytes(r) \cap Bytes(s) = lo..(hi - 1)
  <2>1. Bytes(s) = w..(Smaller(w + SegmentSize, file.size) - 1)
    BY <1>2 DEF Bytes
  <2>2. RangeBytes(r) = a..(b - 1)
    BY <1>3 DEF RangeBytes
  <2>3. \A x \in Int : x \in (a..(b - 1)) \cap (w..(Smaller(w + SegmentSize, file.size) - 1))
                         <=> lo <= x /\ x <= hi - 1
    BY <1>1, <1>3, <1>4 DEF Larger, Smaller
  <2> QED BY <2>1, <2>2, <2>3
<1>7. hi - 1 \in Int
  OBVIOUS
<1>8. Cardinality(lo..(hi - 1)) = IF lo > hi - 1 THEN 0 ELSE (hi - 1) - lo + 1
  BY <1>7, FS_Interval
<1>9. Cardinality(lo..(hi - 1)) = Larger(0, hi - lo) /\ Larger(0, hi - lo) \in Nat
  BY <1>8 DEF Larger
<1> QED BY <1>5, <1>6, <1>9

LEMMA DisjointUnion ==
  ASSUME NEW S, IsFiniteSet(S), NEW T, IsFiniteSet(T), S \cap T = {}
  PROVE  /\ IsFiniteSet(S \cup T)
         /\ Cardinality(S \cup T) = Cardinality(S) + Cardinality(T)
         /\ Cardinality(S) \in Nat /\ Cardinality(T) \in Nat
<1>1. Cardinality(S) \in Nat /\ Cardinality(T) \in Nat
  BY FS_CardinalityType
<1>2. /\ IsFiniteSet(S \cup T)
      /\ Cardinality(S \cup T) = Cardinality(S) + Cardinality(T) - Cardinality(S \cap T)
  BY FS_Union
<1>3. Cardinality(S \cap T) = 0
  BY FS_EmptySet
<1> QED BY <1>1, <1>2, <1>3

\* The overlaps of a block with a segment are the bytes they share.
LEMMA OverlapSum ==
  ASSUME TypeOK, LayoutKept, phase # "build", NEW s \in Segs, NEW c
  PROVE  MapThenSumSet(LAMBDA r : Overlap(r, s), Index(c))
           = Cardinality(BytesOf(Index(c)) \cap Bytes(s))
<1> DEFINE R == Index(c)
           F == [r \in R |-> Overlap(r, s)]
           adds(iter) == Adds(iter, F, R)
           folds(iter) == iter = [t \in SUBSET R |->
             IF t = {} THEN 0 ELSE Overlap(Some(t), s) + iter[t \ {Some(t)}]]
<1>1. /\ IsFiniteSet(R)
      /\ \A r \in R : r \in Nat \X Nat /\ r[1] < r[2] /\ r[2] <= file.size
      /\ \A r, o \in R : r # o => RangeBytes(r) \cap RangeBytes(o) = {}
  BY RangesOfBlock DEF RangeBytes
<1>2. \A r \in R : F[r] = Cardinality(RangeBytes(r) \cap Bytes(s)) /\ F[r] \in Nat
  BY <1>1, OverlapIs
<1>3. MapThenSumSet(LAMBDA r : Overlap(r, s), Index(c)) = SumFunctionOnSet(F, R)
  <2>1. MapThenSumSet(LAMBDA r : Overlap(r, s), Index(c)) = (CHOOSE iter : folds(iter))[R]
    BY Zenon DEF MapThenSumSet, MapThenFoldSet, Some
  <2>2. \A t \in SUBSET R : t # {} => F[Some(t)] = Overlap(Some(t), s)
    BY SomeIsIn
  <2>3. \A iter : adds(iter) <=> folds(iter)
    <3> HIDE DEF F
    <3> QED BY <2>2 DEF Adds
  <2> HIDE DEF adds, folds
  <2>4. (CHOOSE iter : folds(iter)) = (CHOOSE iter : adds(iter))
    BY <2>3, Zenon
  <2>5. \E iter : Adds(iter, F, R)
    BY <1>1, AddsExists
  <2>6. adds(CHOOSE iter : adds(iter))
    BY <2>5, Zenon DEF adds
  <2>7. SumFunctionOnSet(F, R) = (CHOOSE iter : adds(iter))[R]
    <3> DEFINE it == CHOOSE iter : adds(iter)
    <3>1. Adds(it, F, R)
      BY <2>6, Zenon DEF adds
    <3> HIDE DEF it, F
    <3>2. SumFunctionOnSet(F, R) = it[R]
      BY <1>1, <3>1, SumIs
    <3> QED BY <3>2 DEF it
  <2> QED BY <2>1, <2>4, <2>7
<1> DEFINE Shared(T) == BytesOf(T) \cap Bytes(s)
           Sum(T) == SumFunctionOnSet(F, T)
           W == {T \in SUBSET R : ~(Sum(T) = Cardinality(Shared(T)) /\ IsFiniteSet(Shared(T)))}
<1>4. W = {}
  <2> SUFFICES ASSUME W # {} PROVE FALSE
    OBVIOUS
  <2>1. PICK T \in W : \A U \in W : ~(U \subseteq T /\ U # T)
    <3>1. W \in SUBSET SUBSET R
      OBVIOUS
    <3> HIDE DEF W, R
    <3> QED BY <1>1, <3>1, LeastSubset
  <2>2. T \in SUBSET R /\ IsFiniteSet(T)
    BY <1>1, FS_Subset
  <2>3. T # {}
    <3> SUFFICES ASSUME T = {} PROVE Sum(T) = Cardinality(Shared(T)) /\ IsFiniteSet(Shared(T))
      OBVIOUS
    <3>1. Shared(T) = {}
      BY DEF BytesOf
    <3>2. Sum(T) = 0
      BY SumEmpty
    <3> QED BY <3>1, <3>2, FS_EmptySet
  <2> DEFINE r == Some(T)
             U == T \ {r}
  <2>4. r \in T /\ r \in R /\ U \in SUBSET R /\ U # T /\ U \subseteq T
    BY <2>2, <2>3, SomeIsIn
  <2>5. Sum(U) = Cardinality(Shared(U)) /\ IsFiniteSet(Shared(U))
    <3>1. U \notin W
      <4> HIDE DEF W, U
      <4> QED BY <2>1, <2>4
    <3> QED BY <2>4, <3>1
  <2>6. Sum(T) = F[r] + Sum(U)
    <3> HIDE DEF F
    <3> QED BY <2>2, <2>3, SumSome
  <2>7. F[r] = Cardinality(RangeBytes(r) \cap Bytes(s))
    <3> HIDE DEF F, r
    <3> QED BY <1>2, <2>4
  <2> HIDE DEF F, r
  <2>8. Shared(T) = (RangeBytes(r) \cap Bytes(s)) \cup Shared(U)
    BY <2>4 DEF BytesOf, RangeBytes
  <2>9. (RangeBytes(r) \cap Bytes(s)) \cap Shared(U) = {}
    <3>1. \A o \in U : RangeBytes(r) \cap RangeBytes(o) = {}
      BY <1>1, <2>4
    <3>2. RangeBytes(r) \cap BytesOf(U) = {}
      BY <3>1 DEF BytesOf, RangeBytes
    <3> QED BY <3>2
  <2>10. IsFiniteSet(RangeBytes(r) \cap Bytes(s))
    <3>1. IsFiniteSet(Bytes(s))
      BY SegmentBytes
    <3> QED BY <3>1, FS_Subset
  <2> HIDE DEF Sum, Shared
  <2>11. /\ IsFiniteSet(Shared(T))
         /\ Cardinality(Shared(T)) = Cardinality(RangeBytes(r) \cap Bytes(s)) + Cardinality(Shared(U))
    <3> DEFINE A == RangeBytes(r) \cap Bytes(s)
               B == Shared(U)
    <3>1. IsFiniteSet(A) /\ IsFiniteSet(B) /\ A \cap B = {} /\ Shared(T) = A \cup B
      BY <2>5, <2>8, <2>9, <2>10
    <3> HIDE DEF A, B
    <3>2. IsFiniteSet(A \cup B) /\ Cardinality(A \cup B) = Cardinality(A) + Cardinality(B)
      BY <3>1, DisjointUnion
    <3> QED BY Zenon, <3>1, <3>2 DEF A, B
  <2>12. Sum(T) = Cardinality(Shared(T))
    BY <2>5, <2>6, <2>7, <2>11
  <2> QED BY <2>1, <2>11, <2>12
<1>5. R \notin W
  BY <1>4
<1>6. Sum(R) = Cardinality(Shared(R))
  BY <1>5
<1> QED BY <1>3, <1>6

-----------------------------------------------------------------------------
(* The segments that a block touches.                                      *)

\* Between the quotients of the ends of a range there are the numbers of the
\* segments that share a byte with it.
LEMMA TouchedSegments ==
  ASSUME NEW a \in Nat, NEW b \in Nat, a < b, NEW size \in Nat \ {0},
         NEW s \in (a \div size)..((b - 1) \div size)
  PROVE  /\ s \in Nat /\ s <= b
         /\ s * size <= b - 1 /\ a < s * size + size
<1>1. /\ size * (a \div size) <= a /\ a < size * (a \div size) + size /\ a \div size \in Int
      /\ size * ((b - 1) \div size) <= b - 1 /\ (b - 1) \div size \in Int
  OBVIOUS
<1>2. PICK p \in Int, o \in Int : p = a \div size /\ o = (b - 1) \div size
  BY <1>1
<1>3. size * p <= a /\ a < size * p + size /\ size * o <= b - 1 /\ p <= s /\ s <= o /\ s \in Int
  BY <1>1, <1>2
<1>4. 0 <= p
  <2> SUFFICES ASSUME p <= -1 PROVE FALSE
    OBVIOUS
  <2>1. size * p <= -size
    OBVIOUS
  <2>2. PICK z \in Int : z = size * p
    OBVIOUS
  <2> QED BY <1>3, <2>1, <2>2
<1>5. s \in Nat
  BY <1>3, <1>4
<1>6. s * size <= size * o /\ size * p <= s * size /\ s <= s * size /\ s * size \in Nat
  BY <1>3, <1>5
<1>7. PICK x \in Int, y \in Int, w \in Nat : x = size * p /\ y = size * o /\ w = s * size
  BY <1>6
<1>8. s <= b /\ w <= b - 1 /\ a < w + size
  BY <1>3, <1>5, <1>6, <1>7
<1> QED BY <1>5, <1>7, <1>8

LEMMA SegmentsOfBlock ==
  ASSUME TypeOK, NEW c
  PROVE  /\ IsFiniteSet(segmentsForRanges(Index(c)))
         /\ \A s \in segmentsForRanges(Index(c)) : \E r \in Index(c) :
              s \in Nat /\ s <= r[2] /\ s * SegmentSize <= r[2] - 1 /\ r[1] < s * SegmentSize + SegmentSize
<1>1. file.size \in Nat /\ SegmentSize \in Nat \ {0}
  BY SizeTypes
<1>2. \A r \in Index(c) : r[1] \in Nat /\ r[2] \in Nat /\ r[1] < r[2] /\ r[2] <= file.size
  BY RangesOfBlock
<1>3. ASSUME NEW s \in segmentsForRanges(Index(c))
      PROVE  \E r \in Index(c) :
               s \in Nat /\ s <= r[2] /\ s * SegmentSize <= r[2] - 1 /\ r[1] < s * SegmentSize + SegmentSize
  <2>1. PICK r \in Index(c) : s \in (r[1] \div SegmentSize)..((r[2] - 1) \div SegmentSize)
    BY DEF segmentsForRanges
  <2>2. PICK a \in Nat, b \in Nat : r[1] = a /\ r[2] = b /\ a < b
    BY <1>2
  <2>3. s \in (a \div SegmentSize)..((b - 1) \div SegmentSize)
    BY <2>1, <2>2
  <2>4. s \in Nat /\ s <= b /\ s * SegmentSize <= b - 1 /\ a < s * SegmentSize + SegmentSize
    BY <1>1, <2>2, <2>3, TouchedSegments
  <2> QED BY <2>2, <2>4
<1>4. \A s \in segmentsForRanges(Index(c)) : s \in Nat /\ s <= file.size
  <2> SUFFICES ASSUME NEW s \in segmentsForRanges(Index(c)) PROVE s \in Nat /\ s <= file.size
    OBVIOUS
  <2>1. PICK r \in Index(c) : s \in Nat /\ s <= r[2]
    BY <1>3
  <2> QED BY <1>1, <1>2, <2>1
<1>5. segmentsForRanges(Index(c)) \in SUBSET Nat
  BY <1>4
<1>6. IsFiniteSet(segmentsForRanges(Index(c)))
  BY <1>1, <1>4, <1>5, FS_BoundedSetOfNaturals
<1> QED BY <1>3, <1>6

\* A block shares a byte with each segment it touches.
LEMMA TouchedIsShared ==
  ASSUME TypeOK, LayoutKept, phase # "build", NEW c,
         NEW s \in Segs, s \in segmentsForRanges(Index(c))
  PROVE  BytesOf(Index(c)) \cap Bytes(s) # {}
<1>1. file.size \in Nat /\ SegmentSize \in Nat \ {0}
  BY SizeTypes
<1>2. PICK r \in Index(c) : s * SegmentSize <= r[2] - 1 /\ r[1] < s * SegmentSize + SegmentSize
  BY SegmentsOfBlock
<1>3. PICK a \in Nat, b \in Nat : r[1] = a /\ r[2] = b /\ a < b /\ b <= file.size
  BY RangesOfBlock
<1>4. PICK w \in Nat : w = s * SegmentSize /\ (s + 1) * SegmentSize = w + SegmentSize
  BY SegmentBytes
<1>5. PICK x \in Nat : x = Larger(a, w)
  BY DEF Larger
<1>6. x \in a..(b - 1) /\ x \in w..(Smaller(w + SegmentSize, file.size) - 1)
  BY <1>1, <1>2, <1>3, <1>4, <1>5 DEF Larger, Smaller
<1>7. x \in Bytes(s)
  BY <1>4, <1>6 DEF Bytes
<1>8. x \in BytesOf(Index(c))
  BY <1>3, <1>6 DEF BytesOf
<1> QED BY <1>7, <1>8

LEMMA ShareType ==
  ASSUME TypeOK, NEW c \in mediaCIDs, segmentsForRanges(Index(c)) # {}
  PROVE  Share(BlockSize(c), segmentsForRanges(Index(c))) \in Nat
<1> DEFINE segs == segmentsForRanges(Index(c))
<1>1. IsFiniteSet(segs)
  BY SegmentsOfBlock
<1>2. Cardinality(segs) \in Nat \ {0}
  <2> HIDE DEF segs
  <2>1. segs # {}
    BY DEF segs
  <2> QED BY <1>1, <2>1, FS_CardinalityType, FS_EmptySet
<1>3. BlockSize(c) \in Nat
  <2> DEFINE r == CHOOSE x \in Index(c) : TRUE
  <2>1. Index(c) # {}
    BY RangesOfBlock
  <2>2. r \in Index(c)
    BY <2>1
  <2>3. BlockSize(c) = r[2] - r[1]
    BY DEF BlockSize
  <2> HIDE DEF r
  <2>4. r[1] \in Nat /\ r[2] \in Nat /\ r[1] < r[2]
    BY <2>2, RangesOfBlock
  <2> QED BY <2>3, <2>4
<1> HIDE DEF segs
<1>4. BlockSize(c) \div Cardinality(segs) \in Int
  BY <1>2, <1>3
<1> QED BY <1>4 DEF Share, segs

-----------------------------------------------------------------------------
(* TypeOK.                                                                 *)

\* What addBlock makes of the counters, as a number of bytes.
LEMMA addBlockIs ==
  ASSUME TypeOK, LayoutKept, phase # "build", NEW s \in Segs, NEW c
  PROVE  /\ addBlock(got, Index(c))[s]
              = IF got[s] >= SegmentSize THEN got[s]
                ELSE got[s] + Cardinality(BytesOf(Index(c)) \cap Bytes(s))
         /\ Cardinality(BytesOf(Index(c)) \cap Bytes(s)) \in Nat
         /\ addBlock(got, Index(c))[s] \in Nat
<1>1. addBlock(got, Index(c))[s]
        = IF got[s] >= SegmentSize THEN got[s]
          ELSE got[s] + MapThenSumSet(LAMBDA r : Overlap(r, s), Index(c))
  BY Zenon DEF addBlock
<1>2. MapThenSumSet(LAMBDA r : Overlap(r, s), Index(c))
        = Cardinality(BytesOf(Index(c)) \cap Bytes(s))
  BY Zenon, OverlapSum
<1>3. Cardinality(BytesOf(Index(c)) \cap Bytes(s)) \in Nat
  <2>1. IsFiniteSet(Bytes(s))
    BY SegmentBytes
  <2>2. IsFiniteSet(BytesOf(Index(c)) \cap Bytes(s))
    BY <2>1, FS_Subset
  <2> QED BY <2>2, FS_CardinalityType
<1>4. got[s] \in Nat
  BY DEF TypeOK
<1> QED BY <1>1, <1>2, <1>3, <1>4

LEMMA RecordTypes ==
  ASSUME NEW S, NEW ready \in [S -> Nat \cup {Never}], NEW segs, NEW t \in Nat
  PROVE  RecordSegmentReady(ready, segs, t) \in [S -> Nat \cup {Never}]
BY DEF RecordSegmentReady

LEMMA MinTimeTypes ==
  ASSUME NEW S, NEW times \in [S -> Nat \cup {Never}], NEW segs, NEW t \in Nat
  PROVE  setMinTime(times, segs, t) \in [S -> Nat \cup {Never}]
BY DEF setMinTime

LEMMA AddBytesTypes ==
  ASSUME NEW order \in Seq(Peers \X Nat), NEW p \in Peers, NEW share \in Nat
  PROVE  AddBytes(order, p, share) \in Seq(Peers \X Nat)
<1> DEFINE added == [i \in DOMAIN order |->
             IF order[i][1] = p THEN <<p, order[i][2] + share>> ELSE order[i]]
<1>1. PICK n \in Nat : n = Len(order) /\ DOMAIN order = 1..n
  OBVIOUS
<1>2. \A i \in 1..n : order[i] \in Peers \X Nat
  BY <1>1
<1>3. \A i \in 1..n : added[i] \in Peers \X Nat
  BY <1>1, <1>2
<1>4. added \in Seq(Peers \X Nat)
  BY <1>1, <1>3
<1>5. Append(order, <<p, share>>) \in Seq(Peers \X Nat)
  OBVIOUS
<1> QED BY <1>4, <1>5 DEF AddBytes

LEMMA ParseTypes ==
  ASSUME NEW m \in Models, NEW p \in Peers
  PROVE  /\ \A segs : \A t \in Nat : ParseSegmentsReady(m, segs, t) \in Models
         /\ \A s : \A t \in Nat : ParseResult(m, s, t, p) \in Models
         /\ \A segs, bytes : (segs # {} => Share(bytes, segs) \in Nat) =>
              ParseBlock(m, segs, p, bytes) \in Models
<1>1. /\ m.ready \in [Segs -> Nat \cup {Never}] /\ m.peer \in [Segs -> Peers \cup {"none"}]
      /\ m.order \in [Segs -> Seq(Peers \X Nat)]
      /\ m = [ready |-> m.ready, peer |-> m.peer, order |-> m.order]
  BY DEF Models
<1>2. ASSUME NEW segs, NEW t \in Nat PROVE ParseSegmentsReady(m, segs, t) \in Models
  BY <1>1, MinTimeTypes DEF ParseSegmentsReady, Models
<1>3. ASSUME NEW s, NEW t \in Nat PROVE ParseResult(m, s, t, p) \in Models
  <2>1. setMinTime(m.ready, {s}, t) \in [Segs -> Nat \cup {Never}]
    BY <1>1, MinTimeTypes
  <2>2. [m.peer EXCEPT ![s] = p] \in [Segs -> Peers \cup {"none"}]
    BY <1>1
  <2> QED BY <2>1, <2>2 DEF ParseResult, Models
<1>4. ASSUME NEW segs, NEW bytes, segs # {} => Share(bytes, segs) \in Nat
      PROVE  ParseBlock(m, segs, p, bytes) \in Models
  <2> DEFINE order == [s \in DOMAIN m.order |->
               IF s \in segs THEN AddBytes(m.order[s], p, Share(bytes, segs)) ELSE m.order[s]]
  <2>1. \A s \in Segs : s \in segs => AddBytes(m.order[s], p, Share(bytes, segs)) \in Seq(Peers \X Nat)
    BY <1>1, <1>4, AddBytesTypes
  <2>2. order \in [Segs -> Seq(Peers \X Nat)]
    BY <1>1, <2>1
  <2>3. ParseBlock(m, segs, p, bytes) = [m EXCEPT !.order = order]
    BY DEF ParseBlock
  <2> HIDE DEF order
  <2> QED BY <2>2, <2>3 DEF Models
<1> QED BY <1>2, <1>3, <1>4

\* The stall durations change at the end, or at no index at all.
LEMMA WaitedType ==
  ASSUME NEW v \in Summaries, NEW w \in Nat
  PROVE  Waited(v, w) \in Seq(Nat)
<1> DEFINE s == v.stallDurations
           n == Len(s)
<1>1. s \in Seq(Nat) /\ v.inStall \in BOOLEAN
  BY DEF Summaries
<1> HIDE DEF s
<1>2. [s EXCEPT ![n] = s[n] + w] \in Seq(Nat)
  <2>1. CASE n \in 1..n
    <3>1. s[n] + w \in Nat
      BY <1>1, <2>1
    <3> QED BY <1>1, <2>1, <3>1, ExceptSeq
  <2>2. CASE n \notin 1..n
    <3>1. [s EXCEPT ![n] = s[n] + w] = s
      BY <1>1, <2>2
    <3> QED BY <1>1, <3>1
  <2> QED BY <2>1, <2>2
<1>3. Append(s, w) \in Seq(Nat)
  BY <1>1
<1> QED BY <1>2, <1>3 DEF Waited, s

LEMMA StallTypes ==
  ASSUME NEW v \in Summaries, NEW r \in Nat
  PROVE  Stall(v, r) \in Summaries
<1>1. CASE r > v.clock
  <2> DEFINE w == r - v.clock
             count == IF v.inStall THEN v.stallCount ELSE v.stallCount + 1
  <2>1. w \in Nat /\ count \in Nat /\ v.stallTime + w \in Nat
    BY <1>1 DEF Summaries
  <2>2. Stall(v, r) = [v EXCEPT !.clock = r, !.stallTime = @ + w, !.inStall = TRUE,
                                !.stallCount = IF v.inStall THEN @ ELSE @ + 1, !.stallDurations = Waited(v, w)]
    BY <1>1 DEF Stall
  <2>3. Waited(v, w) \in Seq(Nat)
    BY <2>1, WaitedType
  <2>4. CASE v.inStall
    <3> HIDE DEF w
    <3> QED BY <2>1, <2>2, <2>3, <2>4 DEF Summaries
  <2>5. CASE ~v.inStall
    <3> HIDE DEF w
    <3> QED BY <2>1, <2>2, <2>3, <2>5 DEF Summaries
  <2> QED BY <2>4, <2>5
<1>2. CASE ~(r > v.clock)
  BY <1>2 DEF Stall, Summaries
<1> QED BY <1>1, <1>2

LEMMA AccumulateTypes ==
  ASSUME NEW v \in Summaries, NEW r \in Nat \cup {Never}, NEW d, NEW interval \in Nat, NEW t \in Nat
  PROVE  Accumulate(v, r, d, interval, t) \in Summaries
<1> DEFINE waited == Stall(v, IF r = Never THEN t ELSE r)
<1>1. waited \in Summaries
  BY StallTypes
<1>2. Accumulate(v, r, d, interval, t)
        = [waited EXCEPT !.clock = @ + interval, !.misses = IF Missed(r, d) THEN @ + 1 ELSE @]
  BY DEF Accumulate
<1> DEFINE misses == IF Missed(r, d) THEN waited.misses + 1 ELSE waited.misses
<1>3. Accumulate(v, r, d, interval, t)
        = [waited EXCEPT !.clock = waited.clock + interval, !.misses = misses]
  <2> HIDE DEF waited
  <2> QED BY <1>1, <1>2 DEF Summaries
<1>4. waited.clock + interval \in Nat /\ misses \in Nat
  <2> HIDE DEF waited
  <2> QED BY <1>1 DEF Summaries
<1> HIDE DEF waited, misses
<1> QED BY <1>1, <1>3, <1>4 DEF Summaries

LEMMA StartupType ==
  ASSUME NEW ready \in [Segs -> Nat \cup {Never}], 0 \in Segs, NEW t \in Nat
  PROVE  startupDelay(ready, t) \in Nat
BY DEF startupDelay

LEMMA InitTypes == Init => TypeOK
<1> SUFFICES ASSUME Init PROVE TypeOK
  OBVIOUS
<1>1. PICK f \in Files, t \in BOOLEAN : file = [size |-> f[1], block |-> f[2], twins |-> t]
  BY DEF Init, LayoutInit
<1>2. <<file.size, file.block>> \in Files /\ file.twins \in BOOLEAN
  <2>1. f \in Nat \X Nat
    BY LayoutAssumption
  <2> QED BY <1>1, <2>1
<1>3. read \in 0..file.size
  BY InitKept DEF LayoutKept, LayoutInv, LayoutTypes
<1>4. nodes \in Seq(Nat \X Nat) /\ segments \in Seq(Seq(Nat \X Nat))
  BY DEF Init, LayoutInit
<1>5. qoeInit(0) \in Summaries
  BY DEF qoeInit, Summaries
<1>6. q \in [Clients -> Summaries] /\ DOMAIN model = Clients /\ DOMAIN tracker = Clients /\ results = {}
  BY <1>5 DEF Init
<1> QED BY <1>2, <1>3, <1>4, <1>6, PlayoutAssumption DEF Init, TypeOK

LEMMA NextTypes ==
  ASSUME TypeOK, LayoutKept, [Next]_vars
  PROVE  TypeOK'
<1>1. CASE Build
  <2>1. file' = file /\ LayoutInv'
    BY <1>1, BuildLayoutInv, FlushLayoutInv DEF Build, BuildChunk, FlushLast, LayoutKept
  <2>2. read' \in 0..file'.size /\ nodes' \in Seq(Nat \X Nat) /\ segments' \in Seq(Seq(Nat \X Nat))
    BY <2>1 DEF LayoutInv, LayoutTypes
  <2>3. phase' = "build" /\ UNCHANGED <<speed, indexing, now, player, total, late, at, q, tracker, results, model>>
    BY <1>1 DEF Build, inputVars, streamVars
  <2> QED BY <2>1, <2>2, <2>3 DEF TypeOK
<1>2. CASE Start
  <2>1. /\ UNCHANGED layoutVars
        /\ UNCHANGED <<speed, indexing, now, player, total, late, at, q, results>>
        /\ phase' = "stream"
    BY <1>2 DEF Start, inputVars
  <2>2. Segs' = Segs /\ mediaCIDs' = mediaCIDs /\ Models' = Models
    BY <2>1, SameLayout
  <2>3. NothingReady \in [Segs -> Nat \cup {Never}]
    BY DEF NothingReady
  <2>4. /\ from' \in [mediaCIDs -> Peers \cup {"none"}] /\ got' \in [Segs -> Nat]
        /\ loaded' \in [Segs -> Nat \cup {Never}] /\ DOMAIN tracker' = Clients
        /\ \A c \in Clients : tracker'[c] \in [Segs -> Nat \cup {Never}]
    BY <1>2, <2>3 DEF Start
  <2>5. NewModel(SegmentCount) \in Models
    BY DEF NewModel, Models, Segs
  <2>6. DOMAIN model' = Clients /\ \A c \in Clients : model'[c] \in Models
    BY <1>2, <2>5 DEF Start
  <2> QED BY <2>1, <2>2, <2>4, <2>6 DEF TypeOK, layoutVars
<1>3. ASSUME NEW p \in Peers, NEW c \in mediaCIDs, Receive(c, p) PROVE TypeOK'
  <2>1. /\ UNCHANGED layoutVars /\ UNCHANGED <<phase, speed, indexing, now, player, late, at, q>>
        /\ phase = "stream"
    BY <1>3 DEF Receive, inputVars
  <2>2. Segs' = Segs /\ mediaCIDs' = mediaCIDs /\ Models' = Models
    BY <2>1, SameLayout
  <2>3. /\ from \in [mediaCIDs -> Peers \cup {"none"}] /\ now \in Nat /\ now + indexing \in Nat
        /\ loaded \in [Segs -> Nat \cup {Never}] /\ total \in [Clients -> Nat]
        /\ \A d \in Clients : tracker[d] \in [Segs -> Nat \cup {Never}]
        /\ DOMAIN tracker = Clients /\ DOMAIN model = Clients /\ model["bitswap"] \in Models
    <3>1. indexing \in Nat /\ "bitswap" \in Clients
      BY PlaybackType DEF Clients
    <3> QED BY <2>1, <3>1 DEF TypeOK
  <2>4. from' \in [mediaCIDs -> Peers \cup {"none"}]
    BY <1>3, <2>3 DEF Receive
  <2>5. got' \in [Segs -> Nat]
    <3>1. \A s \in Segs : addBlock(got, Index(c))[s] \in Nat
      BY <2>1, addBlockIs
    <3>2. DOMAIN addBlock(got, Index(c)) = Segs /\ got' = addBlock(got, Index(c))
          /\ addBlock(got, Index(c)) = [s \in Segs |-> addBlock(got, Index(c))[s]]
      BY <1>3, Zenon DEF Receive, addBlock
    <3> QED BY <3>1, <3>2
  <2>6. loaded' \in [Segs -> Nat \cup {Never}]
    BY <1>3, <2>3 DEF Receive
  <2>7. /\ DOMAIN tracker' = Clients
        /\ \A d \in Clients : tracker'[d] \in [Segs -> Nat \cup {Never}]
    <3>1. RecordSegmentReady(tracker["bitswap"], NewlyReady(got, Index(c)), now + indexing)
            \in [Segs -> Nat \cup {Never}]
      BY <2>3, RecordTypes DEF Clients
    <3>2. tracker' = [tracker EXCEPT !["bitswap"] =
             RecordSegmentReady(tracker["bitswap"], NewlyReady(got, Index(c)), now + indexing)]
      BY <1>3 DEF Receive
    <3> QED BY <2>3, <3>1, <3>2 DEF Clients
  <2>8. total' \in [Clients -> Nat]
    BY <1>3, <2>3 DEF Receive
  <2>9. DOMAIN model' = Clients /\ \A d \in Clients : model'[d] \in Models
    <3> DEFINE segs == segmentsForRanges(Index(c))
               ready == NewlyReady(got, Index(c))
               block == ParseBlock(model["bitswap"], segs, p, BlockSize(c))
    <3>1. block \in Models
      <4>1. segs # {} => Share(BlockSize(c), segs) \in Nat
        BY ShareType
      <4> HIDE DEF segs
      <4> QED BY <2>3, <4>1, ParseTypes
    <3>2. model' = [model EXCEPT !["bitswap"] = ParseSegmentsReady(block, ready, now + indexing)]
      BY <1>3 DEF Receive
    <3> HIDE DEF block, ready
    <3>3. ParseSegmentsReady(block, ready, now + indexing) \in Models
      BY <2>3, <3>1, ParseTypes
    <3>4. \A d \in Clients : model[d] \in Models
      BY <2>1 DEF TypeOK
    <3> QED BY <2>3, <3>2, <3>3, <3>4
  <2>10. results' \subseteq Nat \X Nat \X Peers
    <3>1. Segs \subseteq Nat
      BY SegsType
    <3>2. results' = results \cup {<<s, now, p>> : s \in {s \in Segs :
             loaded[s] = Never /\ Bytes(s) \subseteq Arrived(from')}}
      BY <1>3 DEF Receive
    <3>3. results \subseteq Nat \X Nat \X Peers
      BY DEF TypeOK
    <3> QED BY <2>3, <3>1, <3>2, <3>3
  <2> QED BY <2>1, <2>2, <2>4, <2>5, <2>6, <2>7, <2>8, <2>9, <2>10 DEF TypeOK, layoutVars
<1>4. ASSUME NEW p \in Peers, NEW s \in Segs, LateResult(s, p) PROVE TypeOK'
  <2>1. /\ UNCHANGED layoutVars
        /\ UNCHANGED <<phase, speed, indexing, now, from, got, loaded, tracker, player, total, at, q, model>>
        /\ late' = late + 1 /\ late < MaxLate
    BY <1>4 DEF LateResult, inputVars
  <2>2. Segs' = Segs /\ mediaCIDs' = mediaCIDs /\ Models' = Models
    BY <2>1, SameLayout
  <2>3. late' \in 0..MaxLate
    BY <2>1, PlayoutAssumption DEF TypeOK
  <2>4. results' \subseteq Nat \X Nat \X Peers
    <3>1. s \in Nat /\ now \in Nat /\ results \subseteq Nat \X Nat \X Peers
      BY SegsType DEF TypeOK
    <3>2. results' = results \cup {<<s, now, p>>}
      BY <1>4 DEF LateResult
    <3> QED BY <3>1, <3>2
  <2> QED BY <2>1, <2>2, <2>3, <2>4 DEF TypeOK, layoutVars
<1>5. ASSUME NEW line \in results, ReadResult(line) PROVE TypeOK'
  <2>1. /\ UNCHANGED layoutVars
        /\ UNCHANGED <<phase, speed, indexing, now, from, got, loaded, tracker, player, late, total, at, q>>
    BY <1>5 DEF ReadResult, inputVars
  <2>2. Segs' = Segs /\ mediaCIDs' = mediaCIDs /\ Models' = Models
    BY <2>1, SameLayout
  <2>3. results' \subseteq Nat \X Nat \X Peers
    BY <1>5 DEF ReadResult, TypeOK
  <2>4. /\ phase # "build" /\ DOMAIN model = Clients /\ "graphsync" \in Clients
        /\ \A d \in Clients : model[d] \in Models
    BY <1>5 DEF ReadResult, Played, TypeOK, Clients
  <2>5. ParseResult(model["graphsync"], line[1], line[2], line[3]) \in Models
    <3>1. line[2] \in Nat /\ line[3] \in Peers
      BY DEF TypeOK
    <3> QED BY <2>4, <3>1, ParseTypes
  <2>6. model' = [model EXCEPT !["graphsync"] =
                    ParseResult(model["graphsync"], line[1], line[2], line[3])]
    BY <1>5 DEF ReadResult
  <2>7. DOMAIN model' = Clients /\ \A d \in Clients : model'[d] \in Models
    BY <2>4, <2>5, <2>6
  <2> QED BY <2>1, <2>2, <2>3, <2>7 DEF TypeOK, layoutVars
<1>6. CASE Consume
  <2>1. /\ UNCHANGED layoutVars
        /\ UNCHANGED <<phase, speed, indexing, now, from, got, loaded, late, at, q, results, model>>
        /\ phase = "stream"
    BY <1>6 DEF Consume, PlayerDue, inputVars
  <2>2. Segs' = Segs /\ mediaCIDs' = mediaCIDs /\ Models' = Models
    BY <2>1, SameLayout
  <2>3. /\ now \in Nat /\ playbackMs \in Nat /\ player.next \in Nat /\ total \in [Clients -> Nat]
        /\ \A d \in Clients : tracker[d] \in [Segs -> Nat \cup {Never}] /\ DOMAIN tracker = Clients
    BY <2>1, PlaybackType DEF TypeOK
  <2>4. player' \in [next : Nat, free : Nat]
    BY <1>6, <2>3 DEF Consume, SleepUntil
  <2>5. total' \in [Clients -> Nat]
    BY <1>6, <2>3 DEF Consume
  <2>6. /\ DOMAIN tracker' = Clients
        /\ \A d \in Clients : tracker'[d] \in [Segs -> Nat \cup {Never}]
    <3>1. RecordSegmentReady(tracker["graphsync"], {player.next}, now) \in [Segs -> Nat \cup {Never}]
      BY <2>3, RecordTypes DEF Clients
    <3>2. tracker' = [tracker EXCEPT !["graphsync"] =
             RecordSegmentReady(tracker["graphsync"], {player.next}, now)]
      BY <1>6 DEF Consume, RecordedAt
    <3> QED BY <2>3, <3>1, <3>2 DEF Clients
  <2> QED BY <2>1, <2>2, <2>4, <2>5, <2>6 DEF TypeOK, layoutVars
<1>7. CASE Tick
  <2>1. /\ UNCHANGED layoutVars
        /\ UNCHANGED <<phase, speed, indexing, from, got, loaded, tracker, player, late, total, at, q,
                       results, model>>
        /\ now' = now + 1
    BY <1>7 DEF Tick, inputVars
  <2>2. Segs' = Segs /\ mediaCIDs' = mediaCIDs /\ Models' = Models
    BY <2>1, SameLayout
  <2> QED BY <2>1, <2>2 DEF TypeOK, layoutVars
<1>8. CASE Summarise \/ SummaryStep
  <2>1. /\ UNCHANGED layoutVars
        /\ UNCHANGED <<speed, indexing, now, from, got, loaded, tracker, player, late, total, results, model>>
        /\ phase' \in {"build", "stream", "summary"} /\ phase # "build" /\ at' \in Nat
    BY <1>8 DEF Summarise, SummaryStep, Played, inputVars, streamVars, TypeOK
  <2>2. Segs' = Segs /\ mediaCIDs' = mediaCIDs /\ Models' = Models
    BY <2>1, SameLayout
  <2>3. \A c \in Clients : startup(c) \in Nat
    BY <2>1, FirstSegment, StartupType DEF startup, TypeOK
  <2>4. CASE Summarise
    <3>1. \A n \in Nat : qoeInit(n) \in Summaries
      BY DEF qoeInit, Summaries
    <3>2. q' \in [Clients -> Summaries]
      BY <2>3, <2>4, <3>1 DEF Summarise
    <3> QED BY <2>1, <2>2, <3>2 DEF TypeOK, layoutVars
  <2>5. CASE SummaryStep
    <3>1. at \in Segs
      BY <2>5, SegsType DEF SummaryStep, TypeOK
    <3>2. \A c \in Clients : tracker[c][at] \in Nat \cup {Never} /\ total[c] \in Nat /\ q[c] \in Summaries
      BY <2>1, <3>1 DEF TypeOK
    <3>3. \A c \in Clients :
            Accumulate(q[c], tracker[c][at], Deadline(c, at), playbackMs, total[c]) \in Summaries
      BY <3>2, PlaybackType, AccumulateTypes
    <3>4. q' \in [Clients -> Summaries]
      BY <2>5, <3>3 DEF SummaryStep
    <3> QED BY <2>1, <2>2, <3>4 DEF TypeOK, layoutVars
  <2> QED BY <1>8, <2>4, <2>5
<1>9. CASE UNCHANGED vars
  <2>1. UNCHANGED layoutVars /\ UNCHANGED vars
    BY <1>9 DEF vars
  <2>2. Segs' = Segs /\ mediaCIDs' = mediaCIDs /\ Models' = Models
    BY <2>1, SameLayout
  <2> QED BY <2>1, <2>2 DEF TypeOK, layoutVars, vars, inputVars, streamVars
<1> QED BY <1>1, <1>2, <1>3, <1>4, <1>5, <1>6, <1>7, <1>8, <1>9 DEF Next

\* The variables have their types.
THEOREM Types == Spec => []TypeOK
<1>1. Init => TypeOK /\ LayoutKept
  BY InitTypes, InitKept
<1>2. TypeOK /\ LayoutKept /\ [Next]_vars => (TypeOK /\ LayoutKept)'
  BY NextTypes, NextKept
<1> QED BY <1>1, <1>2, PTL DEF Spec

\* The segments that the seed command built are the byte ranges that the
\* Bitswap client counts as virtual segments, as many as decodeRoot expects.
THEOREM SegmentsAreTheRanges == Spec => []SegmentsAreRanges
<1>1. Init => TypeOK /\ LayoutKept
  BY InitTypes, InitKept
<1>2. TypeOK /\ LayoutKept /\ [Next]_vars => (TypeOK /\ LayoutKept)'
  BY NextTypes, NextKept
<1>3. TypeOK /\ LayoutKept => SegmentsAreRanges
  <2> SUFFICES ASSUME TypeOK, LayoutKept, phase # "build"
               PROVE  /\ SegmentCount = CeilDiv(file.size, SegmentSize)
                      /\ \A s \in Segs :
                           ReadSegment(segments[s + 1])
                             = [k \in 1..Cardinality(Bytes(s)) |-> s * SegmentSize + k - 1]
                      /\ FoldSeq(LAMBDA chunks, n : n + Len(chunks), 0, segments) = DecodedChunkCount
    BY Zenon DEF SegmentsAreRanges
  <2>1. LayoutInv /\ Built
    BY DEF LayoutKept
  <2>2. PICK m \in Nat \ {0}, last \in 1..capacity, k \in Nat \ {0} : BuiltShape(m, last, k)
    BY <2>1, ShapeExists
  <2>3. m = SegmentCount
    BY <2>2 DEF BuiltShape, SegmentCount
  <2>4. m = CeilDiv(file.size, SegmentSize) /\ k = DecodedChunkCount
    BY <2>1, <2>2, BuiltCounts
  <2>5. FoldSeq(LAMBDA chunks, n : n + Len(chunks), 0, segments) = k
    BY <2>1, <2>2, ChunkSum, Zenon
  <2>6. ASSUME NEW s \in Segs
        PROVE  ReadSegment(segments[s + 1])
                 = [x \in 1..Cardinality(Bytes(s)) |-> s * SegmentSize + x - 1]
    <3>1. ReadSegment(segments[s + 1])
            = BytesFrom(s * SegmentSize, Smaller((s + 1) * SegmentSize, file.size))
      <4>1. s \in 0..(Len(segments) - 1)
        BY DEF Segs, SegmentCount
      <4> QED BY <2>1, <4>1, SegmentIsRange
    <3>2. Cardinality(Bytes(s)) = Smaller((s + 1) * SegmentSize, file.size) - s * SegmentSize
      BY SegmentBytes
    <3> QED BY Zenon, <3>1, <3>2 DEF BytesFrom
  <2> QED BY <2>3, <2>4, <2>5, <2>6
<1> QED BY <1>1, <1>2, <1>3, PTL DEF Spec

-----------------------------------------------------------------------------
(* Readiness of the virtual segments.                                      *)

LEMMA SameBytes ==
  ASSUME UNCHANGED layoutVars
  PROVE  /\ Arrived(from)' = Arrived(from')
         /\ \A c : Index(c)' = Index(c)
         /\ \A s : Bytes(s)' = Bytes(s) /\ (Whole(s)' <=> Whole(s))
<1>1. file' = file /\ Blocks' = Blocks /\ mediaCIDs' = mediaCIDs
  BY SameLayout DEF layoutVars
<1>2. \A c : Index(c)' = Index(c)
  BY <1>1 DEF Index, CidOf
<1>3. \A s : Bytes(s)' = Bytes(s)
  BY <1>1 DEF Bytes
<1>4. Arrived(from)' = Arrived(from')
  BY <1>1, <1>2 DEF Arrived, BytesOf
<1>5. \A s : Whole(s)' <=> Whole(s)
  BY <1>3 DEF Whole
<1> QED BY <1>2, <1>3, <1>4, <1>5

\* The counters count what has arrived; a segment is loaded when all of it has.
Counted ==
  phase # "build" =>
    \A s \in Segs :
      /\ got[s] = Cardinality(Arrived(from) \cap Bytes(s))
      /\ loaded[s] # Never <=> Bytes(s) \subseteq Arrived(from)
      /\ loaded[s] <= now

\* What should be known of the segments at the Bitswap client.
ReportedAt(s) == IF Whole(s) /\ loaded[s] # Never THEN loaded[s] + indexing ELSE Never

Reported ==
  phase # "build" =>
    /\ DOMAIN model["bitswap"].ready = Segs
    /\ \A s \in Segs :
         tracker["bitswap"][s] = ReportedAt(s) /\ model["bitswap"].ready[s] = ReportedAt(s)

\* How many bytes of a segment there can be.
LEMMA PartOfSegment ==
  ASSUME TypeOK, LayoutKept, phase # "build", NEW s \in Segs, NEW A
  PROVE  /\ IsFiniteSet(A \cap Bytes(s)) /\ Cardinality(A \cap Bytes(s)) \in Nat
         /\ Cardinality(A \cap Bytes(s)) <= SegmentSize
         /\ Cardinality(A \cap Bytes(s)) >= SegmentSize <=> Whole(s) /\ Bytes(s) \subseteq A
<1>1. /\ IsFiniteSet(Bytes(s)) /\ Cardinality(Bytes(s)) \in Nat /\ SegmentSize \in Nat
      /\ Cardinality(Bytes(s)) <= SegmentSize
  BY SegmentBytes, SizeTypes
<1>2. /\ IsFiniteSet(A \cap Bytes(s)) /\ Cardinality(A \cap Bytes(s)) <= Cardinality(Bytes(s))
      /\ Cardinality(Bytes(s)) = Cardinality(A \cap Bytes(s)) => Bytes(s) = A \cap Bytes(s)
  BY <1>1, FS_Subset
<1>3. Cardinality(A \cap Bytes(s)) \in Nat
  BY <1>2, FS_CardinalityType
<1>4. Bytes(s) \subseteq A => A \cap Bytes(s) = Bytes(s)
  OBVIOUS
<1> QED BY <1>1, <1>2, <1>3, <1>4 DEF Whole

LEMMA ArrivedNow ==
  ASSUME TypeOK, NEW p \in Peers, NEW c \in mediaCIDs, Receive(c, p)
  PROVE  /\ Arrived(from') = Arrived(from) \cup BytesOf(Index(c))
         /\ Arrived(from) \cap BytesOf(Index(c)) = {}
<1>1. /\ from[c] = "none" /\ from' = [from EXCEPT ![c] = p] /\ p # "none"
      /\ DOMAIN from = mediaCIDs
  BY PlayoutAssumption DEF Receive, TypeOK
<1>2. /\ Arrived(from) = {x \in FileBytes : from[CidOf(BlockOf(x))] # "none"}
      /\ Arrived(from') = {x \in FileBytes : from'[CidOf(BlockOf(x))] # "none"}
      /\ BytesOf(Index(c)) = {x \in FileBytes : CidOf(BlockOf(x)) = c}
  BY ArrivedBytes, IndexBytes
<1>3. \A x \in FileBytes :
        from'[CidOf(BlockOf(x))] = IF CidOf(BlockOf(x)) = c THEN p ELSE from[CidOf(BlockOf(x))]
  BY <1>1, CidOfByte
<1> QED BY <1>1, <1>2, <1>3

\* What a block changes.
LEMMA ReceiveEffect ==
  ASSUME TypeOK, LayoutKept, Counted, NEW p \in Peers, NEW c \in mediaCIDs, Receive(c, p),
         NEW s \in Segs
  PROVE  /\ got'[s] = Cardinality(Arrived(from') \cap Bytes(s))
         /\ loaded'[s] = IF loaded[s] = Never /\ Bytes(s) \subseteq Arrived(from')
                         THEN now ELSE loaded[s]
         /\ s \in NewlyReady(got, Index(c)) <=>
              Whole(s) /\ loaded[s] = Never /\ Bytes(s) \subseteq Arrived(from')
<1>1. phase # "build"
  BY DEF Receive
<1> DEFINE A == Arrived(from)
           B == BytesOf(Index(c))
<1>2. Arrived(from') = A \cup B /\ A \cap B = {}
  BY ArrivedNow
<1>3. got[s] = Cardinality(A \cap Bytes(s)) /\ (loaded[s] # Never <=> Bytes(s) \subseteq A)
  BY <1>1 DEF Counted
<1>4. /\ IsFiniteSet(A \cap Bytes(s)) /\ Cardinality(A \cap Bytes(s)) \in Nat
      /\ Cardinality(A \cap Bytes(s)) >= SegmentSize <=> Whole(s) /\ Bytes(s) \subseteq A
  BY <1>1, PartOfSegment
<1>5. IsFiniteSet(B \cap Bytes(s))
  BY <1>1, PartOfSegment
<1>6. /\ Cardinality((A \cup B) \cap Bytes(s)) \in Nat
      /\ Cardinality((A \cup B) \cap Bytes(s)) >= SegmentSize <=> Whole(s) /\ Bytes(s) \subseteq A \cup B
  BY <1>1, PartOfSegment
<1>7. addBlock(got, Index(c))[s] = IF got[s] >= SegmentSize THEN got[s]
                                   ELSE got[s] + Cardinality(B \cap Bytes(s))
  BY <1>1, addBlockIs
<1>8. got' = addBlock(got, Index(c))
  BY DEF Receive
<1>9. s \in NewlyReady(got, Index(c)) <=> got[s] < SegmentSize /\ got'[s] >= SegmentSize
  BY <1>8 DEF NewlyReady
<1>10. loaded'[s] = IF loaded[s] = Never /\ Bytes(s) \subseteq Arrived(from')
                    THEN now ELSE loaded[s]
  BY DEF Receive
<1>11. SegmentSize \in Nat
  BY SizeTypes
<1> HIDE DEF A, B
<1>12. /\ Cardinality((A \cup B) \cap Bytes(s)) = Cardinality(A \cap Bytes(s)) + Cardinality(B \cap Bytes(s))
       /\ Cardinality(B \cap Bytes(s)) \in Nat
  <2>1. (A \cup B) \cap Bytes(s) = (A \cap Bytes(s)) \cup (B \cap Bytes(s))
        /\ (A \cap Bytes(s)) \cap (B \cap Bytes(s)) = {}
    BY <1>2
  <2> QED BY <1>4, <1>5, <2>1, DisjointUnion
<1>13. Bytes(s) \subseteq A => Cardinality(B \cap Bytes(s)) = 0
  <2> SUFFICES ASSUME Bytes(s) \subseteq A PROVE B \cap Bytes(s) = {}
    BY FS_EmptySet
  <2> QED BY <1>2
<1>14. got'[s] = Cardinality((A \cup B) \cap Bytes(s))
  BY <1>3, <1>4, <1>7, <1>8, <1>11, <1>12, <1>13
<1>15. s \in NewlyReady(got, Index(c)) <=>
         ~(Whole(s) /\ Bytes(s) \subseteq A) /\ Whole(s) /\ Bytes(s) \subseteq A \cup B
  BY <1>3, <1>4, <1>6, <1>9, <1>11, <1>14
<1>16. s \in NewlyReady(got, Index(c)) <=>
         Whole(s) /\ loaded[s] = Never /\ Bytes(s) \subseteq A \cup B
  BY <1>3, <1>15
<1> QED BY <1>2, <1>10, <1>14, <1>16

LEMMA ClientsAre == Clients = {"bitswap", "graphsync"} /\ "bitswap" # "graphsync"
BY DEF Clients

\* The other steps leave what the Bitswap client knows alone.
LEMMA OthersLeave ==
  ASSUME TypeOK, LayoutKept, [Next]_vars, ~Build, ~Start,
         ~\E p \in Peers : \E c \in mediaCIDs : Receive(c, p)
  PROVE  /\ UNCHANGED layoutVars /\ indexing' = indexing
         /\ from' = from /\ got' = got /\ loaded' = loaded
         /\ tracker'["bitswap"] = tracker["bitswap"] /\ model'["bitswap"] = model["bitswap"]
         /\ now' \in {now, now + 1} /\ (phase' # "build" <=> phase # "build")
<1>1. ASSUME NEW p \in Peers, NEW s \in Segs, LateResult(s, p)
      PROVE  /\ UNCHANGED <<layoutVars, indexing, from, got, loaded, tracker, model, now, phase>>
  BY <1>1 DEF LateResult, inputVars
<1>2. ASSUME NEW line \in results, ReadResult(line)
      PROVE  /\ UNCHANGED <<layoutVars, indexing, from, got, loaded, tracker, now, phase>>
             /\ model'["bitswap"] = model["bitswap"]
  BY <1>2, ClientsAre DEF ReadResult, inputVars, TypeOK
<1>3. CASE Consume
  <2>1. UNCHANGED <<layoutVars, indexing, from, got, loaded, model, now, phase>>
    BY <1>3 DEF Consume, inputVars
  <2>2. tracker'["bitswap"] = tracker["bitswap"]
    BY <1>3, ClientsAre DEF Consume, TypeOK
  <2> QED BY <2>1, <2>2
<1>4. CASE Tick
  BY <1>4 DEF Tick, inputVars
<1>5. CASE Summarise
  BY <1>5 DEF Summarise, Played, inputVars, streamVars
<1>6. CASE SummaryStep
  BY <1>6 DEF SummaryStep, inputVars, streamVars
<1>7. CASE UNCHANGED vars
  BY <1>7 DEF vars, inputVars, streamVars
<1> QED BY <1>1, <1>2, <1>3, <1>4, <1>5, <1>6, <1>7 DEF Next

LEMMA NoSegmentIsEmpty ==
  ASSUME TypeOK, LayoutInv, Built, NEW s \in Segs
  PROVE  Bytes(s) # {}
<1>1. /\ file.size \in Nat \ {0} /\ SegmentSize \in Nat \ {0} /\ s \in Nat
      /\ s \in 0..(Len(segments) - 1)
  BY SizeTypes, SegsType DEF Segs, SegmentCount
<1>2. s * SegmentSize < file.size
  BY <1>1, SegmentIsRange
<1>3. PICK w \in Nat : w = s * SegmentSize /\ (s + 1) * SegmentSize = w + SegmentSize
  BY <1>1
<1>4. w \in w..(Smaller(w + SegmentSize, file.size) - 1)
  BY <1>1, <1>2, <1>3 DEF Smaller
<1> QED BY <1>3, <1>4 DEF Bytes

LEMMA StartCounted ==
  ASSUME TypeOK, LayoutKept, Start
  PROVE  Counted' /\ Reported'
<1>1. /\ UNCHANGED layoutVars /\ now \in Nat /\ now' = now /\ LayoutKept'
      /\ from' = [c \in mediaCIDs |-> "none"] /\ got' = [s \in Segs |-> 0]
      /\ loaded' = NothingReady /\ phase' = "stream"
      /\ tracker'["bitswap"] = NothingReady /\ model'["bitswap"] = NewModel(SegmentCount)
  <2>1. LayoutKept'
    BY NextKept DEF Next
  <2>2. now \in Nat
    BY DEF TypeOK
  <2> QED BY <2>1, <2>2, ClientsAre DEF Start
<1>2. Segs' = Segs /\ Arrived(from)' = Arrived(from') /\ \A s : Bytes(s)' = Bytes(s)
  BY <1>1, SameLayout, SameBytes
<1>3. Arrived(from') = {}
  BY <1>1, ArrivedBytes, CidOfByte
<1>4. LayoutInv /\ Built
  BY DEF LayoutKept, Start
<1>5. \A s \in Segs : Bytes(s) # {}
  BY <1>4, NoSegmentIsEmpty
<1>6. \A s \in Segs : Cardinality(Arrived(from') \cap Bytes(s)) = 0
  BY <1>3, FS_EmptySet
<1>7. Never <= now
  BY <1>1 DEF Never
<1>8. Counted'
  BY <1>1, <1>2, <1>3, <1>5, <1>6, <1>7 DEF Counted, NothingReady
<1>9. Segs = 0..(SegmentCount - 1)
  BY DEF Segs
<1>10. Reported'
  BY <1>1, <1>2, <1>9 DEF Reported, ReportedAt, NothingReady, NewModel
<1> QED BY <1>8, <1>10

\* What a block changes of what the Bitswap client reports.
LEMMA ReportEffect ==
  ASSUME TypeOK, NEW p \in Peers, NEW c \in mediaCIDs, Receive(c, p), NEW s \in Segs
  PROVE  /\ tracker'["bitswap"][s] = IF s \in NewlyReady(got, Index(c))
                                        /\ ~(tracker["bitswap"][s] > 0 /\ now + indexing >= tracker["bitswap"][s])
                                     THEN now + indexing ELSE tracker["bitswap"][s]
         /\ model'["bitswap"].ready[s] = IF s \in NewlyReady(got, Index(c))
                                            /\ (model["bitswap"].ready[s] = Never
                                                  \/ now + indexing < model["bitswap"].ready[s])
                                         THEN now + indexing ELSE model["bitswap"].ready[s]
         /\ DOMAIN model'["bitswap"].ready = DOMAIN model["bitswap"].ready
<1> DEFINE ready == NewlyReady(got, Index(c))
           segs == segmentsForRanges(Index(c))
           block == ParseBlock(model["bitswap"], segs, p, BlockSize(c))
<1>1. /\ "bitswap" \in Clients /\ DOMAIN tracker = Clients /\ DOMAIN model = Clients
      /\ tracker["bitswap"] \in [Segs -> Nat \cup {Never}] /\ model["bitswap"] \in Models
  BY ClientsAre DEF TypeOK, Receive
<1>2. /\ tracker' = [tracker EXCEPT !["bitswap"] = RecordSegmentReady(tracker["bitswap"], ready, now + indexing)]
      /\ model' = [model EXCEPT !["bitswap"] = ParseSegmentsReady(block, ready, now + indexing)]
  BY DEF Receive
<1>3. block.ready = model["bitswap"].ready /\ block.peer = model["bitswap"].peer
  BY <1>1 DEF ParseBlock, Models
<1>4. \A t : ParseSegmentsReady(block, ready, t).ready = setMinTime(block.ready, ready, t)
  <2>1. "ready" \in DOMAIN block
    BY <1>1 DEF ParseBlock, Models
  <2> HIDE DEF block
  <2> QED BY <2>1 DEF ParseSegmentsReady
<1> HIDE DEF ready, block
<1>5. /\ tracker'["bitswap"] = RecordSegmentReady(tracker["bitswap"], ready, now + indexing)
      /\ model'["bitswap"].ready = setMinTime(model["bitswap"].ready, ready, now + indexing)
  BY <1>1, <1>2, <1>3, <1>4
<1>6. DOMAIN tracker["bitswap"] = Segs /\ DOMAIN model["bitswap"].ready = Segs
  BY <1>1 DEF Models
<1> QED BY <1>5, <1>6 DEF RecordSegmentReady, setMinTime, ready

LEMMA ReceiveCounted ==
  ASSUME TypeOK, LayoutKept, Counted, Reported, NEW p \in Peers, NEW c \in mediaCIDs, Receive(c, p)
  PROVE  Counted' /\ Reported'
<1>1. /\ UNCHANGED layoutVars /\ indexing' = indexing /\ phase = "stream" /\ now' = now
      /\ now \in Nat /\ indexing \in Nat /\ \A s \in Segs : loaded[s] \in Nat \cup {Never}
  BY PlaybackType DEF Receive, inputVars, TypeOK
<1>2. /\ Segs' = Segs /\ Arrived(from)' = Arrived(from')
      /\ \A s : Bytes(s)' = Bytes(s) /\ (Whole(s)' <=> Whole(s))
  BY <1>1, SameLayout, SameBytes
<1>3. Arrived(from) \subseteq Arrived(from')
  BY ArrivedNow
<1>4. Never \notin Nat /\ Never \in Int /\ phase # "build" /\ phase' # "build"
  BY <1>1 DEF Never, Receive
<1>5. ASSUME NEW s \in Segs
      PROVE  /\ got'[s] = Cardinality(Arrived(from') \cap Bytes(s))
             /\ loaded'[s] # Never <=> Bytes(s) \subseteq Arrived(from')
             /\ loaded'[s] <= now'
             /\ tracker'["bitswap"][s] = IF Whole(s) /\ loaded'[s] # Never THEN loaded'[s] + indexing ELSE Never
             /\ model'["bitswap"].ready[s]
                  = IF Whole(s) /\ loaded'[s] # Never THEN loaded'[s] + indexing ELSE Never
  <2>1. /\ got'[s] = Cardinality(Arrived(from') \cap Bytes(s))
        /\ loaded'[s] = IF loaded[s] = Never /\ Bytes(s) \subseteq Arrived(from') THEN now ELSE loaded[s]
        /\ s \in NewlyReady(got, Index(c)) <=>
             Whole(s) /\ loaded[s] = Never /\ Bytes(s) \subseteq Arrived(from')
    BY ReceiveEffect
  <2>2. /\ loaded[s] # Never <=> Bytes(s) \subseteq Arrived(from)
        /\ loaded[s] <= now
        /\ tracker["bitswap"][s] = IF Whole(s) /\ loaded[s] # Never THEN loaded[s] + indexing ELSE Never
        /\ model["bitswap"].ready[s] = IF Whole(s) /\ loaded[s] # Never THEN loaded[s] + indexing ELSE Never
    BY <1>4 DEF Counted, Reported, ReportedAt
  <2>3. loaded'[s] # Never <=> Bytes(s) \subseteq Arrived(from')
    BY <1>1, <1>3, <1>4, <2>1, <2>2
  <2>4. loaded'[s] <= now'
    BY <1>1, <2>1, <2>2
  <2>5. CASE s \in NewlyReady(got, Index(c))
    <3>1. tracker["bitswap"][s] = Never /\ model["bitswap"].ready[s] = Never /\ ~(Never > 0)
      BY <2>1, <2>2, <2>5 DEF Never
    <3>2. tracker'["bitswap"][s] = now + indexing /\ model'["bitswap"].ready[s] = now + indexing
      BY <2>5, <3>1, ReportEffect
    <3>3. Whole(s) /\ loaded'[s] = now /\ now # Never
      BY <1>1, <1>4, <2>1, <2>5
    <3> QED BY <2>1, <2>3, <2>4, <3>2, <3>3
  <2>6. CASE s \notin NewlyReady(got, Index(c))
    <3>1. tracker'["bitswap"][s] = tracker["bitswap"][s]
          /\ model'["bitswap"].ready[s] = model["bitswap"].ready[s]
      BY <2>6, ReportEffect
    <3> QED BY <2>1, <2>2, <2>3, <2>4, <2>6, <3>1
  <2> QED BY <2>5, <2>6
<1>6. Counted'
  BY <1>2, <1>5 DEF Counted
<1>7. DOMAIN model'["bitswap"].ready = Segs
  <2>1. 0 \in Segs
    BY <1>4, FirstSegment
  <2>2. DOMAIN model["bitswap"].ready = Segs
    BY <1>4 DEF Reported
  <2> QED BY <2>1, <2>2, ReportEffect
<1>8. Reported'
  BY <1>1, <1>2, <1>5, <1>7 DEF Reported, ReportedAt
<1> QED BY <1>6, <1>8

LEMMA NextCounted ==
  ASSUME TypeOK, LayoutKept, Counted, Reported, [Next]_vars
  PROVE  Counted' /\ Reported'
<1>1. CASE Build
  BY <1>1 DEF Build, Counted, Reported
<1>2. CASE Start
  BY <1>2, StartCounted
<1>3. CASE \E p \in Peers : \E c \in mediaCIDs : Receive(c, p)
  BY <1>3, ReceiveCounted
<1>4. CASE ~Build /\ ~Start /\ ~\E p \in Peers : \E c \in mediaCIDs : Receive(c, p)
  <2>1. /\ UNCHANGED layoutVars /\ indexing' = indexing
        /\ from' = from /\ got' = got /\ loaded' = loaded
        /\ tracker'["bitswap"] = tracker["bitswap"] /\ model'["bitswap"] = model["bitswap"]
        /\ now' \in {now, now + 1} /\ (phase' # "build" <=> phase # "build")
    BY <1>4, OthersLeave
  <2>2. /\ Segs' = Segs /\ Arrived(from)' = Arrived(from')
        /\ \A s : Bytes(s)' = Bytes(s) /\ (Whole(s)' <=> Whole(s))
    BY <2>1, SameLayout, SameBytes
  <2>3. now \in Nat /\ (phase # "build" => \A s \in Segs : loaded[s] \in Nat \cup {Never})
    BY DEF TypeOK
  <2>4. phase # "build" => \A s \in Segs : loaded[s] <= now => loaded[s] <= now'
    BY <2>1, <2>3 DEF Never
  <2>5. Counted'
    BY <2>1, <2>2, <2>4 DEF Counted
  <2>6. Reported'
    BY <2>1, <2>2 DEF Reported, ReportedAt
  <2> QED BY <2>5, <2>6
<1> QED BY <1>1, <1>2, <1>3, <1>4

LEMMA InitCounted == Init => Counted /\ Reported
BY DEF Init, Counted, Reported

\* For any video and any chunker, and blocks in any order: a whole segment is
\* reported at the moment its last byte arrives, and never a short one.
THEOREM SegmentsAreReadyWhenWhole == Spec => []VirtualSegmentsExact
<1> DEFINE IInv == TypeOK /\ LayoutKept /\ Counted /\ Reported
<1>1. Init => IInv
  BY InitTypes, InitKept, InitCounted
<1>2. IInv /\ [Next]_vars => IInv'
  BY NextTypes, NextKept, NextCounted
<1>3. IInv => VirtualSegmentsExact
  BY DEF Reported, ReportedAt, VirtualSegmentsExact
<1> QED BY <1>1, <1>2, <1>3, PTL DEF Spec

-----------------------------------------------------------------------------
(* The colours of the segments.                                            *)

\* A peer has delivered bytes of a segment.
Delivered(s, p) == \E c \in mediaCIDs : from[c] = p /\ BytesOf(Index(c)) \cap Bytes(s) # {}

\* Whoever has a share of a segment has delivered bytes of it.
Coloured ==
  phase # "build" =>
    \A s \in Segs :
      /\ model["bitswap"].peer[s] = "none"
      /\ \A i \in DOMAIN model["bitswap"].order[s] : Delivered(s, model["bitswap"].order[s][i][1])

\* Some first entry has the most bytes.
LEMMA BestExists ==
  ASSUME NEW order \in Seq(Peers \X Nat), order # <<>>
  PROVE  \E i \in DOMAIN order :
           /\ \A j \in DOMAIN order : order[j][2] <= order[i][2]
           /\ \A j \in 1..(i - 1) : order[j][2] < order[i][2]
<1>1. PICK len \in Nat \ {0} : DOMAIN order = 1..len
  BY Len(order) \in Nat
<1>2. \A i \in 1..len : order[i][2] \in Nat
  BY <1>1
<1> DEFINE best(n, i) == /\ i \in 1..n
                         /\ \A j \in 1..n : order[j][2] <= order[i][2]
                         /\ \A j \in 1..(i - 1) : order[j][2] < order[i][2]
           P == {n \in Nat : n + 1 <= len => \E i \in 1..(n + 1) : best(n + 1, i)}
<1>3. 0 \in P
  <2>1. best(1, 1)
    BY <1>2
  <2> QED BY <2>1
<1>4. ASSUME NEW n \in Nat, n \in P PROVE n + 1 \in P
  <2> SUFFICES ASSUME n + 2 <= len PROVE \E i \in 1..(n + 2) : best(n + 2, i)
    OBVIOUS
  <2>1. PICK i \in 1..(n + 1) : best(n + 1, i)
    BY <1>4
  <2>2. PICK v \in Nat, w \in Nat : v = order[i][2] /\ w = order[n + 2][2]
    <3>1. i \in 1..len /\ n + 2 \in 1..len
      OBVIOUS
    <3> QED BY <1>2, <3>1
  <2>3. \A j \in 1..(n + 1) : order[j][2] \in Nat /\ order[j][2] <= v
    BY <1>2, <2>1, <2>2
  <2>4. CASE w <= v
    <3>1. \A j \in 1..(n + 2) : order[j][2] <= order[i][2]
      BY <2>2, <2>3, <2>4
    <3> QED BY <2>1, <3>1
  <2>5. CASE w > v
    <3>0. /\ \A j \in 1..(n + 1) : order[j][2] < w
          /\ \A j \in 1..(n + 2) : j \in 1..(n + 1) \/ j = n + 2
          /\ (n + 2) - 1 = n + 1
      BY <2>3, <2>5
    <3>1. \A j \in 1..(n + 2) : order[j][2] <= order[n + 2][2]
      <4>1. \A j \in 1..(n + 1) : order[j][2] <= w
        BY <2>3, <3>0
      <4> QED BY <2>2, <3>0, <4>1
    <3>2. \A j \in 1..(n + 2 - 1) : order[j][2] < order[n + 2][2]
      BY <2>2, <3>0
    <3>3. best(n + 2, n + 2)
      BY <3>1, <3>2
    <3> QED BY <3>3
  <2> QED BY <2>2, <2>4, <2>5
<1>5. \A n \in Nat : n \in P
  <2> HIDE DEF P
  <2> QED BY <1>3, <1>4, Inducts
<1>6. len - 1 \in P /\ (len - 1) + 1 = len
  <2> HIDE DEF P
  <2> QED BY <1>5
<1>7. \E i \in 1..len : best(len, i)
  <2> HIDE DEF best
  <2> QED BY <1>6
<1> QED BY <1>1, <1>7

LEMMA AddBytesPeers ==
  ASSUME NEW order \in Seq(Peers \X Nat), NEW p, NEW share,
         NEW i \in DOMAIN AddBytes(order, p, share)
  PROVE  \/ AddBytes(order, p, share)[i][1] = p
         \/ i \in DOMAIN order /\ AddBytes(order, p, share)[i][1] = order[i][1]
<1>1. PICK n \in Nat : n = Len(order) /\ DOMAIN order = 1..n
  OBVIOUS
<1>2. CASE \E j \in DOMAIN order : order[j][1] = p
  BY <1>2 DEF AddBytes
<1>3. CASE ~\E j \in DOMAIN order : order[j][1] = p
  <2>1. AddBytes(order, p, share) = Append(order, <<p, share>>)
    BY <1>3 DEF AddBytes
  <2>2. i \in 1..(n + 1)
    BY <1>1, <2>1
  <2>3. i = n + 1 => Append(order, <<p, share>>)[i][1] = p
    BY <1>1
  <2>4. i # n + 1 => i \in 1..n /\ Append(order, <<p, share>>)[i] = order[i]
    BY <1>1, <2>2
  <2> QED BY <1>1, <2>1, <2>3, <2>4
<1> QED BY <1>2, <1>3

\* What a block changes of the shares.
LEMMA SharesEffect ==
  ASSUME TypeOK, NEW p \in Peers, NEW c \in mediaCIDs, Receive(c, p), NEW s \in Segs
  PROVE  /\ model'["bitswap"].peer[s] = model["bitswap"].peer[s]
         /\ model'["bitswap"].order[s]
              = IF s \in segmentsForRanges(Index(c))
                THEN AddBytes(model["bitswap"].order[s], p, Share(BlockSize(c), segmentsForRanges(Index(c))))
                ELSE model["bitswap"].order[s]
         /\ model["bitswap"].order[s] \in Seq(Peers \X Nat)
<1> DEFINE ready == NewlyReady(got, Index(c))
           segs == segmentsForRanges(Index(c))
           block == ParseBlock(model["bitswap"], segs, p, BlockSize(c))
<1>1. "bitswap" \in Clients /\ DOMAIN model = Clients /\ model["bitswap"] \in Models
  BY ClientsAre DEF TypeOK, Receive
<1>2. model' = [model EXCEPT !["bitswap"] = ParseSegmentsReady(block, ready, now + indexing)]
  BY DEF Receive
<1>3. /\ block.peer = model["bitswap"].peer
      /\ block.order = [x \in DOMAIN model["bitswap"].order |->
            IF x \in segs THEN AddBytes(model["bitswap"].order[x], p, Share(BlockSize(c), segs))
                          ELSE model["bitswap"].order[x]]
  BY <1>1 DEF ParseBlock, Models
<1>4. \A t : /\ ParseSegmentsReady(block, ready, t).peer = block.peer
             /\ ParseSegmentsReady(block, ready, t).order = block.order
  <2>1. "peer" \in DOMAIN block /\ "order" \in DOMAIN block
    BY <1>1 DEF ParseBlock, Models
  <2> HIDE DEF block
  <2> QED BY <2>1 DEF ParseSegmentsReady
<1> HIDE DEF ready, block, segs
<1>5. model'["bitswap"].peer = block.peer /\ model'["bitswap"].order = block.order
  BY <1>1, <1>2, <1>4
<1>6. model["bitswap"].order \in [Segs -> Seq(Peers \X Nat)]
  BY <1>1 DEF Models
<1> QED BY <1>3, <1>5, <1>6 DEF segs

LEMMA NextColoured ==
  ASSUME TypeOK, LayoutKept, Coloured, [Next]_vars
  PROVE  Coloured'
<1>1. CASE Build
  BY <1>1 DEF Build, Coloured
<1>2. CASE Start
  <2>1. Segs' = Segs /\ Segs = 0..(SegmentCount - 1)
    BY <1>2, SameLayout DEF Start, Segs
  <2>2. model'["bitswap"] = NewModel(SegmentCount)
    BY <1>2, ClientsAre DEF Start
  <2>3. \A s \in Segs : model'["bitswap"].peer[s] = "none" /\ model'["bitswap"].order[s] = <<>>
    BY <2>1, <2>2 DEF NewModel
  <2> QED BY <2>1, <2>3 DEF Coloured
<1>3. ASSUME NEW p \in Peers, NEW c \in mediaCIDs, Receive(c, p) PROVE Coloured'
  <2>1. /\ UNCHANGED layoutVars /\ phase # "build" /\ from[c] = "none"
        /\ from \in [mediaCIDs -> Peers \cup {"none"}] /\ from' = [from EXCEPT ![c] = p]
    BY <1>3 DEF Receive, TypeOK
  <2>2. /\ Segs' = Segs /\ mediaCIDs' = mediaCIDs
        /\ \A s : Bytes(s)' = Bytes(s)
        /\ \A x : Index(x)' = Index(x)
    BY <2>1, SameLayout, SameBytes
  <2>3. ASSUME NEW s \in Segs, NEW i \in DOMAIN model'["bitswap"].order[s],
               NEW who, who = model'["bitswap"].order[s][i][1]
        PROVE  Delivered(s, who)'
    <3> DEFINE old == model["bitswap"].order[s]
               new == model'["bitswap"].order[s]
    <3>1. /\ \A j \in DOMAIN old : Delivered(s, old[j][1])
          /\ old \in Seq(Peers \X Nat)
      BY <1>3, <2>1, SharesEffect DEF Coloured
    <3>2. ASSUME NEW o \in Peers, Delivered(s, o) PROVE Delivered(s, o)'
      <4>1. PICK x \in mediaCIDs : from[x] = o /\ BytesOf(Index(x)) \cap Bytes(s) # {}
        BY <3>2 DEF Delivered
      <4>2. from'[x] = o
        BY <2>1, <4>1, PlayoutAssumption
      <4> QED BY <2>2, <4>1, <4>2 DEF Delivered, BytesOf
    <3>3. s \in segmentsForRanges(Index(c)) => Delivered(s, p)'
      <4> SUFFICES ASSUME s \in segmentsForRanges(Index(c)) PROVE Delivered(s, p)'
        OBVIOUS
      <4>1. BytesOf(Index(c)) \cap Bytes(s) # {}
        BY <2>1, TouchedIsShared
      <4>2. from'[c] = p
        BY <2>1
      <4> QED BY <2>2, <4>1, <4>2 DEF Delivered, BytesOf
    <3>4. \A j \in DOMAIN old : old[j][1] \in Peers
      BY <3>1
    <3>5. CASE s \in segmentsForRanges(Index(c))
      <4> DEFINE share == Share(BlockSize(c), segmentsForRanges(Index(c)))
      <4>1. new = AddBytes(old, p, share)
        BY <1>3, <3>5, SharesEffect
      <4>2. i \in DOMAIN AddBytes(old, p, share)
        BY <2>3, <4>1
      <4> HIDE DEF share, old
      <4>3. new[i][1] = p \/ (i \in DOMAIN old /\ new[i][1] = old[i][1])
        BY <3>1, <4>1, <4>2, AddBytesPeers
      <4>4. who = p \/ (i \in DOMAIN old /\ who = old[i][1])
        BY <2>3, <4>3
      <4> QED BY <3>1, <3>2, <3>3, <3>4, <3>5, <4>4
    <3>6. CASE s \notin segmentsForRanges(Index(c))
      <4>1. new = old
        BY <1>3, <3>6, SharesEffect
      <4> HIDE DEF old
      <4>2. who = old[i][1] /\ i \in DOMAIN old
        BY <2>3, <4>1
      <4> QED BY <3>1, <3>2, <3>4, <4>2
    <3> QED BY <3>5, <3>6
  <2>4. \A s \in Segs : model'["bitswap"].peer[s] = "none"
    BY <1>3, <2>1, SharesEffect DEF Coloured
  <2> QED BY <2>2, <2>3, <2>4 DEF Coloured, Delivered
<1>4. CASE ~Build /\ ~Start /\ ~\E p \in Peers : \E c \in mediaCIDs : Receive(c, p)
  <2>1. /\ UNCHANGED layoutVars /\ from' = from /\ model'["bitswap"] = model["bitswap"]
        /\ (phase' # "build" <=> phase # "build")
    BY <1>4, OthersLeave
  <2>2. /\ Segs' = Segs /\ mediaCIDs' = mediaCIDs
        /\ \A s : Bytes(s)' = Bytes(s)
        /\ \A x : Index(x)' = Index(x)
    BY <2>1, SameLayout, SameBytes
  <2>3. \A s, p : Delivered(s, p)' <=> Delivered(s, p)
    BY <2>1, <2>2 DEF Delivered, BytesOf
  <2> QED BY <2>1, <2>2, <2>3 DEF Coloured
<1> QED BY <1>1, <1>2, <1>3, <1>4

\* For any video, chunker and peers: a segment of the timeline has the colour
\* of a peer that delivered bytes of it, although the blocks are attributed to
\* segments by integer division of their ranges.
THEOREM ColoursTellWhoDelivered == Spec => []ColoursAreTrue
<1> DEFINE IInv == TypeOK /\ LayoutKept /\ Coloured
<1>1. Init => IInv
  BY InitTypes, InitKept DEF Init, Coloured
<1>2. IInv /\ [Next]_vars => IInv'
  BY NextTypes, NextKept, NextColoured
<1>3. IInv => ColoursAreTrue
  <2> SUFFICES ASSUME TypeOK, Coloured, phase # "build", NEW s \in Segs,
                      finalizeTimelineSegmentPeers(model["bitswap"])[s] # "none"
               PROVE  Delivered(s, finalizeTimelineSegmentPeers(model["bitswap"])[s])
    BY DEF ColoursAreTrue, Delivered
  <2> DEFINE order == model["bitswap"].order[s]
             isBest(i) == /\ \A j \in DOMAIN order : order[j][2] <= order[i][2]
                          /\ \A j \in 1..(i - 1) : order[j][2] < order[i][2]
             best == CHOOSE i \in DOMAIN order : isBest(i)
  <2>1. model["bitswap"] \in Models
    BY ClientsAre DEF TypeOK
  <2>2. order \in Seq(Peers \X Nat) /\ DOMAIN model["bitswap"].order = Segs
    BY <2>1 DEF Models
  <2>3. finalizeTimelineSegmentPeers(model["bitswap"])[s]
          = IF order = <<>> THEN model["bitswap"].peer[s] ELSE order[best][1]
    BY <2>2 DEF finalizeTimelineSegmentPeers
  <2>4. order # <<>>
    BY <2>3 DEF Coloured
  <2> HIDE DEF order
  <2>5. best \in DOMAIN order
    <3>1. \E i \in DOMAIN order : isBest(i)
      BY <2>2, <2>4, BestExists
    <3> HIDE DEF isBest
    <3> QED BY <3>1
  <2> HIDE DEF best
  <2>6. Delivered(s, order[best][1])
    BY <2>5 DEF Coloured, order
  <2> QED BY <2>3, <2>4, <2>6
<1> QED BY <1>1, <1>2, <1>3, PTL DEF Spec

-----------------------------------------------------------------------------
(* The summaries.                                                          *)

\* The time that a summary takes for the readiness of a segment.
CountsAs(r, t) == IF r = Never THEN t ELSE r

\* The time of all stalls.
TimeOf(durations) == SumFunctionOnSet(durations, DOMAIN durations)

LEMMA FoldIsTime ==
  ASSUME NEW durations
  PROVE  FoldSeq(LAMBDA d, n : d + n, 0, durations) = TimeOf(durations)
BY Zenon DEF FoldSeq, FoldFunction, FoldFunctionOnSet, MapThenFoldSet, SumFunctionOnSet, TimeOf

LEMMA TimeOfAppend ==
  ASSUME NEW s \in Seq(Nat), NEW w \in Nat
  PROVE  TimeOf(Append(s, w)) = TimeOf(s) + w /\ TimeOf(s) \in Nat
<1> DEFINE F == Append(s, w)
<1>1. PICK n \in Nat : n = Len(s) /\ DOMAIN s = 1..n
  OBVIOUS
<1>2. DOMAIN F = 1..(n + 1) /\ F[n + 1] = w /\ \A i \in 1..n : F[i] = s[i] /\ s[i] \in Nat
  BY <1>1
<1>3. IsFiniteSet(1..n)
  BY FS_Interval
<1> HIDE DEF F
<1>4. \A i \in 1..(n + 1) : F[i] \in Int
  BY <1>2
<1>5. SumFunctionOnSet(F, 1..(n + 1)) = F[n + 1] + SumFunctionOnSet(F, 1..n)
  BY <1>4, SumUpTo
<1>6. SumFunctionOnSet(F, 1..n) = SumFunctionOnSet(s, 1..n)
  BY <1>2, <1>3, SumSame
<1>7. SumFunctionOnSet(s, 1..n) \in Nat
  BY <1>2, <1>3, SumType
<1> QED BY <1>1, <1>2, <1>5, <1>6, <1>7 DEF TimeOf, F

LEMMA TimeOfLonger ==
  ASSUME NEW s \in Seq(Nat), Len(s) > 0, NEW w \in Nat
  PROVE  /\ TimeOf([s EXCEPT ![Len(s)] = @ + w]) = TimeOf(s) + w
         /\ Len([s EXCEPT ![Len(s)] = @ + w]) = Len(s)
<1> DEFINE F == [s EXCEPT ![Len(s)] = @ + w]
<1>1. PICK n \in Nat : n + 1 = Len(s) /\ DOMAIN s = 1..(n + 1)
  <2>1. Len(s) - 1 \in Nat /\ (Len(s) - 1) + 1 = Len(s) /\ DOMAIN s = 1..Len(s)
    OBVIOUS
  <2> QED BY <2>1
<1>2. /\ DOMAIN F = 1..(n + 1) /\ F[n + 1] = s[n + 1] + w /\ s[n + 1] \in Nat
      /\ \A i \in 1..n : F[i] = s[i] /\ s[i] \in Nat
  BY <1>1
<1>3. Len(F) = Len(s)
  BY <1>1
<1>4. IsFiniteSet(1..n)
  BY FS_Interval
<1> HIDE DEF F
<1>5. (\A i \in 1..(n + 1) : F[i] \in Int) /\ (\A i \in 1..(n + 1) : s[i] \in Int)
  <2>1. \A i \in 1..(n + 1) : i \in 1..n \/ i = n + 1
    OBVIOUS
  <2>2. F[n + 1] \in Int /\ \A i \in 1..n : F[i] \in Int
    BY <1>2
  <2>3. s[n + 1] \in Int /\ \A i \in 1..n : s[i] \in Int
    BY <1>2
  <2> QED BY <2>1, <2>2, <2>3
<1>6. SumFunctionOnSet(F, 1..(n + 1)) = F[n + 1] + SumFunctionOnSet(F, 1..n)
  BY <1>5, SumUpTo
<1>7. SumFunctionOnSet(s, 1..(n + 1)) = s[n + 1] + SumFunctionOnSet(s, 1..n)
  BY <1>5, SumUpTo
<1>8. SumFunctionOnSet(F, 1..n) = SumFunctionOnSet(s, 1..n)
  BY <1>2, <1>4, SumSame
<1>9. SumFunctionOnSet(s, 1..n) \in Nat
  BY <1>2, <1>4, SumType
<1> QED BY <1>1, <1>2, <1>3, <1>6, <1>7, <1>8, <1>9 DEF TimeOf, F

LEMMA WaitedAdds ==
  ASSUME NEW v \in Summaries, v.inStall => Len(v.stallDurations) > 0, NEW w \in Nat
  PROVE  /\ TimeOf(Waited(v, w)) = TimeOf(v.stallDurations) + w
         /\ Len(Waited(v, w)) = IF v.inStall THEN Len(v.stallDurations) ELSE Len(v.stallDurations) + 1
<1>1. v.stallDurations \in Seq(Nat) /\ v.inStall \in BOOLEAN
  BY DEF Summaries
<1>2. CASE v.inStall
  BY <1>1, <1>2, TimeOfLonger DEF Waited
<1>3. CASE ~v.inStall
  <2>1. Waited(v, w) = Append(v.stallDurations, w)
    BY <1>3 DEF Waited
  <2> QED BY <1>1, <1>3, <2>1, TimeOfAppend
<1> QED BY <1>2, <1>3

\* One turn of computeQoE, field by field.
LEMMA AccumulateIs ==
  ASSUME NEW v \in Summaries, NEW r \in Nat \cup {Never}, NEW d, NEW interval \in Nat, NEW t \in Nat,
         NEW x \in Nat, x = CountsAs(r, t), NEW a, a = Accumulate(v, r, d, interval, t)
  PROVE  /\ a.clock = Larger(v.clock, x) + interval
         /\ a.stallTime = v.stallTime + Larger(0, x - v.clock)
         /\ a.inStall <=> x > v.clock
         /\ a.stallCount = IF x > v.clock /\ ~v.inStall THEN v.stallCount + 1 ELSE v.stallCount
         /\ a.stallDurations = IF x > v.clock THEN Waited(v, x - v.clock) ELSE v.stallDurations
         /\ a.misses = IF Missed(r, d) THEN v.misses + 1 ELSE v.misses
<1> DEFINE waited == Stall(v, x)
<1>1. /\ waited.clock = Larger(v.clock, x)
      /\ waited.stallTime = v.stallTime + Larger(0, x - v.clock)
  BY DEF Stall, Summaries, Larger
<1>2. waited.inStall <=> x > v.clock
  BY DEF Stall, Summaries
<1>3. waited.stallCount = IF x > v.clock /\ ~v.inStall THEN v.stallCount + 1 ELSE v.stallCount
  BY DEF Stall, Summaries
<1>4. waited.stallDurations = IF x > v.clock THEN Waited(v, x - v.clock) ELSE v.stallDurations
  BY DEF Stall, Summaries
<1>5. waited.misses = v.misses
  BY DEF Stall, Summaries
<1>6. waited \in Summaries
  BY StallTypes
<1>7. a = [waited EXCEPT !.clock = @ + interval, !.misses = IF Missed(r, d) THEN @ + 1 ELSE @]
  BY DEF Accumulate, CountsAs
<1> HIDE DEF waited
<1>8. a.clock = waited.clock + interval /\ a.misses = IF Missed(r, d) THEN waited.misses + 1 ELSE waited.misses
  BY <1>6, <1>7 DEF Summaries
<1>9. /\ a.stallTime = waited.stallTime /\ a.inStall = waited.inStall
      /\ a.stallCount = waited.stallCount /\ a.stallDurations = waited.stallDurations
  BY <1>6, <1>7 DEF Summaries
<1> QED BY <1>1, <1>2, <1>3, <1>4, <1>5, <1>8, <1>9

\* What the summary of a client keeps to from the first segment on.
Planned(v, start, n, plan, ready) ==
  /\ v.clock = start + plan + v.stallTime
  /\ v.stallTime > 0 => v.misses > 0
  /\ v.misses > 0 => v.stallTime > 0 \/ \E s \in 0..(n - 1) : ready[s] = Never
  /\ v.stallCount = Len(v.stallDurations)
  /\ v.stallTime = TimeOf(v.stallDurations)
  /\ v.inStall => Len(v.stallDurations) > 0

Summed ==
  /\ phase # "summary" => at = 0
  /\ phase = "summary" =>
       \A c \in Clients : Planned(q[c], startup(c), at, at * playbackMs, tracker[c])

LEMMA PlannedFirst ==
  ASSUME NEW start \in Nat, NEW ready
  PROVE  Planned(qoeInit(start), start, 0, 0, ready)
<1>1. TimeOf(<<>>) = 0
  BY SumEmpty DEF TimeOf
<1> QED BY <1>1 DEF Planned, qoeInit

\* A turn of computeQoE keeps to it.
LEMMA PlannedNext ==
  ASSUME NEW v \in Summaries, NEW start \in Nat, NEW n \in Nat, NEW plan \in Nat, NEW ready,
         ready[n] \in Nat \cup {Never}, NEW interval \in Nat, NEW t \in Nat,
         Planned(v, start, n, plan, ready)
  PROVE  Planned(Accumulate(v, ready[n], start + plan, interval, t), start, n + 1, plan + interval, ready)
<1>1. PICK r \in Nat \cup {Never} : r = ready[n]
  OBVIOUS
<1>2. PICK x \in Nat : x = CountsAs(r, t)
  BY DEF CountsAs
<1>0. PICK d \in Nat : d = start + plan
  OBVIOUS
<1>3. PICK a : a = Accumulate(v, r, d, interval, t)
  OBVIOUS
<1>4. /\ a.clock = Larger(v.clock, x) + interval
      /\ a.stallTime = v.stallTime + Larger(0, x - v.clock)
      /\ a.inStall <=> x > v.clock
      /\ a.stallCount = IF x > v.clock /\ ~v.inStall THEN v.stallCount + 1 ELSE v.stallCount
      /\ a.stallDurations = IF x > v.clock THEN Waited(v, x - v.clock) ELSE v.stallDurations
      /\ a.misses = IF Missed(r, d) THEN v.misses + 1 ELSE v.misses
  BY <1>2, <1>3, AccumulateIs
<1>5. PICK clock \in Nat, time \in Nat, misses \in Nat, count \in Nat :
        v.clock = clock /\ v.stallTime = time /\ v.misses = misses /\ v.stallCount = count
  BY DEF Summaries
<1>6. /\ clock = d + time
      /\ time > 0 => misses > 0
      /\ misses > 0 => time > 0 \/ \E s \in 0..(n - 1) : ready[s] = Never
      /\ count = Len(v.stallDurations) /\ time = TimeOf(v.stallDurations)
      /\ v.inStall => Len(v.stallDurations) > 0
      /\ v.stallDurations \in Seq(Nat) /\ v.inStall \in BOOLEAN
  BY <1>0, <1>5 DEF Planned, Summaries
<1>7. /\ a.clock = Larger(clock, x) + interval
      /\ a.stallTime = time + Larger(0, x - clock)
      /\ a.misses = IF Missed(r, d) THEN misses + 1 ELSE misses
  BY <1>4, <1>5
<1>8. /\ x > clock => Missed(r, d)
      /\ Missed(r, d) => r = Never \/ (x > d /\ r # Never)
  BY <1>2, <1>6 DEF Missed, CountsAs
<1>9. a.clock = start + (plan + interval) + a.stallTime
  <2>1. Larger(clock, x) = clock + Larger(0, x - clock) /\ Larger(0, x - clock) \in Nat
    BY DEF Larger
  <2>2. PICK y \in Nat : y = Larger(0, x - clock)
    BY <2>1
  <2>3. a.clock = d + time + y + interval /\ a.stallTime = time + y
    BY <1>6, <1>7, <2>1, <2>2
  <2> QED BY <1>0, <2>3
<1>10. a.stallTime > 0 => a.misses > 0
  <2>1. a.stallTime > 0 => time > 0 \/ x > clock
    BY <1>7 DEF Larger
  <2> QED BY <1>6, <1>7, <1>8, <2>1
<1>11. a.misses > 0 => a.stallTime > 0 \/ \E s \in 0..n : ready[s] = Never
  <2>1. ASSUME x > d PROVE a.stallTime > 0
    <3>1. x > clock \/ time > 0
      BY <1>6, <2>1
    <3> QED BY <1>7, <3>1 DEF Larger
  <2>2. ASSUME r = Never PROVE \E s \in 0..n : ready[s] = Never
    <3>1. n \in 0..n
      OBVIOUS
    <3> QED BY <1>1, <2>2, <3>1
  <2>3. ASSUME misses > 0 PROVE a.stallTime > 0 \/ \E s \in 0..n : ready[s] = Never
    <3>1. time > 0 => a.stallTime > 0
      BY <1>7 DEF Larger
    <3>2. \A s \in 0..(n - 1) : s \in 0..n
      OBVIOUS
    <3> QED BY <1>6, <2>3, <3>1, <3>2
  <2> QED BY <1>7, <1>8, <2>1, <2>2, <2>3
<1>12. /\ a.stallCount = Len(a.stallDurations) /\ a.stallTime = TimeOf(a.stallDurations)
       /\ a.inStall => Len(a.stallDurations) > 0
  <2>1. CASE x > clock
    <3>1. PICK w \in Nat : w = x - clock
      BY <2>1
    <3>2. /\ TimeOf(Waited(v, w)) = TimeOf(v.stallDurations) + w
          /\ Len(Waited(v, w)) = IF v.inStall THEN Len(v.stallDurations) ELSE Len(v.stallDurations) + 1
      BY <1>6, WaitedAdds
    <3>3. a.stallTime = time + w /\ a.stallDurations = Waited(v, w)
      BY <1>4, <1>5, <1>7, <2>1, <3>1 DEF Larger
    <3>4. a.stallCount = Len(a.stallDurations)
      BY <1>4, <1>5, <1>6, <2>1, <3>2, <3>3
    <3>5. a.stallTime = TimeOf(a.stallDurations)
      BY <1>6, <3>2, <3>3
    <3>6. Len(a.stallDurations) > 0
      <4>1. Len(v.stallDurations) \in Nat
        BY <1>6
      <4> QED BY <1>6, <3>2, <3>3, <4>1
    <3> QED BY <3>4, <3>5, <3>6
  <2>2. CASE ~(x > clock)
    <3>1. Larger(0, x - clock) = 0
      BY <2>2 DEF Larger
    <3> QED BY <1>4, <1>5, <1>6, <1>7, <2>2, <3>1
  <2> QED BY <2>1, <2>2
<1>13. n + 1 - 1 = n
  OBVIOUS
<1>14. Planned(a, start, n + 1, plan + interval, ready)
  BY <1>9, <1>10, <1>11, <1>12, <1>13 DEF Planned
<1> QED BY <1>1, <1>0, <1>3, <1>14

LEMMA NextSummed ==
  ASSUME TypeOK, LayoutKept, Summed, [Next]_vars
  PROVE  Summed'
<1>1. ASSUME UNCHANGED <<at, q, total, tracker>>, playbackMs' = playbackMs, phase' = phase PROVE Summed'
  BY <1>1 DEF Summed, Planned, startup, startupDelay
<1>2. ASSUME UNCHANGED <<at, q>>, phase # "summary", phase' # "summary" PROVE Summed'
  BY <1>2 DEF Summed
<1>3. CASE Build \/ Start
  BY <1>2, <1>3 DEF Build, Start
<1>4. ASSUME NEW p \in Peers, NEW c \in mediaCIDs, Receive(c, p) PROVE Summed'
  BY <1>2, <1>4 DEF Receive
<1>5. ASSUME NEW p \in Peers, NEW s \in Segs, LateResult(s, p) PROVE Summed'
  BY <1>2, <1>5 DEF LateResult
<1>6. ASSUME NEW line \in results, ReadResult(line) PROVE Summed'
  BY <1>2, <1>6 DEF ReadResult, Played
<1>7. CASE Consume \/ Tick
  BY <1>2, <1>7 DEF Consume, Tick, PlayerDue
<1>8. CASE Summarise
  <2>1. /\ phase' = "summary" /\ phase # "build" /\ at = 0 /\ at' = 0
        /\ UNCHANGED <<total, tracker>> /\ playbackMs' = playbackMs
        /\ q' = [c \in Clients |-> qoeInit(startup(c))]
    BY <1>8 DEF Summarise, Played, Summed, streamVars, inputVars, playbackMs
  <2>2. \A c \in Clients : startup(c) \in Nat
    BY <2>1, FirstSegment, StartupType DEF startup, TypeOK
  <2>3. \A c \in Clients : startup(c)' = startup(c)
    BY <2>1 DEF startup, startupDelay
  <2>4. at' * playbackMs' = 0
    BY <2>1, PlaybackType
  <2>5. ASSUME NEW c \in Clients
        PROVE  Planned(q[c], startup(c), at, at * playbackMs, tracker[c])'
    <3>1. Planned(qoeInit(startup(c)), startup(c), 0, 0, tracker[c])
      BY <2>1, <2>2, PlannedFirst
    <3> QED BY <2>1, <2>3, <2>4, <3>1 DEF Planned
  <2> QED BY <2>1, <2>5 DEF Summed
<1>9. CASE SummaryStep
  <2>1. /\ phase' = "summary" /\ phase = "summary" /\ at < SegmentCount /\ at' = at + 1
        /\ UNCHANGED <<total, tracker>> /\ playbackMs' = playbackMs
        /\ q' = [c \in Clients |->
                   Accumulate(q[c], tracker[c][at], Deadline(c, at), playbackMs, total[c])]
    BY <1>9 DEF SummaryStep, streamVars, inputVars, playbackMs
  <2>2. \A c \in Clients : startup(c) \in Nat
    BY <2>1, FirstSegment, StartupType DEF startup, TypeOK
  <2>3. \A c \in Clients : startup(c)' = startup(c)
    BY <2>1 DEF startup, startupDelay
  <2>4. at \in Segs /\ at \in Nat /\ playbackMs \in Nat
    <3>1. at \in Nat
      BY DEF TypeOK
    <3> QED BY <2>1, <3>1, SegsType, PlaybackType
  <2>5. PICK plan \in Nat : plan = at * playbackMs /\ (at + 1) * playbackMs = plan + playbackMs
    BY <2>4
  <2>6. ASSUME NEW c \in Clients
        PROVE  Planned(q[c], startup(c), at, at * playbackMs, tracker[c])'
    <3>1. q[c] \in Summaries /\ tracker[c][at] \in Nat \cup {Never} /\ total[c] \in Nat
      BY <2>1, <2>4 DEF TypeOK
    <3>2. Planned(q[c], startup(c), at, plan, tracker[c])
      BY <2>1, <2>5 DEF Summed
    <3>3. PICK v \in Summaries, start \in Nat, t \in Nat :
            v = q[c] /\ start = startup(c) /\ t = total[c]
      BY <2>2, <3>1
    <3> DEFINE ready == tracker[c]
    <3>4. Planned(Accumulate(v, ready[at], start + plan, playbackMs, t), start, at + 1, plan + playbackMs, ready)
      BY <2>4, <3>1, <3>2, <3>3, PlannedNext
    <3>5. q'[c] = Accumulate(v, ready[at], start + plan, playbackMs, t)
      BY <2>1, <2>5, <3>3 DEF Deadline
    <3> QED BY <2>1, <2>3, <2>5, <3>3, <3>4, <3>5 DEF Planned
  <2> QED BY <2>1, <2>6 DEF Summed
<1>10. CASE UNCHANGED vars
  BY <1>1, <1>10 DEF vars, streamVars, inputVars, playbackMs
<1> QED BY <1>3, <1>4, <1>5, <1>6, <1>7, <1>8, <1>9, <1>10 DEF Next

\* For any times of readiness: the clock of a summary is what the plan and the
\* stalls make of it, stalls and missed deadlines go together, and the stall
\* durations add up to the stall time.
THEOREM StallsAddUp == Spec => []ClockIsPlanAndStalls
<1> DEFINE IInv == TypeOK /\ LayoutKept /\ Summed
<1>1. Init => IInv
  BY InitTypes, InitKept DEF Init, Summed
<1>2. IInv /\ [Next]_vars => IInv'
  BY NextTypes, NextKept, NextSummed
<1>3. IInv => ClockIsPlanAndStalls
  <2> SUFFICES ASSUME Summed, phase = "summary", NEW c \in Clients
               PROVE  /\ q[c].clock = startup(c) + at * playbackMs + q[c].stallTime
                      /\ q[c].stallTime > 0 => q[c].misses > 0
                      /\ q[c].misses > 0 =>
                           q[c].stallTime > 0 \/ \E s \in 0..(at - 1) : tracker[c][s] = Never
                      /\ q[c].stallCount = Len(q[c].stallDurations)
                      /\ q[c].stallTime = FoldSeq(LAMBDA d, n : d + n, 0, q[c].stallDurations)
    BY Zenon DEF ClockIsPlanAndStalls
  <2>1. Planned(q[c], startup(c), at, at * playbackMs, tracker[c])
    BY DEF Summed
  <2>2. FoldSeq(LAMBDA d, n : d + n, 0, q[c].stallDurations) = TimeOf(q[c].stallDurations)
    BY FoldIsTime, Zenon
  <2> QED BY <2>1, <2>2 DEF Planned
<1> QED BY <1>1, <1>2, <1>3, PTL DEF Spec

-----------------------------------------------------------------------------
(* The player takes the segments in turn.                                  *)

PlayedAt(s) == tracker["graphsync"][s]

\* When the first n segments are over.
Over(n) == IF n = 0 THEN 0 ELSE PlayedAt(n - 1) + playbackMs

\* A segment that was taken was taken as early as it could.
TakenInTurn(s) ==
  /\ loaded[s] # Never /\ PlayedAt(s) = Larger(loaded[s], Over(s))
  /\ PlayedAt(0) <= PlayedAt(s) /\ PlayedAt(s) <= total["graphsync"] /\ PlayedAt(s) <= now

InTurn ==
  /\ phase = "build" => player.next = 0 /\ player.free = 0
  /\ phase # "build" =>
       /\ player.next \in 0..SegmentCount /\ player.free = Over(player.next)
       /\ \A s \in Segs : IF s < player.next THEN TakenInTurn(s) ELSE PlayedAt(s) = Never
       /\ player.next < SegmentCount /\ loaded[player.next] # Never =>
            now <= Larger(loaded[player.next], player.free)
       /\ \A s \in Segs : loaded[s] # Never => loaded[s] + indexing <= total["bitswap"]
  /\ phase = "summary" => player.next = SegmentCount

LEMMA ConsumeInTurn ==
  ASSUME TypeOK, LayoutKept, Counted, InTurn, Consume
  PROVE  InTurn'
<1>0. PICK n \in Nat : n = player.next
  BY DEF TypeOK
<1>1. /\ phase = "stream" /\ n < SegmentCount /\ n \in Nat /\ loaded[n] # Never /\ now >= player.free
      /\ UNCHANGED <<layoutVars, phase, speed, indexing, now, loaded>>
      /\ player' = [next |-> n + 1, free |-> now + playbackMs]
      /\ total' = [total EXCEPT !["graphsync"] = now]
      /\ tracker' = [tracker EXCEPT !["graphsync"] = RecordSegmentReady(@, {n}, now)]
  BY <1>0 DEF Consume, PlayerDue, inputVars, SleepUntil, RecordedAt
<1>2. /\ n \in Segs /\ 0 \in Segs /\ SegmentCount \in Nat /\ Segs \subseteq Nat /\ now \in Nat
      /\ playbackMs \in Nat /\ playbackMs' = playbackMs /\ player.free \in Nat
      /\ Segs = 0..(SegmentCount - 1)
  <2>1. now \in Nat /\ player.free \in Nat
    BY DEF TypeOK
  <2> QED BY <1>1, <2>1, SegsType, PlaybackType DEF playbackMs
<1>3. Segs' = Segs /\ SegmentCount' = SegmentCount
  BY <1>1, SameLayout
<1>4. /\ tracker["graphsync"] \in [Segs -> Nat \cup {Never}] /\ DOMAIN tracker = Clients
      /\ total \in [Clients -> Nat] /\ \A s \in Segs : loaded[s] \in Nat \cup {Never}
  BY <1>1, ClientsAre DEF TypeOK
<1>5. /\ \A s \in Segs : PlayedAt(s)' = tracker'["graphsync"][s]
      /\ \A s \in Segs : s # n => tracker'["graphsync"][s] = PlayedAt(s)
      /\ PlayedAt(n) = Never => tracker'["graphsync"][n] = now
      /\ total'["graphsync"] = now /\ total'["bitswap"] = total["bitswap"]
  <2>1. tracker'["graphsync"] = RecordSegmentReady(tracker["graphsync"], {n}, now)
    BY <1>1, <1>4, ClientsAre
  <2>2. DOMAIN tracker["graphsync"] = Segs
    BY <1>4
  <2>3. ~(Never > 0)
    BY DEF Never
  <2>4. total'["graphsync"] = now /\ total'["bitswap"] = total["bitswap"]
    BY <1>1, <1>4, ClientsAre
  <2>5. \A s \in Segs : s # n => tracker'["graphsync"][s] = PlayedAt(s)
    BY <2>1, <2>2 DEF PlayedAt, RecordSegmentReady
  <2>6. PlayedAt(n) = Never => tracker'["graphsync"][n] = now
    BY <1>2, <2>1, <2>2, <2>3 DEF PlayedAt, RecordSegmentReady
  <2> QED BY <2>4, <2>5, <2>6 DEF PlayedAt
<1>6. /\ player.free = Over(n) /\ now <= Larger(loaded[n], player.free) /\ PlayedAt(n) = Never
      /\ \A s \in Segs : IF s < n THEN TakenInTurn(s) ELSE PlayedAt(s) = Never
      /\ loaded[n] <= now
  <2>1. loaded[n] <= now
    BY <1>1, <1>2 DEF Counted
  <2> QED BY <1>0, <1>1, <1>2, <2>1 DEF InTurn
<1>7. now = Larger(loaded[n], Over(n))
  BY <1>1, <1>2, <1>4, <1>6 DEF Larger
<1>8. ASSUME NEW s \in Segs
      PROVE  /\ s # n => PlayedAt(s)' = PlayedAt(s)
             /\ s = n => PlayedAt(s)' = now
             /\ s <= n => Over(s)' = Over(s)
  <2>1. (s # n => PlayedAt(s)' = PlayedAt(s)) /\ (s = n => PlayedAt(s)' = now)
    BY <1>5, <1>6
  <2>2. CASE s = 0
    BY <2>1, <2>2 DEF Over
  <2>3. CASE s # 0 /\ s <= n
    <3>1. PICK m \in Segs : m = s - 1 /\ m # n
      BY <1>1, <1>2, <2>3
    <3>2. PlayedAt(m)' = PlayedAt(m)
      BY <1>5, <3>1
    <3> QED BY <1>2, <2>1, <2>3, <3>1, <3>2 DEF Over
  <2> QED BY <1>1, <1>2, <2>1, <2>2, <2>3
<1>9. player'.next = n + 1 /\ player'.free = now + playbackMs
  BY <1>1
<1>10. player'.free = Over(n + 1)'
  <2>1. PlayedAt(n)' = now
    BY <1>2, <1>8
  <2>2. n + 1 # 0 /\ (n + 1) - 1 = n
    OBVIOUS
  <2>3. Over(n + 1)' = PlayedAt(n)' + playbackMs'
    BY <2>2 DEF Over
  <2> QED BY <1>2, <1>9, <2>1, <2>3
<1>11. PlayedAt(0)' <= now
  <2>1. CASE n = 0
    BY <1>2, <1>8, <2>1
  <2>2. CASE n # 0
    <3>1. TakenInTurn(0) /\ PlayedAt(0)' = PlayedAt(0)
      BY <1>1, <1>2, <1>6, <1>8, <2>2
    <3> QED BY <3>1 DEF TakenInTurn
  <2> QED BY <2>1, <2>2
<1>12. ASSUME NEW s \in Segs, s < n + 1
       PROVE  TakenInTurn(s)'
  <2>1. CASE s = n
    <3>1. /\ loaded'[s] # Never /\ PlayedAt(s)' = Larger(loaded'[s], Over(s)') /\ PlayedAt(s)' = now
          /\ now' = now
      BY <1>1, <1>2, <1>7, <1>8, <2>1
    <3> QED BY <1>2, <1>5, <1>11, <3>1 DEF TakenInTurn
  <2>2. CASE s # n
    <3>1. s < n /\ TakenInTurn(s)
      BY <1>1, <1>2, <1>6, <1>12, <2>2
    <3>2. PlayedAt(s)' = PlayedAt(s) /\ Over(s)' = Over(s) /\ PlayedAt(0)' = PlayedAt(0)
      BY <1>1, <1>2, <1>8, <2>2, <3>1
    <3> QED BY <1>1, <1>5, <3>1, <3>2 DEF TakenInTurn
  <2> QED BY <2>1, <2>2
<1>13. \A s \in Segs : ~(s < n + 1) => PlayedAt(s)' = Never
  BY <1>1, <1>2, <1>6, <1>8
<1>14. ASSUME n + 1 < SegmentCount, loaded'[n + 1] # Never
       PROVE  now' <= Larger(loaded'[n + 1], now + playbackMs)
  <2>1. loaded'[n + 1] \in Nat
    BY <1>1, <1>2, <1>4, <1>14
  <2> QED BY <1>1, <1>2, <2>1 DEF Larger
<1>15. \A s \in Segs : loaded'[s] # Never => loaded'[s] + indexing' <= total'["bitswap"]
  BY <1>1, <1>5 DEF InTurn
<1>16. n + 1 \in 0..SegmentCount
  BY <1>1, <1>2
<1> QED BY <1>1, <1>3, <1>9, <1>10, <1>12, <1>13, <1>14, <1>15, <1>16 DEF InTurn

LEMMA NextInTurn ==
  ASSUME TypeOK, LayoutKept, Counted, InTurn, [Next]_vars
  PROVE  InTurn'
<1>1. ASSUME UNCHANGED <<layoutVars, speed, indexing, now, player, total, loaded>>,
             tracker'["graphsync"] = tracker["graphsync"], phase' = phase
      PROVE  InTurn'
  <2>1. Segs' = Segs /\ SegmentCount' = SegmentCount /\ playbackMs' = playbackMs
    BY <1>1, SameLayout DEF playbackMs
  <2> QED BY <1>1, <2>1 DEF InTurn, TakenInTurn, Over, PlayedAt
<1>2. CASE Build
  BY <1>2 DEF Build, InTurn, streamVars
<1>3. CASE Start
  <2>1. /\ phase' = "stream" /\ player' = player /\ UNCHANGED layoutVars /\ loaded' = NothingReady
        /\ tracker'["graphsync"] = NothingReady /\ player.next = 0 /\ player.free = 0
    BY <1>3, ClientsAre DEF Start, InTurn
  <2>2. Segs' = Segs /\ SegmentCount' = SegmentCount /\ SegmentCount \in Nat /\ Segs \subseteq Nat
        /\ Segs = 0..(SegmentCount - 1)
    BY <2>1, SameLayout, SegsType
  <2>3. \A s \in Segs : loaded'[s] = Never /\ tracker'["graphsync"][s] = Never
    BY <2>1 DEF NothingReady
  <2>4. 0 < SegmentCount => loaded'[0] = Never
    BY <2>2, <2>3
  <2> QED BY <2>1, <2>2, <2>3, <2>4 DEF InTurn, PlayedAt, Over
<1>4. ASSUME NEW p \in Peers, NEW c \in mediaCIDs, Receive(c, p) PROVE InTurn'
  <2>1. /\ phase = "stream" /\ UNCHANGED <<layoutVars, phase, speed, indexing, now, player>>
        /\ total'["bitswap"] = now + indexing /\ total'["graphsync"] = total["graphsync"]
        /\ tracker'["graphsync"] = tracker["graphsync"]
    BY <1>4, ClientsAre DEF Receive, inputVars, TypeOK
  <2>2. Segs' = Segs /\ SegmentCount' = SegmentCount /\ playbackMs' = playbackMs
    BY <2>1, SameLayout DEF playbackMs
  <2>3. /\ now \in Nat /\ indexing \in Nat /\ player.free \in Nat /\ player.next \in Nat
        /\ SegmentCount \in Nat /\ Segs = 0..(SegmentCount - 1)
        /\ \A s \in Segs : loaded[s] \in Nat \cup {Never}
    <3>1. now \in Nat /\ player.free \in Nat /\ player.next \in Nat
          /\ \A s \in Segs : loaded[s] \in Nat \cup {Never}
      BY <2>1 DEF TypeOK
    <3> QED BY <3>1, SegsType, PlaybackType
  <2>4. \A s \in Segs : /\ loaded'[s] = loaded[s] \/ (loaded[s] = Never /\ loaded'[s] = now)
                        /\ loaded[s] <= now
    BY <1>4, <2>1, ReceiveEffect DEF Counted
  <2>5. \A s \in Segs : loaded'[s] # Never => loaded'[s] + indexing' <= total'["bitswap"]
    BY <2>1, <2>3, <2>4
  <2>6. player.next < SegmentCount /\ loaded'[player.next] # Never =>
          now <= Larger(loaded'[player.next], player.free)
    <3> SUFFICES ASSUME player.next < SegmentCount, loaded'[player.next] # Never
                 PROVE  now <= Larger(loaded'[player.next], player.free)
      OBVIOUS
    <3>1. player.next \in Segs
      BY <2>3
    <3>2. CASE loaded'[player.next] = loaded[player.next]
      BY <2>1, <3>2 DEF InTurn
    <3>3. CASE loaded'[player.next] = now
      BY <2>3, <3>3 DEF Larger
    <3> QED BY <2>4, <3>1, <3>2, <3>3
  <2>7. ASSUME NEW s \in Segs
        PROVE  IF s < player.next THEN TakenInTurn(s)' ELSE PlayedAt(s)' = Never
    <3>1. IF s < player.next THEN TakenInTurn(s) ELSE PlayedAt(s) = Never
      BY <2>1 DEF InTurn
    <3>2. loaded[s] # Never => loaded'[s] = loaded[s]
      BY <2>4
    <3> QED BY <2>1, <2>2, <3>1, <3>2 DEF TakenInTurn, PlayedAt, Over
  <2>8. player.next \in 0..SegmentCount /\ player.free = Over(player.next)
    BY <2>1 DEF InTurn
  <2>9. Over(player.next)' = Over(player.next)
    BY <2>1, <2>2 DEF Over, PlayedAt
  <2> QED BY <2>1, <2>2, <2>5, <2>6, <2>7, <2>8, <2>9 DEF InTurn
<1>5. ASSUME NEW p \in Peers, NEW s \in Segs, LateResult(s, p) PROVE InTurn'
  BY <1>1, <1>5 DEF LateResult, inputVars
<1>6. ASSUME NEW line \in results, ReadResult(line) PROVE InTurn'
  BY <1>1, <1>6 DEF ReadResult, inputVars
<1>7. CASE Consume
  BY <1>7, ConsumeInTurn
<1>8. CASE Tick
  <2>1. /\ phase = "stream" /\ now' = now + 1 /\ ~PlayerDue
        /\ UNCHANGED <<layoutVars, phase, speed, indexing, player, total, loaded, tracker>>
    BY <1>8 DEF Tick, inputVars
  <2>2. Segs' = Segs /\ SegmentCount' = SegmentCount /\ playbackMs' = playbackMs
    BY <2>1, SameLayout DEF playbackMs
  <2>3. /\ now \in Nat /\ player.free \in Nat /\ player.next \in Nat
        /\ SegmentCount \in Nat /\ Segs = 0..(SegmentCount - 1) /\ 0 \in Segs
        /\ \A s \in Segs : loaded[s] \in Nat \cup {Never}
        /\ \A s \in Segs : PlayedAt(s) \in Nat \cup {Never}
    <3>1. /\ now \in Nat /\ player.free \in Nat /\ player.next \in Nat
          /\ \A s \in Segs : loaded[s] \in Nat \cup {Never}
          /\ \A s \in Segs : PlayedAt(s) \in Nat \cup {Never}
      BY <2>1, ClientsAre DEF TypeOK, PlayedAt
    <3> QED BY <2>1, <3>1, SegsType, FirstSegment
  <2>4. player.next < SegmentCount /\ loaded[player.next] # Never =>
          now' <= Larger(loaded[player.next], player.free)
    <3> SUFFICES ASSUME player.next < SegmentCount, loaded[player.next] # Never
                 PROVE  now' <= Larger(loaded[player.next], player.free)
      OBVIOUS
    <3>1. ~(now >= player.free)
      BY <2>1 DEF PlayerDue
    <3>2. loaded[player.next] \in Nat
      BY <2>3
    <3> QED BY <2>1, <2>3, <3>1, <3>2 DEF Larger
  <2>5. ASSUME NEW s \in Segs
        PROVE  IF s < player.next THEN TakenInTurn(s)' ELSE PlayedAt(s)' = Never
    <3>1. IF s < player.next THEN TakenInTurn(s) ELSE PlayedAt(s) = Never
      BY <2>1 DEF InTurn
    <3>2. PlayedAt(s) \in Int /\ (PlayedAt(s) <= now => PlayedAt(s) <= now + 1)
      BY <2>3 DEF Never
    <3>3. \A x : PlayedAt(x)' = PlayedAt(x) /\ Over(x)' = Over(x)
      BY <2>1, <2>2 DEF PlayedAt, Over
    <3> QED BY <2>1, <3>1, <3>2, <3>3 DEF TakenInTurn
  <2>6. player.next \in 0..SegmentCount /\ player.free = Over(player.next)
        /\ \A s \in Segs : loaded[s] # Never => loaded[s] + indexing <= total["bitswap"]
    BY <2>1 DEF InTurn
  <2>7. Over(player.next)' = Over(player.next)
    BY <2>1, <2>2 DEF Over, PlayedAt
  <2> QED BY <2>1, <2>2, <2>4, <2>5, <2>6, <2>7 DEF InTurn
<1>9. CASE Summarise
  <2>1. /\ phase = "stream" /\ phase' = "summary" /\ player.next = SegmentCount
        /\ UNCHANGED <<layoutVars, speed, indexing, now, player, total, loaded, tracker>>
    BY <1>9 DEF Summarise, Played, streamVars, inputVars
  <2>2. Segs' = Segs /\ SegmentCount' = SegmentCount /\ playbackMs' = playbackMs
    BY <2>1, SameLayout DEF playbackMs
  <2> QED BY <2>1, <2>2 DEF InTurn, TakenInTurn, Over, PlayedAt
<1>10. CASE SummaryStep
  BY <1>1, <1>10 DEF SummaryStep, streamVars, inputVars
<1>11. CASE UNCHANGED vars
  BY <1>1, <1>11 DEF vars, streamVars, inputVars
<1> QED BY <1>2, <1>3, <1>4, <1>5, <1>6, <1>7, <1>8, <1>9, <1>10, <1>11 DEF Next

-----------------------------------------------------------------------------
(* Both clients measure the same playback.                                 *)

LEMMA WholeSegments ==
  ASSUME TypeOK, LayoutKept, phase # "build", AllWhole, NEW s \in Segs
  PROVE  Whole(s)
<1>1. /\ s \in Nat /\ s * SegmentSize \in Nat
      /\ (s + 1) * SegmentSize = s * SegmentSize + SegmentSize
      /\ s * SegmentSize < file.size
      /\ Cardinality(Bytes(s)) = Smaller((s + 1) * SegmentSize, file.size) - s * SegmentSize
  BY SegmentBytes
<1>2. file.size \in Nat \ {0} /\ SegmentSize \in Nat \ {0}
  BY SizeTypes
<1>3. PICK size \in Nat \ {0}, k \in Int : size = file.size /\ k = size \div SegmentSize
  BY <1>2
<1>4. size = SegmentSize * k
  <2>1. size % SegmentSize = 0
    BY <1>3 DEF AllWhole
  <2>2. size = SegmentSize * (size \div SegmentSize) + (size % SegmentSize)
    BY <1>2
  <2> QED BY <1>2, <1>3, <2>1, <2>2
<1>5. s < k
  <2> SUFFICES ASSUME k <= s PROVE FALSE
    BY <1>1
  <2>1. SegmentSize * k <= s * SegmentSize
    BY <1>1, <1>2
  <2> QED BY <1>1, <1>2, <1>3, <1>4, <2>1
<1>6. (s + 1) * SegmentSize <= size
  <2>1. s + 1 <= k
    BY <1>1, <1>5
  <2>2. (s + 1) * SegmentSize <= SegmentSize * k
    BY <1>1, <1>2, <2>1
  <2> QED BY <1>4, <2>2
<1>7. PICK w \in Nat : w = s * SegmentSize
  BY <1>1
<1>8. Cardinality(Bytes(s)) = Smaller(w + SegmentSize, size) - w /\ w + SegmentSize <= size
  BY <1>1, <1>3, <1>6, <1>7
<1>9. Cardinality(Bytes(s)) = SegmentSize
  BY <1>2, <1>8 DEF Smaller
<1> QED BY <1>9 DEF Whole

\* What the trackers hold when playback is over.
LEMMA TrackersAre ==
  ASSUME TypeOK, LayoutKept, Reported, InTurn, phase # "build", player.next = SegmentCount, AllWhole
  PROVE  /\ \A s \in Segs : /\ loaded[s] \in Nat /\ PlayedAt(s) \in Nat
                            /\ tracker["bitswap"][s] = loaded[s] + indexing
                            /\ PlayedAt(s) = Larger(loaded[s], Over(s))
         /\ 0 \in Segs /\ PlayedAt(0) = loaded[0]
         /\ startup("graphsync") = loaded[0] /\ startup("bitswap") = loaded[0] + indexing
<1>1. /\ \A s \in Segs : loaded[s] \in Nat \cup {Never} /\ PlayedAt(s) \in Nat \cup {Never}
      /\ indexing \in Nat /\ Segs = 0..(SegmentCount - 1) /\ SegmentCount \in Nat /\ 0 \in Segs
      /\ playbackMs \in Nat /\ \A c \in Clients : total[c] \in Nat
  <2>1. \A s \in Segs : loaded[s] \in Nat \cup {Never} /\ PlayedAt(s) \in Nat \cup {Never}
    BY ClientsAre DEF TypeOK, PlayedAt
  <2>2. \A c \in Clients : total[c] \in Nat
    BY DEF TypeOK
  <2> QED BY <2>1, <2>2, PlaybackType, SegsType, FirstSegment
<1>2. Never \notin Nat /\ Never < 0
  BY DEF Never
<1>3. \A s \in Segs : TakenInTurn(s) /\ (loaded[s] # Never => loaded[s] + indexing <= total["bitswap"])
  BY <1>1 DEF InTurn
<1>4. \A s \in Segs : loaded[s] \in Nat /\ tracker["bitswap"][s] = loaded[s] + indexing
  BY <1>1, <1>3, WholeSegments DEF TakenInTurn, Reported, ReportedAt
<1>5. \A s \in Segs : PlayedAt(s) = Larger(loaded[s], Over(s)) /\ PlayedAt(s) <= total["graphsync"]
  BY <1>3 DEF TakenInTurn
<1>6. PlayedAt(0) = loaded[0]
  <2>1. PlayedAt(0) = Larger(loaded[0], 0)
    BY <1>1, <1>5 DEF Over
  <2> QED BY <1>1, <1>4, <2>1 DEF Larger
<1>7. \A s \in Segs : PlayedAt(s) \in Nat
  <2> SUFFICES ASSUME NEW s \in Segs PROVE PlayedAt(s) \in Nat
    OBVIOUS
  <2>1. PlayedAt(0) <= PlayedAt(s)
    BY <1>3 DEF TakenInTurn
  <2>2. PICK x \in Nat : x = PlayedAt(0)
    BY <1>1, <1>4, <1>6
  <2>3. x <= PlayedAt(s) => PlayedAt(s) # Never
    BY DEF Never
  <2> QED BY <1>1, <2>1, <2>2, <2>3
<1>8. startup("graphsync") = loaded[0]
  <2>1. tracker["graphsync"][0] = loaded[0] /\ loaded[0] <= total["graphsync"]
    BY <1>1, <1>5, <1>6 DEF PlayedAt
  <2> QED BY <1>1, <1>2, <1>4, <2>1 DEF startup, startupDelay
<1>9. startup("bitswap") = loaded[0] + indexing
  <2>1. tracker["bitswap"][0] = loaded[0] + indexing /\ loaded[0] + indexing <= total["bitswap"]
        /\ loaded[0] + indexing \in Nat
    BY <1>1, <1>2, <1>3, <1>4
  <2> QED BY <1>2, <2>1 DEF startup, startupDelay
<1> QED BY <1>1, <1>4, <1>5, <1>6, <1>7, <1>8, <1>9

Alike(b, g) ==
  /\ b.clock = g.clock + indexing
  /\ b.stallCount = g.stallCount /\ b.stallTime = g.stallTime /\ b.stallDurations = g.stallDurations
  /\ b.inStall <=> g.inStall
  /\ b.misses <= g.misses /\ (b.misses = 0 => g.misses = 0)

\* A turn of computeQoE for a segment that the player got at time r, as soon as
\* it was loaded, at l, and its turn had come.
LEMMA AlikeNext ==
  ASSUME NEW b \in Summaries, NEW g \in Summaries, Alike(b, g), indexing \in Nat,
         NEW l \in Nat, NEW r \in Nat, r = Larger(l, g.clock), NEW d \in Nat,
         g.misses = 0 => g.clock = d, NEW interval \in Nat, NEW t \in Nat, NEW o \in Nat
  PROVE  /\ Alike(Accumulate(b, l + indexing, d + indexing, interval, t),
                  Accumulate(g, r, d, interval, o))
         /\ Accumulate(g, r, d, interval, o).clock = r + interval
<1>1. PICK e \in Nat, m \in Nat : e = d + indexing /\ m = l + indexing
  OBVIOUS
<1>2. PICK x : x = Accumulate(b, m, e, interval, t)
  OBVIOUS
<1>3. PICK y : y = Accumulate(g, r, d, interval, o)
  OBVIOUS
<1>4. r # Never /\ m # Never
  BY DEF Never
<1>5. m = CountsAs(m, t) /\ r = CountsAs(r, o)
  BY <1>4 DEF CountsAs
<1>6. /\ x.clock = Larger(b.clock, m) + interval
      /\ x.stallTime = b.stallTime + Larger(0, m - b.clock)
      /\ x.inStall <=> m > b.clock
      /\ x.stallCount = IF m > b.clock /\ ~b.inStall THEN b.stallCount + 1 ELSE b.stallCount
      /\ x.stallDurations = IF m > b.clock THEN Waited(b, m - b.clock) ELSE b.stallDurations
      /\ x.misses = IF Missed(m, e) THEN b.misses + 1 ELSE b.misses
  BY <1>2, <1>5, AccumulateIs
<1>7. /\ y.clock = Larger(g.clock, r) + interval
      /\ y.stallTime = g.stallTime + Larger(0, r - g.clock)
      /\ y.inStall <=> r > g.clock
      /\ y.stallCount = IF r > g.clock /\ ~g.inStall THEN g.stallCount + 1 ELSE g.stallCount
      /\ y.stallDurations = IF r > g.clock THEN Waited(g, r - g.clock) ELSE g.stallDurations
      /\ y.misses = IF Missed(r, d) THEN g.misses + 1 ELSE g.misses
  BY <1>3, <1>5, AccumulateIs
<1>8. PICK clock \in Nat : g.clock = clock /\ b.clock = clock + indexing
  BY DEF Summaries, Alike
<1>9. /\ m > b.clock <=> r > g.clock
      /\ Larger(0, m - b.clock) = Larger(0, r - g.clock)
      /\ Larger(b.clock, m) = Larger(g.clock, r) + indexing
      /\ Larger(g.clock, r) = r
      /\ r > g.clock => m - b.clock = r - g.clock
  BY <1>1, <1>8 DEF Larger
<1>10. x.clock = y.clock + indexing /\ y.clock = r + interval
  BY <1>6, <1>7, <1>9
<1>11. x.stallTime = y.stallTime /\ (x.inStall <=> y.inStall) /\ x.stallCount = y.stallCount
  BY <1>6, <1>7, <1>9 DEF Alike
<1>12. x.stallDurations = y.stallDurations
  <2>1. \A w : Waited(b, w) = Waited(g, w)
    BY DEF Waited, Alike
  <2> QED BY <1>6, <1>7, <1>9, <2>1 DEF Alike
<1>13. PICK bm \in Nat, gm \in Nat :
         b.misses = bm /\ g.misses = gm /\ bm <= gm /\ (bm = 0 => gm = 0) /\ (gm = 0 => clock = d)
  BY <1>8 DEF Summaries, Alike
<1>14. (Missed(m, e) <=> l > d) /\ (Missed(r, d) <=> r > d) /\ r = Larger(l, clock)
  BY <1>1, <1>4, <1>8 DEF Missed
<1>15. Missed(m, e) => Missed(r, d)
  BY <1>14 DEF Larger
<1>16. gm = 0 /\ ~Missed(m, e) => ~Missed(r, d)
  BY <1>13, <1>14 DEF Larger
<1>17. x.misses <= y.misses /\ (x.misses = 0 => y.misses = 0)
  BY <1>6, <1>7, <1>13, <1>15, <1>16
<1>18. Alike(x, y)
  BY <1>10, <1>11, <1>12, <1>17 DEF Alike
<1> QED BY <1>1, <1>2, <1>3, <1>10, <1>18

\* Both summaries are alike, and the clock of the player is at the end of what
\* it has played.
MeasuredAlike ==
  phase = "summary" /\ AllWhole =>
    /\ Alike(q["bitswap"], q["graphsync"])
    /\ q["graphsync"].clock = IF at = 0 THEN loaded[0] ELSE Over(at)

LEMMA NextMeasured ==
  ASSUME TypeOK, LayoutKept, Reported, InTurn, Summed, MeasuredAlike, [Next]_vars
  PROVE  MeasuredAlike'
<1>1. ASSUME phase' # "summary" PROVE MeasuredAlike'
  BY <1>1 DEF MeasuredAlike
<1>2. ASSUME phase = "summary", UNCHANGED <<layoutVars, phase, at, q, loaded, tracker, speed, indexing>>
      PROVE  MeasuredAlike'
  <2>1. playbackMs' = playbackMs /\ (AllWhole' <=> AllWhole)
    BY <1>2 DEF playbackMs, AllWhole, layoutVars
  <2> QED BY <1>2, <2>1 DEF MeasuredAlike, Alike, Over, PlayedAt
<1>3. CASE Build \/ Start \/ Consume \/ Tick
  BY <1>1, <1>3 DEF Build, Start, Consume, Tick, PlayerDue
<1>4. ASSUME NEW p \in Peers, NEW c \in mediaCIDs, Receive(c, p) PROVE MeasuredAlike'
  BY <1>1, <1>4 DEF Receive
<1>5. ASSUME NEW p \in Peers, NEW s \in Segs, LateResult(s, p) PROVE MeasuredAlike'
  BY <1>1, <1>5 DEF LateResult
<1>6. ASSUME NEW line \in results, ReadResult(line) PROVE MeasuredAlike'
  BY <1>1, <1>6 DEF ReadResult, Played
<1>7. CASE Summarise
  <2>1. /\ phase = "stream" /\ phase' = "summary" /\ at' = at /\ at = 0 /\ player.next = SegmentCount
        /\ UNCHANGED <<layoutVars, loaded, indexing>>
        /\ q' = [c \in Clients |-> qoeInit(startup(c))]
    BY <1>7 DEF Summarise, Played, Summed, streamVars, inputVars
  <2> SUFFICES ASSUME AllWhole PROVE MeasuredAlike'
    BY <2>1 DEF MeasuredAlike, AllWhole, layoutVars
  <2>2. startup("graphsync") = loaded[0] /\ startup("bitswap") = loaded[0] + indexing
    BY <2>1, TrackersAre
  <2>3. q'["graphsync"] = qoeInit(loaded[0]) /\ q'["bitswap"] = qoeInit(loaded[0] + indexing)
    BY <2>1, <2>2, ClientsAre
  <2> QED BY <2>1, <2>3 DEF MeasuredAlike, Alike, qoeInit
<1>8. CASE SummaryStep
  <2>1. /\ phase = "summary" /\ at < SegmentCount /\ at' = at + 1
        /\ UNCHANGED <<layoutVars, loaded, tracker, speed, indexing>>
        /\ q' = [c \in Clients |->
                   Accumulate(q[c], tracker[c][at], Deadline(c, at), playbackMs, total[c])]
    BY <1>8 DEF SummaryStep, streamVars, inputVars
  <2> SUFFICES ASSUME AllWhole PROVE MeasuredAlike'
    BY <2>1 DEF MeasuredAlike, AllWhole, layoutVars
  <2>2. PICK n \in Segs : n = at /\ n \in Nat
    <3>1. at \in Nat
      BY DEF TypeOK
    <3> QED BY <2>1, <3>1, SegsType
  <2>3. /\ loaded[n] \in Nat /\ PlayedAt(n) \in Nat /\ tracker["bitswap"][n] = loaded[n] + indexing
        /\ PlayedAt(n) = Larger(loaded[n], Over(n)) /\ PlayedAt(0) = loaded[0] /\ loaded[0] \in Nat
        /\ startup("graphsync") = loaded[0] /\ startup("bitswap") = loaded[0] + indexing
    <3>1. player.next = SegmentCount /\ phase # "build"
      BY <2>1 DEF InTurn
    <3> QED BY <3>1, TrackersAre
  <2>4. PICK b \in Summaries, g \in Summaries, t \in Nat, o \in Nat :
          /\ b = q["bitswap"] /\ g = q["graphsync"]
          /\ t = total["bitswap"] /\ o = total["graphsync"]
    BY ClientsAre DEF TypeOK
  <2>5. Alike(b, g) /\ g.clock = IF n = 0 THEN loaded[0] ELSE Over(n)
    BY <2>1, <2>2, <2>4 DEF MeasuredAlike
  <2>6. playbackMs \in Nat /\ indexing \in Nat /\ playbackMs' = playbackMs
    BY <2>1, PlaybackType DEF playbackMs
  <2>7. PICK l \in Nat, r \in Nat, interval \in Nat, plan \in Nat, d \in Nat :
          /\ l = loaded[n] /\ r = PlayedAt(n) /\ interval = playbackMs
          /\ plan = n * playbackMs /\ d = loaded[0] + plan
    <3>1. PICK plan \in Nat : plan = n * playbackMs
      BY <2>2, <2>6
    <3>2. loaded[0] + plan \in Nat
      BY <2>3
    <3> QED BY <2>3, <2>6, <3>1, <3>2
  <2>8. r = Larger(l, g.clock)
    <3>1. CASE n = 0
      BY <2>3, <2>5, <2>7, <3>1 DEF Larger
    <3>2. CASE n # 0
      BY <2>3, <2>5, <2>7, <3>2
    <3> QED BY <3>1, <3>2
  <2>9. g.misses = 0 => g.clock = d
    <3>1. Planned(g, loaded[0], n, plan, tracker["graphsync"])
      BY <2>1, <2>2, <2>3, <2>4, <2>7, ClientsAre DEF Summed
    <3>2. PICK clock \in Nat, time \in Nat, misses \in Nat :
            g.clock = clock /\ g.stallTime = time /\ g.misses = misses
      BY DEF Summaries
    <3>3. clock = loaded[0] + plan + time /\ (time > 0 => misses > 0)
      BY <3>1, <3>2 DEF Planned
    <3> QED BY <2>3, <2>7, <3>2, <3>3
  <2>10. /\ Alike(Accumulate(b, l + indexing, d + indexing, interval, t), Accumulate(g, r, d, interval, o))
         /\ Accumulate(g, r, d, interval, o).clock = r + interval
    BY <2>5, <2>6, <2>8, <2>9, AlikeNext
  <2>11. /\ q'["bitswap"] = Accumulate(b, l + indexing, d + indexing, interval, t)
         /\ q'["graphsync"] = Accumulate(g, r, d, interval, o)
    <3>1. Deadline("graphsync", at) = d
      BY <2>2, <2>3, <2>7 DEF Deadline
    <3>2. Deadline("bitswap", at) = d + indexing
      BY <2>2, <2>3, <2>6, <2>7 DEF Deadline
    <3> QED BY <2>1, <2>2, <2>3, <2>4, <2>7, <3>1, <3>2, ClientsAre DEF PlayedAt
  <2>12. Over(at)' = r + interval
    <3>1. at' # 0 /\ at' - 1 = n
      BY <2>1, <2>2
    <3> QED BY <2>1, <2>6, <2>7, <3>1 DEF Over, PlayedAt
  <2>13. at' # 0
    BY <2>1, <2>2
  <2>14. Alike(q["bitswap"], q["graphsync"])'
    BY <2>1, <2>10, <2>11 DEF Alike
  <2> QED BY <2>10, <2>11, <2>12, <2>13, <2>14 DEF MeasuredAlike
<1>9. CASE UNCHANGED vars
  BY <1>1, <1>2, <1>9 DEF vars, streamVars, inputVars
<1> QED BY <1>3, <1>4, <1>5, <1>6, <1>7, <1>8, <1>9 DEF Next

\* The inductive invariant of the measurement.
MeasureInv ==
  /\ TypeOK /\ LayoutKept /\ Counted /\ Reported /\ InTurn /\ Summed /\ MeasuredAlike

LEMMA MeasureInvHolds == Spec => []MeasureInv
<1>1. Init => MeasureInv
  BY InitTypes, InitKept, InitCounted DEF Init, MeasureInv, InTurn, Summed, MeasuredAlike
<1>2. MeasureInv /\ [Next]_vars => MeasureInv'
  BY NextTypes, NextKept, NextCounted, NextInTurn, NextSummed, NextMeasured DEF MeasureInv
<1> QED BY <1>1, <1>2, PTL DEF Spec

\* For any video of whole segments, whatever the chunker, the arrival of the
\* blocks and the pace of the playback: readiness recorded on arrival and on
\* consumption gives the same startup delay, stalls and end of playback, but for
\* the time the Bitswap client indexes, and deadline misses in both or in none.
THEOREM ClientsMeasureTheSame == Spec => []SameQoE
<1>1. MeasureInv => SameQoE
  <2> SUFFICES ASSUME MeasureInv, Done, AllWhole
               PROVE  /\ startup("bitswap") = startup("graphsync") + indexing
                      /\ Alike(q["bitswap"], q["graphsync"])
                      /\ q["bitswap"].misses \in Nat /\ q["graphsync"].misses \in Nat
    <3>1. ASSUME q["bitswap"].misses \in Nat, q["graphsync"].misses \in Nat,
                 Alike(q["bitswap"], q["graphsync"])
          PROVE  q["bitswap"].misses = 0 <=> q["graphsync"].misses = 0
      BY <3>1 DEF Alike
    <3> QED BY <3>1 DEF SameQoE, Alike
  <2>1. /\ TypeOK /\ LayoutKept /\ Reported /\ InTurn /\ MeasuredAlike /\ phase = "summary"
        /\ phase # "build" /\ player.next = SegmentCount
    BY DEF MeasureInv, Done, InTurn
  <2>2. startup("graphsync") = loaded[0] /\ startup("bitswap") = loaded[0] + indexing
    BY <2>1, TrackersAre
  <2>3. q["bitswap"].misses \in Nat /\ q["graphsync"].misses \in Nat
    BY <2>1, ClientsAre DEF TypeOK, Summaries
  <2> QED BY <2>1, <2>2, <2>3 DEF MeasuredAlike
<1> QED BY <1>1, MeasureInvHolds, PTL

-----------------------------------------------------------------------------
(* What the timeline draws.                                                *)

\* The lines of the GraphSync client tell when segments were loaded, or later;
\* of each segment, one that tells when is not read yet, or the model knows it.
LinesTrue ==
  /\ phase \in {"build", "summary"} => results = {}
  /\ phase # "build" =>
       /\ \A line \in results :
            /\ line[1] \in Segs /\ loaded[line[1]] # Never /\ loaded[line[1]] <= line[2]
       /\ \A s \in Segs :
            /\ model["graphsync"].ready[s] # Never =>
                 loaded[s] # Never /\ loaded[s] <= model["graphsync"].ready[s]
            /\ loaded[s] # Never =>
                 model["graphsync"].ready[s] = loaded[s] \/ \E p \in Peers : <<s, loaded[s], p>> \in results

LEMMA ReadLinesTrue ==
  ASSUME TypeOK, LinesTrue, NEW line \in results, ReadResult(line)
  PROVE  LinesTrue'
<1>1. /\ phase = "stream" /\ UNCHANGED <<layoutVars, phase, loaded>> /\ results' = results \ {line}
      /\ model' = [model EXCEPT !["graphsync"] = ParseResult(@, line[1], line[2], line[3])]
  BY DEF ReadResult, Played
<1>2. Segs' = Segs
  BY <1>1, SameLayout
<1>3. /\ model["graphsync"] \in Models /\ "graphsync" \in Clients /\ DOMAIN model = Clients
      /\ line[2] \in Nat /\ line[3] \in Peers /\ \A s \in Segs : loaded[s] \in Nat \cup {Never}
  BY <1>1, ClientsAre DEF TypeOK
<1>4. line = <<line[1], line[2], line[3]>>
  BY DEF TypeOK
<1>5. PICK ready \in [Segs -> Nat \cup {Never}] : ready = model["graphsync"].ready
  BY <1>3 DEF Models
<1>6. model'["graphsync"].ready = setMinTime(ready, {line[1]}, line[2])
  <2>1. "ready" \in DOMAIN model["graphsync"]
    BY <1>3 DEF Models
  <2>2. ParseResult(model["graphsync"], line[1], line[2], line[3]).ready = setMinTime(ready, {line[1]}, line[2])
    BY <1>3, <1>5, <2>1 DEF ParseResult, Models
  <2> QED BY <1>1, <1>3, <2>2
<1>7. \A s \in Segs : model'["graphsync"].ready[s]
        = IF s = line[1] /\ (ready[s] = Never \/ line[2] < ready[s]) THEN line[2] ELSE ready[s]
  BY <1>5, <1>6 DEF setMinTime
<1>8. line[1] \in Segs /\ loaded[line[1]] # Never /\ loaded[line[1]] <= line[2]
  BY <1>1 DEF LinesTrue
<1>9. ASSUME NEW s \in Segs
      PROVE  /\ model'["graphsync"].ready[s] # Never =>
                  loaded[s] # Never /\ loaded[s] <= model'["graphsync"].ready[s]
             /\ loaded[s] # Never =>
                  \/ model'["graphsync"].ready[s] = loaded[s]
                  \/ \E p \in Peers : <<s, loaded[s], p>> \in results'
  <2>1. /\ ready[s] # Never => loaded[s] # Never /\ loaded[s] <= ready[s]
        /\ loaded[s] # Never => ready[s] = loaded[s] \/ \E p \in Peers : <<s, loaded[s], p>> \in results
    BY <1>1, <1>5 DEF LinesTrue
  <2>2. CASE s # line[1]
    <3>1. \A p : <<s, loaded[s], p>> # line
      BY <1>4, <2>2
    <3> QED BY <1>1, <1>7, <2>1, <2>2, <3>1
  <2>3. CASE s = line[1]
    <3>1. PICK l \in Nat, t \in Nat, r \in Nat \cup {Never} : l = loaded[s] /\ t = line[2] /\ r = ready[s]
      BY <1>3, <1>8, <2>3
    <3>2. model'["graphsync"].ready[s] = IF r = Never \/ t < r THEN t ELSE r
      BY <1>7, <2>3, <3>1
    <3>3. l <= t /\ (r # Never => l <= r) /\ l # Never
      BY <1>8, <2>1, <2>3, <3>1
    <3>4. CASE r = l \/ t = l
      BY <3>1, <3>2, <3>3, <3>4
    <3>5. CASE r # l /\ t # l
      <4>1. PICK p \in Peers : <<s, l, p>> \in results
        BY <2>1, <3>1, <3>3, <3>5
      <4>2. <<s, l, p>> # line
        BY <1>4, <3>1, <3>5
      <4>3. <<s, l, p>> \in results'
        BY <1>1, <4>1, <4>2
      <4> QED BY <3>1, <3>2, <3>3, <4>3
    <3> QED BY <3>4, <3>5
  <2> QED BY <2>2, <2>3
<1>10. \A other \in results' : other[1] \in Segs /\ loaded[other[1]] # Never /\ loaded[other[1]] <= other[2]
  BY <1>1 DEF LinesTrue
<1> QED BY <1>1, <1>2, <1>9, <1>10 DEF LinesTrue

LEMMA ReceiveLinesTrue ==
  ASSUME TypeOK, LayoutKept, Counted, LinesTrue, NEW p \in Peers, NEW c \in mediaCIDs, Receive(c, p)
  PROVE  LinesTrue'
<1> DEFINE complete == {s \in Segs : loaded[s] = Never /\ Bytes(s) \subseteq Arrived(from')}
<1>1. /\ phase = "stream" /\ UNCHANGED <<layoutVars, phase, now>> /\ now \in Nat
      /\ results' = results \cup {<<s, now, p>> : s \in complete}
      /\ loaded' = [s \in Segs |-> IF s \in complete THEN now ELSE loaded[s]]
      /\ model'["graphsync"] = model["graphsync"]
  <2>1. now \in Nat /\ DOMAIN model = Clients
    BY DEF TypeOK
  <2> QED BY <2>1, ClientsAre DEF Receive
<1>2. Segs' = Segs
  BY <1>1, SameLayout
<1>3. /\ complete \subseteq Segs /\ now # Never
      /\ \A s \in complete : loaded[s] = Never /\ <<s, now, p>> \in results'
  BY <1>1 DEF Never
<1> HIDE DEF complete
<1>4. /\ \A s \in Segs : IF s \in complete THEN loaded'[s] = now ELSE loaded'[s] = loaded[s]
      /\ \A line \in results' : line \in results \/ \E s \in complete : line = <<s, now, p>>
  BY <1>1
<1>5. /\ \A line \in results : line[1] \in Segs /\ loaded[line[1]] # Never /\ loaded[line[1]] <= line[2]
      /\ \A s \in Segs :
            /\ model["graphsync"].ready[s] # Never =>
                 loaded[s] # Never /\ loaded[s] <= model["graphsync"].ready[s]
            /\ loaded[s] # Never =>
                 model["graphsync"].ready[s] = loaded[s] \/ \E o \in Peers : <<s, loaded[s], o>> \in results
  BY <1>1 DEF LinesTrue
<1>6. ASSUME NEW line \in results'
      PROVE  line[1] \in Segs /\ loaded'[line[1]] # Never /\ loaded'[line[1]] <= line[2]
  <2>1. CASE line \in results
    BY <1>3, <1>4, <1>5, <2>1
  <2>2. CASE \E s \in complete : line = <<s, now, p>>
    BY <1>1, <1>3, <1>4, <2>2
  <2> QED BY <1>4, <2>1, <2>2
<1>7. ASSUME NEW s \in Segs
      PROVE  /\ model["graphsync"].ready[s] # Never =>
                  loaded'[s] # Never /\ loaded'[s] <= model["graphsync"].ready[s]
             /\ loaded'[s] # Never =>
                  \/ model["graphsync"].ready[s] = loaded'[s]
                  \/ \E o \in Peers : <<s, loaded'[s], o>> \in results'
  <2>1. CASE s \in complete
    BY <1>3, <1>4, <1>5, <2>1
  <2>2. CASE s \notin complete
    BY <1>1, <1>4, <1>5, <2>2
  <2> QED BY <2>1, <2>2
<1> QED BY <1>1, <1>2, <1>6, <1>7 DEF LinesTrue

LEMMA NextLinesTrue ==
  ASSUME TypeOK, LayoutKept, Counted, LinesTrue, [Next]_vars
  PROVE  LinesTrue'
<1>1. ASSUME UNCHANGED <<layoutVars, phase, loaded, results, model>> PROVE LinesTrue'
  <2>1. Segs' = Segs
    BY <1>1, SameLayout
  <2> QED BY <1>1, <2>1 DEF LinesTrue
<1>2. CASE Build
  BY <1>2 DEF Build, LinesTrue, streamVars
<1>3. CASE Start
  <2>1. /\ phase' = "stream" /\ results' = {} /\ UNCHANGED layoutVars
        /\ loaded' = NothingReady /\ model'["graphsync"] = NewModel(SegmentCount)
    BY <1>3, ClientsAre DEF Start, LinesTrue
  <2>2. Segs' = Segs /\ Segs = 0..(SegmentCount - 1)
    BY <2>1, SameLayout DEF Segs
  <2>3. \A s \in Segs : loaded'[s] = Never /\ model'["graphsync"].ready[s] = Never
    BY <2>1, <2>2 DEF NothingReady, NewModel
  <2> QED BY <2>1, <2>2, <2>3 DEF LinesTrue
<1>4. ASSUME NEW p \in Peers, NEW c \in mediaCIDs, Receive(c, p) PROVE LinesTrue'
  BY <1>4, ReceiveLinesTrue
<1>5. ASSUME NEW p \in Peers, NEW s \in Segs, LateResult(s, p) PROVE LinesTrue'
  <2>1. /\ phase = "stream" /\ UNCHANGED <<layoutVars, phase, loaded, model>>
        /\ loaded[s] # Never /\ results' = results \cup {<<s, now, p>>}
    BY <1>5 DEF LateResult
  <2>2. Segs' = Segs
    BY <2>1, SameLayout
  <2>3. loaded[s] <= now
    BY <2>1 DEF Counted
  <2>4. \A line \in results' : line[1] \in Segs /\ loaded[line[1]] # Never /\ loaded[line[1]] <= line[2]
    BY <2>1, <2>3 DEF LinesTrue
  <2> QED BY <2>1, <2>2, <2>4 DEF LinesTrue
<1>6. ASSUME NEW line \in results, ReadResult(line) PROVE LinesTrue'
  BY <1>6, ReadLinesTrue
<1>7. CASE Consume \/ Tick \/ SummaryStep
  BY <1>1, <1>7 DEF Consume, Tick, SummaryStep, streamVars
<1>8. CASE Summarise
  <2>1. /\ phase = "stream" /\ phase' = "summary" /\ results = {}
        /\ UNCHANGED <<layoutVars, loaded, results, model>>
    BY <1>8 DEF Summarise, Played, streamVars
  <2>2. Segs' = Segs
    BY <2>1, SameLayout
  <2> QED BY <2>1, <2>2 DEF LinesTrue
<1>9. CASE UNCHANGED vars
  BY <1>1, <1>9 DEF vars, streamVars
<1> QED BY <1>2, <1>3, <1>4, <1>5, <1>6, <1>7, <1>8, <1>9 DEF Next

\* The rule that the ends of the segments in the projection are computed by.
EndsOf(e, ready, n, interval) ==
  e = [k \in 0..n |-> IF k = 0 THEN ready[0]
         ELSE (IF ready[k - 1] > e[k - 1] THEN ready[k - 1] ELSE e[k - 1]) + interval]

LEMMA ConsumedIs ==
  ASSUME NEW n \in Nat, NEW ready, NEW interval, NEW e, EndsOf(e, ready, n, interval),
         NEW s \in 0..(n - 1)
  PROVE  ConsumedAt(ready, n, interval)[s] = e[s + 1]
<1> DEFINE ends(f) == EndsOf(f, ready, n, interval)
<1>1. ConsumedAt(ready, n, interval) = [k \in 0..(n - 1) |-> (CHOOSE f : ends(f))[k + 1]]
  BY Zenon DEF ConsumedAt, EndsOf
<1>2. ends(e)
  OBVIOUS
<1>3. ASSUME NEW f, ends(f) PROVE \A k \in 0..n : f[k] = e[k]
  <2> DEFINE P == {k \in Nat : k \in 0..n => f[k] = e[k]}
  <2>1. 0 \in P
    BY <1>3 DEF EndsOf
  <2>2. ASSUME NEW k \in Nat, k \in P PROVE k + 1 \in P
    <3> SUFFICES ASSUME k + 1 \in 0..n PROVE f[k + 1] = e[k + 1]
      OBVIOUS
    <3>1. k \in 0..n /\ f[k] = e[k] /\ k + 1 # 0 /\ (k + 1) - 1 = k
      BY <2>2
    <3>2. f[k + 1] = (IF ready[k] > f[k] THEN ready[k] ELSE f[k]) + interval
      BY <1>3, <3>1 DEF EndsOf
    <3>3. e[k + 1] = (IF ready[k] > e[k] THEN ready[k] ELSE e[k]) + interval
      BY <3>1 DEF EndsOf
    <3> QED BY <3>1, <3>2, <3>3
  <2> HIDE DEF P
  <2>3. \A k \in Nat : k \in P
    BY <2>1, <2>2, Inducts
  <2>4. \A k \in 0..n : k \in Nat
    OBVIOUS
  <2> QED BY <2>3, <2>4, Zenon DEF P
<1> HIDE DEF ends
<1>4. ends(CHOOSE f : ends(f))
  BY <1>2, Zenon
<1>5. (CHOOSE f : ends(f))[s + 1] = e[s + 1]
  <2>1. s + 1 \in 0..n
    OBVIOUS
  <2> QED BY <1>3, <1>4, <2>1
<1> QED BY <1>1, <1>5

\* For which times the projection of a client is made.
LEMMA ModelsReady ==
  ASSUME TypeOK, LayoutKept, Reported, InTurn, LinesTrue, phase = "summary", AllWhole,
         NEW c \in Clients, NEW s \in Segs
  PROVE  model[c].ready[s] = loaded[s] + Lag(c)
<1>1. phase # "build" /\ player.next = SegmentCount
  BY DEF InTurn
<1>2. loaded[s] \in Nat /\ loaded[s] # Never
  BY <1>1, TrackersAre DEF Never
<1>3. CASE c = "bitswap"
  BY <1>1, <1>2, <1>3, WholeSegments DEF Reported, ReportedAt, Lag
<1>4. CASE c = "graphsync"
  <2>1. model["graphsync"].ready[s] = loaded[s]
    BY <1>1, <1>2 DEF LinesTrue
  <2> QED BY <1>2, <1>4, <2>1, ClientsAre DEF Lag
<1> QED BY <1>3, <1>4, ClientsAre

\* With that, a segment is over in the projection when the player has played it.
LEMMA ProjectionOf ==
  ASSUME TypeOK, LayoutKept, Reported, InTurn, LinesTrue, phase = "summary", AllWhole,
         NEW c \in Clients, NEW s \in Segs
  PROVE  ConsumedAt(model[c].ready, SegmentCount, playbackMs)[s] = PlayedAt(s) + playbackMs + Lag(c)
<1>1. PICK n \in Nat, interval \in Nat, lag \in Nat :
        n = SegmentCount /\ interval = playbackMs /\ lag = Lag(c)
  BY SegsType, PlaybackType DEF Lag
<1>2. PICK ready : ready = model[c].ready
  OBVIOUS
<1>3. /\ Segs = 0..(n - 1) /\ 0 \in Segs
      /\ \A k \in Segs : /\ loaded[k] \in Nat /\ PlayedAt(k) \in Nat /\ ready[k] = loaded[k] + lag
                         /\ PlayedAt(k) = Larger(loaded[k], Over(k))
      /\ PlayedAt(0) = loaded[0]
  <2>1. phase # "build" /\ player.next = SegmentCount
    BY DEF InTurn
  <2>2. \A k \in Segs : ready[k] = loaded[k] + lag
    BY <1>1, <1>2, ModelsReady
  <2> QED BY <1>1, <2>1, <2>2, TrackersAre, SegsType
<1> DEFINE e == [k \in 0..n |-> IF k = 0 THEN ready[0] ELSE PlayedAt(k - 1) + interval + lag]
<1>4. EndsOf(e, ready, n, interval)
  <2> SUFFICES ASSUME NEW k \in 0..n, k # 0
               PROVE  e[k] = (IF ready[k - 1] > e[k - 1] THEN ready[k - 1] ELSE e[k - 1]) + interval
    BY DEF EndsOf
  <2>1. PICK m \in Segs : m = k - 1 /\ m \in Nat
    BY <1>3
  <2>2. e[k] = PlayedAt(m) + interval + lag
    BY <2>1
  <2>3. CASE m = 0
    <3>1. e[m] = ready[0] /\ ready[m] = ready[0] /\ ready[0] = PlayedAt(m) + lag
      BY <1>3, <2>3
    <3> HIDE DEF e
    <3> QED BY <1>3, <2>1, <2>2, <3>1
  <2>4. CASE m # 0
    <3>1. PICK x \in Segs : x = m - 1
      BY <1>3, <2>1, <2>4
    <3>2. e[m] = PlayedAt(x) + interval + lag
      BY <1>3, <2>1, <2>4, <3>1
    <3>3. PlayedAt(m) = Larger(loaded[m], PlayedAt(x) + interval) /\ ready[m] = loaded[m] + lag
      BY <1>1, <1>3, <2>4, <3>1 DEF Over
    <3>4. PICK l \in Nat, p \in Nat : l = loaded[m] /\ p = PlayedAt(x)
      BY <1>3
    <3>5. (IF ready[m] > e[m] THEN ready[m] ELSE e[m]) = Larger(l, p + interval) + lag
      <4> HIDE DEF e
      <4> QED BY <3>2, <3>3, <3>4 DEF Larger
    <3>6. PlayedAt(m) = Larger(l, p + interval) /\ Larger(l, p + interval) \in Nat
      BY <3>3, <3>4 DEF Larger
    <3> HIDE DEF e
    <3> QED BY <2>1, <2>2, <3>5, <3>6
  <2> QED BY <2>3, <2>4
<1>5. e[s + 1] = PlayedAt(s) + interval + lag
  <2>1. s + 1 \in 0..n /\ s + 1 # 0 /\ (s + 1) - 1 = s
    BY <1>3
  <2> QED BY <2>1
<1> HIDE DEF e
<1>6. ConsumedAt(ready, n, interval)[s] = e[s + 1]
  <2>1. s \in 0..(n - 1)
    BY <1>3
  <2> QED BY <1>4, <2>1, ConsumedIs
<1> QED BY <1>1, <1>2, <1>5, <1>6

\* At playback speed 1, for any video of whole segments and any order in which
\* the lines of the results are printed, once or more: the timeline shows as
\* played, at each moment, what the player had played.  (At other speeds it does
\* not: the interval is divided twice.)
THEOREM TimelineShowsPlayback == Spec => [](speed = 1 => ProjectionIsPlayback)
<1> DEFINE IInv == MeasureInv /\ LinesTrue
<1>1. Init => LinesTrue
  BY DEF Init, LinesTrue
<1>2. MeasureInv /\ LinesTrue /\ [Next]_vars => LinesTrue'
  BY NextLinesTrue DEF MeasureInv
<1>3. MeasureInv /\ LinesTrue => (speed = 1 => ProjectionIsPlayback)
  <2> SUFFICES ASSUME MeasureInv, LinesTrue, speed = 1, Done, AllWhole, NEW c \in Clients,
                      NEW t \in 0..(q["graphsync"].clock + 1)
               PROVE  ProjectedIndex(model[c].ready, SegmentCount, playbackInterval(playbackMs, speed), t + Lag(c))
                        = Cardinality({s \in Segs : tracker["graphsync"][s] + playbackMs <= t})
    BY DEF ProjectionIsPlayback
  <2>1. /\ TypeOK /\ LayoutKept /\ Reported /\ InTurn /\ phase = "summary" /\ phase # "build"
        /\ player.next = SegmentCount
    BY DEF MeasureInv, Done, InTurn
  <2>2. playbackInterval(playbackMs, speed) = playbackMs
    BY <2>1, PlaybackType DEF playbackInterval
  <2>3. t \in Nat /\ playbackMs \in Nat /\ Lag(c) \in Nat /\ Segs = 0..(SegmentCount - 1)
    <3>1. q["graphsync"].clock \in Nat
      BY <2>1, ClientsAre DEF TypeOK, Summaries
    <3> QED BY <2>1, <3>1, PlaybackType, SegsType DEF Lag
  <2>4. \A s \in Segs : PlayedAt(s) \in Nat /\ loaded[s] \in Nat
    BY <2>1, TrackersAre
  <2>5. \A s \in Segs : model[c].ready[s] # Never
    <3> SUFFICES ASSUME NEW s \in Segs PROVE model[c].ready[s] # Never
      OBVIOUS
    <3>1. model[c].ready[s] = loaded[s] + Lag(c)
      BY <2>1, ModelsReady
    <3> QED BY <2>3, <2>4, <3>1 DEF Never
  <2> DEFINE consumed == ConsumedAt(model[c].ready, SegmentCount, playbackMs)
             shown == {k \in 0..(SegmentCount - 1) :
                         /\ \A j \in 0..k : model[c].ready[j] # Never
                         /\ t + Lag(c) >= consumed[k]}
             played == {s \in Segs : tracker["graphsync"][s] + playbackMs <= t}
  <2>6. ProjectedIndex(model[c].ready, SegmentCount, playbackInterval(playbackMs, speed), t + Lag(c))
          = Cardinality(shown)
    BY <2>2, Zenon DEF ProjectedIndex
  <2>7. \A s \in Segs : consumed[s] = PlayedAt(s) + playbackMs + Lag(c)
    BY <2>1, ProjectionOf
  <2> HIDE DEF consumed
  <2>8. \A s \in Segs : t + Lag(c) >= consumed[s] <=> tracker["graphsync"][s] + playbackMs <= t
    <3> SUFFICES ASSUME NEW s \in Segs
                 PROVE  t + Lag(c) >= consumed[s] <=> tracker["graphsync"][s] + playbackMs <= t
      OBVIOUS
    <3>1. PICK p \in Nat, lag \in Nat, interval \in Nat :
            p = PlayedAt(s) /\ lag = Lag(c) /\ interval = playbackMs
      BY <2>3, <2>4
    <3>2. consumed[s] = p + interval + lag /\ tracker["graphsync"][s] = p
      BY <2>7, <3>1 DEF PlayedAt
    <3> QED BY <2>3, <3>1, <3>2
  <2>9. \A s \in Segs : \A j \in 0..s : j \in Segs
    <3>1. SegmentCount \in Nat
      BY <2>1, SegsType
    <3> QED BY <2>3, <3>1
  <2>10. shown = played
    BY <2>3, <2>5, <2>8, <2>9
  <2> QED BY <2>6, <2>10
<1> QED BY <1>1, <1>2, <1>3, MeasureInvHolds, PTL DEF Spec
=============================================================================

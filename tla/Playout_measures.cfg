SPECIFICATION Spec
SYMMETRY PeerSymmetry
CONSTANTS
  Files <- MCFiles
  ChunkSize = 2
  SegmentSize = 4
  BasePlaybackMs = 1
  Speeds = {1}
  IndexTimes = {1}
  Peers = {p1, p2}
  MaxTime = 5
  MaxLate = 1
INVARIANTS
  TypeOK
  SegmentsAreRanges
  VirtualSegmentsExact
  SameQoE
  ClockIsPlanAndStalls
  ProjectionIsPlayback
  ColoursAreTrue
CHECK_DEADLOCK FALSE

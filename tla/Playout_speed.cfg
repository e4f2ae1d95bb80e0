SPECIFICATION Spec
CONSTANTS
  Files <- OneFile
  ChunkSize = 4
  SegmentSize = 4
  BasePlaybackMs = 4
  Speeds = {2}
  IndexTimes = {0}
  Peers = {p1}
  MaxTime = 2
  MaxLate = 0
INVARIANT ProjectionIsPlayback
CHECK_DEADLOCK FALSE

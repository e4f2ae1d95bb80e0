SPECIFICATION FairSpec
CONSTANTS
  LastSegment = 2
  Workers = {w1, w2}
  Player = player
  PrefetchSegments = 1
  QueueCap = 1
  UrgentWindow = 1
  NoActor = NoActor
INVARIANTS
  TypeOK
  NoDoubleClose
  OneFlight
  NoLostWakeup
  CancelOnlyOvertaken
  OneRescuePerFlight
PROPERTIES
  PlaybackEnds
  RescuersEnd
  ImplementsPlayback
CHECK_DEADLOCK FALSE

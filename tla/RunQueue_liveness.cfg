SPECIFICATION FairSpec
CONSTANTS
  MaxRuns = 2
  ByHand = 0
  NPeers = 2
  Networks = {default, slow}
  Default = default
  DockerFails = FALSE
  MaxBatches = 1
  NItems = 1
  Repeat = 2
INVARIANT QuietNetworkIsDefault
PROPERTIES
  QueueCancelEnds
  CancelEndsRun
  OneRunAtATime
CHECK_DEADLOCK FALSE

SPECIFICATION FairSpec
CONSTANTS
  MaxRuns = 2
  ByHand = 0
  NPeers = 1
  Networks = {default}
  Default = default
  DockerFails = TRUE
  MaxBatches = 1
  NItems = 2
  Repeat = 1
PROPERTY StopStopsRun
CHECK_DEADLOCK FALSE

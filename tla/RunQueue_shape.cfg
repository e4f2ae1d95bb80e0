SPECIFICATION Spec
CONSTANTS
  MaxRuns = 2
  ByHand = 0
  NPeers = 1
  Networks = {default, slow}
  Default = default
  DockerFails = FALSE
  MaxBatches = 1
  NItems = 2
  Repeat = 1
INVARIANT RunsUnderItsNetwork
CHECK_DEADLOCK FALSE

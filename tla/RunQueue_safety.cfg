SPECIFICATION Spec
CONSTANTS
  MaxRuns = 2
  ByHand = 1
  NPeers = 1
  Networks = {default}
  Default = default
  DockerFails = FALSE
  MaxBatches = 2
  NItems = 2
  Repeat = 1
INVARIANTS
  TypeOK
  BatchSettled
CHECK_DEADLOCK FALSE

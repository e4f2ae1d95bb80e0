SPECIFICATION FairSpec
CONSTANTS
  p1 = p1
  p2 = p2
  Services <- MCServices
  Autos = {a1, a2}
  Requests = {s1}
  Updates = {u1}
  Runs = {r1}
  None = None
  Attempts = 2
  RecoveryChecks = 1
  MaxJobs = 2
  MaxFaults = 1
CHECK_DEADLOCK FALSE
INVARIANTS TypeOK PublishedIsWhole PeersFileIsComplete
PROPERTIES SeedIsServed ReadinessEnds RestartReseeds RunRevivesPeers

SPECIFICATION FairSpec
CONSTANTS
  MaxFlights = 2
  Rescues = {r1}
  Peers = {p1, p2}
  Blocks = 2
  MaxRaces = 1
  Fanout = 2
  None = None
INVARIANTS
  TypeOK
  AssignmentIsOwn
  CompleteCountsAll
PROPERTIES
  LosersNotBlamed
  RacesEnd

SPECIFICATION FairSpec
CONSTANTS
  Peers = {p1, p2}
  First = p1
  NoPeer = NoPeer
  Callers = {c1}
  Fanout = 1
  RaceFanout = 2
  MaxOthers = 1
INVARIANTS
  RequestsCounted
PROPERTIES
  SlotReturned

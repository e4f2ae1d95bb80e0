SPECIFICATION Spec
SYMMETRY Symmetry
CONSTANTS
  Peers = {p1, p2}
  First = p1
  NoPeer = NoPeer
  Callers = {c1, c2}
  Fanout = 2
  RaceFanout = 1
  MaxOthers = 0
INVARIANTS
  TypeOK
  DiscoveriesCounted
  FreshIsUsable
PROPERTIES
  QualifiedAlone

SPECIFICATION Spec
SYMMETRY Symmetry
CONSTANTS
  Peers = {p1, p2}
  First = p1
  NoPeer = NoPeer
  Callers = {c1, c2}
  Fanout = 1
  RaceFanout = 1
  MaxOthers = 0
INVARIANTS
  WithinFanout

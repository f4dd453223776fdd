SPECIFICATION Spec
CONSTANTS
  p1 = p1
  p2 = p2
  Partners = {p1, p2}
  MaxRelays = 2
  MaxRequests = 2
INVARIANTS
  WatchFitsBuffer
SYMMETRY Symmetry
CHECK_DEADLOCK FALSE

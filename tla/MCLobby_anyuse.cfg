SPECIFICATION Spec
CONSTANTS
  NoRoom = NoRoom
  RSA = RSA
  r1 = r1
  u1 = u1
  u2 = u2
  Users = {u1, u2}
  Rooms = {NoRoom, RSA, r1}
  Reserved = {RSA}
  DrawnRooms = {r1}
  Redraws = TRUE
  TypedRooms = {NoRoom, RSA, r1}
  Scores = {0}
  MaxPending = 2
  Offline = TRUE
  Quits = FALSE
PROPERTIES
  SeatsAreOnesOwn
  AbortsByNameOnly
CHECK_DEADLOCK FALSE
SYMMETRY Symmetry

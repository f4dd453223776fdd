SPECIFICATION Spec
CONSTANTS
  NoRoom = NoRoom
  r1 = r1
  r2 = r2
  u1 = u1
  u2 = u2
  u3 = u3
  Users = {u1, u2, u3}
  Rooms = {NoRoom, r1, r2}
  Reserved = {}
  DrawnRooms = {r1, r2}
  Redraws = FALSE
  TypedRooms = {}
  Scores = {0, 1}
  MaxPending = 2
  Offline = FALSE
  Quits = FALSE
INVARIANTS
  
  ScoresAgree
CHECK_DEADLOCK FALSE
SYMMETRY Symmetry

SPECIFICATION Spec
CONSTANTS
  NoRoom = NoRoom
  u1 = u1
  u2 = u2
  u3 = u3
  u4 = u4
  r1 = r1
  r2 = r2
  Users = {u1, u2, u3, u4}
  Rooms = {NoRoom, r1, r2}
  Reserved = {}
  DrawnRooms = {r1, r2}
  Redraws = FALSE
  Scores = {0}
  WorkerOf <- MCWorkerOf
  TypedRooms = {}
  MaxRequests = 1
INVARIANTS
  FullRoomsPlay
CHECK_DEADLOCK FALSE
SYMMETRY Symmetry

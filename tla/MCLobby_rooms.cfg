SPECIFICATION Spec
CONSTANTS
  NoRoom = NoRoom
  u1 = u1
  u2 = u2
  u3 = u3
  r1 = r1
  r2 = r2
  Users = {u1, u2, u3}
  Rooms = {NoRoom, r1, r2}
  Reserved = {}
  DrawnRooms = {r1, r2}
  Redraws = FALSE
  TypedRooms = {r1, r2}
  Scores = {0}
  MaxPending = 1
  Offline = FALSE
  Quits = TRUE
INVARIANTS
  TypeOK
  RoomClasses
  OneRoomPerPlayer
  WaitingRoomsAgree
  KnowsRoom
  LobbyInv
PROPERTIES
  HandsNeedThree
  AbortsByNameOnly
CHECK_DEADLOCK FALSE
SYMMETRY Symmetry

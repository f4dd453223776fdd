SPECIFICATION FairSpec
CONSTANTS
  Deck <- MCDeck
  Dealt <- MCDealt
  Bets = {0, 2, 3}
  MaxMoves = 9
  WorkerOf <- MCWorkerOf
  ByName <- MCByName
  Relock = {"returns", "hangs"}
INVARIANTS
  TypeOK
  LeavesNothing
PROPERTIES
  SameGame
CHECK_DEADLOCK FALSE

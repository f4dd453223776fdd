SPECIFICATION FairSpec
CONSTANTS
  p1 = p1
  p2 = p2
  Partners = {p1, p2}
  MaxRelays = 2
  MaxRequests = 2
INVARIANTS
  TypeOK
  TasksNoticed
  WatchFollows
PROPERTIES
  TasksRun
  Answered
CHECK_DEADLOCK FALSE

SPECIFICATION FairSpec
CONSTANTS
  Base = 3
  CopiesForward = TRUE
  Requests <- MCRequests
  Answers <- MCAnswers
  Key <- MCKey
  Capacity = 5
  Extra = 1
  MaxRequests = 2
INVARIANTS
  TypeOK
  ParsedInOrder
PROPERTIES
  AnswersArrive
  BytesInOrder
CHECK_DEADLOCK FALSE

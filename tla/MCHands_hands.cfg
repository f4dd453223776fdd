SPECIFICATION Spec
CONSTANTS
  Ranks = {6, 7, 8, 9, 10, 11, 12, 13, 14, 15}
  Compared = {9, 10, 11, 12, 14, 15}
  MaxFirst = 6
  MaxOther = 8
  Low = 6
  Wide = {6, 7, 8, 9, 10, 11}
  Deep = {7, 8, 11, 12}
  MaxMine = 12
INVARIANTS
  TypesFollowTheRules
  BeatingIsOneWay
  SizesMatch
  LeadsOneHand
  AnswersBeat
CHECK_DEADLOCK FALSE

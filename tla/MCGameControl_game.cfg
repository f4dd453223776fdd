SPECIFICATION Spec
CONSTANTS
  a = a
  b = b
  c = c
  d = d
  Suits = {a, b, c, d}
  NoSuit = NoSuit
  Deck <- MCDeck
  MaxHands = 2
  Bets = {0, 2, 3}
  MaxClicks = 1
  Restless = FALSE
INVARIANTS
  TypeOK
  OneMoveAtATime
  MoveOfCurrent
  CardsApart
  HighestBidderIsLord
  ZeroSum
PROPERTIES
  SidesWinTogether
  TakenOnlyByBeating
SYMMETRY Symmetry

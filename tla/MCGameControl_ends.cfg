SPECIFICATION FairSpec
CONSTANTS
  a = a
  b = b
  c = c
  d = d
  Suits = {a, b, c, d}
  NoSuit = NoSuit
  Deck <- MCDeck
  MaxHands = 1
  Bets = {0, 1, 2, 3}
  MaxClicks = 1
  Restless = FALSE
INVARIANTS
  HighestBidderIsLord
PROPERTIES
  HandEnds

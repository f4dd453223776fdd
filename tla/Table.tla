-------------------------------- MODULE Table --------------------------------
(***************************************************************************)
(* The state of one hand of Dou Dizhu as class GameControl and its three   *)
(* Players keep it (control/gamecontrol.cpp, player/player.cpp), and the   *)
(* methods that change it, as operators from a table to the table after    *)
(* the whole method.  GameControl adds the threads, timers and windows     *)
(* around them.                                                            *)
(***************************************************************************)
EXTENDS PlayHand

CONSTANTS
  Deck  \* the cards, records with a point and a suit

ASSUME TableAssumption ==
  /\ IsFiniteSet(Deck)
  /\ \A c \in Deck : c.point \in Points
  /\ Cardinality(Deck) >= 6
  /\ Cardinality(Deck) % 3 = 0

\* playerInit: the user is 1, the right robot 2 and the left robot 3, and they
\* play in that order.
Seats == 1..3

\* Mistake: the left robot has no next player.
NextOfNoRing(p) == p + 1

NextOf(p) == (p % 3) + 1

\* No player: a null pointer.
Nobody == 0

\* m_allCards keeps this many cards when the dealing ends.
Surplus == 3

Tables == [ status   : {"DispatchCard", "CallingLord", "PlayingHand"},
            cur      : Seats,
            hand     : [Seats -> SUBSET Deck],
            deck     : SUBSET Deck,
            pend     : Seats \cup {Nobody},
            pendHand : SUBSET Deck,
            role     : [Seats -> {"Lord", "Farmer"}],
            betBy    : Seats \cup {Nobody},
            bet      : 0..3,
            times    : 0..2,
            curBet   : Nat,
            score    : [Seats -> Int],
            win      : [Seats -> BOOLEAN] ]

\* classify and judgeCardType of a set of cards.
Judge ==
  [h \in SUBSET Deck |-> HandOf([p \in Points |-> Cardinality({ c \in h : c.point = p })])]

\* Mistake: the hands of the last game stay on the table.
DispatchKeepsPending(g) ==
  [g EXCEPT !.status = "DispatchCard", !.deck = Deck, !.hand = [p \in Seats |-> {}]]

\* startDispatchCard and resetCardData. The players' own copies of the pending
\* hand are set and cleared together with the table's and left out.
Dispatch(g) ==
  [g EXCEPT !.status = "DispatchCard",
            !.deck = Deck,
            !.hand = [p \in Seats |-> {}],
            !.pend = Nobody,
            !.pendHand = {}]

\* onDispatchCard: one card for the current player; three left end the dealing.
DealOne(g, c) ==
  [g EXCEPT !.deck = @ \ {c},
            !.hand[g.cur] = @ \cup {c},
            !.cur = NextOf(g.cur),
            !.status = IF Cardinality(g.deck) - 1 = Surplus THEN "CallingLord" ELSE @]

\* Mistake: the record of the bids is not reset.
BecomeLordKeepsRecord(g, p, b) ==
  [g EXCEPT !.curBet = b,
            !.role = [q \in Seats |-> IF q = p THEN "Lord" ELSE "Farmer"],
            !.cur = p,
            !.hand[p] = @ \cup g.deck]

\* becomeLord and the reset of m_betRecord; m_allCards keeps the three cards.
BecomeLord(g, p, b) ==
  [g EXCEPT !.curBet = b,
            !.role = [q \in Seats |-> IF q = p THEN "Lord" ELSE "Farmer"],
            !.cur = p,
            !.hand[p] = @ \cup g.deck,
            !.betBy = Nobody,
            !.bet = 0,
            !.times = 0]

\* Mistake: of equal bids the last one counts.
RecordedLast(g, p, b) ==
  [g EXCEPT !.betBy = IF g.bet <= b THEN p ELSE @,
            !.bet = IF g.bet <= b THEN b ELSE @]

\* The bid as m_betRecord takes it: the highest, and the first of equal ones.
Recorded(g, p, b) ==
  [g EXCEPT !.betBy = IF g.bet < b THEN p ELSE @,
            !.bet = IF g.bet < b THEN b ELSE @]

\* onGrabBet: three points end the bidding, so does the third bid; after three
\* zeroes the record is reset and the cards are dealt again.
EndsBidding(g, b) == b = 3 \/ g.times = 2
Redeals(g, b) == b = 0 /\ g.times = 2 /\ g.bet = 0

AfterBet(g, p, b) ==
  LET r == Recorded(g, p, b)
  IN  IF b = 3 THEN BecomeLord(g, p, 3)
      ELSE IF Redeals(g, b) THEN [r EXCEPT !.betBy = Nobody, !.times = 0]
      ELSE IF g.times = 2 THEN BecomeLord(r, r.betBy, r.bet)
      ELSE [r EXCEPT !.times = @ + 1, !.cur = NextOf(p)]

-----------------------------------------------------------------------------
\* Mistake: the cards stay in the hand.
ShowFromHand(g, p, h) == g

\* Player::playHand: the cards leave the player's hand before anyone is told.
TakeFromHand(g, p, h) == [g EXCEPT !.hand[p] = @ \ h]

Lords(g) == { p \in Seats : g.role[p] = "Lord" }

\* What winning is worth to each player: the lord wins or loses twice.
Worth(g, p, q) ==
  LET side == IF g.role[p] = g.role[q] THEN 1 ELSE -1
  IN  side * (IF g.role[q] = "Lord" THEN 2 ELSE 1) * g.curBet

\* Mistake: a farmer wins alone.
SettleAlone(g, p) ==
  [g EXCEPT !.score = [ q \in Seats |-> @[q] + Worth(g, p, q) ],
            !.win = [ q \in Seats |-> q = p ],
            !.cur = p]

\* Mistake: a farmer only settles with the lord.
SettleOnlyTwo(g, p) ==
  [g EXCEPT !.score = [ q \in Seats |-> IF q = p \/ q \in Lords(g)
                                        THEN @[q] + Worth(g, p, q) ELSE @[q] ],
            !.win = [ q \in Seats |-> g.role[q] = g.role[p] ],
            !.cur = p]

\* onPlayHand from "no cards left", and the Winning case of onPlayerStatusChanged:
\* the scores are settled and the winner is the current player.
Settle(g, p) ==
  [g EXCEPT !.score = [ q \in Seats |-> @[q] + Worth(g, p, q) ],
            !.win = [ q \in Seats |-> g.role[q] = g.role[p] ],
            !.cur = p]

\* Mistake: passing hands the right to lead on.
PendingEvenPass(g, p, h) == [g EXCEPT !.pend = p, !.pendHand = h]

\* A hand that is no pass becomes the one to beat.
Pending(g, p, h) ==
  [g EXCEPT !.pend = IF h = {} THEN @ ELSE p,
            !.pendHand = IF h = {} THEN @ ELSE h]

Doubles(h) == Judge[h].type \in {"Bomb", "Bomb_Jokers"}

WinsWith(g, p) == g.hand[p] = {}

AfterHand(g, p, h) ==
  LET r == [Pending(g, p, h) EXCEPT !.curBet = IF Doubles(h) THEN 2 * @ ELSE @]
  IN  IF WinsWith(r, p) THEN Settle(r, p) ELSE [r EXCEPT !.cur = NextOf(p)]
=============================================================================

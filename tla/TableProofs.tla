----------------------------- MODULE TableProofs -----------------------------
(***************************************************************************)
(* What the methods of a table do to its types, cards, scores and turn:    *)
(* the lemmas that the proofs about one table and about three share.       *)
(***************************************************************************)
EXTENDS Table, FiniteSetTheorems, SequenceTheorems, TLAPS

\* One player is the lord and the others are farmers.
OneLord(t) ==
  \E l \in Seats : t.role = [q \in Seats |-> IF q = l THEN "Lord" ELSE "Farmer"]

\* The best bid has a bidder.
BetHasBidder(t) == t.bet > 0 => t.betBy \in Seats

Total(t) == t.score[1] + t.score[2] + t.score[3]

\* A fresh deal is a table with every card undealt.
LEMMA DispatchFacts ==
  ASSUME NEW t \in Tables
  PROVE  /\ Dispatch(t) \in Tables
         /\ Dispatch(t) = [t EXCEPT !.status = "DispatchCard", !.deck = Deck,
                                    !.hand = [p \in Seats |-> {}],
                                    !.pend = Nobody, !.pendHand = {}]
BY DEF Dispatch, Tables, Seats, Nobody

\* A dealt card leaves a table.
LEMMA DealOneType ==
  ASSUME NEW t \in Tables, NEW c \in t.deck
  PROVE  DealOne(t, c) \in Tables
<1>1. t.deck \in SUBSET Deck /\ t.hand \in [Seats -> SUBSET Deck] /\ t.cur \in Seats
  BY DEF Tables
<1>2. NextOf(t.cur) \in Seats
  BY <1>1 DEF NextOf, Seats
<1>3. [t.hand EXCEPT ![t.cur] = @ \cup {c}] \in [Seats -> SUBSET Deck]
  BY <1>1
<1> QED
  BY <1>1, <1>2, <1>3 DEF DealOne, Tables

\* The lord's table has one lord.
LEMMA BecomeLordFacts ==
  ASSUME NEW t \in Tables, NEW p \in Seats, NEW b \in 0..3
  PROVE  /\ BecomeLord(t, p, b) \in Tables
         /\ OneLord(BecomeLord(t, p, b))
         /\ BetHasBidder(BecomeLord(t, p, b))
<1>1. [t.hand EXCEPT ![p] = @ \cup t.deck] \in [Seats -> SUBSET Deck]
  BY DEF Tables
<1>2. BecomeLord(t, p, b) \in Tables
  <2> DEFINE roles == [q \in Seats |-> IF q = p THEN "Lord" ELSE "Farmer"]
             given == [t.hand EXCEPT ![p] = @ \cup t.deck]
  <2>1. roles \in [Seats -> {"Lord", "Farmer"}]
    OBVIOUS
  <2>2. Nobody \in Seats \cup {Nobody} /\ 0 \in 0..3 /\ 0 \in 0..2 /\ b \in Nat
    BY DEF Nobody
  <2>3. given \in [Seats -> SUBSET Deck]
    BY <1>1
  <2>4. [t EXCEPT !.curBet = b, !.role = roles, !.cur = p, !.hand = given,
                  !.betBy = Nobody, !.bet = 0, !.times = 0] \in Tables
    <3> HIDE DEF roles, given
    <3> QED
      BY <2>1, <2>2, <2>3, Zenon DEF Tables
  <2>5. BecomeLord(t, p, b) =
          [t EXCEPT !.curBet = b, !.role = roles, !.cur = p, !.hand = given,
                    !.betBy = Nobody, !.bet = 0, !.times = 0]
    BY DEF BecomeLord, Tables
  <2> QED
    BY <2>4, <2>5
<1>3. OneLord(BecomeLord(t, p, b))
  BY DEF BecomeLord, OneLord, Tables
<1>4. BetHasBidder(BecomeLord(t, p, b))
  BY DEF BecomeLord, BetHasBidder, Tables
<1> QED
  BY <1>2, <1>3, <1>4

\* A bid leaves a table whose best bid has a bidder, and all cards in their hands; it
\* ends the bidding with one lord, or leaves the roles alone.
LEMMA AfterBetFacts ==
  ASSUME NEW t \in Tables, BetHasBidder(t), NEW p \in Seats, NEW b \in 0..3
  PROVE  /\ AfterBet(t, p, b) \in Tables
         /\ BetHasBidder(AfterBet(t, p, b))
         /\ AfterBet(t, p, b).score = t.score
         /\ AfterBet(t, p, b).status = t.status
         /\ \A q \in Seats : t.hand[q] \subseteq AfterBet(t, p, b).hand[q]
         /\ Redeals(t, b) => AfterBet(t, p, b).role = t.role
         /\ ~Redeals(t, b) /\ EndsBidding(t, b) => OneLord(AfterBet(t, p, b))
         /\ ~EndsBidding(t, b) => /\ AfterBet(t, p, b).role = t.role
                                  /\ AfterBet(t, p, b).cur = NextOf(p)
<1> DEFINE r == Recorded(t, p, b)
<1>1. r \in Tables /\ BetHasBidder(r)
  BY DEF Recorded, Tables, BetHasBidder
<1>2. /\ r.score = t.score /\ r.status = t.status /\ r.role = t.role /\ r.hand = t.hand
      /\ r.times = t.times /\ r.deck = t.deck
  BY DEF Recorded, Tables
<1>3. CASE b = 3
  <2>1. AfterBet(t, p, b) = BecomeLord(t, p, 3) /\ ~Redeals(t, b) /\ EndsBidding(t, b)
    BY <1>3 DEF AfterBet, Redeals, EndsBidding
  <2>2. /\ BecomeLord(t, p, 3) \in Tables
        /\ OneLord(BecomeLord(t, p, 3))
        /\ BetHasBidder(BecomeLord(t, p, 3))
    BY BecomeLordFacts
  <2>3. /\ BecomeLord(t, p, 3).score = t.score /\ BecomeLord(t, p, 3).status = t.status
        /\ \A q \in Seats : t.hand[q] \subseteq BecomeLord(t, p, 3).hand[q]
    BY DEF BecomeLord, Tables
  <2> QED
    BY <2>1, <2>2, <2>3
<1>4. CASE Redeals(t, b)
  <2> DEFINE f == [r EXCEPT !.betBy = Nobody, !.times = 0]
  <2>1. EndsBidding(t, b) /\ AfterBet(t, p, b) = f
    BY <1>4 DEF AfterBet, Redeals, EndsBidding
  <2>2. r.bet = 0
    BY <1>4 DEF Recorded, Redeals, Tables
  <2>3. f \in Tables
    <3>1. Nobody \in Seats \cup {Nobody} /\ 0 \in 0..2
      OBVIOUS
    <3> HIDE DEF r
    <3> QED
      BY <1>1, <3>1, Zenon DEF Tables
  <2>4. /\ f.score = r.score /\ f.role = r.role /\ f.status = r.status
        /\ f.hand = r.hand /\ f.bet = 0
    BY <1>1, <2>2 DEF Tables
  <2> HIDE DEF r, f
  <2> QED
    BY <1>2, <1>4, <2>1, <2>3, <2>4 DEF BetHasBidder
<1>5. CASE b # 3 /\ ~Redeals(t, b) /\ t.times = 2
  <2>1. AfterBet(t, p, b) = BecomeLord(r, r.betBy, r.bet) /\ EndsBidding(t, b)
    BY <1>5 DEF AfterBet, EndsBidding
  <2>2. r.bet > 0
    BY <1>5 DEF Recorded, Redeals, Tables
  <2>3. r.betBy \in Seats /\ r.bet \in 0..3
    BY <1>1, <2>2 DEF BetHasBidder, Tables
  <2>4. /\ BecomeLord(r, r.betBy, r.bet) \in Tables
        /\ OneLord(BecomeLord(r, r.betBy, r.bet))
        /\ BetHasBidder(BecomeLord(r, r.betBy, r.bet))
    BY <1>1, <2>3, BecomeLordFacts
  <2>5. /\ BecomeLord(r, r.betBy, r.bet).score = r.score
        /\ BecomeLord(r, r.betBy, r.bet).status = r.status
        /\ \A q \in Seats : r.hand[q] \subseteq BecomeLord(r, r.betBy, r.bet).hand[q]
    BY <1>1, <2>3 DEF BecomeLord, Tables
  <2> HIDE DEF r
  <2> QED
    BY <1>2, <1>5, <2>1, <2>4, <2>5
<1>6. CASE b # 3 /\ ~Redeals(t, b) /\ t.times # 2
  <2>1. /\ AfterBet(t, p, b) = [r EXCEPT !.times = @ + 1, !.cur = NextOf(p)]
        /\ ~EndsBidding(t, b)
    BY <1>6 DEF AfterBet, EndsBidding
  <2>2. NextOf(p) \in Seats
    BY DEF NextOf, Seats
  <2>3. t.times + 1 \in 0..2
    BY <1>6 DEF Tables
  <2> DEFINE n == [r EXCEPT !.times = @ + 1, !.cur = NextOf(p)]
  <2>4. n = [r EXCEPT !.times = t.times + 1, !.cur = NextOf(p)]
    BY <1>2
  <2> HIDE DEF r
  <2>5. [r EXCEPT !.times = t.times + 1, !.cur = NextOf(p)] \in Tables
    BY <1>1, <2>2, <2>3, Zenon DEF Tables
  <2>6. /\ n.score = r.score /\ n.status = r.status /\ n.hand = r.hand /\ n.role = r.role
        /\ n.bet = r.bet /\ n.betBy = r.betBy /\ n.cur = NextOf(p)
    BY <1>1 DEF Tables
  <2> QED
    BY <1>1, <1>2, <1>6, <2>1, <2>4, <2>5, <2>6 DEF BetHasBidder
<1> QED
  BY <1>3, <1>4, <1>5, <1>6 DEF Redeals, EndsBidding, Tables

\* Cards leave a hand, and nothing else changes.
LEMMA TakeFromHandFacts ==
  ASSUME NEW t \in Tables, NEW p \in Seats, NEW h \in SUBSET Deck
  PROVE  /\ TakeFromHand(t, p, h) \in Tables
         /\ TakeFromHand(t, p, h) = [t EXCEPT !.hand[p] = @ \ h]
<1>1. [t.hand EXCEPT ![p] = @ \ h] \in [Seats -> SUBSET Deck]
  BY DEF Tables
<1> QED
  BY <1>1 DEF TakeFromHand, Tables

\* With one lord, what the players win and lose adds up to nothing.
LEMMA WorthAddsUp ==
  ASSUME NEW t \in Tables, OneLord(t), NEW p \in Seats
  PROVE  /\ \A q \in Seats : Worth(t, p, q) \in Int
         /\ Worth(t, p, 1) + Worth(t, p, 2) + Worth(t, p, 3) = 0
<1>1. t.curBet \in Nat
  BY DEF Tables
<1>2. PICK l \in Seats : t.role = [q \in Seats |-> IF q = l THEN "Lord" ELSE "Farmer"]
  BY DEF OneLord
<1>3. \A q \in Seats : t.role[q] = IF q = l THEN "Lord" ELSE "Farmer"
  BY <1>2
<1>4. \A q \in Seats :
        Worth(t, p, q) = IF q = l THEN IF p = l THEN 2 * t.curBet ELSE -2 * t.curBet
                         ELSE IF p = l THEN -t.curBet ELSE t.curBet
  BY <1>1, <1>3 DEF Worth
<1> QED
  BY <1>1, <1>4 DEF Seats

\* Settling keeps the total and makes the winner the current player.
LEMMA SettleFacts ==
  ASSUME NEW t \in Tables, OneLord(t), NEW p \in Seats
  PROVE  /\ Settle(t, p) \in Tables
         /\ Total(Settle(t, p)) = Total(t)
         /\ Settle(t, p).cur = p
<1> DEFINE points == [q \in Seats |-> t.score[q] + Worth(t, p, q)]
           wins == [q \in Seats |-> t.role[q] = t.role[p]]
<1>1. t.score \in [Seats -> Int]
  BY DEF Tables
<1>2. points \in [Seats -> Int] /\ wins \in [Seats -> BOOLEAN]
  BY <1>1, WorthAddsUp
<1>3. Settle(t, p) = [t EXCEPT !.score = points, !.win = wins, !.cur = p]
  BY DEF Settle, Tables
<1>4. [t EXCEPT !.score = points, !.win = wins, !.cur = p] \in Tables
  <2> HIDE DEF points, wins
  <2> QED
    BY <1>2, Zenon DEF Tables
<1>5. Settle(t, p).score = points /\ Settle(t, p).cur = p
  BY DEF Settle, Tables
<1>6. points[1] + points[2] + points[3] = t.score[1] + t.score[2] + t.score[3]
  <2>1. 1 \in Seats /\ 2 \in Seats /\ 3 \in Seats
    BY DEF Seats
  <2>2. \A q \in Seats : points[q] = t.score[q] + Worth(t, p, q)
    OBVIOUS
  <2>3. \A q \in Seats : Worth(t, p, q) \in Int
    BY WorthAddsUp
  <2>4. Worth(t, p, 1) + Worth(t, p, 2) + Worth(t, p, 3) = 0
    BY WorthAddsUp
  <2> HIDE DEF points
  <2> QED
    BY <1>1, <2>1, <2>2, <2>3, <2>4
<1> QED
  BY <1>3, <1>4, <1>5, <1>6 DEF Total

\* Showing a hand leaves a table with the same cards, roles and total; it ends the
\* game or moves on to the next player.
LEMMA AfterHandFacts ==
  ASSUME NEW t \in Tables, OneLord(t), NEW p \in Seats, NEW h \in SUBSET Deck
  PROVE  LET r == AfterHand(t, p, h)
         IN  /\ r \in Tables
             /\ Total(r) = Total(t)
             /\ r.status = t.status /\ r.hand = t.hand /\ r.deck = t.deck
             /\ r.role = t.role /\ r.bet = t.bet /\ r.betBy = t.betBy
             /\ h # {} => r.pend = p /\ r.pendHand = h
             /\ h = {} => r.pend = t.pend /\ r.pendHand = t.pendHand
             /\ r.cur = IF WinsWith(t, p) THEN p ELSE NextOf(p)
<1> DEFINE u == [Pending(t, p, h) EXCEPT !.curBet = IF Doubles(h) THEN 2 * @ ELSE @]
<1>1. Pending(t, p, h) \in Tables
  BY DEF Pending, Tables
<1>2. u \in Tables
  BY <1>1 DEF Tables
<1>3. /\ u.status = t.status /\ u.hand = t.hand /\ u.deck = t.deck /\ u.role = t.role
      /\ u.bet = t.bet /\ u.betBy = t.betBy /\ u.score = t.score
      /\ h # {} => u.pend = p /\ u.pendHand = h
      /\ h = {} => u.pend = t.pend /\ u.pendHand = t.pendHand
  BY DEF Pending, Tables
<1>4. OneLord(u) /\ Total(u) = Total(t) /\ WinsWith(u, p) = WinsWith(t, p)
  <2> HIDE DEF u
  <2> QED
    BY <1>3 DEF OneLord, Total, WinsWith
<1>5. AfterHand(t, p, h) = IF WinsWith(u, p) THEN Settle(u, p)
                           ELSE [u EXCEPT !.cur = NextOf(p)]
  BY DEF AfterHand
<1> HIDE DEF u
<1>6. CASE WinsWith(t, p)
  <2>1. /\ Settle(u, p) \in Tables
        /\ Total(Settle(u, p)) = Total(u)
        /\ Settle(u, p).cur = p
    BY <1>2, <1>4, SettleFacts
  <2>2. /\ Settle(u, p).status = u.status /\ Settle(u, p).hand = u.hand
        /\ Settle(u, p).deck = u.deck /\ Settle(u, p).role = u.role
        /\ Settle(u, p).bet = u.bet /\ Settle(u, p).betBy = u.betBy
        /\ Settle(u, p).pend = u.pend /\ Settle(u, p).pendHand = u.pendHand
    BY <1>2 DEF Settle, Tables
  <2> QED
    BY <1>3, <1>4, <1>5, <1>6, <2>1, <2>2
<1>7. CASE ~WinsWith(t, p)
  <2> DEFINE v == [u EXCEPT !.cur = NextOf(p)]
  <2>1. NextOf(p) \in Seats
    BY DEF NextOf, Seats
  <2>2. v \in Tables
    BY <1>2, <2>1, Zenon DEF Tables
  <2>3. /\ v.status = u.status /\ v.hand = u.hand /\ v.deck = u.deck /\ v.role = u.role
        /\ v.bet = u.bet /\ v.betBy = u.betBy /\ v.score = u.score
        /\ v.pend = u.pend /\ v.pendHand = u.pendHand /\ v.cur = NextOf(p)
    BY <1>2 DEF Tables
  <2>4. Total(v) = Total(u)
    BY <2>3 DEF Total
  <2> HIDE DEF v
  <2> QED
    BY <1>3, <1>4, <1>5, <1>7, <2>2, <2>3, <2>4 DEF v
<1> QED
  BY <1>6, <1>7
=============================================================================

----------------------------- MODULE NetGameProofs -----------------------------
(***************************************************************************)
(* The network game, for every deck, deal, number of moves and order of    *)
(* the players' names: its types, that the three tables go through the     *)
(* same moves (module Moves) and that a settled hand leaves nothing behind,*)
(* when one worker relays for the three or the mutex that is locked twice  *)
(* is not granted twice.                                                   *)
(*                                                                         *)
(* The robots of a table are told what was played and not who played it.   *)
(* That they ascribe it to the right player follows from an invariant that *)
(* relates each table to the moves it has seen, and what is under way to   *)
(* it to the moves it has yet to see (History).                            *)
(***************************************************************************)
EXTENDS NetGame, TableProofs

-----------------------------------------------------------------------------
(* Who sits where *)

\* At every table the players sit in the order in which they bid, and the user of a
\* client sits at the first seat of its own table.
LEMMA Seating ==
  ASSUME NEW c \in Clients
  PROVE  /\ \A d \in Clients : /\ SeatOf(c, d) \in Seats
                               /\ ClientAt(c, SeatOf(c, d)) = d
                               /\ NextOf(SeatOf(c, d)) = SeatOf(c, NextOf(d))
                               /\ NextOf(d) \in Clients
                               /\ SeatOf(c, d) = User <=> d = c
                               /\ SeatOf(c, d) \in Robots <=> d # c
         /\ \A p \in Seats : /\ ClientAt(c, p) \in Clients
                             /\ SeatOf(c, ClientAt(c, p)) = p
<1>1. c = 1 \/ c = 2 \/ c = 3
  BY DEF Clients
<1>2. \A d \in Clients : d = 1 \/ d = 2 \/ d = 3
  BY DEF Clients
<1>3. \A p \in Seats : p = 1 \/ p = 2 \/ p = 3
  BY DEF Seats
<1> QED
  BY <1>1, <1>2, <1>3 DEF SeatOf, ClientAt, NextOf, Seats, Clients, User, Robots

\* Cards dealt in turn are dealt to the same players at every table.
LEMMA SameTurns ==
  ASSUME NEW c \in Clients, NEW d \in Clients, NEW e \in Clients
  PROVE  (SeatOf(c, e) - SeatOf(c, d) + 3) % 3 = (e - d + 3) % 3
<1>1. /\ c = 1 \/ c = 2 \/ c = 3
      /\ d = 1 \/ d = 2 \/ d = 3
      /\ e = 1 \/ e = 2 \/ e = 3
  BY DEF Clients
<1> QED
  BY <1>1 DEF SeatOf

\* The partners of a player are the two others, each once.
LEMMA PartnersFacts ==
  ASSUME NEW c \in Clients
  PROVE  /\ Partners(c) \in Seq(Clients)
         /\ \A i \in DOMAIN Partners(c) : Partners(c)[i] # c
         /\ \A d \in Clients : d # c => \E i \in DOMAIN Partners(c) : Partners(c)[i] = d
         /\ \A i, j \in DOMAIN Partners(c) : Partners(c)[i] = Partners(c)[j] => i = j
<1> DEFINE self == CHOOSE i \in DOMAIN ByName : ByName[i] = c
           s == [i \in 1..2 |-> IF i < self THEN ByName[i] ELSE ByName[i + 1]]
<1>1. ByName \in Seq(Clients) /\ Len(ByName) = 3 /\ DOMAIN ByName = 1..3
  BY NetGameAssumption, LenProperties
<1>2. \A d \in Clients : \E i \in 1..3 : ByName[i] = d
  BY <1>1, NetGameAssumption DEF Seqs!ToSet
<1>3. self \in 1..3 /\ ByName[self] = c
  BY <1>1, <1>2
<1> HIDE DEF self
<1>4. ByName[1] \in Clients /\ ByName[2] \in Clients /\ ByName[3] \in Clients
  <2>1. \A n \in 1..Len(ByName) : ByName[n] \in Clients
    BY <1>1, ElementOfSeq
  <2> QED
    BY <1>1, <2>1
<1>5. \A i, j \in 1..3 : ByName[i] = ByName[j] => i = j
  <2>1. (\E i \in 1..3 : ByName[i] = 1) /\ (\E i \in 1..3 : ByName[i] = 2)
        /\ (\E i \in 1..3 : ByName[i] = 3)
    BY <1>2 DEF Clients
  <2> QED
    BY <1>4, <2>1 DEF Clients
<1>6. Partners(c) = s
  <2>1. Partners(c) = SubSeq(ByName, 1, self - 1) \o SubSeq(ByName, self + 1, Len(ByName))
    BY DEF Partners, Seqs!RemoveAt, self
  <2>2. CASE self = 1
    BY <1>1, <2>1, <2>2
  <2>3. CASE self = 2
    BY <1>1, <2>1, <2>3
  <2>4. CASE self = 3
    BY <1>1, <2>1, <2>4
  <2> QED
    BY <1>3, <2>2, <2>3, <2>4
<1>7. s \in Seq(Clients) /\ DOMAIN s = 1..2
  BY <1>1, <1>3, <1>4
<1>8. \A i \in 1..2 : s[i] # c
  BY <1>3, <1>5
<1>9. \A d \in Clients : d # c => \E i \in 1..2 : s[i] = d
  <2> SUFFICES ASSUME NEW d \in Clients, d # c PROVE \E i \in 1..2 : s[i] = d
    OBVIOUS
  <2>1. PICK k \in 1..3 : ByName[k] = d
    BY <1>2
  <2>2. k # self
    BY <1>3, <2>1
  <2>3. CASE k < self
    <3>1. k \in 1..2
      BY <1>3, <2>3
    <3> QED
      BY <2>1, <2>3, <3>1
  <2>4. CASE k > self
    <3>1. k - 1 \in 1..2 /\ ~(k - 1 < self)
      BY <1>3, <2>4
    <3> QED
      BY <2>1, <3>1
  <2> QED
    BY <1>3, <2>2, <2>3, <2>4
<1>10. \A i, j \in 1..2 : s[i] = s[j] => i = j
  BY <1>3, <1>5
<1> HIDE DEF s
<1> QED
  BY <1>6, <1>7, <1>8, <1>9, <1>10

-----------------------------------------------------------------------------
(* Types *)

\* A bid or hand of which the record has the types leaves a table, with or without a
\* lord; the player who made it need not be the current one.
LEMMA AfterHandType ==
  ASSUME NEW t \in Tables, NEW p \in Seats, NEW h \in SUBSET Deck
  PROVE  /\ AfterHand(t, p, h) \in Tables
         /\ AfterHand(t, p, h).hand = t.hand
         /\ AfterHand(t, p, h).status = t.status
         /\ AfterHand(t, p, h).deck = t.deck
         /\ AfterHand(t, p, h).times = t.times
         /\ AfterHand(t, p, h).bet = t.bet
         /\ AfterHand(t, p, h).betBy = t.betBy
         /\ AfterHand(t, p, h).cur = IF WinsWith(t, p) THEN p ELSE NextOf(p)
<1> DEFINE u == [Pending(t, p, h) EXCEPT !.curBet = IF Doubles(h) THEN 2 * @ ELSE @]
<1>1. Pending(t, p, h) \in Tables
  BY DEF Pending, Tables
<1>2. u \in Tables
  BY <1>1 DEF Tables
<1>3. /\ u.status = t.status /\ u.hand = t.hand /\ u.deck = t.deck
      /\ u.bet = t.bet /\ u.betBy = t.betBy /\ u.times = t.times
  BY DEF Pending, Tables
<1>4. AfterHand(t, p, h) = IF WinsWith(u, p) THEN Settle(u, p)
                           ELSE [u EXCEPT !.cur = NextOf(p)]
  BY DEF AfterHand
<1> HIDE DEF u
<1>5. WinsWith(u, p) = WinsWith(t, p)
  BY <1>3 DEF WinsWith
<1>6. CASE WinsWith(t, p)
  <2> DEFINE points == [q \in Seats |-> u.score[q] + Worth(u, p, q)]
             wins == [q \in Seats |-> u.role[q] = u.role[p]]
  <2>1. u.score \in [Seats -> Int] /\ u.curBet \in Nat
    BY <1>2 DEF Tables
  <2>2. \A q \in Seats : Worth(u, p, q) \in Int
    BY <2>1 DEF Worth
  <2>3. points \in [Seats -> Int] /\ wins \in [Seats -> BOOLEAN]
    BY <2>1, <2>2
  <2>4. Settle(u, p) = [u EXCEPT !.score = points, !.win = wins, !.cur = p]
    BY <1>2 DEF Settle, Tables
  <2> HIDE DEF points, wins
  <2>5. [u EXCEPT !.score = points, !.win = wins, !.cur = p] \in Tables
    BY <1>2, <2>3, Zenon DEF Tables
  <2>6. /\ Settle(u, p).status = u.status /\ Settle(u, p).hand = u.hand
        /\ Settle(u, p).deck = u.deck /\ Settle(u, p).times = u.times
        /\ Settle(u, p).bet = u.bet /\ Settle(u, p).betBy = u.betBy
        /\ Settle(u, p).cur = p
    BY <1>2 DEF Settle, Tables
  <2> QED
    BY <1>3, <1>4, <1>5, <1>6, <2>4, <2>5, <2>6
<1>7. CASE ~WinsWith(t, p)
  <2> DEFINE v == [u EXCEPT !.cur = NextOf(p)]
  <2>1. NextOf(p) \in Seats
    BY DEF NextOf, Seats
  <2>2. v \in Tables
    BY <1>2, <2>1, Zenon DEF Tables
  <2>3. /\ v.status = u.status /\ v.hand = u.hand /\ v.deck = u.deck
        /\ v.bet = u.bet /\ v.betBy = u.betBy /\ v.times = u.times
        /\ v.cur = NextOf(p)
    BY <1>2 DEF Tables
  <2> HIDE DEF v
  <2> QED
    BY <1>3, <1>4, <1>5, <1>7, <2>2, <2>3 DEF v
<1> QED
  BY <1>6, <1>7

\* Dealing out leaves a table that goes on with the player it began with.
LEMMA DealtOutFacts ==
  ASSUME NEW t \in Tables
  PROVE  LET r == DealtOut(Dispatch(t))
         IN  /\ r \in Tables
             /\ r.status = "CallingLord" /\ r.deck = LordsCards
             /\ r.hand = [p \in Seats |-> Batch((p - t.cur + 3) % 3)]
             /\ r.cur = t.cur /\ r.times = t.times /\ r.bet = t.bet /\ r.betBy = t.betBy
<1>1. \A i \in 1..Len(Dealt) : Dealt[i] \in Deck
  BY NetGameAssumption, ElementOfSeq
<1>2. Len(Dealt) \in Nat
  BY NetGameAssumption, LenProperties
<1>3. LordsCards \in SUBSET Deck
  <2>1. Len(Dealt) >= 6
    BY NetGameAssumption, TableAssumption
  <2> QED
    BY <1>1, <1>2, <2>1 DEF LordsCards, Surplus
<1>4. \A k \in Int : Batch(k) \in SUBSET Deck
  BY <1>1, <1>2 DEF Batch, Surplus
<1> DEFINE s == Dispatch(t)
<1>5. /\ s \in Tables /\ s.cur = t.cur /\ s.times = t.times /\ s.bet = t.bet
      /\ s.betBy = t.betBy
  BY DispatchFacts DEF Dispatch, Tables
<1> HIDE DEF s
<1> DEFINE hands == [p \in Seats |-> Batch((p - s.cur + 3) % 3)]
<1>6. hands \in [Seats -> SUBSET Deck]
  <2>1. \A p \in Seats : (p - s.cur + 3) % 3 \in Int
    BY <1>5 DEF Tables, Seats
  <2> QED
    BY <1>4, <2>1
<1>7. DealtOut(s) = [s EXCEPT !.hand = hands, !.deck = LordsCards, !.status = "CallingLord"]
  BY DEF DealtOut
<1>8. hands = [p \in Seats |-> Batch((p - t.cur + 3) % 3)]
  BY <1>5
<1> HIDE DEF hands
<1>9. DealtOut(s) \in Tables
  BY <1>3, <1>5, <1>6, <1>7 DEF Tables
<1>10. /\ DealtOut(s).status = "CallingLord" /\ DealtOut(s).deck = LordsCards
       /\ DealtOut(s).hand = hands /\ DealtOut(s).cur = s.cur
       /\ DealtOut(s).times = s.times /\ DealtOut(s).bet = s.bet
       /\ DealtOut(s).betBy = s.betBy
  BY <1>5, <1>7 DEF Tables
<1> QED
  BY <1>5, <1>8, <1>9, <1>10 DEF s

\* The bids and hands of Bets and Deck have the types of tasks and moves.
LEMMA TaskTypes ==
  /\ Bets \subseteq 0..3 /\ 0 \in Bets
  /\ \A b \in Bets : BetOf(b) \in Task
  /\ \A h \in SUBSET Deck : CardsOf(h) \in Task
BY NetGameAssumption DEF BetOf, CardsOf, Task

\* The inductive invariant: the best bid of a table has a bidder, who becomes the lord.
TypeInv == TypeOK /\ \A c \in Clients : BetHasBidder(g[c])

\* What a table's handlers change.
TableTypes ==
  /\ g \in [Clients -> Tables]
  /\ \A c \in Clients : BetHasBidder(g[c])
  /\ dealing \in [Clients -> BOOLEAN]
  /\ lordDue \in [Clients -> BOOLEAN]
  /\ tasks \in [Clients -> Seq([seat : Robots, kind : {"Bet", "Play"}])]
  /\ over \in [Clients -> BOOLEAN]
  /\ seen \in [Clients -> Seq(Move)]

\* Whoever is asked, what the robots were asked keeps its type.
LEMMA AskedType ==
  ASSUME tasks \in [Clients -> Seq([seat : Robots, kind : {"Bet", "Play"}])],
         NEW c \in Clients, NEW p \in Seats, NEW k \in {"Bet", "Play"}
  PROVE  Asked(c, p, k) \in Seq([seat : Robots, kind : {"Bet", "Play"}])
<1>1. tasks[c] \in Seq([seat : Robots, kind : {"Bet", "Play"}])
  OBVIOUS
<1>2. CASE p = User
  BY <1>1, <1>2 DEF Asked
<1>3. CASE p # User
  <2>1. [seat |-> p, kind |-> k] \in [seat : Robots, kind : {"Bet", "Play"}]
    BY <1>3 DEF Robots
  <2>2. Append(tasks[c], [seat |-> p, kind |-> k]) \in Seq([seat : Robots, kind : {"Bet", "Play"}])
    BY <1>1, <2>1, AppendProperties
  <2> QED
    BY <1>3, <2>2 DEF Asked
<1> QED
  BY <1>2, <1>3

\* A move that is seen is a move.
LEMMA SeeType ==
  ASSUME seen \in [Clients -> Seq(Move)],
         NEW c \in Clients, NEW p \in Seats, NEW k \in {"Bet", "Play"}, NEW a \in Task,
         See(c, p, k, a)
  PROVE  seen' \in [Clients -> Seq(Move)]
<1> DEFINE m == [by |-> ClientAt(c, p), kind |-> k, bet |-> a.bet, cards |-> a.cards]
<1>1. m \in Move
  <2>1. ClientAt(c, p) \in Clients
    BY Seating
  <2> QED
    BY <2>1 DEF Move, Task
<1>2. seen' = [seen EXCEPT ![c] = Append(seen[c], m)]
  BY DEF See
<1> HIDE DEF m
<1>3. Append(seen[c], m) \in Seq(Move)
  BY <1>1, AppendProperties
<1> QED
  BY <1>2, <1>3

\* A bid leaves the types of the tables.
LEMMA OnBetTypes ==
  ASSUME TableTypes, NEW c \in Clients, NEW p \in Seats, NEW b \in Bets, OnBet(c, p, b)
  PROVE  TableTypes'
<1> DEFINE t == AfterBet(g[c], p, b)
           again == Redeals(g[c], b)
           ends == EndsBidding(g[c], b) /\ ~again
           r == IF again THEN Dispatch(t) ELSE t
           a == IF again \/ ends THEN tasks[c] ELSE Asked(c, NextOf(p), "Bet")
<1>1. /\ g' = [g EXCEPT ![c] = r]
      /\ dealing' = [dealing EXCEPT ![c] = again]
      /\ lordDue' = [lordDue EXCEPT ![c] = ends]
      /\ tasks' = [tasks EXCEPT ![c] = a]
      /\ over' = over
  BY DEF OnBet, TableTypes
<1>2. t \in Tables /\ BetHasBidder(t)
  <2>1. g[c] \in Tables /\ BetHasBidder(g[c]) /\ b \in 0..3
    BY TaskTypes DEF TableTypes
  <2> QED
    BY <2>1, AfterBetFacts
<1>3. Dispatch(t) \in Tables /\ BetHasBidder(Dispatch(t))
  <2>1. Dispatch(t) \in Tables
    BY <1>2, DispatchFacts
  <2>2. Dispatch(t).bet = t.bet /\ Dispatch(t).betBy = t.betBy
    BY <1>2 DEF Dispatch, Tables
  <2> HIDE DEF t
  <2> QED
    BY <1>2, <2>1, <2>2 DEF BetHasBidder
<1>4. r \in Tables /\ BetHasBidder(r)
  BY <1>2, <1>3
<1>5. again \in BOOLEAN /\ ends \in BOOLEAN
  BY DEF Redeals, EndsBidding
<1>6. a \in Seq([seat : Robots, kind : {"Bet", "Play"}])
  <2>1. NextOf(p) \in Seats
    BY DEF NextOf, Seats
  <2>2. Asked(c, NextOf(p), "Bet") \in Seq([seat : Robots, kind : {"Bet", "Play"}])
    BY <2>1, AskedType DEF TableTypes
  <2> QED
    BY <2>2 DEF TableTypes
<1>7. seen' \in [Clients -> Seq(Move)]
  BY TaskTypes, SeeType DEF OnBet, TableTypes
<1> HIDE DEF r, a, again, ends
<1> QED
  BY <1>1, <1>4, <1>5, <1>6, <1>7 DEF TableTypes

\* So does a hand.
LEMMA OnHandTypes ==
  ASSUME TableTypes, NEW c \in Clients, NEW p \in Seats, NEW h \in SUBSET Deck,
         NEW t \in Tables, BetHasBidder(t), OnHand(c, t, p, h)
  PROVE  TableTypes'
<1> DEFINE r == AfterHand(t, p, h)
           a == IF WinsWith(t, p) THEN tasks[c] ELSE Asked(c, NextOf(p), "Play")
<1>1. /\ g' = [g EXCEPT ![c] = r]
      /\ over' = [over EXCEPT ![c] = WinsWith(t, p)]
      /\ tasks' = [tasks EXCEPT ![c] = a]
      /\ dealing' = dealing /\ lordDue' = lordDue
  BY DEF OnHand, TableTypes
<1>2. r \in Tables /\ BetHasBidder(r)
  BY AfterHandType DEF BetHasBidder
<1>3. a \in Seq([seat : Robots, kind : {"Bet", "Play"}])
  <2>1. NextOf(p) \in Seats
    BY DEF NextOf, Seats
  <2>2. Asked(c, NextOf(p), "Play") \in Seq([seat : Robots, kind : {"Bet", "Play"}])
    BY <2>1, AskedType DEF TableTypes
  <2> QED
    BY <2>2 DEF TableTypes
<1>4. seen' \in [Clients -> Seq(Move)]
  BY TaskTypes, SeeType DEF OnHand, TableTypes
<1>5. WinsWith(t, p) \in BOOLEAN
  BY DEF WinsWith
<1> HIDE DEF r, a
<1> QED
  BY <1>1, <1>2, <1>3, <1>4, <1>5 DEF TableTypes

\* New windows have empty tables.
LEMMA InitTypes == Init => TypeInv
<1> SUFFICES ASSUME Init PROVE TypeInv
  OBVIOUS
<1>1. \A p \in Seats : NewTable(p) \in Tables /\ BetHasBidder(NewTable(p))
  <2> SUFFICES ASSUME NEW p \in Seats PROVE NewTable(p) \in Tables /\ BetHasBidder(NewTable(p))
    OBVIOUS
  <2>1. /\ 0 \in 0..3 /\ 0 \in 0..2 /\ 0 \in Nat /\ 0 \in Int
        /\ Nobody \in Seats \cup {Nobody}
    OBVIOUS
  <2>2. /\ [q \in Seats |-> {}] \in [Seats -> SUBSET Deck]
        /\ [q \in Seats |-> "Farmer"] \in [Seats -> {"Lord", "Farmer"}]
        /\ [q \in Seats |-> 0] \in [Seats -> Int]
        /\ [q \in Seats |-> FALSE] \in [Seats -> BOOLEAN]
    BY <2>1
  <2>3. NewTable(p) \in Tables
    BY <2>1, <2>2 DEF NewTable, Tables
  <2> QED
    BY <2>3 DEF NewTable, BetHasBidder
<1>2. \A c \in Clients : SeatOf(c, 1) \in Seats
  BY Seating DEF Clients
<1>3. g \in [Clients -> Tables] /\ \A c \in Clients : BetHasBidder(g[c])
  BY <1>1, <1>2 DEF Init
<1> QED
  BY <1>3 DEF Init, TypeInv, TypeOK

\* Every step keeps the types.
LEMMA NextTypes == TypeInv /\ [Next]_vars => TypeInv'
<1> SUFFICES ASSUME TypeInv, [Next]_vars PROVE TypeInv'
  OBVIOUS
<1> USE DEF TypeInv
<1>0. TableTypes /\ TypeOK
  BY DEF TableTypes, TypeOK
<1>1. ASSUME NEW c \in Clients, Deal(c) PROVE TypeInv'
  <2> DEFINE r == DealtOut(Dispatch(g[c]))
             a == Asked(c, g[c].cur, "Bet")
  <2>1. /\ g' = [g EXCEPT ![c] = r]
        /\ tasks' = [tasks EXCEPT ![c] = a]
        /\ dealing' = [dealing EXCEPT ![c] = FALSE]
        /\ UNCHANGED << lordDue, signals, over, queue, up, down, relays, hung, seen >>
    BY <1>1 DEF Deal, serverVars
  <2>2. r \in Tables /\ BetHasBidder(r)
    <3>1. g[c] \in Tables /\ BetHasBidder(g[c])
      BY DEF TypeOK
    <3>2. r \in Tables /\ r.bet = g[c].bet /\ r.betBy = g[c].betBy
      BY <3>1, DealtOutFacts
    <3> HIDE DEF r
    <3> QED
      BY <3>1, <3>2 DEF BetHasBidder
  <2>3. a \in Seq([seat : Robots, kind : {"Bet", "Play"}])
    <3>1. g[c].cur \in Seats
      BY DEF TypeOK, Tables
    <3> QED
      BY <3>1, AskedType DEF TypeOK
  <2> HIDE DEF r, a
  <2> QED
    BY <2>1, <2>2, <2>3 DEF TypeOK
<1>2. ASSUME NEW c \in Clients, LordStarts(c) PROVE TypeInv'
  <2> DEFINE r == [g[c] EXCEPT !.status = "PlayingHand"]
             a == Asked(c, g[c].cur, "Play")
  <2>1. /\ g' = [g EXCEPT ![c] = r]
        /\ tasks' = [tasks EXCEPT ![c] = a]
        /\ lordDue' = [lordDue EXCEPT ![c] = FALSE]
        /\ UNCHANGED << dealing, signals, over, queue, up, down, relays, hung, seen >>
    BY <1>2 DEF LordStarts, serverVars, TypeOK
  <2>2. r \in Tables /\ BetHasBidder(r)
    <3>1. g[c] \in Tables /\ BetHasBidder(g[c])
      BY DEF TypeOK
    <3> QED
      BY <3>1 DEF Tables, BetHasBidder
  <2>3. a \in Seq([seat : Robots, kind : {"Bet", "Play"}])
    <3>1. g[c].cur \in Seats
      BY DEF TypeOK, Tables
    <3> QED
      BY <3>1, AskedType DEF TypeOK
  <2> HIDE DEF r, a
  <2> QED
    BY <2>1, <2>2, <2>3 DEF TypeOK
<1>3. ASSUME NEW c \in Clients, UserBids(c) PROVE TypeInv'
  <2>1. PICK b \in Bets : OnBet(c, User, b) /\ Tell(c, BetOf(b))
    BY <1>3 DEF UserBids
  <2>2. TableTypes'
    BY <1>0, <2>1, OnBetTypes DEF User, Seats
  <2>3. up' \in [Clients -> Seq(Task)]
    <3>1. up' = [up EXCEPT ![c] = Append(up[c], BetOf(b))]
      BY <2>1 DEF Tell
    <3>2. Append(up[c], BetOf(b)) \in Seq(Task)
      BY TaskTypes, AppendProperties DEF TypeOK
    <3> QED
      BY <3>1, <3>2 DEF TypeOK
  <2> QED
    BY <1>3, <2>2, <2>3 DEF TypeOK, TableTypes, UserBids, serverVars
<1>4. ASSUME NEW c \in Clients, UserPlays(c) PROVE TypeInv'
  <2>1. g[c] \in Tables /\ BetHasBidder(g[c]) /\ User \in Seats
    BY DEF TypeOK, User, Seats
  <2>2. PICK h \in SUBSET g[c].hand[User] :
          OnHand(c, TakeFromHand(g[c], User, h), User, h) /\ Tell(c, CardsOf(h))
    BY <1>4 DEF UserPlays
  <2>3. h \in SUBSET Deck
    BY <2>1, <2>2 DEF Tables
  <2>4. /\ TakeFromHand(g[c], User, h) \in Tables
        /\ BetHasBidder(TakeFromHand(g[c], User, h))
    <3>1. TakeFromHand(g[c], User, h) \in Tables
      BY <2>1, <2>3, TakeFromHandFacts
    <3> QED
      BY <2>1, <3>1 DEF TakeFromHand, BetHasBidder, Tables
  <2>5. TableTypes'
    BY <1>0, <2>1, <2>2, <2>3, <2>4, OnHandTypes
  <2>6. up' \in [Clients -> Seq(Task)]
    <3>1. up' = [up EXCEPT ![c] = Append(up[c], CardsOf(h))]
      BY <2>2 DEF Tell
    <3>2. Append(up[c], CardsOf(h)) \in Seq(Task)
      BY <2>3, TaskTypes, AppendProperties DEF TypeOK
    <3> QED
      BY <3>1, <3>2 DEF TypeOK
  <2> QED
    BY <1>4, <2>5, <2>6 DEF TypeOK, TableTypes, UserPlays, serverVars
<1>5. ASSUME NEW c \in Clients, AddTask(c) PROVE TypeInv'
  <2>1. Head(down[c]) \in Task /\ Tail(down[c]) \in Seq(Task)
    BY <1>5, HeadTailProperties DEF AddTask, TypeOK
  <2>2. Append(queue[c], Head(down[c])) \in Seq(Task)
    BY <2>1, AppendProperties DEF TypeOK
  <2> QED
    BY <1>5, <2>1, <2>2 DEF AddTask, TypeOK, tableVars, serverVars
<1>6. ASSUME NEW c \in Clients, RobotTakes(c) PROVE TypeInv'
  <2>1. PICK i \in DOMAIN tasks[c] :
          LET r == tasks[c][i]
              t == Head(queue[c])
          IN  /\ g' = [g EXCEPT ![c] = IF r.kind = "Play" THEN TakeFromHand(@, r.seat, t.cards)
                                       ELSE @]
              /\ signals' = [signals EXCEPT ![c] =
                               Append(@, [seat |-> r.seat, kind |-> r.kind, task |-> t])]
              /\ tasks' = [tasks EXCEPT ![c] = Seqs!RemoveAt(@, i)]
    BY <1>6 DEF RobotTakes
  <2> DEFINE r == tasks[c][i]
             t == Head(queue[c])
             s == [seat |-> r.seat, kind |-> r.kind, task |-> t]
             u == IF r.kind = "Play" THEN TakeFromHand(g[c], r.seat, t.cards) ELSE g[c]
  <2>2. /\ g' = [g EXCEPT ![c] = u]
        /\ signals' = [signals EXCEPT ![c] = Append(signals[c], s)]
        /\ tasks' = [tasks EXCEPT ![c] = Seqs!RemoveAt(tasks[c], i)]
        /\ queue' = [queue EXCEPT ![c] = Tail(queue[c])]
        /\ UNCHANGED << dealing, lordDue, over, up, down, relays, hung, seen >>
    BY <1>6, <2>1 DEF RobotTakes, serverVars, TypeOK
  <2>3. t \in Task /\ Tail(queue[c]) \in Seq(Task)
    BY <1>6, HeadTailProperties DEF RobotTakes, TypeOK
  <2>4. tasks[c] \in Seq([seat : Robots, kind : {"Bet", "Play"}])
    BY DEF TypeOK
  <2>5. i \in 1..Len(tasks[c]) /\ r \in [seat : Robots, kind : {"Bet", "Play"}]
    <3>1. i \in 1..Len(tasks[c])
      BY <2>4, LenProperties
    <3> QED
      BY <2>4, <3>1, ElementOfSeq
  <2>6. Seqs!RemoveAt(tasks[c], i) \in Seq([seat : Robots, kind : {"Bet", "Play"}])
    <3>1. Len(tasks[c]) \in Nat /\ i \in Nat /\ i <= Len(tasks[c])
      BY <2>4, <2>5, LenProperties
    <3>2. \A k \in 1..Len(tasks[c]) : tasks[c][k] \in [seat : Robots, kind : {"Bet", "Play"}]
      BY <2>4, ElementOfSeq
    <3>3. \A k \in 1..(i - 1) : tasks[c][k] \in [seat : Robots, kind : {"Bet", "Play"}]
      BY <3>1, <3>2
    <3>4. \A k \in (i + 1)..Len(tasks[c]) :
            tasks[c][k] \in [seat : Robots, kind : {"Bet", "Play"}]
      BY <3>1, <3>2
    <3>5. SubSeq(tasks[c], 1, i - 1) \in Seq([seat : Robots, kind : {"Bet", "Play"}])
      BY <3>1, <3>3, SubSeqProperties
    <3>6. SubSeq(tasks[c], i + 1, Len(tasks[c])) \in Seq([seat : Robots, kind : {"Bet", "Play"}])
      BY <3>1, <3>4, SubSeqProperties
    <3> QED
      BY <3>5, <3>6, ConcatProperties DEF Seqs!RemoveAt
  <2>7. /\ s \in [seat : Robots, kind : {"Bet", "Play"}, task : Task]
        /\ Append(signals[c], s) \in Seq([seat : Robots, kind : {"Bet", "Play"}, task : Task])
    <3>1. s \in [seat : Robots, kind : {"Bet", "Play"}, task : Task]
      BY <2>3, <2>5
    <3> HIDE DEF s
    <3> QED
      BY <3>1, AppendProperties DEF TypeOK
  <2>8. u \in Tables /\ BetHasBidder(u)
    <3>1. g[c] \in Tables /\ BetHasBidder(g[c])
      BY DEF TypeOK
    <3>2. r.seat \in Seats /\ t.cards \in SUBSET Deck
      BY <2>3, <2>5 DEF Robots, Task
    <3>3. /\ TakeFromHand(g[c], r.seat, t.cards) \in Tables
      BY <3>1, <3>2, TakeFromHandFacts
    <3>4. BetHasBidder(TakeFromHand(g[c], r.seat, t.cards))
      BY <3>1, <3>2, <3>3 DEF TakeFromHand, BetHasBidder, Tables
    <3> QED
      BY <3>1, <3>3, <3>4
  <2> HIDE DEF r, t, s, u
  <2>9. \A d \in Clients : BetHasBidder(g'[d])
    BY <2>2, <2>8 DEF TypeOK
  <2>10. TypeOK'
    <3>1. g' \in [Clients -> Tables]
      BY <2>2, <2>8 DEF TypeOK
    <3>2. tasks' \in [Clients -> Seq([seat : Robots, kind : {"Bet", "Play"}])]
      BY <2>2, <2>6 DEF TypeOK
    <3>3. signals' \in [Clients -> Seq([seat : Robots, kind : {"Bet", "Play"}, task : Task])]
      BY <2>2, <2>7 DEF TypeOK
    <3>4. queue' \in [Clients -> Seq(Task)]
      BY <2>2, <2>3 DEF TypeOK
    <3> QED
      BY <2>2, <3>1, <3>2, <3>3, <3>4 DEF TypeOK
  <2> QED
    BY <2>9, <2>10
<1>7. ASSUME NEW c \in Clients, OnSignal(c) PROVE TypeInv'
  <2> DEFINE s == Head(signals[c])
  <2>1. /\ s \in [seat : Robots, kind : {"Bet", "Play"}, task : Task]
        /\ Tail(signals[c]) \in Seq([seat : Robots, kind : {"Bet", "Play"}, task : Task])
    BY <1>7, HeadTailProperties DEF OnSignal, TypeOK
  <2>2. s.seat \in Seats /\ s.task.bet \in Bets /\ s.task.cards \in SUBSET Deck
    BY <2>1 DEF Robots, Task
  <2>3. IF s.kind = "Bet" THEN OnBet(c, s.seat, s.task.bet)
                          ELSE OnHand(c, g[c], s.seat, s.task.cards)
    BY <1>7 DEF OnSignal
  <2>4. g[c] \in Tables /\ BetHasBidder(g[c])
    BY DEF TypeOK
  <2> HIDE DEF s
  <2>5. TableTypes'
    <3>1. CASE s.kind = "Bet"
      BY <1>0, <2>2, <2>3, <3>1, OnBetTypes
    <3>2. CASE s.kind # "Bet"
      BY <1>0, <2>2, <2>3, <2>4, <3>2, OnHandTypes
    <3> QED
      BY <3>1, <3>2
  <2>6. /\ signals' = [signals EXCEPT ![c] = Tail(signals[c])]
        /\ UNCHANGED << queue, up, down, relays, hung >>
    BY <1>7 DEF OnSignal, serverVars
  <2> QED
    BY <2>1, <2>5, <2>6 DEF TypeOK, TableTypes
<1>8. ASSUME NEW c \in Clients, HandleMove(c) PROVE TypeInv'
  <2> DEFINE w == WorkerOf[c]
             q == [i \in DOMAIN Partners(c) |-> [to |-> Partners(c)[i], task |-> Head(up[c])]]
  <2>1. w \in Workers
    BY DEF Workers
  <2>2. Head(up[c]) \in Task /\ Tail(up[c]) \in Seq(Task)
    BY <1>8, HeadTailProperties DEF HandleMove, TypeOK
  <2>3. q \in Seq([to : Clients, task : Task])
    <3>1. Partners(c) \in Seq(Clients)
      BY PartnersFacts
    <3>2. Len(Partners(c)) \in Nat /\ DOMAIN Partners(c) = 1..Len(Partners(c))
      BY <3>1, LenProperties
    <3>3. \A i \in DOMAIN Partners(c) : Partners(c)[i] \in Clients
      BY <3>1, <3>2, ElementOfSeq
    <3>4. \A i \in DOMAIN Partners(c) :
            [to |-> Partners(c)[i], task |-> Head(up[c])] \in [to : Clients, task : Task]
      BY <2>2, <3>3
    <3> QED
      BY <3>2, <3>4
  <2>4. \/ relays' = [relays EXCEPT ![w] = q] /\ hung' = hung
        \/ relays' = relays /\ hung' = {w}
    BY <1>8 DEF HandleMove
  <2>5. /\ up' = [up EXCEPT ![c] = Tail(up[c])]
        /\ UNCHANGED << g, dealing, lordDue, tasks, over, seen, signals, queue, down >>
    BY <1>8 DEF HandleMove, tableVars
  <2> HIDE DEF w, q
  <2> QED
    BY <2>1, <2>2, <2>3, <2>4, <2>5 DEF TypeOK
<1>9. ASSUME NEW w \in Workers, NotifyOther(w) PROVE TypeInv'
  <2> DEFINE r == Head(relays[w])
  <2>1. r \in [to : Clients, task : Task] /\ Tail(relays[w]) \in Seq([to : Clients, task : Task])
    BY <1>9, HeadTailProperties DEF NotifyOther, TypeOK
  <2>2. Append(down[r.to], r.task) \in Seq(Task)
    BY <2>1, AppendProperties DEF TypeOK
  <2>3. /\ down' = [down EXCEPT ![r.to] = Append(down[r.to], r.task)]
        /\ relays' = [relays EXCEPT ![w] = Tail(relays[w])]
        /\ UNCHANGED << g, dealing, lordDue, tasks, over, seen, signals, queue, up, hung >>
    BY <1>9 DEF NotifyOther, tableVars
  <2> HIDE DEF r
  <2> QED
    BY <2>1, <2>2, <2>3 DEF TypeOK
<1>10. CASE UNCHANGED vars
  BY <1>10 DEF vars, tableVars, serverVars, TypeOK
<1> QED
  BY <1>1, <1>2, <1>3, <1>4, <1>5, <1>6, <1>7, <1>8, <1>9, <1>10 DEF Next, Due

\* Every table, task, signal and message keeps its type, whichever workers the three
\* connections have and whether or not one hangs: a robot is asked, never the user's seat,
\* and the one who becomes the lord has bid.
THEOREM TypesKept == Spec => []TypeOK
<1>1. TypeInv => TypeOK
  BY DEF TypeInv
<1> QED
  BY InitTypes, NextTypes, <1>1, PTL DEF Spec

-----------------------------------------------------------------------------
(* The hand without a table *)

\* What a message of a move carries.
TaskOf(m) == [bet |-> m.bet, cards |-> m.cards]

\* The hand as the moves so far leave it, without a table: the players by their
\* numbers, whose turn it is and for what, and the bids as they are recorded.
Views == [ turn  : Clients,
           phase : {"Bet", "Play", "Done"},
           hand  : [Clients -> SUBSET Deck],
           times : 0..2,
           bet   : 0..3,
           betBy : Clients ]

DealtTo(d) == [e \in Clients |-> Batch((e - d + 3) % 3)]

Led(v, d) ==
  [v EXCEPT !.phase = "Play", !.turn = d, !.hand = [v.hand EXCEPT ![d] = @ \cup LordsCards],
            !.times = 0, !.bet = 0]

Noted(v, b) ==
  [v EXCEPT !.betBy = IF v.bet < b THEN v.turn ELSE @,
            !.bet = IF v.bet < b THEN b ELSE @]

AfterBid(v, b) ==
  IF b = 3 THEN Led(v, v.turn)
  ELSE IF b = 0 /\ v.times = 2 /\ v.bet = 0
       THEN [v EXCEPT !.hand = DealtTo(v.turn), !.times = 0]
  ELSE IF v.times = 2 THEN Led(Noted(v, b), Noted(v, b).betBy)
  ELSE [Noted(v, b) EXCEPT !.times = v.times + 1, !.turn = NextOf(v.turn)]

Less(hand, d, h) == [hand EXCEPT ![d] = @ \ h]

AfterPlay(v, h) ==
  IF v.hand[v.turn] \ h = {}
  THEN [v EXCEPT !.hand = Less(v.hand, v.turn, h), !.phase = "Done"]
  ELSE [v EXCEPT !.hand = Less(v.hand, v.turn, h), !.turn = NextOf(v.turn)]

After(v, m) == IF m.kind = "Bet" THEN AfterBid(v, m.bet) ELSE AfterPlay(v, m.cards)

-----------------------------------------------------------------------------
(* The invariant *)

\* Every move is made by the player whose turn it is after the moves before it; T[n] is
\* the hand after n moves.
LogInv(log, T) ==
  /\ log \in Seq(Move)
  /\ T \in [0..Len(log) -> Views]
  /\ \A n \in 1..Len(log) :
       /\ log[n].by = T[n - 1].turn
       /\ log[n].kind = T[n - 1].phase
       /\ IF log[n].kind = "Bet" THEN log[n].cards = {} ELSE log[n].bet = 0
       /\ T[n] = After(T[n - 1], log[n])

\* A table has seen the log up to some move, and its user's moves are among them.
SeenInv(c, log) ==
  /\ Len(seen[c]) <= Len(log)
  /\ \A i \in 1..Len(seen[c]) : seen[c][i] = log[i]
  /\ \A i \in (Len(seen[c]) + 1)..Len(log) : log[i].by # c

\* The table agrees with the moves it has seen.
SameTurn(c, t, v) ==
  /\ t.cur = SeatOf(c, v.turn)
  /\ t.times = v.times
  /\ t.bet = v.bet
  /\ v.bet > 0 => t.betBy = SeatOf(c, v.betBy)

SameHands(c, t, hand) == \A d \in Clients : t.hand[SeatOf(c, d)] = hand[d]

\* The robot that has taken a hand has it in front of it before the table sees it.
HandsNow(c, v) ==
  IF v.phase = "Play" /\ signals[c] # << >>
  THEN Less(v.hand, v.turn, signals[c][1].task.cards) ELSE v.hand

\* Nobody is asked while the user thinks, cards are dealt or the lord is announced;
\* otherwise the robot whose turn it is waits for a move or has made it.
Waits(c, v) ==
  /\ tasks[c] = << [seat |-> SeatOf(c, v.turn), kind |-> v.phase] >>
  /\ signals[c] = << >>

Moved(c, v) ==
  /\ tasks[c] = << >>
  /\ Len(signals[c]) = 1
  /\ signals[c][1].seat = SeatOf(c, v.turn)
  /\ signals[c][1].kind = v.phase

AskedInv(c, v) ==
  IF dealing[c] \/ lordDue[c] \/ over[c] \/ v.turn = c
  THEN tasks[c] = << >> /\ signals[c] = << >>
  ELSE Waits(c, v) \/ Moved(c, v)

TableInv(c, v) ==
  /\ SameTurn(c, g[c], v)
  /\ dealing[c] => /\ v.phase = "Bet"
                   /\ v.hand = DealtTo(v.turn)
                   /\ g[c].status = "DispatchCard"
  /\ ~dealing[c] => /\ SameHands(c, g[c], HandsNow(c, v))
                    /\ v.phase = "Bet" => g[c].deck = LordsCards
                    /\ g[c].status = IF v.phase = "Bet" \/ lordDue[c] THEN "CallingLord"
                                     ELSE "PlayingHand"
  /\ lordDue[c] => v.phase = "Play"
  /\ over[c] <=> v.phase = "Done"
  /\ AskedInv(c, v)

\* Where the moves are that a table has yet to see: with a robot, in the TaskQueue, on
\* the way from the server.
Taken(c)  == Len(seen[c]) + Len(signals[c])
Queued(c) == Taken(c) + Len(queue[c])
Told(c)   == Queued(c) + Len(down[c])

Carries(s, at, log) ==
  /\ at + Len(s) <= Len(log)
  /\ \A i \in 1..Len(s) : s[i] = TaskOf(log[at + i])

PipeInv(c, log) ==
  /\ \A i \in 1..Len(signals[c]) : /\ Len(seen[c]) + i <= Len(log)
                                   /\ signals[c][i].task = TaskOf(log[Len(seen[c]) + i])
  /\ Carries(queue[c], Taken(c), log)
  /\ Carries(down[c], Queued(c), log)

\* The moves the server has read that did not get lost in a hanging worker.
Handled(read) == IF hung = {} THEN read ELSE read - 1

Owed(c) == \E w \in Workers : \E i \in DOMAIN relays[w] : relays[w][i].to = c

\* A client has been told of the moves that were handled, but for the one of which it is
\* about to be told, or has made the moves that were not.
TellInv(c, log, read) ==
  Told(c) = IF Owed(c) THEN Handled(read) - 1
            ELSE IF Len(seen[c]) > Handled(read) THEN Len(log)
            ELSE Handled(read)

\* Only one client is ahead of the server, and what it has not read yet is that client's.
ServerInv(log, read, ahead) ==
  /\ read \in 0..Len(log)
  /\ hung # {} => read > 0
  /\ \A c \in Clients : Len(seen[c]) > Handled(read) => c = ahead
  /\ \A c \in Clients : c # ahead => up[c] = << >>
  /\ Len(up[ahead]) = Len(log) - read
  /\ Carries(up[ahead], read, log)

\* One worker relays at a time, one move, and to everybody once.
RelayInv(log, read) ==
  /\ "returns" \notin Relock => \A w \in Workers : relays[w] = << >>
  /\ \A w \in Workers :
       /\ relays[w] # << >> => Handled(read) > 0
       /\ \A i \in DOMAIN relays[w] : relays[w][i].task = TaskOf(log[Handled(read)])
       /\ \A i, j \in DOMAIN relays[w] : relays[w][i].to = relays[w][j].to => i = j

History(log, T, read, ahead) ==
  /\ LogInv(log, T)
  /\ ServerInv(log, read, ahead)
  /\ RelayInv(log, read)
  /\ \A c \in Clients : /\ SeenInv(c, log)
                        /\ PipeInv(c, log)
                        /\ TellInv(c, log, read)
                        /\ \A n \in 0..Len(log) : n = Len(seen[c]) => TableInv(c, T[n])

GameInv ==
  \E log \in Seq(Move) :
    \E T \in [0..Len(log) -> Views], read \in 0..Len(log), ahead \in Clients :
      History(log, T, read, ahead)

-----------------------------------------------------------------------------
(* What a move does to a table and to the hand *)

\* The cards that are dealt and those that are left are cards.
LEMMA DealtCards ==
  /\ LordsCards \in SUBSET Deck
  /\ \A d \in Clients : DealtTo(d) \in [Clients -> SUBSET Deck]
<1>1. \A i \in 1..Len(Dealt) : Dealt[i] \in Deck
  BY NetGameAssumption, ElementOfSeq
<1>2. Len(Dealt) \in Nat /\ Len(Dealt) >= 6
  BY NetGameAssumption, TableAssumption, LenProperties
<1>3. LordsCards \in SUBSET Deck
  BY <1>1, <1>2 DEF LordsCards, Surplus
<1>4. \A k \in Int : Batch(k) \in SUBSET Deck
  BY <1>1, <1>2 DEF Batch, Surplus
<1>5. \A d, e \in Clients : (e - d + 3) % 3 \in Int
  BY DEF Clients
<1> QED
  BY <1>3, <1>4, <1>5 DEF DealtTo

\* Leading, noting a bid and playing keep the hand's types.
LEMMA LedFacts ==
  ASSUME NEW v \in Views, NEW d \in Clients
  PROVE  /\ Led(v, d) \in Views
         /\ Led(v, d).phase = "Play" /\ Led(v, d).turn = d
         /\ Led(v, d).times = 0 /\ Led(v, d).bet = 0
         /\ Led(v, d).hand = [v.hand EXCEPT ![d] = @ \cup LordsCards]
<1> DEFINE hands == [v.hand EXCEPT ![d] = @ \cup LordsCards]
<1>1. hands \in [Clients -> SUBSET Deck]
  BY DealtCards DEF Views
<1>2. Led(v, d) = [v EXCEPT !.phase = "Play", !.turn = d, !.hand = hands, !.times = 0, !.bet = 0]
  BY DEF Led
<1> HIDE DEF hands
<1>3. 0 \in 0..2 /\ 0 \in 0..3
  OBVIOUS
<1>4. Led(v, d) \in Views
  BY <1>1, <1>2, <1>3, Zenon DEF Views
<1>5. /\ Led(v, d).phase = "Play" /\ Led(v, d).turn = d
      /\ Led(v, d).times = 0 /\ Led(v, d).bet = 0 /\ Led(v, d).hand = hands
  BY <1>2 DEF Views
<1> QED
  BY <1>4, <1>5 DEF hands

\* Noting a bid changes the best bid and its bidder only.
LEMMA NotedFacts ==
  ASSUME NEW v \in Views, NEW b \in 0..3
  PROVE  /\ Noted(v, b) \in Views
         /\ Noted(v, b).phase = v.phase /\ Noted(v, b).turn = v.turn
         /\ Noted(v, b).hand = v.hand /\ Noted(v, b).times = v.times
         /\ Noted(v, b).bet = IF v.bet < b THEN b ELSE v.bet
         /\ Noted(v, b).betBy = IF v.bet < b THEN v.turn ELSE v.betBy
BY DEF Noted, Views

\* A hand that is played leaves a hand of the game, done when the player has no cards left.
LEMMA AfterPlayFacts ==
  ASSUME NEW v \in Views, NEW h \in SUBSET Deck
  PROVE  /\ AfterPlay(v, h) \in Views
         /\ AfterPlay(v, h).hand = Less(v.hand, v.turn, h)
         /\ AfterPlay(v, h).times = v.times /\ AfterPlay(v, h).bet = v.bet
         /\ AfterPlay(v, h).betBy = v.betBy
         /\ v.hand[v.turn] \ h = {} => AfterPlay(v, h).phase = "Done"
                                       /\ AfterPlay(v, h).turn = v.turn
         /\ v.hand[v.turn] \ h # {} => AfterPlay(v, h).phase = v.phase
                                       /\ AfterPlay(v, h).turn = NextOf(v.turn)
<1> DEFINE hands == Less(v.hand, v.turn, h)
<1>1. hands \in [Clients -> SUBSET Deck]
  BY DEF Less, Views
<1>2. NextOf(v.turn) \in Clients
  BY Seating DEF Views
<1> HIDE DEF hands
<1>3. [v EXCEPT !.hand = hands, !.phase = "Done"] \in Views
  BY <1>1, Zenon DEF Views
<1>4. [v EXCEPT !.hand = hands, !.turn = NextOf(v.turn)] \in Views
  BY <1>1, <1>2, Zenon DEF Views
<1>5. CASE v.hand[v.turn] \ h = {}
  <2>1. AfterPlay(v, h) = [v EXCEPT !.hand = hands, !.phase = "Done"]
    BY <1>5 DEF AfterPlay, hands
  <2> QED
    BY <1>3, <1>5, <2>1 DEF Views, hands
<1>6. CASE v.hand[v.turn] \ h # {}
  <2>1. AfterPlay(v, h) = [v EXCEPT !.hand = hands, !.turn = NextOf(v.turn)]
    BY <1>6 DEF AfterPlay, hands
  <2> QED
    BY <1>4, <1>6, <2>1 DEF Views, hands
<1> QED
  BY <1>5, <1>6

\* A bid leaves a hand of the game.
LEMMA AfterBidType ==
  ASSUME NEW v \in Views, NEW b \in 0..3
  PROVE  AfterBid(v, b) \in Views
<1>1. v.turn \in Clients /\ NextOf(v.turn) \in Clients
  BY Seating DEF Views
<1>2. Noted(v, b) \in Views /\ Noted(v, b).betBy \in Clients
  BY NotedFacts DEF Views
<1>3. CASE b = 3
  BY <1>1, <1>3, LedFacts DEF AfterBid
<1>4. CASE b = 0 /\ v.times = 2 /\ v.bet = 0
  <2>1. AfterBid(v, b) = [v EXCEPT !.hand = DealtTo(v.turn), !.times = 0]
    BY <1>4 DEF AfterBid
  <2>2. DealtTo(v.turn) \in [Clients -> SUBSET Deck] /\ 0 \in 0..2
    BY <1>1, DealtCards
  <2> QED
    BY <2>1, <2>2, Zenon DEF Views
<1>5. CASE b # 3 /\ ~(b = 0 /\ v.times = 2 /\ v.bet = 0) /\ v.times = 2
  BY <1>2, <1>5, LedFacts DEF AfterBid
<1>6. CASE b # 3 /\ v.times # 2
  <2>1. AfterBid(v, b) = [Noted(v, b) EXCEPT !.times = v.times + 1, !.turn = NextOf(v.turn)]
    BY <1>6 DEF AfterBid
  <2>2. v.times + 1 \in 0..2
    BY <1>6 DEF Views
  <2> QED
    BY <1>1, <1>2, <2>1, <2>2, Zenon DEF Views
<1> QED
  BY <1>3, <1>4, <1>5, <1>6

\* The lord is the same and gets the same cards at every table.
LEMMA SameLord ==
  ASSUME NEW c \in Clients, NEW t \in Tables, NEW v \in Views, NEW d \in Clients,
         NEW b \in 0..3, SameHands(c, t, v.hand), t.deck = LordsCards
  PROVE  LET r == BecomeLord(t, SeatOf(c, d), b)
         IN  /\ SameTurn(c, r, Led(v, d))
             /\ SameHands(c, r, Led(v, d).hand)
             /\ r.status = t.status
<1> DEFINE p == SeatOf(c, d)
           r == BecomeLord(t, p, b)
<1>1. p \in Seats /\ ClientAt(c, p) = d
  BY Seating
<1>2. /\ r.cur = p /\ r.times = 0 /\ r.bet = 0 /\ r.status = t.status
      /\ r.hand = [t.hand EXCEPT ![p] = @ \cup LordsCards]
  BY DEF BecomeLord, Tables
<1>3. SameTurn(c, r, Led(v, d))
  <2>1. Led(v, d).turn = d /\ Led(v, d).times = 0 /\ Led(v, d).bet = 0
    BY LedFacts
  <2> HIDE DEF r
  <2> QED
    BY <1>2, <2>1 DEF SameTurn
<1>4. SameHands(c, r, Led(v, d).hand)
  <2> SUFFICES ASSUME NEW e \in Clients
               PROVE  r.hand[SeatOf(c, e)] = Led(v, d).hand[e]
    BY DEF SameHands
  <2>1. SeatOf(c, e) \in Seats /\ ClientAt(c, SeatOf(c, e)) = e
    BY Seating
  <2>2. t.hand[SeatOf(c, e)] = v.hand[e]
    BY DEF SameHands
  <2>3. t.hand \in [Seats -> SUBSET Deck] /\ v.hand \in [Clients -> SUBSET Deck]
    BY DEF Tables, Views
  <2>4. Led(v, d).hand = [v.hand EXCEPT ![d] = @ \cup LordsCards]
    BY LedFacts
  <2> HIDE DEF p, r
  <2>5. CASE e = d
    <3>1. SeatOf(c, e) = p
      BY <2>5 DEF p
    <3>2. r.hand[p] = t.hand[p] \cup LordsCards
      BY <1>1, <1>2, <2>3
    <3>3. Led(v, d).hand[d] = v.hand[d] \cup LordsCards
      BY <2>3, <2>4
    <3> QED
      BY <2>2, <2>5, <3>1, <3>2, <3>3
  <2>6. CASE e # d
    <3>1. SeatOf(c, e) # p
      BY <1>1, <2>1, <2>6
    <3> QED
      BY <1>2, <2>1, <2>2, <2>3, <2>4, <2>6, <3>1
  <2> QED
    BY <2>5, <2>6
<1> QED
  BY <1>2, <1>3, <1>4

\* A bid leaves table and hand in agreement: both go on, or have the same lord, or are
\* dealt again.
LEMMA SameBid ==
  ASSUME NEW c \in Clients, NEW t \in Tables, NEW v \in Views, NEW b \in 0..3,
         v.phase = "Bet", SameTurn(c, t, v), SameHands(c, t, v.hand), t.deck = LordsCards
  PROVE  LET r == AfterBet(t, SeatOf(c, v.turn), b)
             n == AfterBid(v, b)
         IN  /\ SameTurn(c, r, n)
             /\ r.status = t.status
             /\ Redeals(t, b) => n.phase = "Bet" /\ n.hand = DealtTo(n.turn)
             /\ EndsBidding(t, b) /\ ~Redeals(t, b) =>
                  n.phase = "Play" /\ SameHands(c, r, n.hand)
             /\ ~EndsBidding(t, b) =>
                  /\ n.phase = "Bet" /\ n.turn = NextOf(v.turn)
                  /\ SameHands(c, r, n.hand) /\ r.deck = LordsCards
<1> DEFINE p == SeatOf(c, v.turn)
           r == AfterBet(t, p, b)
           n == AfterBid(v, b)
           s == Recorded(t, p, b)
           w == Noted(v, b)
<1>1. /\ v.turn \in Clients /\ v.times \in 0..2 /\ v.bet \in 0..3 /\ v.betBy \in Clients
      /\ p \in Seats /\ NextOf(v.turn) \in Clients /\ NextOf(p) = SeatOf(c, NextOf(v.turn))
  BY Seating DEF Views
<1>2. /\ t.cur = p /\ t.times = v.times /\ t.bet = v.bet
      /\ v.bet > 0 => t.betBy = SeatOf(c, v.betBy)
  BY DEF SameTurn
<1>3. /\ s \in Tables
      /\ s.status = t.status /\ s.hand = t.hand /\ s.deck = t.deck /\ s.times = t.times
      /\ s.cur = t.cur
      /\ s.bet = IF t.bet < b THEN b ELSE t.bet
      /\ s.betBy = IF t.bet < b THEN p ELSE t.betBy
  BY <1>1 DEF Recorded, Tables
<1>4. /\ w \in Views /\ w.phase = v.phase /\ w.turn = v.turn
      /\ w.hand = v.hand /\ w.times = v.times
      /\ w.bet = IF v.bet < b THEN b ELSE v.bet
      /\ w.betBy = IF v.bet < b THEN v.turn ELSE v.betBy
  BY NotedFacts
<1>5. s.bet = w.bet /\ (w.bet > 0 => s.betBy = SeatOf(c, w.betBy))
  BY <1>1, <1>2, <1>3, <1>4
<1>6. SameHands(c, s, w.hand)
  BY <1>3, <1>4 DEF SameHands
<1> HIDE DEF s, w
<1>7. CASE b = 3
  <2>1. /\ r = BecomeLord(t, p, 3) /\ n = Led(v, v.turn)
        /\ EndsBidding(t, b) /\ ~Redeals(t, b)
    BY <1>7 DEF AfterBet, AfterBid, EndsBidding, Redeals
  <2>2. /\ SameTurn(c, r, n) /\ SameHands(c, r, n.hand) /\ r.status = t.status
    BY <1>1, <2>1, SameLord
  <2>3. n.phase = "Play"
    <3>1. Led(v, v.turn).phase = "Play"
      BY <1>1, LedFacts
    <3> QED
      BY <2>1, <3>1
  <2> HIDE DEF r, n
  <2> QED
    BY <2>1, <2>2, <2>3 DEF r, n
<1>8. CASE b # 3 /\ Redeals(t, b)
  <2>1. b = 0 /\ t.times = 2 /\ t.bet = 0 /\ v.times = 2 /\ v.bet = 0
    BY <1>2, <1>8 DEF Redeals
  <2>2. r = [s EXCEPT !.betBy = Nobody, !.times = 0]
    BY <1>8 DEF AfterBet, s
  <2>3. n = [v EXCEPT !.hand = DealtTo(v.turn), !.times = 0]
    BY <1>8, <2>1 DEF AfterBid
  <2>4. r.cur = p /\ r.times = 0 /\ r.bet = 0 /\ r.status = t.status
    BY <1>2, <1>3, <2>1, <2>2 DEF Tables
  <2>5. /\ n.turn = v.turn /\ n.times = 0 /\ n.bet = 0 /\ n.phase = "Bet"
        /\ n.hand = DealtTo(v.turn)
    BY <2>1, <2>3 DEF Views
  <2>6. EndsBidding(t, b)
    BY <2>1 DEF EndsBidding
  <2> HIDE DEF r, n
  <2>7. SameTurn(c, r, n)
    BY <2>4, <2>5 DEF SameTurn
  <2> QED
    BY <1>8, <2>4, <2>5, <2>6, <2>7 DEF r, n
<1>9. CASE b # 3 /\ ~Redeals(t, b) /\ t.times = 2
  <2>1. ~(b = 0 /\ v.times = 2 /\ v.bet = 0) /\ v.times = 2 /\ EndsBidding(t, b)
    BY <1>2, <1>9 DEF Redeals, EndsBidding
  <2>2. r = BecomeLord(s, s.betBy, s.bet)
    BY <1>9 DEF AfterBet, s
  <2>3. n = Led(w, w.betBy)
    BY <1>9, <2>1 DEF AfterBid, w
  <2>4. w.bet > 0 /\ w.bet \in 0..3 /\ w.betBy \in Clients
    BY <1>1, <1>4, <2>1 DEF Views
  <2>5. r = BecomeLord(s, SeatOf(c, w.betBy), w.bet)
    BY <1>5, <2>2, <2>4
  <2>6. /\ SameTurn(c, r, n) /\ SameHands(c, r, n.hand) /\ r.status = s.status
    BY <1>3, <1>4, <1>6, <2>3, <2>4, <2>5, SameLord
  <2>7. n.phase = "Play"
    <3>1. Led(w, w.betBy).phase = "Play"
      BY <1>4, <2>4, LedFacts
    <3> QED
      BY <2>3, <3>1
  <2> HIDE DEF r, n
  <2> QED
    BY <1>3, <1>9, <2>1, <2>6, <2>7 DEF r, n
<1>10. CASE b # 3 /\ t.times # 2
  <2>1. v.times # 2 /\ ~EndsBidding(t, b) /\ ~Redeals(t, b)
    BY <1>2, <1>10 DEF EndsBidding, Redeals
  <2>2. r = [s EXCEPT !.times = @ + 1, !.cur = NextOf(p)]
    BY <1>10, <2>1 DEF AfterBet, s
  <2>3. n = [w EXCEPT !.times = v.times + 1, !.turn = NextOf(v.turn)]
    BY <1>10, <2>1 DEF AfterBid, w
  <2>4. /\ r.cur = NextOf(p) /\ r.times = s.times + 1 /\ r.bet = s.bet /\ r.betBy = s.betBy
        /\ r.status = s.status /\ r.hand = s.hand /\ r.deck = s.deck
    BY <1>3, <2>2 DEF Tables
  <2>5. /\ n.turn = NextOf(v.turn) /\ n.times = v.times + 1 /\ n.bet = w.bet
        /\ n.betBy = w.betBy /\ n.hand = w.hand /\ n.phase = w.phase
    BY <1>4, <2>3 DEF Views
  <2> HIDE DEF r, n, p
  <2>6. SameTurn(c, r, n)
    BY <1>1, <1>2, <1>3, <1>5, <2>4, <2>5 DEF SameTurn
  <2>7. SameHands(c, r, n.hand)
    BY <1>6, <2>4, <2>5 DEF SameHands
  <2> QED
    BY <1>3, <1>4, <2>1, <2>4, <2>5, <2>6, <2>7 DEF r, n, p
<1> HIDE DEF r, n
<1> QED
  BY <1>7, <1>8, <1>9, <1>10 DEF r, n

\* Cards that leave a hand leave it at every table.
LEMMA SameLess ==
  ASSUME NEW c \in Clients, NEW t \in Tables, NEW v \in Views, NEW d \in Clients,
         NEW h \in SUBSET Deck, SameTurn(c, t, v), SameHands(c, t, v.hand)
  PROVE  LET r == TakeFromHand(t, SeatOf(c, d), h)
         IN  /\ r \in Tables
             /\ SameTurn(c, r, v)
             /\ SameHands(c, r, Less(v.hand, d, h))
             /\ r.status = t.status /\ r.deck = t.deck
<1> DEFINE p == SeatOf(c, d)
           r == TakeFromHand(t, p, h)
<1>1. p \in Seats /\ ClientAt(c, p) = d
  BY Seating
<1>2. r \in Tables
  BY <1>1, TakeFromHandFacts
<1>3. /\ r.cur = t.cur /\ r.times = t.times /\ r.bet = t.bet /\ r.betBy = t.betBy
      /\ r.status = t.status /\ r.deck = t.deck
      /\ r.hand = [t.hand EXCEPT ![p] = @ \ h]
  BY DEF TakeFromHand, Tables
<1> HIDE DEF r
<1>4. SameTurn(c, r, v)
  BY <1>3 DEF SameTurn
<1>5. SameHands(c, r, Less(v.hand, d, h))
  <2> SUFFICES ASSUME NEW e \in Clients
               PROVE  r.hand[SeatOf(c, e)] = Less(v.hand, d, h)[e]
    BY DEF SameHands
  <2>1. SeatOf(c, e) \in Seats /\ ClientAt(c, SeatOf(c, e)) = e
    BY Seating
  <2>2. t.hand[SeatOf(c, e)] = v.hand[e]
    BY DEF SameHands
  <2>3. t.hand \in [Seats -> SUBSET Deck] /\ v.hand \in [Clients -> SUBSET Deck]
    BY DEF Tables, Views
  <2>4. CASE e = d
    <3>1. r.hand[p] = t.hand[p] \ h /\ Less(v.hand, d, h)[d] = v.hand[d] \ h
      BY <1>1, <1>3, <2>3 DEF Less
    <3> QED
      BY <2>2, <2>4, <3>1
  <2>5. CASE e # d
    <3>1. SeatOf(c, e) # p
      BY <1>1, <2>1, <2>5
    <3> QED
      BY <1>3, <2>1, <2>2, <2>3, <2>5, <3>1 DEF Less
  <2> QED
    BY <2>4, <2>5
<1> QED
  BY <1>2, <1>3, <1>4, <1>5 DEF r

\* A hand that is shown leaves table and hand in agreement: it is the last one at every
\* table or at none.
LEMMA SamePlay ==
  ASSUME NEW c \in Clients, NEW t \in Tables, NEW v \in Views, NEW h \in SUBSET Deck,
         SameTurn(c, t, v), SameHands(c, t, Less(v.hand, v.turn, h))
  PROVE  LET p == SeatOf(c, v.turn)
             r == AfterHand(t, p, h)
             n == AfterPlay(v, h)
         IN  /\ SameTurn(c, r, n)
             /\ SameHands(c, r, n.hand)
             /\ r.status = t.status
             /\ WinsWith(t, p) => n.phase = "Done"
             /\ ~WinsWith(t, p) => n.phase = v.phase /\ n.turn = NextOf(v.turn)
<1> DEFINE p == SeatOf(c, v.turn)
           r == AfterHand(t, p, h)
           n == AfterPlay(v, h)
<1>1. /\ v.turn \in Clients /\ p \in Seats
      /\ NextOf(v.turn) \in Clients /\ NextOf(p) = SeatOf(c, NextOf(v.turn))
  BY Seating DEF Views
<1>2. /\ t.times = v.times /\ t.bet = v.bet /\ v.bet > 0 => t.betBy = SeatOf(c, v.betBy)
  BY DEF SameTurn
<1>3. /\ r.hand = t.hand /\ r.status = t.status /\ r.times = t.times
      /\ r.bet = t.bet /\ r.betBy = t.betBy
      /\ r.cur = IF WinsWith(t, p) THEN p ELSE NextOf(p)
  BY <1>1, AfterHandType
<1>4. WinsWith(t, p) <=> v.hand[v.turn] \ h = {}
  <2>1. t.hand[p] = Less(v.hand, v.turn, h)[v.turn]
    BY <1>1 DEF SameHands
  <2>2. Less(v.hand, v.turn, h)[v.turn] = v.hand[v.turn] \ h
    BY <1>1 DEF Less, Views
  <2> QED
    BY <2>1, <2>2 DEF WinsWith
<1>5. /\ n.hand = Less(v.hand, v.turn, h) /\ n.times = v.times /\ n.bet = v.bet
      /\ n.betBy = v.betBy
      /\ WinsWith(t, p) => n.phase = "Done" /\ n.turn = v.turn
      /\ ~WinsWith(t, p) => n.phase = v.phase /\ n.turn = NextOf(v.turn)
  BY <1>4, AfterPlayFacts
<1> HIDE DEF r, n
<1>6. SameTurn(c, r, n)
  <2>1. r.cur = SeatOf(c, n.turn)
    BY <1>1, <1>3, <1>5
  <2> QED
    BY <1>2, <1>3, <1>5, <2>1 DEF SameTurn
<1>7. SameHands(c, r, n.hand)
  BY <1>3, <1>5 DEF SameHands
<1> QED
  BY <1>3, <1>5, <1>6, <1>7 DEF r, n

\* The same cards are dealt to the same players at every table.
LEMMA SameDeal ==
  ASSUME NEW c \in Clients, NEW t \in Tables, NEW v \in Views,
         SameTurn(c, t, v), v.hand = DealtTo(v.turn)
  PROVE  LET r == DealtOut(Dispatch(t))
         IN  /\ SameTurn(c, r, v)
             /\ SameHands(c, r, v.hand)
             /\ r.status = "CallingLord" /\ r.deck = LordsCards /\ r.cur = t.cur
<1> DEFINE r == DealtOut(Dispatch(t))
<1>1. /\ r.status = "CallingLord" /\ r.deck = LordsCards
      /\ r.hand = [p \in Seats |-> Batch((p - t.cur + 3) % 3)]
      /\ r.cur = t.cur /\ r.times = t.times /\ r.bet = t.bet /\ r.betBy = t.betBy
  BY DealtOutFacts
<1> HIDE DEF r
<1>2. SameTurn(c, r, v)
  BY <1>1 DEF SameTurn
<1>3. SameHands(c, r, v.hand)
  <2> SUFFICES ASSUME NEW e \in Clients PROVE r.hand[SeatOf(c, e)] = v.hand[e]
    BY DEF SameHands
  <2>1. SeatOf(c, e) \in Seats /\ v.turn \in Clients
    BY Seating DEF Views
  <2>2. t.cur = SeatOf(c, v.turn)
    BY DEF SameTurn
  <2>3. r.hand[SeatOf(c, e)] = Batch((SeatOf(c, e) - SeatOf(c, v.turn) + 3) % 3)
    BY <1>1, <2>1, <2>2
  <2>4. v.hand[e] = Batch((e - v.turn + 3) % 3)
    BY DEF DealtTo
  <2>5. (SeatOf(c, e) - SeatOf(c, v.turn) + 3) % 3 = (e - v.turn + 3) % 3
    BY <2>1, SameTurns
  <2> QED
    BY <2>3, <2>4, <2>5
<1> QED
  BY <1>1, <1>2, <1>3 DEF r

-----------------------------------------------------------------------------
(* What a step does to one table *)

\* A table that a step leaves alone stays in agreement.
LEMMA TableStays ==
  ASSUME NEW c \in Clients, NEW v, TableInv(c, v),
         g'[c] = g[c], dealing'[c] = dealing[c], lordDue'[c] = lordDue[c],
         over'[c] = over[c], tasks'[c] = tasks[c], signals'[c] = signals[c]
  PROVE  TableInv(c, v)'
BY DEF TableInv, AskedInv, Waits, Moved, HandsNow

\* A bid that is seen leaves the table in agreement with the hand after it.
LEMMA BetSeen ==
  ASSUME TypeInv, NEW c \in Clients, NEW v \in Views, NEW b \in Bets,
         v.phase = "Bet", ~dealing[c], ~lordDue[c], ~over[c], tasks[c] = << >>,
         SameTurn(c, g[c], v), SameHands(c, g[c], v.hand), g[c].deck = LordsCards,
         g[c].status = "CallingLord",
         OnBet(c, SeatOf(c, v.turn), b), signals'[c] = << >>
  PROVE  TableInv(c, AfterBid(v, b))'
<1> DEFINE p == SeatOf(c, v.turn)
           t == AfterBet(g[c], p, b)
           n == AfterBid(v, b)
           again == Redeals(g[c], b)
           ends == EndsBidding(g[c], b)
<1>1. g[c] \in Tables /\ b \in 0..3 /\ v.turn \in Clients /\ BetHasBidder(g[c])
  BY TaskTypes DEF TypeInv, TypeOK, Views
<1>2. /\ SameTurn(c, t, n) /\ t.status = "CallingLord"
      /\ again => n.phase = "Bet" /\ n.hand = DealtTo(n.turn)
      /\ ends /\ ~again => n.phase = "Play" /\ SameHands(c, t, n.hand)
      /\ ~ends => /\ n.phase = "Bet" /\ n.turn = NextOf(v.turn)
                  /\ SameHands(c, t, n.hand) /\ t.deck = LordsCards
  BY <1>1, SameBid
<1>3. again => ends
  BY DEF Redeals, EndsBidding
<1>4. /\ g'[c] = IF again THEN Dispatch(t) ELSE t
      /\ dealing'[c] = again
      /\ lordDue'[c] = (ends /\ ~again)
      /\ tasks'[c] = IF ends THEN << >> ELSE Asked(c, NextOf(p), "Bet")
      /\ over'[c] = over[c]
  <2>1. g'[c] = IF again THEN Dispatch(t) ELSE t
    BY DEF OnBet, TypeInv, TypeOK
  <2>2. dealing'[c] = again
    BY DEF OnBet, TypeInv, TypeOK
  <2>3. lordDue'[c] = (ends /\ ~again)
    BY DEF OnBet, TypeInv, TypeOK
  <2>4. tasks'[c] = IF ends THEN << >> ELSE Asked(c, NextOf(p), "Bet")
    BY <1>3 DEF OnBet, TypeInv, TypeOK
  <2>5. over'[c] = over[c]
    BY DEF OnBet
  <2> QED
    BY <2>1, <2>2, <2>3, <2>4, <2>5
<1>5. t \in Tables
  BY <1>1, Seating, AfterBetFacts
<1>6. /\ Dispatch(t).cur = t.cur /\ Dispatch(t).times = t.times /\ Dispatch(t).bet = t.bet
      /\ Dispatch(t).betBy = t.betBy /\ Dispatch(t).status = "DispatchCard"
  BY <1>5 DEF Dispatch, Tables
<1>7. NextOf(p) = SeatOf(c, NextOf(v.turn)) /\ NextOf(v.turn) \in Clients
  BY <1>1, Seating
<1>8. HandsNow(c, n)' = n.hand
  BY DEF HandsNow
<1> HIDE DEF p, t, n, again, ends
<1>9. CASE again
  <2>1. /\ g'[c] = Dispatch(t) /\ dealing'[c] /\ ~lordDue'[c] /\ tasks'[c] = << >>
        /\ ~over'[c] /\ n.phase = "Bet" /\ n.hand = DealtTo(n.turn)
    BY <1>2, <1>3, <1>4, <1>9
  <2>2. SameTurn(c, Dispatch(t), n)
    BY <1>2, <1>6 DEF SameTurn
  <2> QED
    BY <1>6, <2>1, <2>2 DEF TableInv, AskedInv, n
<1>10. CASE ends /\ ~again
  <2>1. /\ g'[c] = t /\ ~dealing'[c] /\ lordDue'[c] /\ tasks'[c] = << >>
        /\ ~over'[c] /\ n.phase = "Play" /\ SameHands(c, t, n.hand)
    BY <1>2, <1>4, <1>10
  <2> QED
    BY <1>2, <1>8, <2>1 DEF TableInv, AskedInv, n
<1>11. CASE ~ends
  <2>1. /\ g'[c] = t /\ ~dealing'[c] /\ ~lordDue'[c] /\ ~over'[c]
        /\ tasks'[c] = Asked(c, NextOf(p), "Bet")
        /\ n.phase = "Bet" /\ n.turn = NextOf(v.turn)
        /\ SameHands(c, t, n.hand) /\ t.deck = LordsCards
    BY <1>2, <1>3, <1>4, <1>11
  <2>2. AskedInv(c, n)'
    <3>1. CASE n.turn = c
      <4>1. tasks'[c] = << >>
        BY <1>7, <2>1, <3>1, Seating DEF Asked
      <4> QED
        BY <2>1, <3>1, <4>1 DEF AskedInv
    <3>2. CASE n.turn # c
      <4>1. tasks'[c] = << [seat |-> SeatOf(c, n.turn), kind |-> n.phase] >>
        BY <1>7, <2>1, <3>2, Seating DEF Asked
      <4> QED
        BY <2>1, <3>2, <4>1 DEF AskedInv, Waits
    <3> QED
      BY <3>1, <3>2
  <2> QED
    BY <1>2, <1>8, <2>1, <2>2 DEF TableInv, n
<1> QED
  BY <1>9, <1>10, <1>11

\* So does a hand.
LEMMA HandSeen ==
  ASSUME TypeInv, NEW c \in Clients, NEW v \in Views, NEW h \in SUBSET Deck, NEW t \in Tables,
         v.phase = "Play", ~dealing[c], ~lordDue[c], ~over[c], tasks[c] = << >>,
         SameTurn(c, t, v), SameHands(c, t, Less(v.hand, v.turn, h)),
         t.status = "PlayingHand",
         OnHand(c, t, SeatOf(c, v.turn), h), signals'[c] = << >>
  PROVE  TableInv(c, AfterPlay(v, h))'
<1> DEFINE p == SeatOf(c, v.turn)
           r == AfterHand(t, p, h)
           n == AfterPlay(v, h)
           wins == WinsWith(t, p)
<1>1. v.turn \in Clients /\ NextOf(v.turn) \in Clients
  BY Seating DEF Views
<1>2. /\ SameTurn(c, r, n) /\ SameHands(c, r, n.hand) /\ r.status = "PlayingHand"
      /\ wins => n.phase = "Done"
      /\ ~wins => n.phase = "Play" /\ n.turn = NextOf(v.turn)
  BY SamePlay
<1>3. g'[c] = r
  BY DEF OnHand, TypeInv, TypeOK
<1>4. over'[c] = wins
  BY DEF OnHand, TypeInv, TypeOK
<1>5. tasks'[c] = IF wins THEN << >> ELSE Asked(c, NextOf(p), "Play")
  BY DEF OnHand, TypeInv, TypeOK
<1>6. dealing'[c] = dealing[c] /\ lordDue'[c] = lordDue[c]
  BY DEF OnHand
<1>7. NextOf(p) = SeatOf(c, NextOf(v.turn))
  BY <1>1, Seating
<1>8. HandsNow(c, n)' = n.hand
  BY DEF HandsNow
<1> HIDE DEF p, r, n, wins
<1>9. AskedInv(c, n)'
  <2>1. CASE wins
    BY <1>4, <1>5, <2>1 DEF AskedInv
  <2>2. CASE ~wins /\ n.turn = c
    <3>1. tasks'[c] = << >>
      BY <1>1, <1>2, <1>5, <1>7, <2>2, Seating DEF Asked
    <3> QED
      BY <2>2, <3>1 DEF AskedInv
  <2>3. CASE ~wins /\ n.turn # c
    <3>1. tasks'[c] = << [seat |-> SeatOf(c, n.turn), kind |-> n.phase] >>
      <4>1. n.phase = "Play" /\ n.turn = NextOf(v.turn)
        BY <1>2, <2>3
      <4>2. NextOf(p) = SeatOf(c, n.turn) /\ NextOf(p) # User
        BY <1>1, <1>7, <2>3, <4>1, Seating
      <4> QED
        BY <1>5, <2>3, <4>1, <4>2 DEF Asked
    <3> QED
      BY <1>4, <1>6, <2>3, <3>1 DEF AskedInv, Waits
  <2> QED
    BY <2>1, <2>2, <2>3
<1> QED
  BY <1>2, <1>3, <1>4, <1>6, <1>8, <1>9 DEF TableInv, n

-----------------------------------------------------------------------------
(* What a step does to the history *)

\* The lengths of what is under way are numbers.
LEMMA Lengths ==
  ASSUME TypeInv, NEW c \in Clients
  PROVE  /\ Len(seen[c]) \in Nat /\ Len(signals[c]) \in Nat /\ Len(queue[c]) \in Nat
         /\ Len(down[c]) \in Nat /\ Len(up[c]) \in Nat
         /\ Taken(c) \in Nat /\ Queued(c) \in Nat /\ Told(c) \in Nat
         /\ Len(seen[c]) <= Taken(c) /\ Taken(c) <= Queued(c) /\ Queued(c) <= Told(c)
<1>1. /\ seen[c] \in Seq(Move)
      /\ signals[c] \in Seq([seat : Robots, kind : {"Bet", "Play"}, task : Task])
      /\ queue[c] \in Seq(Task) /\ down[c] \in Seq(Task) /\ up[c] \in Seq(Task)
  BY DEF TypeInv, TypeOK
<1>2. /\ Len(seen[c]) \in Nat /\ Len(signals[c]) \in Nat /\ Len(queue[c]) \in Nat
      /\ Len(down[c]) \in Nat /\ Len(up[c]) \in Nat
  <2>1. Len(seen[c]) \in Nat
    BY <1>1, LenProperties
  <2>2. Len(signals[c]) \in Nat
    BY <1>1, LenProperties
  <2>3. Len(queue[c]) \in Nat
    BY <1>1, LenProperties
  <2>4. Len(down[c]) \in Nat
    BY <1>1, LenProperties
  <2>5. Len(up[c]) \in Nat
    BY <1>1, LenProperties
  <2> QED
    BY <2>1, <2>2, <2>3, <2>4, <2>5
<1>3. Taken(c) \in Nat /\ Len(seen[c]) <= Taken(c)
  <2>1. \A i, j \in Nat : i + j \in Nat /\ i <= i + j
    OBVIOUS
  <2> QED
    BY <1>2, <2>1, Zenon DEF Taken
<1>4. Queued(c) \in Nat /\ Taken(c) <= Queued(c)
  BY <1>2, <1>3 DEF Queued
<1>5. Told(c) \in Nat /\ Queued(c) <= Told(c)
  BY <1>2, <1>4 DEF Told
<1> QED
  BY <1>2, <1>3, <1>4, <1>5

\* The server has handled what it has read, but for a move lost in a worker that hangs.
LEMMA HandledFacts ==
  ASSUME NEW log \in Seq(Move), NEW read, NEW ahead, ServerInv(log, read, ahead)
  PROVE  /\ Len(log) \in Nat /\ read \in Nat /\ Handled(read) \in Nat
         /\ Handled(read) <= read /\ read <= Len(log)
<1>1. Len(log) \in Nat
  BY LenProperties
<1> QED
  BY <1>1 DEF ServerInv, Handled

\* What is under way is some part of a log that has grown.
Grows(log, log2) ==
  /\ Len(log) <= Len(log2)
  /\ \A i \in 1..Len(log) : log2[i] = log[i]

\* A log that has grown still holds what is under way.
LEMMA CarriesOn ==
  ASSUME NEW log \in Seq(Move), NEW log2 \in Seq(Move), Grows(log, log2),
         NEW s, NEW at \in Nat, Len(s) \in Nat, Carries(s, at, log)
  PROVE  Carries(s, at, log2)
<1>1. Len(log) \in Nat /\ Len(log2) \in Nat
  BY LenProperties
<1>2. at + Len(s) <= Len(log2)
  BY <1>1 DEF Grows, Carries
<1>3. \A i \in 1..Len(s) : log2[at + i] = log[at + i]
  BY <1>1 DEF Grows, Carries
<1> QED
  BY <1>2, <1>3 DEF Carries

\* A client whose queues stay keeps its place in a log that has grown.
LEMMA PipeStays ==
  ASSUME TypeInv, NEW c \in Clients, NEW log \in Seq(Move), NEW log2 \in Seq(Move),
         Grows(log, log2), PipeInv(c, log),
         seen'[c] = seen[c], signals'[c] = signals[c], queue'[c] = queue[c], down'[c] = down[c]
  PROVE  /\ PipeInv(c, log2)'
         /\ Taken(c)' = Taken(c) /\ Queued(c)' = Queued(c) /\ Told(c)' = Told(c)
<1>1. Taken(c)' = Taken(c) /\ Queued(c)' = Queued(c) /\ Told(c)' = Told(c)
  BY DEF Taken, Queued, Told
<1>2. Carries(queue[c], Taken(c), log2) /\ Carries(down[c], Queued(c), log2)
  BY Lengths, CarriesOn DEF PipeInv
<1>3. \A i \in 1..Len(signals[c]) : /\ Len(seen[c]) + i <= Len(log2)
                                    /\ signals[c][i].task = TaskOf(log2[Len(seen[c]) + i])
  <2>1. Len(log) \in Nat /\ Len(log2) \in Nat
    BY LenProperties
  <2>2. \A i \in 1..Len(signals[c]) : Len(seen[c]) + i \in 1..Len(log)
    BY <2>1, Lengths DEF PipeInv
  <2> QED
    BY <2>1, <2>2 DEF PipeInv, Grows
<1> QED
  BY <1>1, <1>2, <1>3 DEF PipeInv

\* The log of a client that makes a move grows by it.
LEMMA LogGrows ==
  ASSUME NEW log \in Seq(Move), NEW m \in Move
  PROVE  LET log2 == Append(log, m)
         IN  /\ log2 \in Seq(Move) /\ Len(log2) = Len(log) + 1 /\ Len(log) \in Nat
             /\ Grows(log, log2) /\ log2[Len(log) + 1] = m
<1>1. Len(log) \in Nat
  BY LenProperties
<1>2. /\ Append(log, m) \in Seq(Move) /\ Len(Append(log, m)) = Len(log) + 1
      /\ \A i \in 1..Len(log) : Append(log, m)[i] = log[i]
      /\ Append(log, m)[Len(log) + 1] = m
  BY AppendProperties
<1> QED
  BY <1>1, <1>2 DEF Grows

\* Who moves has seen the whole log: it is that client's turn, and the log has no
\* move of it that its table has not seen.
LEMMA MoverHasSeenAll ==
  ASSUME TypeInv, NEW log \in Seq(Move), NEW T \in [0..Len(log) -> Views], NEW c \in Clients,
         LogInv(log, T), SeenInv(c, log), T[Len(seen[c])].turn = c
  PROVE  Len(seen[c]) = Len(log)
<1>1. Len(seen[c]) \in Nat /\ Len(log) \in Nat /\ Len(seen[c]) <= Len(log)
  BY Lengths, LenProperties DEF SeenInv
<1>2. SUFFICES ASSUME Len(seen[c]) # Len(log) PROVE FALSE
  OBVIOUS
<1>3. Len(seen[c]) + 1 \in 1..Len(log) /\ Len(seen[c]) + 1 \in (Len(seen[c]) + 1)..Len(log)
  BY <1>1, <1>2
<1>4. log[Len(seen[c]) + 1].by = T[(Len(seen[c]) + 1) - 1].turn
  BY <1>3 DEF LogInv
<1>5. log[Len(seen[c]) + 1].by # c
  BY <1>3 DEF SeenInv
<1> QED
  BY <1>1, <1>4, <1>5

\* A table is never told of more than there is, and of nothing if it has seen everything.
LEMMA NothingUnderWay ==
  ASSUME TypeInv, NEW log \in Seq(Move), NEW c \in Clients,
         PipeInv(c, log), Len(seen[c]) = Len(log)
  PROVE  /\ Len(signals[c]) = 0 /\ Len(queue[c]) = 0 /\ Len(down[c]) = 0
         /\ Told(c) = Len(log)
         /\ signals[c] = << >> /\ queue[c] = << >> /\ down[c] = << >>
<1>1. /\ Len(seen[c]) \in Nat /\ Len(signals[c]) \in Nat /\ Len(queue[c]) \in Nat
      /\ Len(down[c]) \in Nat /\ Len(log) \in Nat
  BY Lengths, LenProperties
<1>2. Len(signals[c]) = 0
  <2>1. SUFFICES ASSUME Len(signals[c]) # 0 PROVE FALSE
    OBVIOUS
  <2>2. 1 \in 1..Len(signals[c])
    BY <1>1, <2>1
  <2> QED
    BY <1>1, <2>2 DEF PipeInv
<1>3. Len(queue[c]) = 0
  BY <1>1, <1>2 DEF PipeInv, Carries, Taken
<1>4. Len(down[c]) = 0
  BY <1>1, <1>2, <1>3 DEF PipeInv, Carries, Taken, Queued
<1>5. signals[c] = << >> /\ queue[c] = << >> /\ down[c] = << >>
  <2>1. /\ signals[c] \in Seq([seat : Robots, kind : {"Bet", "Play"}, task : Task])
        /\ queue[c] \in Seq(Task) /\ down[c] \in Seq(Task)
    BY DEF TypeInv, TypeOK
  <2> QED
    BY <1>2, <1>3, <1>4, <2>1, EmptySeq
<1> QED
  BY <1>1, <1>2, <1>3, <1>4, <1>5 DEF Told, Queued, Taken

\* A user's move becomes the last of the log. Its client was ahead of the server already,
\* or the server had handled everything.
LEMMA MoveMade ==
  ASSUME TypeInv, NEW log \in Seq(Move), NEW T \in [0..Len(log) -> Views],
         NEW read \in 0..Len(log), NEW ahead \in Clients, History(log, T, read, ahead),
         NEW c \in Clients, NEW m \in Move, NEW v \in Views, v = T[Len(seen[c])],
         m.by = c, v.turn = c, m.kind = v.phase,
         IF m.kind = "Bet" THEN m.cards = {} ELSE m.bet = 0,
         seen' = [seen EXCEPT ![c] = Append(seen[c], m)],
         up' = [up EXCEPT ![c] = Append(up[c], TaskOf(m))],
         UNCHANGED << signals, queue, down, relays, hung >>,
         \A d \in Clients : d # c => /\ g'[d] = g[d] /\ dealing'[d] = dealing[d]
                                     /\ lordDue'[d] = lordDue[d] /\ over'[d] = over[d]
                                     /\ tasks'[d] = tasks[d],
         TableInv(c, After(v, m))'
  PROVE  /\ Len(seen[c]) = Len(log)
         /\ \E T2 \in [0..Len(Append(log, m)) -> Views] :
              History(Append(log, m), T2, read, c)'
<1> DEFINE L == Len(log)
           R == Handled(read)
           log2 == Append(log, m)
           T2 == [n \in 0..(L + 1) |-> IF n <= L THEN T[n] ELSE After(T[L], m)]
<1>1. /\ LogInv(log, T) /\ ServerInv(log, read, ahead) /\ RelayInv(log, read)
      /\ \A d \in Clients : /\ SeenInv(d, log) /\ PipeInv(d, log)
                            /\ TellInv(d, log, read)
                            /\ \A n \in 0..L : n = Len(seen[d]) => TableInv(d, T[n])
  BY DEF History
<1>2. L \in Nat /\ read \in Nat /\ R \in Nat /\ R <= read /\ read <= L
  BY <1>1, HandledFacts
<1>3. log2 \in Seq(Move) /\ Len(log2) = L + 1 /\ Grows(log, log2) /\ log2[L + 1] = m
  BY LogGrows
<1>4. \A i \in 1..L : log2[i] = log[i]
  BY <1>3 DEF Grows
<1>5. Len(seen[c]) = L
  BY <1>1, MoverHasSeenAll
<1>6. Told(c) = L /\ signals[c] = << >>
  BY <1>1, <1>5, NothingUnderWay
<1>7. R < L => c = ahead
  BY <1>1, <1>5 DEF ServerInv
<1>8. c # ahead => read = L /\ R = L /\ up[ahead] = << >>
  <2> SUFFICES ASSUME c # ahead PROVE read = L /\ R = L /\ up[ahead] = << >>
    OBVIOUS
  <2>1. R = L /\ read = L
    BY <1>2, <1>7
  <2>2. Len(up[ahead]) = 0
    BY <1>1, <1>2, <2>1 DEF ServerInv
  <2>3. up[ahead] \in Seq(Task)
    BY DEF TypeInv, TypeOK
  <2> QED
    BY <2>1, <2>2, <2>3, EmptySeq
<1>9. \A d \in Clients : d # c => up[d] = << >> /\ Len(seen[d]) <= R
  <2> SUFFICES ASSUME NEW d \in Clients, d # c PROVE up[d] = << >> /\ Len(seen[d]) <= R
    OBVIOUS
  <2>1. up[d] = << >>
    BY <1>1, <1>8 DEF ServerInv
  <2>2. Len(seen[d]) \in Nat /\ Len(seen[d]) <= L
    BY <1>1, Lengths DEF SeenInv
  <2>3. Len(seen[d]) <= R
    BY <1>1, <1>2, <1>7, <2>2 DEF ServerInv
  <2> QED
    BY <2>1, <2>3
<1>10. /\ \A d \in Clients : d # c => seen'[d] = seen[d] /\ up'[d] = up[d]
       /\ seen'[c] = Append(seen[c], m) /\ up'[c] = Append(up[c], TaskOf(m))
  BY DEF TypeInv, TypeOK
<1>11. Handled(read)' = R /\ \A d \in Clients : Owed(d)' = Owed(d)
  BY DEF Handled, Owed
<1>12. /\ Len(seen'[c]) = L + 1 /\ seen'[c][L + 1] = m
       /\ \A i \in 1..L : seen'[c][i] = log[i]
  <2>1. seen[c] \in Seq(Move)
    BY DEF TypeInv, TypeOK
  <2>2. /\ Len(Append(seen[c], m)) = L + 1 /\ Append(seen[c], m)[L + 1] = m
        /\ \A i \in 1..L : Append(seen[c], m)[i] = seen[c][i]
    BY <1>5, <2>1, AppendProperties
  <2>3. \A i \in 1..L : seen[c][i] = log[i]
    BY <1>1, <1>5 DEF SeenInv
  <2> QED
    BY <1>10, <2>2, <2>3
<1>13. TaskOf(m) \in Task
  BY DEF Move, Task, TaskOf
<1> HIDE DEF log2, R
<1>14. T2 \in [0..(L + 1) -> Views] /\ LogInv(log2, T2)
  <2>1. T[L] \in Views /\ 0 \in 0..L
    BY <1>2
  <2>2. After(T[L], m) \in Views
    <3>1. m.bet \in 0..3 /\ m.cards \in SUBSET Deck
      BY TaskTypes DEF Move
    <3> QED
      BY <2>1, <3>1, AfterBidType, AfterPlayFacts DEF After
  <2>3. T2 \in [0..(L + 1) -> Views]
    BY <2>1, <2>2
  <2>4. \A n \in 1..L : T2[n] = T[n] /\ T2[n - 1] = T[n - 1]
    BY <1>2
  <2>5. T2[L] = T[L] /\ T2[L + 1] = After(T[L], m)
    BY <1>2
  <2> HIDE DEF T2
  <2>6. ASSUME NEW n \in 1..(L + 1)
        PROVE  /\ log2[n].by = T2[n - 1].turn
               /\ log2[n].kind = T2[n - 1].phase
               /\ IF log2[n].kind = "Bet" THEN log2[n].cards = {} ELSE log2[n].bet = 0
               /\ T2[n] = After(T2[n - 1], log2[n])
    <3>1. CASE n \in 1..L
      BY <1>1, <1>4, <2>4, <3>1 DEF LogInv
    <3>2. CASE n = L + 1
      <4>1. log2[n] = m /\ T2[n - 1] = T[L] /\ T2[n] = After(T[L], m)
        BY <1>2, <1>3, <2>5, <3>2
      <4>2. v = T[L]
        BY <1>5
      <4> QED
        BY <4>1, <4>2
    <3> HIDE DEF L
    <3>3. n \in 1..L \/ n = L + 1
      BY <1>2
    <3> QED
      BY <3>1, <3>2, <3>3
  <2> QED
    BY <1>3, <2>3, <2>6 DEF LogInv
<1>15. ServerInv(log2, read, c)'
  <2>1. up[c] \in Seq(Task)
    BY DEF TypeInv, TypeOK
  <2>2. Len(up[c]) = L - read /\ Carries(up[c], read, log)
    <3>1. CASE c = ahead
      BY <1>1, <3>1 DEF ServerInv
    <3>2. CASE c # ahead
      <4>1. up[c] = << >> /\ read = L
        BY <1>1, <1>8, <3>2 DEF ServerInv
      <4> QED
        BY <1>2, <4>1 DEF Carries
    <3> QED
      BY <3>1, <3>2
  <2>3. /\ Len(up'[c]) = (L + 1) - read
        /\ up'[c][(L + 1) - read] = TaskOf(m)
        /\ \A i \in 1..(L - read) : up'[c][i] = up[c][i]
    <3>1. /\ Len(Append(up[c], TaskOf(m))) = Len(up[c]) + 1
          /\ Append(up[c], TaskOf(m))[Len(up[c]) + 1] = TaskOf(m)
          /\ \A i \in 1..Len(up[c]) : Append(up[c], TaskOf(m))[i] = up[c][i]
      BY <1>13, <2>1, AppendProperties
    <3>2. Len(up[c]) + 1 = (L + 1) - read
      BY <1>2, <2>2
    <3> QED
      BY <1>10, <2>2, <3>1, <3>2
  <2>4. Carries(up'[c], read, log2)
    <3>1. read + Len(up'[c]) <= Len(log2)
      BY <1>2, <1>3, <2>3
    <3>2. ASSUME NEW i \in 1..((L + 1) - read)
          PROVE  up'[c][i] = TaskOf(log2[read + i])
      <4>1. CASE i \in 1..(L - read)
        <5>1. up[c][i] = TaskOf(log[read + i]) /\ read + i \in 1..L
          BY <1>2, <2>2, <4>1 DEF Carries
        <5>2. log2[read + i] = log[read + i]
          BY <1>4, <5>1
        <5> QED
          BY <2>3, <4>1, <5>1, <5>2
      <4>2. CASE i = (L + 1) - read
        <5>1. read + i = L + 1
          BY <1>2, <4>2
        <5>2. log2[read + i] = m
          BY <1>3, <5>1
        <5>3. up'[c][i] = TaskOf(m)
          BY <2>3, <4>2
        <5> QED
          BY <5>2, <5>3
      <4> HIDE DEF L
      <4>3. i \in 1..(L - read) \/ i = (L + 1) - read
        BY <1>2
      <4> QED
        BY <4>1, <4>2, <4>3
    <3> QED
      BY <2>3, <3>1, <3>2 DEF Carries
  <2>5. read \in 0..Len(log2) /\ (hung' # {} => read > 0)
    BY <1>1, <1>2, <1>3 DEF ServerInv
  <2>6. \A d \in Clients : Len(seen'[d]) > R => d = c
    <3> SUFFICES ASSUME NEW d \in Clients, d # c PROVE ~(Len(seen'[d]) > R)
      OBVIOUS
    <3>1. Len(seen'[d]) <= R /\ Len(seen[d]) \in Nat
      BY <1>9, <1>10, Lengths
    <3> QED
      BY <1>2, <1>10, <3>1
  <2>7. \A d \in Clients : d # c => up'[d] = << >>
    BY <1>9, <1>10
  <2> QED
    BY <1>3, <1>11, <2>3, <2>4, <2>5, <2>6, <2>7 DEF ServerInv
<1>16. RelayInv(log2, read)'
  <2>1. ASSUME NEW w \in Workers, NEW i \in DOMAIN relays[w]
        PROVE  relays[w][i].task = TaskOf(log2[R])
    <3>1. relays[w] # << >>
      OBVIOUS
    <3>2. R \in 1..L
      BY <1>1, <1>2, <3>1 DEF RelayInv, R
    <3> QED
      BY <1>1, <1>4, <3>2 DEF RelayInv, R
  <2>2. R = Handled(read)
    BY DEF R
  <2> QED
    BY <1>1, <1>11, <2>1, <2>2 DEF RelayInv
<1>17. ASSUME NEW d \in Clients, d # c
       PROVE  /\ SeenInv(d, log2)' /\ PipeInv(d, log2)' /\ TellInv(d, log2, read)'
              /\ \A n \in 0..(L + 1) : n = Len(seen'[d]) => TableInv(d, T2[n])'
  <2>1. seen'[d] = seen[d] /\ Len(seen[d]) \in Nat /\ Len(seen[d]) <= L
    BY <1>1, <1>10, <1>17, Lengths DEF SeenInv
  <2>2. SeenInv(d, log2)'
    <3>1. \A i \in (Len(seen[d]) + 1)..(L + 1) : log2[i].by # d
      <4> SUFFICES ASSUME NEW i \in (Len(seen[d]) + 1)..(L + 1) PROVE log2[i].by # d
        OBVIOUS
      <4>1. CASE i = L + 1
        BY <1>3, <1>17, <4>1
      <4>2. CASE i # L + 1
        <5>1. i \in (Len(seen[d]) + 1)..L /\ i \in 1..L
          BY <1>2, <2>1, <4>2
        <5> QED
          BY <1>1, <1>4, <5>1 DEF SeenInv
      <4> QED
        BY <4>1, <4>2
    <3>2. \A i \in 1..Len(seen[d]) : seen[d][i] = log2[i]
      BY <1>1, <1>2, <1>4, <2>1 DEF SeenInv
    <3>3. Len(seen[d]) <= Len(log2)
      BY <1>2, <1>3, <2>1
    <3> QED
      BY <1>3, <2>1, <3>1, <3>2, <3>3 DEF SeenInv
  <2>3. PipeInv(d, log2)' /\ Told(d)' = Told(d)
    BY <1>1, <1>3, <2>1, PipeStays
  <2>4. TellInv(d, log2, read)'
    <3>1. ~(Len(seen[d]) > R)
      BY <1>2, <1>9, <1>17, <2>1
    <3>2. Told(d) = IF Owed(d) THEN R - 1 ELSE R
      BY <1>1, <3>1 DEF TellInv, R
    <3> QED
      BY <1>11, <2>1, <2>3, <3>1, <3>2 DEF TellInv
  <2>5. ASSUME NEW n \in 0..(L + 1), n = Len(seen'[d])
        PROVE  TableInv(d, T2[n])'
    <3>1. n \in 0..L /\ n = Len(seen[d]) /\ T2[n] = T[n]
      BY <1>2, <2>1, <2>5
    <3>2. TableInv(d, T[n])
      BY <1>1, <3>1
    <3>3. TableInv(d, T[n])'
      BY <1>17, <3>2, TableStays
    <3> QED
      BY <3>1, <3>3
  <2> QED
    BY <2>2, <2>3, <2>4, <2>5
<1>18. /\ SeenInv(c, log2)' /\ PipeInv(c, log2)' /\ TellInv(c, log2, read)'
       /\ \A n \in 0..(L + 1) : n = Len(seen'[c]) => TableInv(c, T2[n])'
  <2>1. SeenInv(c, log2)'
    <3>1. \A i \in 1..(L + 1) : seen'[c][i] = log2[i]
      BY <1>2, <1>3, <1>4, <1>12
    <3> QED
      BY <1>2, <1>3, <1>12, <3>1 DEF SeenInv
  <2>2. /\ Len(signals[c]) = 0 /\ Len(queue[c]) = 0 /\ Len(down[c]) = 0
    BY <1>1, <1>5, NothingUnderWay
  <2>3. Taken(c)' = L + 1 /\ Queued(c)' = L + 1 /\ Told(c)' = L + 1
    BY <1>2, <1>12, <2>2 DEF Taken, Queued, Told
  <2>4. PipeInv(c, log2)'
    BY <1>2, <1>3, <2>2, <2>3 DEF PipeInv, Carries
  <2>5. TellInv(c, log2, read)'
    <3>1. ~Owed(c)
      <4>1. Told(c) = IF Owed(c) THEN R - 1 ELSE IF Len(seen[c]) > R THEN L ELSE R
        BY <1>1 DEF TellInv, R
      <4> QED
        BY <1>2, <1>6, <4>1
    <3>2. L + 1 > R
      BY <1>2
    <3> QED
      BY <1>3, <1>11, <1>12, <2>3, <3>1, <3>2 DEF TellInv
  <2>6. ASSUME NEW n \in 0..(L + 1), n = Len(seen'[c])
        PROVE  TableInv(c, T2[n])'
    <3>1. T2[n] = After(v, m)
      BY <1>2, <1>5, <1>12, <2>6
    <3> QED
      BY <3>1
  <2> QED
    BY <2>1, <2>4, <2>5, <2>6
<1> HIDE DEF T2
<1>19. History(log2, T2, read, c)'
  <2>1. ASSUME NEW d \in Clients
        PROVE  /\ SeenInv(d, log2)' /\ PipeInv(d, log2)' /\ TellInv(d, log2, read)'
               /\ \A n \in 0..Len(log2) : n = Len(seen'[d]) => TableInv(d, T2[n])'
    BY <1>3, <1>17, <1>18
  <2> QED
    BY <1>14, <1>15, <1>16, <2>1 DEF History
<1> QED
  BY <1>3, <1>5, <1>14, <1>19 DEF log2

\* A step of one client that makes no move leaves the history as it is if it leaves that
\* client's part of it so.
LEMMA LocalStep ==
  ASSUME TypeInv, NEW log \in Seq(Move), NEW T \in [0..Len(log) -> Views],
         NEW read \in 0..Len(log), NEW ahead \in Clients, History(log, T, read, ahead),
         NEW c \in Clients,
         UNCHANGED << up, relays, hung >>,
         \A d \in Clients : d # c => /\ g'[d] = g[d] /\ dealing'[d] = dealing[d]
                                     /\ lordDue'[d] = lordDue[d] /\ over'[d] = over[d]
                                     /\ tasks'[d] = tasks[d] /\ signals'[d] = signals[d]
                                     /\ queue'[d] = queue[d] /\ down'[d] = down[d]
                                     /\ seen'[d] = seen[d],
         SeenInv(c, log)', PipeInv(c, log)',
         Told(c)' = Told(c),
         \/ seen'[c] = seen[c]
         \/ Len(seen'[c]) = Len(seen[c]) + 1 /\ Len(seen[c]) < Told(c),
         \A n \in 0..Len(log) : n = Len(seen'[c]) => TableInv(c, T[n])'
  PROVE  History(log, T, read, ahead)'
<1> DEFINE R == Handled(read)
<1>1. /\ LogInv(log, T) /\ ServerInv(log, read, ahead) /\ RelayInv(log, read)
      /\ \A d \in Clients : /\ SeenInv(d, log) /\ PipeInv(d, log) /\ TellInv(d, log, read)
                            /\ \A n \in 0..Len(log) : n = Len(seen[d]) => TableInv(d, T[n])
  BY DEF History
<1>2. Len(log) \in Nat /\ read \in Nat /\ R \in Nat /\ R <= read /\ read <= Len(log)
  BY <1>1, HandledFacts
<1>3. Handled(read)' = R /\ \A d \in Clients : Owed(d)' = Owed(d)
  BY DEF Handled, Owed
<1>4. Told(c) = IF Owed(c) THEN R - 1 ELSE IF Len(seen[c]) > R THEN Len(log) ELSE R
  BY <1>1 DEF TellInv
<1>5. Len(seen[c]) \in Nat
  BY Lengths
<1> HIDE DEF R
<1>6. Len(seen'[c]) > R => Len(seen[c]) > R
  <2>1. CASE seen'[c] = seen[c]
    BY <2>1
  <2>2. CASE Len(seen'[c]) = Len(seen[c]) + 1 /\ Len(seen[c]) < Told(c)
    BY <1>2, <1>4, <1>5, <2>2
  <2> QED
    BY <2>1, <2>2
<1>7. TellInv(c, log, read)'
  <2>1. Len(seen[c]) > R => Len(seen'[c]) > R
    BY <1>2, <1>5
  <2>2. Told(c)' = IF Owed(c)' THEN R - 1 ELSE IF Len(seen'[c]) > R THEN Len(log) ELSE R
    BY <1>3, <1>4, <1>6, <2>1
  <2> QED
    BY <1>3, <2>2 DEF TellInv
<1>8. ASSUME NEW d \in Clients, d # c
      PROVE  /\ SeenInv(d, log)' /\ PipeInv(d, log)' /\ TellInv(d, log, read)'
             /\ \A n \in 0..Len(log) : n = Len(seen'[d]) => TableInv(d, T[n])'
  <2>1. SeenInv(d, log)'
    BY <1>1, <1>8 DEF SeenInv
  <2>2. Grows(log, log)
    BY <1>2 DEF Grows
  <2>3. PipeInv(d, log)' /\ Told(d)' = Told(d)
    BY <1>1, <1>8, <2>2, PipeStays
  <2>4. TellInv(d, log, read)'
    <3>1. Told(d) = IF Owed(d) THEN R - 1 ELSE IF Len(seen[d]) > R THEN Len(log) ELSE R
      BY <1>1 DEF TellInv, R
    <3> QED
      BY <1>3, <1>8, <2>3, <3>1 DEF TellInv
  <2>5. ASSUME NEW n \in 0..Len(log), n = Len(seen'[d])
        PROVE  TableInv(d, T[n])'
    <3>1. TableInv(d, T[n])
      BY <1>1, <1>8, <2>5
    <3> QED
      BY <1>8, <3>1, TableStays
  <2> QED
    BY <2>1, <2>3, <2>4, <2>5
<1>9. ServerInv(log, read, ahead)'
  <2>1. ASSUME NEW d \in Clients, Len(seen'[d]) > R
        PROVE  d = ahead
    <3>1. Len(seen[d]) > R
      BY <1>6, <2>1
    <3> QED
      BY <1>1, <3>1 DEF ServerInv, R
  <2> QED
    BY <1>1, <1>3, <2>1 DEF ServerInv
<1>10. RelayInv(log, read)'
  BY <1>1, <1>3 DEF RelayInv, R
<1>11. ASSUME NEW d \in Clients
       PROVE  /\ SeenInv(d, log)' /\ PipeInv(d, log)' /\ TellInv(d, log, read)'
              /\ \A n \in 0..Len(log) : n = Len(seen'[d]) => TableInv(d, T[n])'
  BY <1>7, <1>8
<1> QED
  BY <1>1, <1>9, <1>10, <1>11 DEF History

\* The cards are dealt.
LEMMA DealStep ==
  ASSUME TypeInv, NEW log \in Seq(Move), NEW T \in [0..Len(log) -> Views],
         NEW read \in 0..Len(log), NEW ahead \in Clients, History(log, T, read, ahead),
         NEW c \in Clients, Deal(c)
  PROVE  History(log, T, read, ahead)'
<1>1. /\ SeenInv(c, log) /\ PipeInv(c, log) /\ Len(log) \in Nat
      /\ \A n \in 0..Len(log) : n = Len(seen[c]) => TableInv(c, T[n])
  BY LenProperties DEF History
<1>2. /\ UNCHANGED << lordDue, signals, over, queue, up, down, relays, hung, seen >>
      /\ dealing[c] /\ dealing' = [dealing EXCEPT ![c] = FALSE]
      /\ g' = [g EXCEPT ![c] = DealtOut(Dispatch(g[c]))]
      /\ tasks' = [tasks EXCEPT ![c] = Asked(c, g[c].cur, "Bet")]
  BY DEF Deal, serverVars
<1>3. /\ g'[c] = DealtOut(Dispatch(g[c])) /\ ~dealing'[c]
      /\ tasks'[c] = Asked(c, g[c].cur, "Bet")
      /\ \A d \in Clients : d # c => /\ g'[d] = g[d] /\ dealing'[d] = dealing[d]
                                     /\ tasks'[d] = tasks[d]
  BY <1>2 DEF TypeInv, TypeOK
<1>4. ASSUME NEW n \in 0..Len(log), n = Len(seen'[c])
      PROVE  TableInv(c, T[n])'
  <2> DEFINE v == T[n]
  <2>1. TableInv(c, v) /\ v \in Views /\ g[c] \in Tables
    BY <1>1, <1>2, <1>4 DEF TypeInv, TypeOK
  <2>2. /\ SameTurn(c, g[c], v) /\ v.phase = "Bet" /\ v.hand = DealtTo(v.turn)
        /\ ~lordDue[c] /\ ~over[c] /\ tasks[c] = << >> /\ signals[c] = << >>
        /\ g[c].cur = SeatOf(c, v.turn) /\ v.turn \in Clients
    BY <1>2, <2>1 DEF TableInv, AskedInv, SameTurn, Views
  <2> HIDE DEF v
  <2>3. /\ SameTurn(c, g'[c], v) /\ SameHands(c, g'[c], v.hand)
        /\ g'[c].status = "CallingLord" /\ g'[c].deck = LordsCards
    BY <1>3, <2>1, <2>2, SameDeal
  <2>4. v.turn # c => tasks'[c] = << [seat |-> SeatOf(c, v.turn), kind |-> "Bet"] >>
    BY <1>3, <2>2, Seating DEF Asked
  <2>5. v.turn = c => tasks'[c] = << >>
    BY <1>3, <2>2, Seating DEF Asked
  <2>6. AskedInv(c, v)'
    BY <1>2, <1>3, <2>2, <2>4, <2>5 DEF AskedInv, Waits
  <2>7. HandsNow(c, v)' = v.hand
    BY <2>2 DEF HandsNow
  <2>8. TableInv(c, v)'
    BY <1>2, <1>3, <2>2, <2>3, <2>6, <2>7 DEF TableInv
  <2> QED
    BY <2>8 DEF v
<1>5. SeenInv(c, log)' /\ PipeInv(c, log)' /\ Told(c)' = Told(c)
  <2>1. Grows(log, log)
    BY <1>1 DEF Grows
  <2> QED
    BY <1>1, <1>2, <2>1, PipeStays DEF SeenInv
<1>6. /\ UNCHANGED << up, relays, hung >> /\ seen'[c] = seen[c]
      /\ \A d \in Clients : d # c => /\ g'[d] = g[d] /\ dealing'[d] = dealing[d]
                                     /\ lordDue'[d] = lordDue[d] /\ over'[d] = over[d]
                                     /\ tasks'[d] = tasks[d] /\ signals'[d] = signals[d]
                                     /\ queue'[d] = queue[d] /\ down'[d] = down[d]
                                     /\ seen'[d] = seen[d]
  BY <1>2, <1>3
<1> QED
  BY <1>4, <1>5, <1>6, LocalStep

\* The lord is asked for a hand.
LEMMA LordStep ==
  ASSUME TypeInv, NEW log \in Seq(Move), NEW T \in [0..Len(log) -> Views],
         NEW read \in 0..Len(log), NEW ahead \in Clients, History(log, T, read, ahead),
         NEW c \in Clients, LordStarts(c)
  PROVE  History(log, T, read, ahead)'
<1>1. /\ SeenInv(c, log) /\ PipeInv(c, log) /\ Len(log) \in Nat
      /\ \A n \in 0..Len(log) : n = Len(seen[c]) => TableInv(c, T[n])
  BY LenProperties DEF History
<1>2. /\ UNCHANGED << dealing, signals, over, queue, up, down, relays, hung, seen >>
      /\ lordDue[c] /\ lordDue' = [lordDue EXCEPT ![c] = FALSE]
      /\ g' = [g EXCEPT ![c] = [g[c] EXCEPT !.status = "PlayingHand"]]
      /\ tasks' = [tasks EXCEPT ![c] = Asked(c, g[c].cur, "Play")]
  BY DEF LordStarts, serverVars
<1>3. /\ g'[c] = [g[c] EXCEPT !.status = "PlayingHand"] /\ ~lordDue'[c]
      /\ tasks'[c] = Asked(c, g[c].cur, "Play")
      /\ \A d \in Clients : d # c => /\ g'[d] = g[d] /\ lordDue'[d] = lordDue[d]
                                     /\ tasks'[d] = tasks[d]
  BY <1>2 DEF TypeInv, TypeOK
<1>4. ASSUME NEW n \in 0..Len(log), n = Len(seen'[c])
      PROVE  TableInv(c, T[n])'
  <2> DEFINE v == T[n]
  <2>1. TableInv(c, v) /\ v \in Views /\ g[c] \in Tables
    BY <1>1, <1>2, <1>4 DEF TypeInv, TypeOK
  <2>2. /\ SameTurn(c, g[c], v) /\ v.phase = "Play"
        /\ ~dealing[c] /\ ~over[c] /\ tasks[c] = << >> /\ signals[c] = << >>
        /\ SameHands(c, g[c], v.hand)
        /\ g[c].cur = SeatOf(c, v.turn) /\ v.turn \in Clients
    BY <1>2, <2>1 DEF TableInv, AskedInv, SameTurn, HandsNow, Views
  <2> HIDE DEF v
  <2>3. /\ g'[c].cur = g[c].cur /\ g'[c].times = g[c].times /\ g'[c].bet = g[c].bet
        /\ g'[c].betBy = g[c].betBy /\ g'[c].hand = g[c].hand
        /\ g'[c].status = "PlayingHand"
    BY <1>3, <2>1 DEF Tables
  <2>4. SameTurn(c, g'[c], v) /\ SameHands(c, g'[c], v.hand)
    BY <2>2, <2>3 DEF SameTurn, SameHands
  <2>5. v.turn # c => tasks'[c] = << [seat |-> SeatOf(c, v.turn), kind |-> "Play"] >>
    BY <1>3, <2>2, Seating DEF Asked
  <2>6. v.turn = c => tasks'[c] = << >>
    BY <1>3, <2>2, Seating DEF Asked
  <2>7. AskedInv(c, v)'
    BY <1>2, <1>3, <2>2, <2>5, <2>6 DEF AskedInv, Waits
  <2>8. HandsNow(c, v)' = v.hand
    BY <1>2, <2>2 DEF HandsNow
  <2>9. TableInv(c, v)'
    BY <1>2, <1>3, <2>2, <2>3, <2>4, <2>7, <2>8 DEF TableInv
  <2> QED
    BY <2>9 DEF v
<1>5. SeenInv(c, log)' /\ PipeInv(c, log)' /\ Told(c)' = Told(c)
  <2>1. Grows(log, log)
    BY <1>1 DEF Grows
  <2> QED
    BY <1>1, <1>2, <2>1, PipeStays DEF SeenInv
<1>6. /\ UNCHANGED << up, relays, hung >> /\ seen'[c] = seen[c]
      /\ \A d \in Clients : d # c => /\ g'[d] = g[d] /\ dealing'[d] = dealing[d]
                                     /\ lordDue'[d] = lordDue[d] /\ over'[d] = over[d]
                                     /\ tasks'[d] = tasks[d] /\ signals'[d] = signals[d]
                                     /\ queue'[d] = queue[d] /\ down'[d] = down[d]
                                     /\ seen'[d] = seen[d]
  BY <1>2, <1>3
<1> QED
  BY <1>4, <1>5, <1>6, LocalStep

\* The first of what is under way is the next move of the log.
LEMMA CarriesFirst ==
  ASSUME NEW log \in Seq(Move), NEW at \in Nat, NEW t \in Seq(Task), t # << >>,
         Carries(t, at, log)
  PROVE  /\ Head(t) = TaskOf(log[at + 1]) /\ at + 1 \in 1..Len(log)
         /\ Carries(Tail(t), at + 1, log) /\ Len(Tail(t)) = Len(t) - 1 /\ Len(t) \in Nat
<1>1. Len(t) \in Nat \ {0} /\ Len(log) \in Nat
  BY LenProperties, EmptySeq
<1>2. /\ Len(Tail(t)) = Len(t) - 1
      /\ \A i \in 1..Len(Tail(t)) : Tail(t)[i] = t[i + 1]
  BY HeadTailProperties
<1>3. Head(t) = t[1] /\ 1 \in 1..Len(t)
  BY <1>1
<1>4. Head(t) = TaskOf(log[at + 1]) /\ at + 1 \in 1..Len(log)
  BY <1>1, <1>3 DEF Carries
<1>5. ASSUME NEW i \in 1..(Len(t) - 1)
      PROVE  Tail(t)[i] = TaskOf(log[(at + 1) + i])
  <2>1. i + 1 \in 1..Len(t) /\ at + (i + 1) = (at + 1) + i /\ i \in 1..Len(Tail(t))
    BY <1>1, <1>2
  <2>2. t[i + 1] = TaskOf(log[at + (i + 1)])
    BY <2>1 DEF Carries
  <2> QED
    BY <1>2, <2>1, <2>2
<1>6. (at + 1) + (Len(t) - 1) <= Len(log)
  BY <1>1 DEF Carries
<1>7. Carries(Tail(t), at + 1, log)
  BY <1>2, <1>5, <1>6 DEF Carries
<1> QED
  BY <1>1, <1>2, <1>4, <1>7

\* What is under way may be followed by the move that comes next.
LEMMA CarriesMore ==
  ASSUME NEW log \in Seq(Move), NEW at \in Nat, NEW s \in Seq(Task), Carries(s, at, log),
         NEW x \in Task, at + Len(s) + 1 <= Len(log), x = TaskOf(log[at + Len(s) + 1])
  PROVE  /\ Carries(Append(s, x), at, log)
         /\ Append(s, x) \in Seq(Task) /\ Len(Append(s, x)) = Len(s) + 1 /\ Len(s) \in Nat
<1>1. Len(s) \in Nat
  BY LenProperties
<1>2. /\ Append(s, x) \in Seq(Task) /\ Len(Append(s, x)) = Len(s) + 1
      /\ \A i \in 1..Len(s) : Append(s, x)[i] = s[i]
      /\ Append(s, x)[Len(s) + 1] = x
  BY AppendProperties
<1>3. ASSUME NEW i \in 1..(Len(s) + 1)
      PROVE  Append(s, x)[i] = TaskOf(log[at + i])
  <2>1. CASE i \in 1..Len(s)
    BY <1>2, <2>1 DEF Carries
  <2>2. CASE i = Len(s) + 1
    <3>1. at + i = at + Len(s) + 1
      BY <1>1, <2>2
    <3> QED
      BY <1>2, <2>2, <3>1
  <2> QED
    BY <1>1, <2>1, <2>2
<1>4. at + (Len(s) + 1) <= Len(log)
  BY <1>1
<1> QED
  BY <1>1, <1>2, <1>3, <1>4 DEF Carries

\* A move gets into the TaskQueue.
LEMMA TaskStep ==
  ASSUME TypeInv, NEW log \in Seq(Move), NEW T \in [0..Len(log) -> Views],
         NEW read \in 0..Len(log), NEW ahead \in Clients, History(log, T, read, ahead),
         NEW c \in Clients, AddTask(c)
  PROVE  History(log, T, read, ahead)'
<1>1. /\ SeenInv(c, log) /\ PipeInv(c, log) /\ Len(log) \in Nat
      /\ \A n \in 0..Len(log) : n = Len(seen[c]) => TableInv(c, T[n])
  BY LenProperties DEF History
<1>2. /\ UNCHANGED << g, dealing, lordDue, tasks, over, seen, signals, up, relays, hung >>
      /\ down[c] # << >>
      /\ queue' = [queue EXCEPT ![c] = Append(queue[c], Head(down[c]))]
      /\ down' = [down EXCEPT ![c] = Tail(down[c])]
  BY DEF AddTask, tableVars, serverVars
<1>3. /\ queue'[c] = Append(queue[c], Head(down[c])) /\ down'[c] = Tail(down[c])
      /\ \A d \in Clients : d # c => queue'[d] = queue[d] /\ down'[d] = down[d]
  BY <1>2 DEF TypeInv, TypeOK
<1>4. /\ queue[c] \in Seq(Task) /\ down[c] \in Seq(Task) /\ Head(down[c]) \in Task
      /\ Taken(c) \in Nat /\ Queued(c) \in Nat /\ Queued(c) = Taken(c) + Len(queue[c])
  <2>1. queue[c] \in Seq(Task) /\ down[c] \in Seq(Task)
    BY DEF TypeInv, TypeOK
  <2> QED
    BY <1>2, <2>1, Lengths, HeadTailProperties DEF Queued
<1>5. /\ Carries(queue[c], Taken(c), log) /\ Carries(down[c], Queued(c), log)
  BY <1>1 DEF PipeInv
<1>6. /\ Head(down[c]) = TaskOf(log[Queued(c) + 1]) /\ Queued(c) + 1 \in 1..Len(log)
      /\ Carries(Tail(down[c]), Queued(c) + 1, log)
      /\ Len(Tail(down[c])) = Len(down[c]) - 1 /\ Len(down[c]) \in Nat
  BY <1>2, <1>4, <1>5, CarriesFirst
<1>7. /\ Carries(Append(queue[c], Head(down[c])), Taken(c), log)
      /\ Len(Append(queue[c], Head(down[c]))) = Len(queue[c]) + 1 /\ Len(queue[c]) \in Nat
  <2>1. Taken(c) + Len(queue[c]) + 1 <= Len(log)
    BY <1>4, <1>6
  <2> QED
    BY <1>4, <1>5, <1>6, <2>1, CarriesMore
<1>8. /\ Taken(c)' = Taken(c) /\ Queued(c)' = Queued(c) + 1 /\ Told(c)' = Told(c)
  <2>1. Taken(c)' = Taken(c)
    BY <1>2 DEF Taken
  <2>2. Queued(c)' = Queued(c) + 1
    BY <1>3, <1>4, <1>7, <2>1 DEF Queued
  <2>3. Told(c)' = Told(c)
    BY <1>3, <1>4, <1>6, <2>2 DEF Told
  <2> QED
    BY <2>1, <2>2, <2>3
<1>9. PipeInv(c, log)'
  BY <1>1, <1>2, <1>3, <1>6, <1>7, <1>8 DEF PipeInv
<1>10. ASSUME NEW n \in 0..Len(log), n = Len(seen'[c])
       PROVE  TableInv(c, T[n])'
  BY <1>1, <1>2, <1>10, TableStays
<1>11. SeenInv(c, log)'
  BY <1>1, <1>2 DEF SeenInv
<1>12. \A d \in Clients : d # c => /\ g'[d] = g[d] /\ dealing'[d] = dealing[d]
                                   /\ lordDue'[d] = lordDue[d] /\ over'[d] = over[d]
                                   /\ tasks'[d] = tasks[d] /\ signals'[d] = signals[d]
                                   /\ queue'[d] = queue[d] /\ down'[d] = down[d]
                                   /\ seen'[d] = seen[d]
  BY <1>2, <1>3
<1> QED
  BY <1>2, <1>8, <1>9, <1>10, <1>11, <1>12, LocalStep

\* The robot whose turn it is takes the move that comes next, which is the one that was
\* made at this turn.
LEMMA RobotStep ==
  ASSUME TypeInv, NEW log \in Seq(Move), NEW T \in [0..Len(log) -> Views],
         NEW read \in 0..Len(log), NEW ahead \in Clients, History(log, T, read, ahead),
         NEW c \in Clients, RobotTakes(c)
  PROVE  History(log, T, read, ahead)'
<1>1. /\ SeenInv(c, log) /\ PipeInv(c, log) /\ Len(log) \in Nat
      /\ \A n \in 0..Len(log) : n = Len(seen[c]) => TableInv(c, T[n])
  BY LenProperties DEF History
<1>2. Len(seen[c]) \in 0..Len(log)
  BY <1>1, Lengths DEF SeenInv
<1>3. PICK n \in 0..Len(log) : n = Len(seen[c])
  BY <1>2
<1> DEFINE v == T[n]
           a == Head(queue[c])
           r == tasks[c][1]
<1>4. v \in Views /\ v.turn \in Clients /\ TableInv(c, v)
  BY <1>1, <1>3 DEF Views
<1> HIDE DEF v
<1>5. PICK i \in DOMAIN tasks[c] :
        LET ri == tasks[c][i]
        IN  /\ g' = [g EXCEPT ![c] = IF ri.kind = "Play" THEN TakeFromHand(@, ri.seat, a.cards)
                                     ELSE @]
            /\ signals' = [signals EXCEPT ![c] =
                             Append(@, [seat |-> ri.seat, kind |-> ri.kind, task |-> a])]
            /\ tasks' = [tasks EXCEPT ![c] = Seqs!RemoveAt(@, i)]
  BY DEF RobotTakes
<1>6. /\ UNCHANGED << dealing, lordDue, over, up, down, relays, hung, seen >>
      /\ queue[c] # << >> /\ queue' = [queue EXCEPT ![c] = Tail(queue[c])]
  BY DEF RobotTakes, serverVars
<1>7. /\ ~dealing[c] /\ ~lordDue[c] /\ ~over[c] /\ v.turn # c /\ Waits(c, v)
  <2>1. tasks[c] # << >>
    BY <1>5
  <2> QED
    BY <1>4, <2>1 DEF TableInv, AskedInv, Moved
<1>8. /\ tasks[c] = << [seat |-> SeatOf(c, v.turn), kind |-> v.phase] >> /\ signals[c] = << >>
      /\ i = 1 /\ r.seat = SeatOf(c, v.turn) /\ r.kind = v.phase
  BY <1>5, <1>7 DEF Waits
<1>9. Seqs!RemoveAt(tasks[c], 1) = << >>
  BY <1>8 DEF Seqs!RemoveAt
<1>10. /\ g'[c] = IF v.phase = "Play" THEN TakeFromHand(g[c], SeatOf(c, v.turn), a.cards)
                  ELSE g[c]
       /\ signals'[c] = << [seat |-> SeatOf(c, v.turn), kind |-> v.phase, task |-> a] >>
       /\ tasks'[c] = << >>
       /\ queue'[c] = Tail(queue[c])
       /\ \A d \in Clients : d # c => /\ g'[d] = g[d] /\ tasks'[d] = tasks[d]
                                      /\ signals'[d] = signals[d] /\ queue'[d] = queue[d]
  <2>1. /\ g' = [g EXCEPT ![c] = IF r.kind = "Play" THEN TakeFromHand(g[c], r.seat, a.cards)
                                 ELSE g[c]]
        /\ signals' = [signals EXCEPT ![c] =
                         Append(signals[c], [seat |-> r.seat, kind |-> r.kind, task |-> a])]
        /\ tasks' = [tasks EXCEPT ![c] = Seqs!RemoveAt(tasks[c], 1)]
    BY <1>5, <1>8 DEF TypeInv, TypeOK
  <2> HIDE DEF r, a
  <2>2. /\ g'[c] = IF v.phase = "Play" THEN TakeFromHand(g[c], SeatOf(c, v.turn), a.cards)
                   ELSE g[c]
        /\ \A d \in Clients : d # c => g'[d] = g[d]
    BY <1>8, <2>1 DEF TypeInv, TypeOK
  <2>3. /\ signals'[c] = << [seat |-> SeatOf(c, v.turn), kind |-> v.phase, task |-> a] >>
        /\ \A d \in Clients : d # c => signals'[d] = signals[d]
    BY <1>8, <2>1 DEF TypeInv, TypeOK
  <2>4. /\ tasks'[c] = << >> /\ \A d \in Clients : d # c => tasks'[d] = tasks[d]
    BY <1>9, <2>1 DEF TypeInv, TypeOK
  <2>5. /\ queue'[c] = Tail(queue[c]) /\ \A d \in Clients : d # c => queue'[d] = queue[d]
    BY <1>6 DEF TypeInv, TypeOK
  <2> QED
    BY <2>2, <2>3, <2>4, <2>5
<1>11. /\ a = TaskOf(log[n + 1]) /\ n + 1 \in 1..Len(log) /\ a \in Task
       /\ Carries(Tail(queue[c]), n + 1, log) /\ Len(Tail(queue[c])) = Len(queue[c]) - 1
       /\ Len(queue[c]) \in Nat /\ Taken(c) = n
  <2>1. queue[c] \in Seq(Task) /\ a \in Task
    BY <1>6, HeadTailProperties DEF TypeInv, TypeOK
  <2>2. Taken(c) = n /\ Carries(queue[c], n, log)
    BY <1>1, <1>3, <1>8 DEF Taken, PipeInv
  <2> QED
    BY <1>3, <1>6, <2>1, <2>2, CarriesFirst
<1> HIDE DEF r, a
<1>12. /\ Taken(c)' = n + 1 /\ Queued(c)' = Queued(c) /\ Told(c)' = Told(c)
  <2>1. Taken(c)' = n + 1
    BY <1>3, <1>6, <1>10 DEF Taken
  <2>2. Queued(c)' = Queued(c)
    <3>1. Len(queue'[c]) = Len(queue[c]) - 1
      BY <1>10, <1>11
    <3>2. \A j \in Nat : (n + 1) + (j - 1) = n + j
      OBVIOUS
    <3> QED
      BY <1>11, <2>1, <3>1, <3>2, Zenon DEF Queued
  <2> QED
    BY <1>6, <2>1, <2>2 DEF Told
<1>13. PipeInv(c, log)'
  <2>1. Len(signals'[c]) = 1 /\ signals'[c][1].task = a
    BY <1>10
  <2>2. \A j \in 1..1 : n + j <= Len(log) /\ signals'[c][j].task = TaskOf(log[n + j])
    BY <1>3, <1>11, <2>1
  <2>3. Carries(queue'[c], Taken(c)', log) /\ Carries(down'[c], Queued(c)', log)
    BY <1>1, <1>6, <1>10, <1>11, <1>12 DEF PipeInv
  <2> QED
    BY <1>3, <1>6, <2>1, <2>2, <2>3 DEF PipeInv
<1>14. TableInv(c, v)'
  <2>1. SameTurn(c, g[c], v) /\ SameHands(c, g[c], v.hand) /\ g[c] \in Tables
        /\ (v.phase = "Bet" => g[c].deck = LordsCards)
        /\ g[c].status = (IF v.phase = "Bet" \/ lordDue[c] THEN "CallingLord" ELSE "PlayingHand")
        /\ (over[c] <=> v.phase = "Done")
    BY <1>4, <1>7, <1>8 DEF TableInv, HandsNow, TypeInv, TypeOK
  <2>2. AskedInv(c, v)'
    BY <1>6, <1>7, <1>10 DEF AskedInv, Moved
  <2>3. CASE v.phase = "Play"
    <3>1. g'[c] = TakeFromHand(g[c], SeatOf(c, v.turn), a.cards)
      BY <1>10, <2>3
    <3>2. /\ SameTurn(c, g'[c], v) /\ SameHands(c, g'[c], Less(v.hand, v.turn, a.cards))
          /\ g'[c].status = g[c].status
      <4>1. a.cards \in SUBSET Deck
        BY <1>11 DEF Task
      <4> QED
        BY <1>4, <2>1, <3>1, <4>1, SameLess
    <3>3. HandsNow(c, v)' = Less(v.hand, v.turn, a.cards)
      BY <1>10, <2>3 DEF HandsNow
    <3> QED
      BY <1>6, <1>7, <2>1, <2>2, <2>3, <3>2, <3>3 DEF TableInv
  <2>4. CASE v.phase # "Play"
    <3>1. g'[c] = g[c] /\ HandsNow(c, v)' = v.hand
      BY <1>10, <2>4 DEF HandsNow
    <3> QED
      BY <1>6, <1>7, <2>1, <2>2, <3>1 DEF TableInv
  <2> QED
    BY <2>3, <2>4
<1>15. \A k \in 0..Len(log) : k = Len(seen'[c]) => TableInv(c, T[k])'
  <2> SUFFICES ASSUME NEW k \in 0..Len(log), k = Len(seen'[c]) PROVE TableInv(c, T[k])'
    OBVIOUS
  <2>1. k = n
    BY <1>3, <1>6
  <2> QED
    BY <1>14, <2>1 DEF v
<1>16. SeenInv(c, log)'
  BY <1>1, <1>6 DEF SeenInv
<1>17. \A d \in Clients : d # c => /\ g'[d] = g[d] /\ dealing'[d] = dealing[d]
                                   /\ lordDue'[d] = lordDue[d] /\ over'[d] = over[d]
                                   /\ tasks'[d] = tasks[d] /\ signals'[d] = signals[d]
                                   /\ queue'[d] = queue[d] /\ down'[d] = down[d]
                                   /\ seen'[d] = seen[d]
  BY <1>6, <1>10
<1> QED
  BY <1>6, <1>12, <1>13, <1>15, <1>16, <1>17, LocalStep

\* The GUI thread sees the move that comes next and ascribes it to the player who made it.
LEMMA SignalStep ==
  ASSUME TypeInv, NEW log \in Seq(Move), NEW T \in [0..Len(log) -> Views],
         NEW read \in 0..Len(log), NEW ahead \in Clients, History(log, T, read, ahead),
         NEW c \in Clients, OnSignal(c)
  PROVE  /\ History(log, T, read, ahead)'
         /\ Len(seen[c]) < Len(log)
         /\ seen' = [seen EXCEPT ![c] = Append(seen[c], log[Len(seen[c]) + 1])]
<1>1. /\ SeenInv(c, log) /\ PipeInv(c, log) /\ Len(log) \in Nat /\ LogInv(log, T)
      /\ \A n \in 0..Len(log) : n = Len(seen[c]) => TableInv(c, T[n])
  BY LenProperties DEF History
<1>2. Len(seen[c]) \in 0..Len(log)
  BY <1>1, Lengths DEF SeenInv
<1>3. PICK n \in 0..Len(log) : n = Len(seen[c])
  BY <1>2
<1> DEFINE v == T[n]
           s == Head(signals[c])
           m == log[n + 1]
<1>4. v \in Views /\ v.turn \in Clients /\ TableInv(c, v)
  BY <1>1, <1>3 DEF Views
<1>5. /\ signals[c] # << >>
      /\ IF s.kind = "Bet" THEN OnBet(c, s.seat, s.task.bet)
                           ELSE OnHand(c, g[c], s.seat, s.task.cards)
      /\ signals' = [signals EXCEPT ![c] = Tail(signals[c])]
      /\ UNCHANGED << queue, up, down, relays, hung >>
  BY DEF OnSignal, serverVars
<1>6. s = signals[c][1]
  OBVIOUS
<1> HIDE DEF v, s, m
<1>7. ~dealing[c] /\ ~lordDue[c] /\ ~over[c] /\ v.turn # c /\ Moved(c, v)
  BY <1>4, <1>5 DEF TableInv, AskedInv, Waits
<1>8. /\ tasks[c] = << >> /\ Len(signals[c]) = 1
      /\ s.seat = SeatOf(c, v.turn) /\ s.kind = v.phase
  BY <1>6, <1>7 DEF Moved
<1>9. n + 1 \in 1..Len(log) /\ s.task = TaskOf(m)
  <2>1. 1 \in 1..Len(signals[c])
    BY <1>8
  <2>2. Len(seen[c]) + 1 <= Len(log) /\ signals[c][1].task = TaskOf(log[Len(seen[c]) + 1])
    BY <1>1, <2>1 DEF PipeInv
  <2> QED
    BY <1>1, <1>3, <1>6, <2>2 DEF m
<1>10. /\ m \in Move /\ m.by = v.turn /\ m.kind = v.phase /\ T[n + 1] = After(v, m)
       /\ IF m.kind = "Bet" THEN m.cards = {} ELSE m.bet = 0
  <2>1. m \in Move
    BY <1>9, ElementOfSeq DEF m
  <2>2. (n + 1) - 1 = n
    BY <1>3
  <2>3. /\ m.by = T[(n + 1) - 1].turn /\ m.kind = T[(n + 1) - 1].phase
        /\ T[n + 1] = After(T[(n + 1) - 1], m)
        /\ IF m.kind = "Bet" THEN m.cards = {} ELSE m.bet = 0
    BY <1>1, <1>9 DEF LogInv, m
  <2> QED
    BY <2>1, <2>2, <2>3 DEF v
<1>11. /\ m.bet \in Bets /\ m.cards \in SUBSET Deck /\ m.kind \in {"Bet", "Play"}
       /\ s.task.bet = m.bet /\ s.task.cards = m.cards
       /\ m = [by |-> m.by, kind |-> m.kind, bet |-> m.bet, cards |-> m.cards]
       /\ ClientAt(c, s.seat) = m.by
  <2>1. ClientAt(c, s.seat) = m.by
    BY <1>4, <1>8, <1>10, Seating
  <2>2. s.task.bet = m.bet /\ s.task.cards = m.cards
    BY <1>9 DEF TaskOf
  <2> QED
    BY <1>10, <2>1, <2>2 DEF Move
<1>12. signals'[c] = << >> /\ \A d \in Clients : d # c => signals'[d] = signals[d]
  <2>1. Tail(signals[c]) = << >>
    <3>1. signals[c] \in Seq([seat : Robots, kind : {"Bet", "Play"}, task : Task])
      BY DEF TypeInv, TypeOK
    <3>2. /\ Tail(signals[c]) \in Seq([seat : Robots, kind : {"Bet", "Play"}, task : Task])
          /\ Len(Tail(signals[c])) = 0
      BY <1>5, <1>8, <3>1, HeadTailProperties
    <3> QED
      BY <3>2, EmptySeq
  <2> QED
    BY <1>5, <2>1 DEF TypeInv, TypeOK
<1>13. /\ SameTurn(c, g[c], v) /\ g[c] \in Tables
       /\ (v.phase = "Bet" => g[c].deck = LordsCards /\ SameHands(c, g[c], v.hand))
       /\ (v.phase = "Play" => SameHands(c, g[c], Less(v.hand, v.turn, m.cards)))
       /\ g[c].status = (IF v.phase = "Bet" THEN "CallingLord" ELSE "PlayingHand")
  <2>1. g[c] \in Tables
    BY DEF TypeInv, TypeOK
  <2>2. HandsNow(c, v) = IF v.phase = "Play" THEN Less(v.hand, v.turn, m.cards) ELSE v.hand
    BY <1>5, <1>6, <1>11 DEF HandsNow
  <2> QED
    BY <1>4, <1>7, <2>1, <2>2 DEF TableInv
<1>14. /\ TableInv(c, After(v, m))'
       /\ seen' = [seen EXCEPT ![c] = Append(seen[c], m)]
       /\ \A d \in Clients : d # c => /\ g'[d] = g[d] /\ dealing'[d] = dealing[d]
                                      /\ lordDue'[d] = lordDue[d] /\ over'[d] = over[d]
                                      /\ tasks'[d] = tasks[d]
  <2>1. CASE m.kind = "Bet"
    <3>1. OnBet(c, SeatOf(c, v.turn), m.bet)
      BY <1>5, <1>8, <1>10, <1>11, <2>1
    <3>2. TableInv(c, AfterBid(v, m.bet))'
      BY <1>4, <1>7, <1>8, <1>10, <1>11, <1>12, <1>13, <2>1, <3>1, BetSeen
    <3>3. After(v, m) = AfterBid(v, m.bet)
      BY <2>1 DEF After
    <3>4. seen' = [seen EXCEPT ![c] = Append(seen[c], m)]
      <4>1. See(c, SeatOf(c, v.turn), "Bet", BetOf(m.bet))
        BY <3>1 DEF OnBet
      <4>2. [by |-> ClientAt(c, SeatOf(c, v.turn)), kind |-> "Bet",
             bet |-> BetOf(m.bet).bet, cards |-> BetOf(m.bet).cards] = m
        BY <1>8, <1>10, <1>11, <2>1 DEF BetOf
      <4> QED
        BY <4>1, <4>2 DEF See
    <3>5. \A d \in Clients : d # c => /\ g'[d] = g[d] /\ dealing'[d] = dealing[d]
                                      /\ lordDue'[d] = lordDue[d] /\ over'[d] = over[d]
                                      /\ tasks'[d] = tasks[d]
      BY <3>1 DEF OnBet, TypeInv, TypeOK
    <3> QED
      BY <3>2, <3>3, <3>4, <3>5
  <2>2. CASE m.kind = "Play"
    <3>1. OnHand(c, g[c], SeatOf(c, v.turn), m.cards)
      BY <1>5, <1>8, <1>10, <1>11, <2>2
    <3>2. TableInv(c, AfterPlay(v, m.cards))'
      BY <1>4, <1>7, <1>8, <1>10, <1>11, <1>12, <1>13, <2>2, <3>1, HandSeen
    <3>3. After(v, m) = AfterPlay(v, m.cards)
      BY <2>2 DEF After
    <3>4. seen' = [seen EXCEPT ![c] = Append(seen[c], m)]
      <4>1. See(c, SeatOf(c, v.turn), "Play", CardsOf(m.cards))
        BY <3>1 DEF OnHand
      <4>2. [by |-> ClientAt(c, SeatOf(c, v.turn)), kind |-> "Play",
             bet |-> CardsOf(m.cards).bet, cards |-> CardsOf(m.cards).cards] = m
        BY <1>8, <1>10, <1>11, <2>2 DEF CardsOf
      <4> QED
        BY <4>1, <4>2 DEF See
    <3>5. \A d \in Clients : d # c => /\ g'[d] = g[d] /\ dealing'[d] = dealing[d]
                                      /\ lordDue'[d] = lordDue[d] /\ over'[d] = over[d]
                                      /\ tasks'[d] = tasks[d]
      BY <3>1 DEF OnHand, TypeInv, TypeOK
    <3> QED
      BY <3>2, <3>3, <3>4, <3>5
  <2> QED
    BY <1>11, <2>1, <2>2
<1>15. /\ seen'[c] = Append(seen[c], m) /\ Len(seen'[c]) = n + 1 /\ seen'[c][n + 1] = m
       /\ \A i \in 1..n : seen'[c][i] = seen[c][i]
       /\ \A d \in Clients : d # c => seen'[d] = seen[d]
  <2>1. seen[c] \in Seq(Move)
    BY DEF TypeInv, TypeOK
  <2>2. /\ Len(Append(seen[c], m)) = n + 1 /\ Append(seen[c], m)[n + 1] = m
        /\ \A i \in 1..n : Append(seen[c], m)[i] = seen[c][i]
    BY <1>3, <1>10, <2>1, AppendProperties
  <2>3. /\ seen'[c] = Append(seen[c], m) /\ \A d \in Clients : d # c => seen'[d] = seen[d]
    BY <1>14 DEF TypeInv, TypeOK
  <2> QED
    BY <2>2, <2>3
<1>16. SeenInv(c, log)'
  <2>1. \A i \in 1..(n + 1) : seen'[c][i] = log[i]
    <3> SUFFICES ASSUME NEW i \in 1..(n + 1) PROVE seen'[c][i] = log[i]
      OBVIOUS
    <3>1. CASE i \in 1..n
      BY <1>1, <1>3, <1>15, <3>1 DEF SeenInv
    <3>2. CASE i = n + 1
      BY <1>15, <3>2 DEF m
    <3> QED
      BY <1>3, <3>1, <3>2
  <2>2. \A i \in ((n + 1) + 1)..Len(log) : log[i].by # c
    <3> SUFFICES ASSUME NEW i \in ((n + 1) + 1)..Len(log) PROVE log[i].by # c
      OBVIOUS
    <3>1. i \in (n + 1)..Len(log)
      BY <1>1, <1>3
    <3> QED
      BY <1>1, <1>3, <3>1 DEF SeenInv
  <2>3. n + 1 <= Len(log)
    BY <1>1, <1>9
  <2> QED
    BY <1>15, <2>1, <2>2, <2>3 DEF SeenInv
<1>17. Taken(c)' = Taken(c) /\ Queued(c)' = Queued(c) /\ Told(c)' = Told(c)
  <2>1. Taken(c) = n + 1
    BY <1>3, <1>8 DEF Taken
  <2>2. Taken(c)' = n + 1
    <3>1. Len(signals'[c]) = 0
      BY <1>12
    <3> QED
      BY <1>3, <1>15, <3>1 DEF Taken
  <2>3. Queued(c)' = Queued(c)
    BY <1>5, <2>1, <2>2 DEF Queued
  <2> QED
    BY <1>5, <2>1, <2>2, <2>3 DEF Told
<1>18. PipeInv(c, log)'
  <2>1. Len(signals'[c]) = 0
    BY <1>12
  <2> QED
    BY <1>1, <1>5, <1>17, <2>1 DEF PipeInv
<1>19. \A k \in 0..Len(log) : k = Len(seen'[c]) => TableInv(c, T[k])'
  <2> SUFFICES ASSUME NEW k \in 0..Len(log), k = Len(seen'[c]) PROVE TableInv(c, T[k])'
    OBVIOUS
  <2>1. T[k] = After(v, m)
    BY <1>10, <1>15
  <2> QED
    BY <1>14, <2>1
<1>20. Len(seen[c]) < Told(c) /\ Len(seen'[c]) = Len(seen[c]) + 1
  <2>1. Taken(c) = n + 1 /\ Taken(c) <= Queued(c) /\ Queued(c) <= Told(c)
        /\ Queued(c) \in Nat /\ Told(c) \in Nat
    BY <1>3, <1>8, Lengths DEF Taken
  <2> QED
    BY <1>3, <1>15, <2>1
<1>21. UNCHANGED << up, relays, hung >>
  BY <1>5
<1>22. \A d \in Clients : d # c => /\ g'[d] = g[d] /\ dealing'[d] = dealing[d]
                                   /\ lordDue'[d] = lordDue[d] /\ over'[d] = over[d]
                                   /\ tasks'[d] = tasks[d] /\ signals'[d] = signals[d]
                                   /\ queue'[d] = queue[d] /\ down'[d] = down[d]
                                   /\ seen'[d] = seen[d]
  BY <1>5, <1>12, <1>14, <1>15
<1>23. History(log, T, read, ahead)'
  BY <1>16, <1>17, <1>18, <1>19, <1>20, <1>21, <1>22, LocalStep
<1> QED
  BY <1>1, <1>3, <1>9, <1>14, <1>23 DEF m


-----------------------------------------------------------------------------
(* The server *)

\* The connections have one worker thread among them, which relays their moves one after
\* the other.
OneWorker == \A c, d \in Clients : WorkerOf[c] = WorkerOf[d]

\* The moves the server has not read yet are those of the one client that is ahead, which
\* has seen the whole log.
LEMMA AheadHasSeenAll ==
  ASSUME TypeInv, NEW log \in Seq(Move), NEW T \in [0..Len(log) -> Views],
         NEW read \in 0..Len(log), NEW ahead \in Clients, History(log, T, read, ahead),
         Handled(read) < Len(log)
  PROVE  Len(seen[ahead]) = Len(log)
<1>1. /\ LogInv(log, T) /\ ServerInv(log, read, ahead)
      /\ \A d \in Clients : SeenInv(d, log)
  BY DEF History
<1>2. Len(log) \in Nat /\ Handled(read) \in Nat /\ Len(log) \in 1..Len(log)
  BY <1>1, HandledFacts
<1>3. PICK d \in Clients : log[Len(log)].by = d
  <2>1. log[Len(log)] \in Move
    BY <1>2, ElementOfSeq
  <2> QED
    BY <2>1 DEF Move
<1>4. Len(seen[d]) = Len(log)
  <2>1. Len(seen[d]) \in Nat /\ Len(seen[d]) <= Len(log)
    BY <1>1, Lengths DEF SeenInv
  <2>2. ~(Len(log) \in (Len(seen[d]) + 1)..Len(log))
    BY <1>1, <1>3 DEF SeenInv
  <2> QED
    BY <1>2, <2>1, <2>2
<1>5. d = ahead
  BY <1>1, <1>4 DEF ServerInv
<1> QED
  BY <1>4, <1>5

\* With one worker only one worker has anything to relay.
LEMMA NobodyElse ==
  ASSUME OneWorker, NEW w \in Workers
  PROVE  Workers = {w}
BY DEF OneWorker, Workers

\* A worker reads the next move: it has both partners to tell, or hangs.
LEMMA HandleStep ==
  ASSUME TypeInv, NEW log \in Seq(Move), NEW T \in [0..Len(log) -> Views],
         NEW read \in 0..Len(log), NEW ahead \in Clients, History(log, T, read, ahead),
         OneWorker \/ "returns" \notin Relock,
         NEW c \in Clients, HandleMove(c)
  PROVE  /\ read + 1 \in 0..Len(log)
         /\ History(log, T, read + 1, ahead)'
         /\ seen' = seen
<1> DEFINE w == WorkerOf[c]
           q == [i \in DOMAIN Partners(c) |-> [to |-> Partners(c)[i], task |-> Head(up[c])]]
           R == read + 1
<1>1. /\ LogInv(log, T) /\ ServerInv(log, read, ahead) /\ RelayInv(log, read)
      /\ \A d \in Clients : /\ SeenInv(d, log) /\ PipeInv(d, log) /\ TellInv(d, log, read)
                            /\ \A n \in 0..Len(log) : n = Len(seen[d]) => TableInv(d, T[n])
  BY DEF History
<1>2. /\ up[c] # << >> /\ relays[w] = << >> /\ hung = {}
      /\ up' = [up EXCEPT ![c] = Tail(up[c])]
      /\ \/ "returns" \in Relock /\ relays' = [relays EXCEPT ![w] = q] /\ hung' = hung
         \/ relays' = relays /\ hung' = {w}
      /\ UNCHANGED << g, dealing, lordDue, tasks, over, seen, signals, queue, down >>
  BY DEF HandleMove, tableVars
<1>3. w \in Workers
  BY DEF Workers
<1>4. Handled(read) = read /\ Len(log) \in Nat /\ read \in Nat
  BY <1>2, LenProperties DEF Handled
<1>5. c = ahead
  BY <1>1, <1>2 DEF ServerInv
<1>6. up[c] \in Seq(Task) /\ Carries(up[c], read, log) /\ Len(up[c]) = Len(log) - read
  BY <1>1, <1>5 DEF ServerInv, TypeInv, TypeOK
<1>7. /\ Head(up[c]) = TaskOf(log[R]) /\ R \in 1..Len(log)
      /\ Carries(Tail(up[c]), R, log) /\ Len(Tail(up[c])) = Len(log) - R
  BY <1>2, <1>4, <1>6, CarriesFirst
<1>8. up'[c] = Tail(up[c]) /\ \A d \in Clients : d # c => up'[d] = up[d]
  BY <1>2 DEF TypeInv, TypeOK
<1>9. Handled(R)' = IF hung' = {} THEN R ELSE read
  BY <1>4 DEF Handled
<1>10. Len(seen[c]) = Len(log)
  BY <1>4, <1>5, <1>7, AheadHasSeenAll
<1>11. ServerInv(log, R, ahead)'
  <2>1. ASSUME NEW d \in Clients, Len(seen'[d]) > Handled(R)'
        PROVE  d = ahead
    <3>1. Len(seen[d]) \in Nat /\ seen'[d] = seen[d]
      BY <1>2, Lengths
    <3>2. Len(seen[d]) > read
      BY <1>4, <1>9, <2>1, <3>1
    <3> QED
      BY <1>1, <1>4, <3>2 DEF ServerInv
  <2>2. \A d \in Clients : d # ahead => up'[d] = << >>
    BY <1>1, <1>5, <1>8 DEF ServerInv
  <2>3. Len(up'[ahead]) = Len(log) - R /\ Carries(up'[ahead], R, log)
    BY <1>5, <1>7, <1>8
  <2>4. R \in 0..Len(log) /\ R > 0
    BY <1>7
  <2> HIDE DEF R
  <2> QED
    BY <2>1, <2>2, <2>3, <2>4 DEF ServerInv
<1>12. ASSUME NEW d \in Clients
       PROVE  /\ SeenInv(d, log)' /\ PipeInv(d, log)' /\ Told(d)' = Told(d)
              /\ \A n \in 0..Len(log) : n = Len(seen'[d]) => TableInv(d, T[n])'
  <2>1. SeenInv(d, log)'
    BY <1>1, <1>2 DEF SeenInv
  <2>2. Grows(log, log)
    BY <1>4 DEF Grows
  <2>3. PipeInv(d, log)' /\ Told(d)' = Told(d)
    BY <1>1, <1>2, <2>2, PipeStays
  <2>4. ASSUME NEW n \in 0..Len(log), n = Len(seen'[d]) PROVE TableInv(d, T[n])'
    <3>1. TableInv(d, T[n])
      BY <1>1, <1>2, <2>4
    <3> QED
      BY <1>2, <3>1, TableStays
  <2> QED
    BY <2>1, <2>3, <2>4
<1> HIDE DEF R, q, w
<1>13. ASSUME "returns" \in Relock, relays' = [relays EXCEPT ![w] = q], hung' = hung
       PROVE  History(log, T, R, ahead)'
  <2>1. Workers = {w}
    BY <1>3, <1>13, NobodyElse
  <2>2. relays'[w] = q
    BY <1>3, <1>13 DEF TypeInv, TypeOK
  <2>3. /\ DOMAIN q = DOMAIN Partners(c)
        /\ \A i \in DOMAIN q : q[i].to = Partners(c)[i] /\ q[i].task = TaskOf(log[R])
    BY <1>7 DEF q
  <2>4. Handled(R)' = R /\ Handled(R)' > 0
    BY <1>2, <1>7, <1>9, <1>13
  <2>5. RelayInv(log, R)'
    BY <1>13, <2>1, <2>2, <2>3, <2>4, PartnersFacts DEF RelayInv
  <2>6. \A d \in Clients : ~Owed(d) /\ (Owed(d)' <=> d # c)
    <3>1. \A d \in Clients : ~Owed(d)
      BY <1>2, <2>1 DEF Owed
    <3>2. \A d \in Clients : Owed(d)' <=> \E i \in DOMAIN q : q[i].to = d
      BY <2>1, <2>2 DEF Owed
    <3>3. \A d \in Clients : (\E i \in DOMAIN q : q[i].to = d) <=> d # c
      <4>1. /\ \A i \in DOMAIN Partners(c) : Partners(c)[i] # c
            /\ \A d \in Clients : d # c => \E i \in DOMAIN Partners(c) : Partners(c)[i] = d
        BY PartnersFacts
      <4> QED
        BY <2>3, <4>1, Zenon
    <3> QED
      BY <3>1, <3>2, <3>3
  <2>7. ASSUME NEW d \in Clients PROVE TellInv(d, log, R)'
    <3>1. /\ Told(d) = IF Len(seen[d]) > read THEN Len(log) ELSE read
          /\ Told(d)' = Told(d) /\ seen'[d] = seen[d]
      BY <1>1, <1>2, <1>4, <1>12, <2>6 DEF TellInv
    <3>2. CASE d = c
      <4>1. Told(d)' = Len(log) /\ Len(seen'[d]) = Len(log)
        BY <1>4, <1>7, <1>10, <3>1, <3>2 DEF R
      <4>2. Len(log) = IF Len(log) > R THEN Len(log) ELSE R
        BY <1>4, <1>7
      <4> QED
        BY <2>4, <2>6, <3>2, <4>1, <4>2 DEF TellInv
    <3>3. CASE d # c
      <4>1. ~(Len(seen[d]) > read)
        BY <1>1, <1>4, <1>5, <3>3 DEF ServerInv
      <4>2. Told(d)' = R - 1
        BY <1>4, <3>1, <4>1 DEF R
      <4> QED
        BY <2>4, <2>6, <3>3, <4>2 DEF TellInv
    <3> QED
      BY <3>2, <3>3
  <2> QED
    BY <1>1, <1>11, <1>12, <2>5, <2>7 DEF History
<1>14. ASSUME relays' = relays, hung' = {w}
       PROVE  History(log, T, R, ahead)'
  <2>1. Handled(R)' = Handled(read)
    BY <1>4, <1>9, <1>14
  <2>2. RelayInv(log, R)'
    BY <1>1, <1>14, <2>1 DEF RelayInv
  <2>3. \A d \in Clients : TellInv(d, log, R)'
    BY <1>1, <1>2, <1>12, <1>14, <2>1 DEF TellInv, Owed
  <2> QED
    BY <1>1, <1>11, <1>12, <2>2, <2>3 DEF History
<1>15. R \in 0..Len(log)
  BY <1>4, <1>7
<1>16. History(log, T, R, ahead)'
  BY <1>2, <1>13, <1>14
<1> QED
  BY <1>2, <1>15, <1>16 DEF R

\* A partner is told of the move: it was the next for it, and it is told but once.
LEMMA NotifyStep ==
  ASSUME TypeInv, NEW log \in Seq(Move), NEW T \in [0..Len(log) -> Views],
         NEW read \in 0..Len(log), NEW ahead \in Clients, History(log, T, read, ahead),
         OneWorker \/ "returns" \notin Relock,
         NEW w \in Workers, NotifyOther(w)
  PROVE  /\ History(log, T, read, ahead)'
         /\ seen' = seen /\ hung' = hung
<1> DEFINE r == Head(relays[w])
           R == Handled(read)
<1>1. /\ LogInv(log, T) /\ ServerInv(log, read, ahead) /\ RelayInv(log, read)
      /\ \A d \in Clients : /\ SeenInv(d, log) /\ PipeInv(d, log) /\ TellInv(d, log, read)
                            /\ \A n \in 0..Len(log) : n = Len(seen[d]) => TableInv(d, T[n])
  BY DEF History
<1>2. /\ relays[w] # << >> /\ w \notin hung
      /\ down' = [down EXCEPT ![r.to] = Append(down[r.to], r.task)]
      /\ relays' = [relays EXCEPT ![w] = Tail(relays[w])]
      /\ UNCHANGED << g, dealing, lordDue, tasks, over, seen, signals, queue, up, hung >>
  BY DEF NotifyOther, tableVars
<1>3. /\ relays[w] \in Seq([to : Clients, task : Task]) /\ hung \in SUBSET Workers
      /\ r \in [to : Clients, task : Task] /\ r = relays[w][1]
      /\ relays'[w] = Tail(relays[w])
  <2>1. relays[w] \in Seq([to : Clients, task : Task]) /\ hung \in SUBSET Workers
    BY DEF TypeInv, TypeOK
  <2>2. relays'[w] = Tail(relays[w])
    BY <1>2 DEF TypeInv, TypeOK
  <2>3. r \in [to : Clients, task : Task]
    BY <1>2, <2>1, HeadTailProperties
  <2> QED
    BY <2>1, <2>2, <2>3
<1>4. Workers = {w} /\ hung = {}
  <2>1. Workers = {w}
    BY <1>1, <1>2, NobodyElse DEF RelayInv
  <2> QED
    BY <1>2, <1>3, <2>1
<1>5. r.task \in Task /\ r.to \in Clients
  BY <1>3
<1> HIDE DEF r
<1>6. PICK c \in Clients : c = r.to
  BY <1>5
<1> USE DEF r
<1>7. /\ Len(log) \in Nat /\ R \in Nat /\ R = read /\ R \in 1..Len(log)
      /\ Handled(read)' = R
  <2>1. R > 0
    BY <1>1, <1>2 DEF RelayInv
  <2> QED
    BY <1>1, <1>2, <1>4, <2>1, HandledFacts DEF Handled
<1>8. /\ Len(relays[w]) \in Nat \ {0} /\ DOMAIN relays[w] = 1..Len(relays[w])
      /\ Len(relays'[w]) = Len(relays[w]) - 1
      /\ DOMAIN relays'[w] = 1..(Len(relays[w]) - 1)
      /\ \A i \in 1..(Len(relays[w]) - 1) : relays'[w][i] = relays[w][i + 1]
  <2>1. Len(relays[w]) \in Nat \ {0} /\ DOMAIN relays[w] = 1..Len(relays[w])
    BY <1>2, <1>3, EmptySeq, LenProperties
  <2>2. /\ Tail(relays[w]) \in Seq([to : Clients, task : Task])
        /\ Len(Tail(relays[w])) = Len(relays[w]) - 1
        /\ \A i \in 1..Len(Tail(relays[w])) : Tail(relays[w])[i] = relays[w][i + 1]
    BY <1>2, <1>3, HeadTailProperties
  <2>3. DOMAIN Tail(relays[w]) = 1..Len(Tail(relays[w]))
    BY <2>2, LenProperties
  <2> QED
    BY <1>3, <2>1, <2>2, <2>3
<1> HIDE DEF R, r
<1>9. r.task = TaskOf(log[R])
  BY <1>1, <1>3, <1>8 DEF RelayInv, R
<1>10. \A i, j \in DOMAIN relays[w] : relays[w][i].to = relays[w][j].to => i = j
  BY <1>1 DEF RelayInv
<1>11. Owed(c) /\ ~Owed(c)' /\ \A d \in Clients : d # c => (Owed(d)' <=> Owed(d))
  <2>1. \A d \in Clients : Owed(d) <=> \E i \in 1..Len(relays[w]) : relays[w][i].to = d
    BY <1>4, <1>8 DEF Owed
  <2>2. \A d \in Clients :
          Owed(d)' <=> \E i \in 1..(Len(relays[w]) - 1) : relays[w][i + 1].to = d
    BY <1>4, <1>8 DEF Owed
  <2> DEFINE n == Len(relays[w])
  <2>3. n \in Nat \ {0} /\ 1 \in 1..n
    BY <1>8
  <2>4. \A i \in 1..(n - 1) : i + 1 \in 1..n /\ i + 1 # 1
    BY <2>3
  <2>5. \A i \in 1..n : i # 1 => i - 1 \in 1..(n - 1) /\ (i - 1) + 1 = i
    BY <2>3
  <2> HIDE DEF n
  <2>6. Owed(c)
    BY <1>3, <1>6, <2>1, <2>3 DEF n
  <2>7. ~Owed(c)'
    <3> SUFFICES ASSUME NEW i \in 1..(n - 1), relays[w][i + 1].to = c PROVE FALSE
      BY <2>2 DEF n
    <3> QED
      BY <1>3, <1>8, <1>10, <1>6, <2>3, <2>4 DEF n
  <2>8. ASSUME NEW d \in Clients, d # c PROVE Owed(d)' <=> Owed(d)
    <3>1. ASSUME Owed(d) PROVE Owed(d)'
      <4>1. PICK i \in 1..n : relays[w][i].to = d
        BY <2>1, <3>1 DEF n
      <4>2. i # 1
        BY <1>3, <1>6, <2>8, <4>1
      <4>3. i - 1 \in 1..(n - 1) /\ relays[w][(i - 1) + 1].to = d
        BY <2>5, <4>1, <4>2
      <4> QED
        BY <2>2, <4>3 DEF n
    <3>2. ASSUME Owed(d)' PROVE Owed(d)
      BY <2>1, <2>2, <2>4, <3>2 DEF n
    <3> QED
      BY <3>1, <3>2
  <2> QED
    BY <2>6, <2>7, <2>8
<1>12. Told(c) = R - 1 /\ Len(seen[c]) <= R - 1 /\ Len(seen[c]) \in Nat
       /\ Queued(c) \in Nat /\ Queued(c) + Len(down[c]) = R - 1
  <2>1. Told(c) = R - 1
    BY <1>1, <1>11 DEF TellInv, R
  <2>2. /\ Len(seen[c]) \in Nat /\ Queued(c) \in Nat /\ Taken(c) \in Nat /\ Told(c) \in Nat
        /\ Len(seen[c]) <= Taken(c) /\ Taken(c) <= Queued(c) /\ Queued(c) <= Told(c)
    BY Lengths
  <2> QED
    BY <1>7, <2>1, <2>2 DEF Told
<1>13. /\ down'[c] = Append(down[c], r.task)
       /\ \A d \in Clients : d # c => down'[d] = down[d]
  BY <1>2, <1>6 DEF TypeInv, TypeOK
<1>14. /\ PipeInv(c, log)' /\ Told(c)' = R
  <2>1. down[c] \in Seq(Task) /\ Carries(down[c], Queued(c), log) /\ PipeInv(c, log)
    BY <1>1 DEF PipeInv, TypeInv, TypeOK
  <2>2. Len(down[c]) \in Nat
    BY Lengths
  <2>3. /\ Queued(c) + Len(down[c]) + 1 = R
        /\ Queued(c) + Len(down[c]) + 1 <= Len(log)
    BY <1>7, <1>12, <2>2
  <2>4. /\ Carries(Append(down[c], r.task), Queued(c), log)
        /\ Len(Append(down[c], r.task)) = Len(down[c]) + 1
    BY <1>5, <1>9, <1>12, <2>1, <2>3, CarriesMore
  <2>5. Taken(c)' = Taken(c) /\ Queued(c)' = Queued(c)
    BY <1>2 DEF Taken, Queued
  <2>6. PipeInv(c, log)'
    BY <1>2, <1>13, <2>1, <2>4, <2>5 DEF PipeInv
  <2>7. Told(c)' = Queued(c) + (Len(down[c]) + 1)
    BY <1>13, <2>4, <2>5 DEF Told
  <2> QED
    BY <1>12, <2>2, <2>3, <2>6, <2>7
<1>15. ASSUME NEW d \in Clients
       PROVE  /\ SeenInv(d, log)' /\ PipeInv(d, log)' /\ TellInv(d, log, read)'
              /\ \A n \in 0..Len(log) : n = Len(seen'[d]) => TableInv(d, T[n])'
  <2>1. SeenInv(d, log)'
    BY <1>1, <1>2 DEF SeenInv
  <2>2. PipeInv(d, log)' /\ TellInv(d, log, read)'
    <3>1. CASE d = c
      <4>1. ~(Len(seen[c]) > R)
        BY <1>7, <1>12
      <4> QED
        BY <1>2, <1>7, <1>11, <1>14, <3>1, <4>1 DEF TellInv
    <3>2. CASE d # c
      <4>1. Grows(log, log)
        BY <1>7 DEF Grows
      <4>2. PipeInv(d, log)' /\ Told(d)' = Told(d)
        BY <1>1, <1>2, <1>13, <3>2, <4>1, PipeStays
      <4>3. Told(d) = IF Owed(d) THEN R - 1 ELSE IF Len(seen[d]) > R THEN Len(log) ELSE R
        BY <1>1 DEF TellInv, R
      <4> QED
        BY <1>2, <1>7, <1>11, <3>2, <4>2, <4>3 DEF TellInv
    <3> QED
      BY <3>1, <3>2
  <2>3. ASSUME NEW n \in 0..Len(log), n = Len(seen'[d]) PROVE TableInv(d, T[n])'
    <3>1. TableInv(d, T[n])
      BY <1>1, <1>2, <2>3
    <3> QED
      BY <1>2, <3>1, TableStays
  <2> QED
    BY <2>1, <2>2, <2>3
<1>16. ServerInv(log, read, ahead)'
  BY <1>1, <1>2 DEF ServerInv, Handled
<1>17. RelayInv(log, read)'
  <2>1. "returns" \in Relock
    BY <1>1, <1>2 DEF RelayInv
  <2>2. ASSUME NEW i \in DOMAIN relays'[w]
        PROVE  relays'[w][i].task = TaskOf(log[R]) /\ i + 1 \in DOMAIN relays[w]
               /\ relays'[w][i] = relays[w][i + 1]
    <3>1. i + 1 \in DOMAIN relays[w] /\ relays'[w][i] = relays[w][i + 1]
      BY <1>8
    <3> QED
      BY <1>1, <3>1 DEF RelayInv, R
  <2>3. ASSUME NEW i \in DOMAIN relays'[w], NEW j \in DOMAIN relays'[w],
               relays'[w][i].to = relays'[w][j].to
        PROVE  i = j
    <3>1. i + 1 = j + 1
      BY <1>10, <2>2, <2>3
    <3> QED
      BY <1>8, <3>1
  <2>4. R > 0
    BY <1>7
  <2> QED
    BY <1>4, <1>7, <2>1, <2>2, <2>3, <2>4 DEF RelayInv
<1> QED
  BY <1>1, <1>2, <1>15, <1>16, <1>17 DEF History

-----------------------------------------------------------------------------
(* The user *)

\* On a user's turn nobody was asked and nothing is signalled.
LEMMA UserMoves ==
  ASSUME TypeInv, NEW log \in Seq(Move), NEW T \in [0..Len(log) -> Views],
         NEW read \in 0..Len(log), NEW ahead \in Clients, History(log, T, read, ahead),
         NEW c \in Clients, NEW s \in {"CallingLord", "PlayingHand"}, UsersTurn(c, s)
  PROVE  \E v \in Views :
           /\ v = T[Len(seen[c])] /\ v.turn = c
           /\ v.phase = IF s = "CallingLord" THEN "Bet" ELSE "Play"
           /\ ~dealing[c] /\ ~lordDue[c] /\ ~over[c] /\ tasks[c] = << >> /\ signals[c] = << >>
           /\ SameTurn(c, g[c], v) /\ SameHands(c, g[c], v.hand)
           /\ s = "CallingLord" => g[c].deck = LordsCards
<1>1. /\ SeenInv(c, log) /\ Len(log) \in Nat
      /\ \A n \in 0..Len(log) : n = Len(seen[c]) => TableInv(c, T[n])
  BY LenProperties DEF History
<1>2. Len(seen[c]) \in 0..Len(log)
  BY <1>1, Lengths DEF SeenInv
<1>3. PICK n \in 0..Len(log) : n = Len(seen[c])
  BY <1>2
<1>4. T[n] \in Views /\ TableInv(c, T[n])
  BY <1>1, <1>3
<1>5. PICK v \in Views : v = T[n]
  BY <1>4
<1>6. TableInv(c, v) /\ v.turn \in Clients /\ v.phase \in {"Bet", "Play", "Done"}
  BY <1>4, <1>5 DEF Views
<1>7. g[c].status = s /\ g[c].cur = User /\ ~lordDue[c] /\ ~over[c]
  BY DEF UsersTurn
<1>8. v.turn = c
  BY <1>6, <1>7, Seating DEF TableInv, SameTurn
<1>9. ~dealing[c]
  BY <1>6, <1>7 DEF TableInv
<1>10. v.phase = IF s = "CallingLord" THEN "Bet" ELSE "Play"
  BY <1>6, <1>7, <1>9 DEF TableInv
<1>11. tasks[c] = << >> /\ signals[c] = << >>
  BY <1>6, <1>8 DEF TableInv, AskedInv
<1>12. HandsNow(c, v) = v.hand
  BY <1>11 DEF HandsNow
<1>13. /\ SameTurn(c, g[c], v) /\ SameHands(c, g[c], v.hand)
       /\ s = "CallingLord" => g[c].deck = LordsCards
  BY <1>6, <1>9, <1>10, <1>12 DEF TableInv
<1> QED
  BY <1>3, <1>5, <1>7, <1>8, <1>9, <1>10, <1>11, <1>13

\* A user bids, having seen all moves.
LEMMA BidStep ==
  ASSUME TypeInv, NEW log \in Seq(Move), NEW T \in [0..Len(log) -> Views],
         NEW read \in 0..Len(log), NEW ahead \in Clients, History(log, T, read, ahead),
         NEW c \in Clients, UserBids(c)
  PROVE  \E m \in Move :
           /\ m.by = c /\ Len(seen[c]) = Len(log)
           /\ seen' = [seen EXCEPT ![c] = Append(seen[c], m)] /\ hung' = hung
           /\ \E T2 \in [0..Len(Append(log, m)) -> Views] :
                History(Append(log, m), T2, read, c)'
<1>1. PICK b \in Bets : OnBet(c, User, b) /\ Tell(c, BetOf(b))
  BY DEF UserBids
<1>2. UNCHANGED << signals, queue, down, relays, hung >> /\ UsersTurn(c, "CallingLord")
  BY DEF UserBids, serverVars
<1>3. PICK v \in Views :
        /\ v = T[Len(seen[c])] /\ v.turn = c /\ v.phase = "Bet"
        /\ ~dealing[c] /\ ~lordDue[c] /\ ~over[c] /\ tasks[c] = << >> /\ signals[c] = << >>
        /\ SameTurn(c, g[c], v) /\ SameHands(c, g[c], v.hand)
        /\ g[c].deck = LordsCards
  BY <1>2, UserMoves
<1> DEFINE m == [by |-> c, kind |-> "Bet", bet |-> b, cards |-> {}]
<1>4. m \in Move /\ TaskOf(m) = BetOf(b) /\ After(v, m) = AfterBid(v, b)
  BY DEF Move, TaskOf, BetOf, After
<1>5. SeatOf(c, c) = User /\ ClientAt(c, User) = c
  BY Seating
<1>6. seen' = [seen EXCEPT ![c] = Append(seen[c], m)]
  BY <1>1, <1>5 DEF OnBet, See, BetOf
<1>7. up' = [up EXCEPT ![c] = Append(up[c], TaskOf(m))]
  BY <1>1, <1>4 DEF Tell
<1>8. m.by = c /\ m.kind = "Bet" /\ m.cards = {}
  OBVIOUS
<1> HIDE DEF m
<1>9. TableInv(c, After(v, m))'
  <2>1. g[c].status = "CallingLord" /\ OnBet(c, SeatOf(c, v.turn), b) /\ signals'[c] = << >>
    BY <1>1, <1>2, <1>3, <1>5 DEF UsersTurn
  <2>2. TableInv(c, AfterBid(v, b))'
    BY <1>3, <2>1, BetSeen
  <2> QED
    BY <1>4, <2>2
<1>10. \A d \in Clients : d # c => /\ g'[d] = g[d] /\ dealing'[d] = dealing[d]
                                   /\ lordDue'[d] = lordDue[d] /\ over'[d] = over[d]
                                   /\ tasks'[d] = tasks[d]
  BY <1>1 DEF OnBet, TypeInv, TypeOK
<1>11. /\ Len(seen[c]) = Len(log)
       /\ \E T2 \in [0..Len(Append(log, m)) -> Views] : History(Append(log, m), T2, read, c)'
  BY <1>2, <1>3, <1>4, <1>6, <1>7, <1>8, <1>9, <1>10, MoveMade
<1> QED
  BY <1>2, <1>4, <1>6, <1>8, <1>11

\* A user plays or passes, having seen all moves.
LEMMA PlayStep ==
  ASSUME TypeInv, NEW log \in Seq(Move), NEW T \in [0..Len(log) -> Views],
         NEW read \in 0..Len(log), NEW ahead \in Clients, History(log, T, read, ahead),
         NEW c \in Clients, UserPlays(c)
  PROVE  \E m \in Move :
           /\ m.by = c /\ Len(seen[c]) = Len(log)
           /\ seen' = [seen EXCEPT ![c] = Append(seen[c], m)] /\ hung' = hung
           /\ \E T2 \in [0..Len(Append(log, m)) -> Views] :
                History(Append(log, m), T2, read, c)'
<1>1. PICK h \in SUBSET g[c].hand[User] :
        OnHand(c, TakeFromHand(g[c], User, h), User, h) /\ Tell(c, CardsOf(h))
  BY DEF UserPlays
<1>2. UNCHANGED << signals, queue, down, relays, hung >> /\ UsersTurn(c, "PlayingHand")
  BY DEF UserPlays, serverVars
<1>3. PICK v \in Views :
        /\ v = T[Len(seen[c])] /\ v.turn = c /\ v.phase = "Play"
        /\ ~dealing[c] /\ ~lordDue[c] /\ ~over[c] /\ tasks[c] = << >> /\ signals[c] = << >>
        /\ SameTurn(c, g[c], v) /\ SameHands(c, g[c], v.hand)
  BY <1>2, UserMoves
<1> DEFINE m == [by |-> c, kind |-> "Play", bet |-> 0, cards |-> h]
<1>4. h \in SUBSET Deck /\ g[c] \in Tables
  <2>1. g[c] \in Tables /\ User \in Seats
    BY DEF TypeInv, TypeOK, Seats, User
  <2>2. g[c].hand[User] \in SUBSET Deck
    BY <2>1 DEF Tables
  <2> QED
    BY <2>1, <2>2
<1>5. m \in Move /\ TaskOf(m) = CardsOf(h) /\ After(v, m) = AfterPlay(v, h)
  BY <1>4, TaskTypes DEF Move, TaskOf, CardsOf, After
<1>6. SeatOf(c, c) = User /\ ClientAt(c, User) = c
  BY Seating
<1>7. seen' = [seen EXCEPT ![c] = Append(seen[c], m)]
  BY <1>1, <1>6 DEF OnHand, See, CardsOf
<1>8. up' = [up EXCEPT ![c] = Append(up[c], TaskOf(m))]
  BY <1>1, <1>5 DEF Tell
<1>9. /\ m.by = c /\ m.kind = v.phase
      /\ IF m.kind = "Bet" THEN m.cards = {} ELSE m.bet = 0
  BY <1>3
<1> HIDE DEF m
<1>10. TableInv(c, After(v, m))'
  <2> DEFINE t == TakeFromHand(g[c], SeatOf(c, c), h)
  <2>1. /\ t \in Tables /\ SameTurn(c, t, v) /\ SameHands(c, t, Less(v.hand, c, h))
        /\ t.status = g[c].status
    BY <1>3, <1>4, SameLess
  <2> HIDE DEF t
  <2>2. /\ t.status = "PlayingHand" /\ OnHand(c, t, SeatOf(c, v.turn), h)
        /\ signals'[c] = << >>
    BY <1>1, <1>2, <1>3, <1>6, <2>1 DEF UsersTurn, t
  <2>3. TableInv(c, AfterPlay(v, h))'
    BY <1>3, <1>4, <2>1, <2>2, HandSeen
  <2> QED
    BY <1>5, <2>3
<1>11. \A d \in Clients : d # c => /\ g'[d] = g[d] /\ dealing'[d] = dealing[d]
                                   /\ lordDue'[d] = lordDue[d] /\ over'[d] = over[d]
                                   /\ tasks'[d] = tasks[d]
  BY <1>1 DEF OnHand, TypeInv, TypeOK
<1>12. /\ Len(seen[c]) = Len(log)
       /\ \E T2 \in [0..Len(Append(log, m)) -> Views] : History(Append(log, m), T2, read, c)'
  BY <1>2, <1>3, <1>5, <1>7, <1>8, <1>9, <1>10, <1>11, MoveMade
<1> QED
  BY <1>2, <1>5, <1>7, <1>9, <1>12

\* Nothing happens.
LEMMA StutterStep ==
  ASSUME NEW log \in Seq(Move), NEW T \in [0..Len(log) -> Views],
         NEW read \in 0..Len(log), NEW ahead \in Clients, History(log, T, read, ahead),
         UNCHANGED vars
  PROVE  History(log, T, read, ahead)'
<1>1. UNCHANGED << g, dealing, lordDue, tasks, over, seen, signals, queue, up, down, relays, hung >>
  BY DEF vars, tableVars, serverVars
<1>2. /\ LogInv(log, T) /\ ServerInv(log, read, ahead) /\ RelayInv(log, read)
      /\ \A d \in Clients : /\ SeenInv(d, log) /\ PipeInv(d, log) /\ TellInv(d, log, read)
                            /\ \A n \in 0..Len(log) : n = Len(seen[d]) => TableInv(d, T[n])
  BY DEF History
<1>3. ServerInv(log, read, ahead)' /\ RelayInv(log, read)'
  BY <1>1, <1>2 DEF ServerInv, RelayInv, Handled
<1>4. ASSUME NEW d \in Clients
      PROVE  /\ SeenInv(d, log)' /\ PipeInv(d, log)' /\ TellInv(d, log, read)'
             /\ \A n \in 0..Len(log) : n = Len(seen'[d]) => TableInv(d, T[n])'
  <2>1. SeenInv(d, log)'
    BY <1>1, <1>2 DEF SeenInv
  <2>2. Taken(d)' = Taken(d) /\ Queued(d)' = Queued(d) /\ Told(d)' = Told(d)
    BY <1>1 DEF Taken, Queued, Told
  <2>3. PipeInv(d, log)'
    BY <1>1, <1>2, <2>2 DEF PipeInv
  <2>4. TellInv(d, log, read)'
    BY <1>1, <1>2, <2>2 DEF TellInv, Owed, Handled
  <2>5. ASSUME NEW n \in 0..Len(log), n = Len(seen'[d]) PROVE TableInv(d, T[n])'
    <3>1. TableInv(d, T[n])
      BY <1>1, <1>2, <2>5
    <3> QED
      BY <1>1, <3>1, TableStays
  <2> QED
    BY <2>1, <2>3, <2>4, <2>5
<1> QED
  BY <1>1, <1>2, <1>3, <1>4 DEF History

-----------------------------------------------------------------------------
(* The three tables go through the same moves *)

\* Whoever has seen most has seen the whole log: the one who made its last move has.
LEMMA Longest ==
  ASSUME NEW s \in [Clients -> Seq(Move)], NEW log \in Seq(Move),
         \A c \in Clients : /\ Len(s[c]) <= Len(log)
                            /\ \A i \in 1..Len(s[c]) : s[c][i] = log[i]
                            /\ \A i \in (Len(s[c]) + 1)..Len(log) : log[i].by # c
  PROVE  s[CHOOSE c \in Clients : \A d \in Clients : Len(s[d]) <= Len(s[c])] = log
<1> DEFINE f == CHOOSE c \in Clients : \A d \in Clients : Len(s[d]) <= Len(s[c])
<1>1. Len(log) \in Nat /\ \A c \in Clients : s[c] \in Seq(Move) /\ Len(s[c]) \in Nat
  BY LenProperties
<1>2. \E c \in Clients : Len(s[c]) = Len(log)
  <2>1. CASE Len(log) = 0
    <3>1. 1 \in Clients
      BY DEF Clients
    <3> QED
      BY <1>1, <2>1, <3>1
  <2>2. CASE Len(log) # 0
    <3>1. Len(log) \in 1..Len(log)
      BY <1>1, <2>2
    <3>2. log[Len(log)] \in Move
      BY <3>1, ElementOfSeq
    <3>3. PICK c \in Clients : c = log[Len(log)].by
      BY <3>2 DEF Move
    <3>4. ~(Len(log) \in (Len(s[c]) + 1)..Len(log))
      BY <3>3
    <3>5. Len(s[c]) = Len(log)
      BY <1>1, <3>4
    <3> QED
      BY <3>5
  <2> QED
    BY <2>1, <2>2
<1>3. \E c \in Clients : \A d \in Clients : Len(s[d]) <= Len(s[c])
  BY <1>1, <1>2
<1>4. f \in Clients /\ \A d \in Clients : Len(s[d]) <= Len(s[f])
  BY <1>3
<1> HIDE DEF f
<1>5. Len(s[f]) = Len(log)
  BY <1>1, <1>2, <1>4
<1>6. s[f] = log
  BY <1>1, <1>4, <1>5, SeqEqual
<1> QED
  BY <1>6 DEF f

\* Before and after a step, the moves of the client that has seen most are the log.
LEMMA ForemostIsLog ==
  ASSUME TypeInv, NEW log \in Seq(Move), \A c \in Clients : SeenInv(c, log)
  PROVE  seen[Foremost] = log
<1> DEFINE s == seen
<1>1. s \in [Clients -> Seq(Move)]
  BY DEF TypeInv, TypeOK
<1>2. \A c \in Clients : /\ Len(s[c]) <= Len(log)
                         /\ \A i \in 1..Len(s[c]) : s[c][i] = log[i]
                         /\ \A i \in (Len(s[c]) + 1)..Len(log) : log[i].by # c
  BY DEF SeenInv
<1> HIDE DEF s
<1>3. s[CHOOSE c \in Clients : \A d \in Clients : Len(s[d]) <= Len(s[c])] = log
  BY <1>1, <1>2, Longest
<1> QED
  BY <1>3 DEF Foremost, s

\* The same of the next state.
LEMMA ForemostIsLogNext ==
  ASSUME TypeInv', NEW log \in Seq(Move), \A c \in Clients : SeenInv(c, log)'
  PROVE  (seen[Foremost])' = log
<1> DEFINE s == seen'
<1>1. s \in [Clients -> Seq(Move)]
  BY DEF TypeInv, TypeOK
<1>2. \A c \in Clients : /\ Len(s[c]) <= Len(log)
                         /\ \A i \in 1..Len(s[c]) : s[c][i] = log[i]
                         /\ \A i \in (Len(s[c]) + 1)..Len(log) : log[i].by # c
  BY DEF SeenInv
<1> HIDE DEF s
<1>3. s[CHOOSE c \in Clients : \A d \in Clients : Len(s[d]) <= Len(s[c])] = log
  BY <1>1, <1>2, Longest
<1> QED
  BY <1>3 DEF Foremost, s

\* Before the first move every table is to be dealt, and the first client is to bid.
LEMMA InitHistory == Init => GameInv
<1> SUFFICES ASSUME Init PROVE GameInv
  OBVIOUS
<1> DEFINE v == [ turn |-> 1, phase |-> "Bet", hand |-> DealtTo(1), times |-> 0,
                  bet |-> 0, betBy |-> 1 ]
           T == [n \in 0..0 |-> v]
<1>1. TypeInv
  BY InitTypes
<1>2. 1 \in Clients /\ << >> \in Seq(Move) /\ Len(<< >>) = 0
  BY EmptySeq DEF Clients
<1>3. v \in Views
  BY <1>2, DealtCards DEF Views
<1>4. /\ v.turn = 1 /\ v.phase = "Bet" /\ v.hand = DealtTo(1) /\ v.times = 0 /\ v.bet = 0
  OBVIOUS
<1>5. T \in [0..0 -> Views] /\ \A n \in 0..0 : T[n] = v
  BY <1>3
<1> HIDE DEF v, T
<1>6. LogInv(<< >>, T)
  BY <1>2, <1>5 DEF LogInv
<1>7. ASSUME NEW c \in Clients
      PROVE  /\ seen[c] = << >> /\ signals[c] = << >> /\ queue[c] = << >> /\ down[c] = << >>
             /\ up[c] = << >> /\ tasks[c] = << >>
             /\ dealing[c] /\ ~lordDue[c] /\ ~over[c]
             /\ g[c].status = "DispatchCard" /\ g[c].cur = SeatOf(c, 1)
             /\ g[c].times = 0 /\ g[c].bet = 0
  BY DEF Init, NewTable
<1>8. hung = {} /\ Handled(0) = 0 /\ \A w \in Workers : relays[w] = << >>
  BY DEF Init, Handled
<1>9. ServerInv(<< >>, 0, 1)
  BY <1>2, <1>7, <1>8 DEF ServerInv, Carries
<1>10. RelayInv(<< >>, 0)
  BY <1>8 DEF RelayInv
<1>11. ASSUME NEW c \in Clients
       PROVE  /\ SeenInv(c, << >>) /\ PipeInv(c, << >>) /\ TellInv(c, << >>, 0)
              /\ \A n \in 0..0 : n = Len(seen[c]) => TableInv(c, T[n])
  <2>1. SeenInv(c, << >>)
    BY <1>2, <1>7 DEF SeenInv
  <2>2. /\ Len(seen[c]) = 0 /\ Len(signals[c]) = 0 /\ Len(queue[c]) = 0
        /\ Len(down[c]) = 0
    BY <1>2, <1>7
  <2>3. Taken(c) = 0 /\ Queued(c) = 0 /\ Told(c) = 0
    BY <2>2 DEF Told, Queued, Taken
  <2>4. PipeInv(c, << >>)
    BY <1>2, <2>3, <2>2 DEF PipeInv, Carries
  <2>5. ~Owed(c)
    BY <1>8 DEF Owed
  <2>6. TellInv(c, << >>, 0)
    BY <1>2, <1>7, <1>8, <2>5, <2>3 DEF TellInv
  <2>7. TableInv(c, v)
    BY <1>4, <1>7 DEF TableInv, SameTurn, AskedInv
  <2> QED
    BY <1>5, <2>1, <2>4, <2>6, <2>7
<1>12. History(<< >>, T, 0, 1)
  BY <1>2, <1>6, <1>9, <1>10, <1>11 DEF History
<1>13. 0 \in 0..Len(<< >>) /\ T \in [0..Len(<< >>) -> Views]
  BY <1>2, <1>5
<1> QED
  BY <1>2, <1>12, <1>13 DEF GameInv

\* Every step keeps the invariant, and is a step of Moves or none.
LEMMA NextHistory ==
  ASSUME TypeInv, GameInv, OneWorker \/ "returns" \notin Relock, [Next]_vars
  PROVE  GameInv' /\ [M!Next]_(M!vars)
<1>1. TypeInv'
  BY NextTypes
<1>2. PICK log \in Seq(Move) :
        \E T \in [0..Len(log) -> Views], read \in 0..Len(log), ahead \in Clients :
          History(log, T, read, ahead)
  BY DEF GameInv
<1>3. PICK T \in [0..Len(log) -> Views], read \in 0..Len(log), ahead \in Clients :
        History(log, T, read, ahead)
  BY <1>2
<1>4. seen[Foremost] = log
  BY <1>3, ForemostIsLog DEF History
<1>5. ASSUME NEW log2 \in Seq(Move), NEW T2 \in [0..Len(log2) -> Views],
             NEW read2 \in 0..Len(log2), NEW ahead2 \in Clients,
             History(log2, T2, read2, ahead2)'
      PROVE  GameInv' /\ (seen[Foremost])' = log2
  <2>1. GameInv'
    BY <1>5 DEF GameInv
  <2>2. \A c \in Clients : SeenInv(c, log2)'
    BY <1>5 DEF History
  <2> QED
    BY <1>1, <2>1, <2>2, ForemostIsLogNext
<1>6. ASSUME NEW read2 \in 0..Len(log), History(log, T, read2, ahead)',
             seen' = seen, (hung # {})' = (hung # {})
      PROVE  GameInv' /\ [M!Next]_(M!vars)
  <2>1. GameInv' /\ (seen[Foremost])' = log
    BY <1>5, <1>6
  <2>2. M!vars' = M!vars
    BY <1>4, <1>6, <2>1 DEF M!vars
  <2> QED
    BY <2>1, <2>2
<1>7. ASSUME NEW c \in Clients, NEW m \in Move, m.by = c, Len(seen[c]) = Len(log),
             seen' = [seen EXCEPT ![c] = Append(seen[c], m)], hung' = hung,
             \E T2 \in [0..Len(Append(log, m)) -> Views] :
               History(Append(log, m), T2, read, c)'
      PROVE  GameInv' /\ [M!Next]_(M!vars)
  <2> DEFINE log2 == Append(log, m)
  <2>1. /\ log2 \in Seq(Move) /\ Len(log2) = Len(log) + 1 /\ Len(log) \in Nat
        /\ \A i \in 1..Len(log) : log2[i] = log[i]
        /\ log2[Len(log2)] = m
    BY LogGrows DEF Grows
  <2>2. read \in 0..Len(log2)
    BY <2>1
  <2>3. GameInv' /\ (seen[Foremost])' = log2
    BY <1>5, <1>7, <2>1, <2>2
  <2>4. seen[c] = log
    <3>1. seen[c] \in Seq(Move) /\ \A i \in 1..Len(seen[c]) : seen[c][i] = log[i]
      BY <1>3 DEF History, SeenInv, TypeInv, TypeOK
    <3> QED
      BY <1>7, <3>1, SeqEqual
  <2>5. seen' = [seen EXCEPT ![c] = log2]
    BY <1>7, <2>4
  <2> HIDE DEF log2
  <2>6. SubSeq(log2, 1, Len(log)) = log
    <3>1. \A i \in 1..Len(log) : log2[i] \in Move
      BY <2>1, ElementOfSeq
    <3>2. /\ SubSeq(log2, 1, Len(log)) \in Seq(Move)
          /\ Len(SubSeq(log2, 1, Len(log))) = Len(log)
          /\ \A i \in 1..Len(log) : SubSeq(log2, 1, Len(log))[i] = log2[i]
      BY <2>1, <3>1, SubSeqProperties
    <3> QED
      BY <2>1, <3>2, SeqEqual
  <2>7. M!Make(c)
    BY <1>4, <1>7, <2>1, <2>3, <2>4, <2>5, <2>6 DEF M!Make
  <2>8. M!Next
    BY <2>7 DEF M!Next
  <2> QED
    BY <2>3, <2>8
<1>8. ASSUME NEW c \in Clients, OnSignal(c) PROVE GameInv' /\ [M!Next]_(M!vars)
  <2>1. /\ History(log, T, read, ahead)' /\ Len(seen[c]) < Len(log)
        /\ seen' = [seen EXCEPT ![c] = Append(seen[c], log[Len(seen[c]) + 1])]
    BY <1>3, <1>8, SignalStep
  <2>2. GameInv' /\ (seen[Foremost])' = log
    BY <1>5, <2>1
  <2>3. hung' = hung
    BY <1>8 DEF OnSignal, serverVars
  <2>4. M!See(c)
    BY <1>4, <2>1, <2>2, <2>3 DEF M!See
  <2>5. M!Next
    BY <2>4 DEF M!Next
  <2> QED
    BY <2>2, <2>5
<1>9. ASSUME NEW c \in Clients, HandleMove(c) PROVE GameInv' /\ [M!Next]_(M!vars)
  <2>1. /\ read + 1 \in 0..Len(log) /\ History(log, T, read + 1, ahead)' /\ seen' = seen
    BY <1>3, <1>9, HandleStep
  <2>2. CASE hung' = hung
    BY <1>6, <2>1, <2>2
  <2>3. CASE hung' = {WorkerOf[c]}
    <3>1. GameInv' /\ (seen[Foremost])' = log
      BY <1>5, <2>1
    <3>2. (hung # {})' = TRUE
      BY <2>3
    <3>3. M!Break
      BY <1>4, <2>1, <3>1, <3>2 DEF M!Break
    <3>4. M!Next
      BY <3>3 DEF M!Next
    <3> QED
      BY <3>1, <3>4
  <2> QED
    BY <1>9, <2>2, <2>3 DEF HandleMove
<1>10. ASSUME NEW w \in Workers, NotifyOther(w) PROVE GameInv' /\ [M!Next]_(M!vars)
  BY <1>3, <1>6, <1>10, NotifyStep
<1>11. ASSUME NEW c \in Clients, Deal(c) PROVE GameInv' /\ [M!Next]_(M!vars)
  <2>1. History(log, T, read, ahead)' /\ seen' = seen /\ hung' = hung
    BY <1>3, <1>11, DealStep DEF Deal, serverVars
  <2> QED
    BY <1>6, <2>1
<1>12. ASSUME NEW c \in Clients, LordStarts(c) PROVE GameInv' /\ [M!Next]_(M!vars)
  <2>1. History(log, T, read, ahead)' /\ seen' = seen /\ hung' = hung
    BY <1>3, <1>12, LordStep DEF LordStarts, serverVars
  <2> QED
    BY <1>6, <2>1
<1>13. ASSUME NEW c \in Clients, AddTask(c) PROVE GameInv' /\ [M!Next]_(M!vars)
  <2>1. History(log, T, read, ahead)' /\ seen' = seen /\ hung' = hung
    BY <1>3, <1>13, TaskStep DEF AddTask, tableVars, serverVars
  <2> QED
    BY <1>6, <2>1
<1>14. ASSUME NEW c \in Clients, RobotTakes(c) PROVE GameInv' /\ [M!Next]_(M!vars)
  <2>1. History(log, T, read, ahead)' /\ seen' = seen /\ hung' = hung
    BY <1>3, <1>14, RobotStep DEF RobotTakes, serverVars
  <2> QED
    BY <1>6, <2>1
<1>15. ASSUME NEW c \in Clients, UserBids(c) PROVE GameInv' /\ [M!Next]_(M!vars)
  <2>1. PICK m \in Move :
          /\ m.by = c /\ Len(seen[c]) = Len(log)
          /\ seen' = [seen EXCEPT ![c] = Append(seen[c], m)] /\ hung' = hung
          /\ \E T2 \in [0..Len(Append(log, m)) -> Views] :
               History(Append(log, m), T2, read, c)'
    BY <1>3, <1>15, BidStep
  <2> QED
    BY <1>7, <2>1
<1>16. ASSUME NEW c \in Clients, UserPlays(c) PROVE GameInv' /\ [M!Next]_(M!vars)
  <2>1. PICK m \in Move :
          /\ m.by = c /\ Len(seen[c]) = Len(log)
          /\ seen' = [seen EXCEPT ![c] = Append(seen[c], m)] /\ hung' = hung
          /\ \E T2 \in [0..Len(Append(log, m)) -> Views] :
               History(Append(log, m), T2, read, c)'
    BY <1>3, <1>16, PlayStep
  <2> QED
    BY <1>7, <2>1
<1>17. CASE UNCHANGED vars
  <2>1. History(log, T, read, ahead)'
    BY <1>3, <1>17, StutterStep
  <2>2. seen' = seen /\ hung' = hung
    BY <1>17 DEF vars, tableVars, serverVars
  <2> QED
    BY <1>6, <2>1, <2>2
<1> QED
  BY <1>8, <1>9, <1>10, <1>11, <1>12, <1>13, <1>14, <1>15, <1>16, <1>17 DEF Next, Due

\* A settled hand is the last of the log, so that nothing is under way to that table.
LEMMA NothingIsLeft == TypeInv /\ GameInv => LeavesNothing
<1> SUFFICES ASSUME TypeInv, GameInv, NEW c \in Clients, over[c]
             PROVE  /\ tasks[c] = << >> /\ signals[c] = << >>
                    /\ queue[c] = << >> /\ down[c] = << >>
  BY DEF LeavesNothing
<1>1. PICK log \in Seq(Move) :
        \E T \in [0..Len(log) -> Views], read \in 0..Len(log), ahead \in Clients :
          History(log, T, read, ahead)
  BY DEF GameInv
<1>2. PICK T \in [0..Len(log) -> Views], read \in 0..Len(log), ahead \in Clients :
        History(log, T, read, ahead)
  BY <1>1
<1>3. /\ SeenInv(c, log) /\ PipeInv(c, log) /\ LogInv(log, T) /\ Len(log) \in Nat
      /\ \A n \in 0..Len(log) : n = Len(seen[c]) => TableInv(c, T[n])
  BY <1>2, LenProperties DEF History
<1>4. Len(seen[c]) \in 0..Len(log)
  BY <1>3, Lengths DEF SeenInv
<1>5. PICK n \in 0..Len(log) : n = Len(seen[c])
  BY <1>4
<1>6. TableInv(c, T[n])
  BY <1>3, <1>5
<1>7. T[n].phase = "Done" /\ tasks[c] = << >>
  BY <1>6 DEF TableInv, AskedInv
<1>8. n = Len(log)
  <2> SUFFICES ASSUME n # Len(log) PROVE FALSE
    OBVIOUS
  <2>1. n + 1 \in 1..Len(log) /\ (n + 1) - 1 = n
    BY <1>3
  <2>2. log[n + 1].kind = "Done"
    BY <1>3, <1>7, <2>1 DEF LogInv
  <2>3. log[n + 1] \in Move
    BY <2>1, ElementOfSeq
  <2> QED
    BY <2>2, <2>3 DEF Move
<1> QED
  BY <1>3, <1>5, <1>7, <1>8, NothingUnderWay

\* As long as one worker relays for the three clients, or none gets through the mutex it
\* locks twice, the tables go through the same moves: each client sees a beginning of one
\* sequence, whose moves are ascribed to the players who made them, and who moves has seen
\* every move before (the part of SameGame that is not about what must happen).
THEOREM SameMoves ==
  ASSUME OneWorker \/ "returns" \notin Relock
  PROVE  Spec => M!Safety
<1>1. Init => TypeInv /\ GameInv
  BY InitTypes, InitHistory
<1>2. Init => M!Init
  <2> SUFFICES ASSUME Init PROVE M!Init
    OBVIOUS
  <2>1. \A c \in Clients : seen[c] = << >>
    BY DEF Init
  <2>2. seen = [c \in Clients |-> << >>] /\ (hung # {}) = FALSE
    BY DEF Init
  <2>3. TypeInv /\ \A c \in Clients : SeenInv(c, << >>)
    BY <2>1, InitTypes, EmptySeq DEF SeenInv
  <2>4. seen[Foremost] = << >>
    BY <2>3, ForemostIsLog, EmptySeq
  <2> QED
    BY <2>2, <2>4 DEF M!Init
<1>3. TypeInv /\ GameInv /\ [Next]_vars
        => (TypeInv /\ GameInv)' /\ [M!Next]_(M!vars)
  BY NextTypes, NextHistory
<1> QED
  BY <1>1, <1>2, <1>3, PTL DEF Spec, M!Safety

\* Then, too, nothing of a hand that is settled at a table is left in its queues for the
\* robots of the next game.
THEOREM NothingLeft ==
  ASSUME OneWorker \/ "returns" \notin Relock
  PROVE  Spec => []LeavesNothing
<1>1. Init => TypeInv /\ GameInv
  BY InitTypes, InitHistory
<1>2. TypeInv /\ GameInv /\ [Next]_vars => (TypeInv /\ GameInv)'
  BY NextTypes, NextHistory
<1> QED
  BY <1>1, <1>2, NothingIsLeft, PTL DEF Spec
=============================================================================

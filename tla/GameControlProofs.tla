--------------------------- MODULE GameControlProofs ---------------------------
(***************************************************************************)
(* The single-player game, for every deck and every number of hands:       *)
(* types, scores and winners whatever the user clicks; one move at a time, *)
(* the lord, the cards and the table if the user clicks no cards on the    *)
(* table; and that the robots, of which GameControl says only what they    *)
(* may play, may play what Strategy makes them play.                       *)
(***************************************************************************)
EXTENDS GameControl, TableProofs, StrategyProofs

-----------------------------------------------------------------------------
(* Types and scores, whatever the user clicks *)

\* Somebody has been or will be asked for a hand.
HandBegun ==
  \/ lordDue
  \/ g.status = "PlayingHand"
  \/ buttons \in {"PlayCard", "PassOrPlay"}
  \/ countdown
  \/ \E i \in DOMAIN tasks : tasks[i].kind = "Play"
  \/ \E i \in DOMAIN signals : signals[i].kind = "Play"

\* The inductive invariant: the best bid has a bidder, who becomes the lord, and from
\* then on there is one, whichever window or thread the game goes on in.
ScoreInv ==
  /\ TypeOK
  /\ BetHasBidder(g)
  /\ HandBegun => OneLord(g)
  /\ ZeroSum

\* The empty table has the types and no points.
LEMMA InitScoreInv == Init => ScoreInv
<1> SUFFICES ASSUME Init PROVE ScoreInv
  OBVIOUS
<1>1. g \in Tables
  <2>1. /\ User \in Seats /\ 0 \in 0..3 /\ 0 \in 0..2 /\ 0 \in Nat /\ 0 \in Int
        /\ Nobody \in Seats \cup {Nobody}
    BY DEF User, Seats
  <2>2. /\ [p \in Seats |-> {}] \in [Seats -> SUBSET Deck]
        /\ [p \in Seats |-> "Farmer"] \in [Seats -> {"Lord", "Farmer"}]
        /\ [p \in Seats |-> 0] \in [Seats -> Int]
        /\ [p \in Seats |-> FALSE] \in [Seats -> BOOLEAN]
    BY <2>1
  <2> QED
    BY <2>1, <2>2 DEF Init, Tables
<1>2. TypeOK
  <2>1. <<>> \in Seq(Tasks) /\ <<>> \in Seq(Signals) /\ <<>> \in Seq(Seats \X (0..3))
    OBVIOUS
  <2> QED
    BY <1>1, <2>1 DEF Init, TypeOK, Buttons
<1>3. BetHasBidder(g) /\ ~HandBegun
  BY DEF Init, BetHasBidder, HandBegun
<1>4. ZeroSum
  BY DEF Init, ZeroSum, Seats
<1> QED
  BY <1>2, <1>3, <1>4 DEF ScoreInv

\* A task more.
LEMMA AskType ==
  ASSUME tasks \in Seq(Tasks), NEW p \in Seats, NEW kind \in {"Bet", "Play"}, Ask(p, kind)
  PROVE  /\ tasks' \in Seq(Tasks)
         /\ p = User => tasks' = tasks
         /\ p # User => /\ tasks' = Append(tasks, [seat |-> p, kind |-> kind])
                        /\ [seat |-> p, kind |-> kind] \in Tasks
<1>1. p # User => [seat |-> p, kind |-> kind] \in Tasks
  BY DEF Tasks, Robots
<1> QED
  BY <1>1 DEF Ask

\* The tasks that remain.
LEMMA WithoutType ==
  ASSUME tasks \in Seq(Tasks), NEW i \in DOMAIN tasks
  PROVE  /\ TasksWithout(i) \in Seq(Tasks)
         /\ Len(TasksWithout(i)) = Len(tasks) - 1
         /\ \A j \in DOMAIN TasksWithout(i) : \E k \in DOMAIN tasks : TasksWithout(i)[j] = tasks[k]
<1>1. Len(tasks) \in Nat /\ DOMAIN tasks = 1..Len(tasks) /\ Len(tasks) - 1 \in Nat
  OBVIOUS
<1>2. \A j \in 1..(Len(tasks) - 1) :
        (IF j < i THEN tasks[j] ELSE tasks[j + 1]) \in Tasks
  BY <1>1
<1>3. TasksWithout(i) \in Seq(Tasks)
  BY <1>1, <1>2, SeqDef DEF TasksWithout
<1>4. DOMAIN TasksWithout(i) = 1..(Len(tasks) - 1)
  BY DEF TasksWithout
<1>5. Len(TasksWithout(i)) = Len(tasks) - 1
  <2>1. Len(TasksWithout(i)) \in Nat /\ DOMAIN TasksWithout(i) = 1..Len(TasksWithout(i))
    BY <1>3, LenProperties
  <2>2. ASSUME NEW m \in Nat, NEW n \in Nat, 1..m = 1..n
        PROVE  m = n
    <3>1. m > 0 => m \in 1..n
      BY <2>2
    <3>2. n > 0 => n \in 1..m
      BY <2>2
    <3> QED
      BY <3>1, <3>2
  <2> QED
    BY <1>1, <1>4, <2>1, <2>2
<1>6. \A j \in DOMAIN TasksWithout(i) : \E k \in DOMAIN tasks : TasksWithout(i)[j] = tasks[k]
  BY <1>1, <1>4 DEF TasksWithout
<1> QED
  BY <1>3, <1>5, <1>6

\* What keeps the invariant, part by part.
LEMMA ScoreInvNext ==
  ASSUME ScoreInv, TypeOK', BetHasBidder(g'), Total(g') = Total(g), HandBegun' => OneLord(g')
  PROVE  ScoreInv'
BY DEF ScoreInv, ZeroSum, Total

\* Signals that stay or go mean no new play.
FewerSignals ==
  /\ signals' \in Seq(Signals)
  /\ \A i \in DOMAIN signals' : \E j \in DOMAIN signals : signals'[i] = signals[j]

\* A new deal keeps the invariant.
LEMMA DispatchScore ==
  ASSUME ScoreInv, NEW t \in Tables, t.role = g.role, BetHasBidder(t), Total(t) = Total(g),
         DispatchFrom(t), FewerSignals,
         UNCHANGED <<tasks, lordDue, countdown>>,
         selected' \in SUBSET Deck, bids' \in Seq(Seats \X (0..3)), hands' \in Nat,
         endings' \in Nat
  PROVE  ScoreInv'
<1>1. TypeOK
  BY DEF ScoreInv
<1>2. /\ g' = Dispatch(t) /\ dealing' = TRUE /\ buttons' = "Empty" /\ shown' = {}
      /\ kept' = selected
  BY DEF DispatchFrom
<1>3. g' \in Tables
  BY <1>2, DispatchFacts
<1>4. /\ g'.role = g.role /\ g'.status = "DispatchCard" /\ g'.score = t.score
      /\ g'.bet = t.bet /\ g'.betBy = t.betBy
  BY <1>2 DEF Dispatch, Tables
<1>5. TypeOK'
  BY <1>1, <1>2, <1>3 DEF TypeOK, FewerSignals, Buttons
<1>6. HandBegun' => HandBegun
  BY <1>2, <1>4 DEF HandBegun, FewerSignals
<1>7. HandBegun' => OneLord(g')
  BY <1>4, <1>6 DEF ScoreInv, OneLord
<1>8. BetHasBidder(g') /\ Total(g') = Total(g)
  BY <1>4 DEF BetHasBidder, Total
<1> QED
  BY <1>5, <1>7, <1>8, ScoreInvNext

\* onGrabBet keeps the invariant.
LEMMA OnBetScore ==
  ASSUME ScoreInv, NEW p \in Seats, NEW b \in 0..3, OnBet(p, b), FewerSignals
  PROVE  ScoreInv'
<1> DEFINE t == AfterBet(g, p, b)
<1>1. TypeOK /\ g \in Tables /\ BetHasBidder(g)
  BY DEF ScoreInv, TypeOK
<1>2. /\ t \in Tables
      /\ BetHasBidder(t)
      /\ t.score = g.score
      /\ t.status = g.status
      /\ Redeals(g, b) => t.role = g.role
      /\ ~Redeals(g, b) /\ EndsBidding(g, b) => OneLord(t)
      /\ ~EndsBidding(g, b) => t.role = g.role
  BY <1>1, AfterBetFacts
<1>3. Total(t) = Total(g)
  BY <1>2 DEF Total
<1>4. /\ bids' \in Seq(Seats \X (0..3)) /\ UNCHANGED <<countdown, endings, selected, hands>>
      /\ endings' \in Nat /\ selected' \in SUBSET Deck /\ hands' \in Nat
  BY <1>1 DEF OnBet, TypeOK
<1> HIDE DEF t
<1>5. CASE Redeals(g, b)
  <2>1. DispatchFrom(t) /\ UNCHANGED <<tasks, lordDue>>
    BY <1>5 DEF OnBet, t
  <2> QED
    BY <1>2, <1>3, <1>4, <1>5, <2>1, DispatchScore
<1>6. CASE ~Redeals(g, b) /\ EndsBidding(g, b)
  <2>1. g' = t /\ lordDue' = TRUE /\ buttons' = "Empty" /\ UNCHANGED <<tasks, dealing, kept, shown>>
    BY <1>6 DEF OnBet, t
  <2>2. TypeOK'
    BY <1>1, <1>2, <1>4, <2>1 DEF TypeOK, FewerSignals, Buttons
  <2> QED
    BY <1>2, <1>3, <1>6, <2>1, <2>2, ScoreInvNext
<1>7. CASE ~EndsBidding(g, b)
  <2>1. ~Redeals(g, b)
    BY <1>7 DEF EndsBidding, Redeals
  <2>2. /\ g' = t /\ UNCHANGED <<lordDue, dealing, kept, shown>>
        /\ Ask(NextOf(p), "Bet") /\ buttons' \in {"Calllord", "Empty", buttons}
    BY <1>7, <2>1 DEF OnBet, AskBid, t
  <2>3. NextOf(p) \in Seats
    BY DEF NextOf, Seats
  <2>4. tasks' \in Seq(Tasks) /\ \A i \in DOMAIN tasks' : tasks'[i].kind = "Play" =>
                                   \E j \in DOMAIN tasks : tasks[j].kind = "Play"
    <3>1. tasks \in Seq(Tasks)
      BY <1>1 DEF TypeOK
    <3>2. /\ tasks' \in Seq(Tasks)
          /\ NextOf(p) = User => tasks' = tasks
          /\ NextOf(p) # User => /\ tasks' = Append(tasks, [seat |-> NextOf(p), kind |-> "Bet"])
                                 /\ [seat |-> NextOf(p), kind |-> "Bet"] \in Tasks
      BY <2>2, <2>3, <3>1, AskType
    <3> DEFINE a == [seat |-> NextOf(p), kind |-> "Bet"]
    <3>3. CASE NextOf(p) = User
      BY <3>2, <3>3
    <3>4. CASE NextOf(p) # User
      <4>1. a.kind # "Play"
        OBVIOUS
      <4> HIDE DEF a
      <4>2. tasks' = Append(tasks, a) /\ a \in Tasks
        BY <3>2, <3>4 DEF a
      <4>3. /\ Len(tasks') = Len(tasks) + 1 /\ Len(tasks) \in Nat
            /\ \A i \in 1..Len(tasks) : tasks'[i] = tasks[i]
            /\ tasks'[Len(tasks) + 1] = a
            /\ DOMAIN tasks' = 1..Len(tasks') /\ DOMAIN tasks = 1..Len(tasks)
        BY <3>1, <3>2, <4>2, AppendProperties, LenProperties
      <4> QED
        BY <3>2, <4>1, <4>3
    <3> QED
      BY <3>3, <3>4
  <2>5. TypeOK'
    BY <1>1, <1>2, <1>4, <2>2, <2>4 DEF TypeOK, FewerSignals, Buttons
  <2>6. HandBegun' => HandBegun
    BY <1>2, <1>4, <2>2, <2>4 DEF HandBegun, FewerSignals
  <2>7. HandBegun' => OneLord(g')
    BY <1>2, <1>7, <2>2, <2>6 DEF ScoreInv, OneLord
  <2> QED
    BY <1>2, <1>3, <2>2, <2>5, <2>7, ScoreInvNext
<1> QED
  BY <1>5, <1>6, <1>7

\* onPlayHand keeps the invariant; t is the table after the cards left the hand.
LEMMA OnHandScore ==
  ASSUME ScoreInv, OneLord(g), NEW t \in Tables, NEW h \in SUBSET Deck, NEW p \in Seats,
         t.role = g.role, t.bet = g.bet, t.betBy = g.betBy, t.score = g.score,
         OnHand(t, p, h), FewerSignals, selected' \in SUBSET Deck
  PROVE  ScoreInv'
<1>1. TypeOK
  BY DEF ScoreInv
<1>2. g' = AfterHand(t, p, h) /\ UNCHANGED <<dealing, lordDue, kept, bids>>
  BY DEF OnHand
<1>3. OneLord(t)
  BY DEF OneLord
<1>4. /\ g' \in Tables /\ Total(g') = Total(t) /\ g'.role = t.role /\ g'.bet = t.bet
      /\ g'.betBy = t.betBy
  BY <1>2, <1>3, AfterHandFacts
<1>5. OneLord(g') /\ BetHasBidder(g') /\ Total(g') = Total(g)
  BY <1>4 DEF OneLord, BetHasBidder, ScoreInv, Total
<1>6. tasks' \in Seq(Tasks) /\ buttons' \in Buttons /\ countdown' \in BOOLEAN
      /\ endings' \in Nat /\ hands' \in Nat /\ shown' \in SUBSET Deck
  <2>1. CASE WinsWith(t, p)
    <3>1. /\ endings' = endings + 1 /\ hands' = hands + 1 /\ countdown' = FALSE
          /\ shown' \in {h, shown} /\ UNCHANGED <<tasks, buttons>>
      BY <2>1 DEF OnHand
    <3>2. endings' \in Nat /\ hands' \in Nat
      BY <1>1, <3>1 DEF TypeOK
    <3>3. shown' \in SUBSET Deck /\ countdown' \in BOOLEAN
      BY <1>1, <3>1 DEF TypeOK
    <3>4. tasks' \in Seq(Tasks) /\ buttons' \in Buttons
      BY <1>1, <3>1 DEF TypeOK
    <3> QED
      BY <3>2, <3>3, <3>4
  <2>2. CASE ~WinsWith(t, p)
    <3>1. AskHand(g') /\ UNCHANGED <<endings, hands>> /\ shown' \in {{}, h, shown}
      BY <2>2 DEF OnHand
    <3>2. g'.cur \in Seats
      BY <1>4 DEF Tables
    <3>3. tasks' \in Seq(Tasks)
      <4>1. tasks \in Seq(Tasks) /\ Ask(g'.cur, "Play")
        BY <1>1, <3>1 DEF TypeOK, AskHand
      <4>2. CASE g'.cur = User
        BY <4>1, <4>2 DEF Ask
      <4>3. CASE g'.cur # User
        <5>1. [seat |-> g'.cur, kind |-> "Play"] \in Tasks
          BY <3>2, <4>3 DEF Tasks, Robots
        <5> QED
          BY <4>1, <4>3, <5>1, AppendProperties DEF Ask
      <4> QED
        BY <4>2, <4>3
    <3>4. buttons' \in Buttons
      BY <3>1 DEF AskHand, Buttons
    <3>5. countdown' \in BOOLEAN
      BY <3>1, Zenon DEF AskHand, MustFollow
    <3> QED
      BY <1>1, <3>1, <3>3, <3>4, <3>5 DEF TypeOK
  <2> QED
    BY <2>1, <2>2
<1>7. TypeOK'
  BY <1>1, <1>2, <1>4, <1>6 DEF TypeOK, FewerSignals
<1> QED
  BY <1>5, <1>7, ScoreInvNext

\* The user's signals and tasks.
LEMMA SameSignals ==
  ASSUME TypeOK, UNCHANGED signals
  PROVE  FewerSignals
BY DEF TypeOK, FewerSignals

\* A robot's task becomes a signal.
LEMMA TaskDone ==
  ASSUME ScoreInv, NEW i \in DOMAIN tasks, NEW s \in Signals, s.kind = tasks[i].kind,
         tasks' = TasksWithout(i), signals' = Append(signals, s), g' \in Tables,
         g'.role = g.role, g'.bet = g.bet, g'.betBy = g.betBy, g'.score = g.score,
         g'.status = g.status,
         UNCHANGED << dealing, lordDue, countdown, buttons, endings, selected, kept, shown,
                      bids, hands >>
  PROVE  ScoreInv'
<1>1. TypeOK
  BY DEF ScoreInv
<1>2. /\ tasks' \in Seq(Tasks)
      /\ \A j \in DOMAIN tasks' : \E k \in DOMAIN tasks : tasks'[j] = tasks[k]
  BY <1>1, WithoutType DEF TypeOK
<1>3. signals \in Seq(Signals)
  BY <1>1 DEF TypeOK
<1>4. /\ signals' \in Seq(Signals) /\ Len(signals) \in Nat
      /\ Len(signals') = Len(signals) + 1 /\ signals'[Len(signals) + 1] = s
      /\ \A j \in 1..Len(signals) : signals'[j] = signals[j]
      /\ DOMAIN signals' = 1..Len(signals') /\ DOMAIN signals = 1..Len(signals)
  BY <1>3, AppendProperties, LenProperties
<1>5. \A j \in DOMAIN signals' : signals'[j] = s \/ \E k \in DOMAIN signals : signals'[j] = signals[k]
  BY <1>4
<1>6. TypeOK'
  BY <1>1, <1>2, <1>4 DEF TypeOK
<1>7. HandBegun' => HandBegun
  BY <1>2, <1>5 DEF HandBegun
<1>8. OneLord(g') <=> OneLord(g)
  BY DEF OneLord
<1>9. BetHasBidder(g') /\ Total(g') = Total(g)
  BY DEF ScoreInv, BetHasBidder, Total
<1> QED
  BY <1>6, <1>7, <1>8, <1>9, ScoreInvNext DEF ScoreInv

\* Every action keeps the invariant.
LEMMA NextScoreInv == ScoreInv /\ [Next]_vars => ScoreInv'
<1> SUFFICES ASSUME ScoreInv, [Next]_vars PROVE ScoreInv'
  OBVIOUS
<1>1. TypeOK /\ BetHasBidder(g) /\ (HandBegun => OneLord(g)) /\ g \in Tables
  BY DEF ScoreInv, TypeOK
<1>2. CASE Start
  <2>1. PICK p \in Seats : DispatchFrom([g EXCEPT !.cur = p])
    BY <1>2 DEF Start
  <2> DEFINE t == [g EXCEPT !.cur = p]
  <2>2. t \in Tables
    BY <1>1, Zenon DEF Tables
  <2>3. t.role = g.role /\ t.bet = g.bet /\ t.betBy = g.betBy /\ t.score = g.score
    BY <1>1 DEF Tables
  <2>4. FewerSignals
    BY <1>1, <1>2, SameSignals DEF Start
  <2>5. BetHasBidder(t) /\ Total(t) = Total(g)
    BY <1>1, <2>3 DEF BetHasBidder, Total
  <2>6. /\ UNCHANGED <<tasks, lordDue, countdown>> /\ selected' \in SUBSET Deck
        /\ bids' \in Seq(Seats \X (0..3)) /\ hands' \in Nat /\ endings' \in Nat
    BY <1>1, <1>2 DEF Start, TypeOK
  <2> HIDE DEF t
  <2>7. DispatchFrom(t)
    BY <2>1 DEF t
  <2> QED
    BY <2>2, <2>3, <2>4, <2>5, <2>6, <2>7, DispatchScore
<1>3. CASE UserBids
  <2>1. PICK b \in 0..3 : OnBet(User, b)
    BY <1>3, GameControlAssumption DEF UserBids
  <2>2. FewerSignals /\ User \in Seats
    BY <1>1, <1>3, SameSignals DEF UserBids, User, Seats
  <2> QED
    BY <2>1, <2>2, OnBetScore
<1>4. CASE ClickCard
  <2>1. PICK c \in g.hand[User] \cup shown :
          selected' = IF c \in selected THEN selected \ {c} ELSE selected \cup {c}
    BY <1>4, Zenon DEF ClickCard, Clickable
  <2>2. g.hand[User] \subseteq Deck
    BY <1>1 DEF Tables, User, Seats
  <2>3. selected' \in SUBSET Deck
    BY <1>1, <2>1, <2>2 DEF TypeOK
  <2>4. UNCHANGED << g, dealing, lordDue, tasks, signals, countdown, buttons, endings,
                     kept, shown, bids, hands >>
    BY <1>4 DEF ClickCard
  <2>5. TypeOK'
    BY <1>1, <2>3, <2>4 DEF TypeOK
  <2>6. BetHasBidder(g') /\ Total(g') = Total(g) /\ (HandBegun' => OneLord(g'))
    BY <1>1, <2>4 DEF BetHasBidder, Total, HandBegun, OneLord
  <2> QED
    BY <2>5, <2>6, ScoreInvNext
<1>5. CASE UserPlays
  <2>1. PICK h \in SUBSET (g.hand[User] \cup shown \cup selected) :
          OnHand(TakeFromHand(g, User, h), User, h)
    BY <1>5, Zenon DEF UserPlays, Clickable, Stale
  <2>2. g.status = "PlayingHand" /\ selected' = {} /\ UNCHANGED signals /\ User \in Seats
    BY <1>5 DEF UserPlays, User, Seats
  <2>3. h \in SUBSET Deck
    BY <1>1, <2>1, <2>2 DEF Tables, TypeOK
  <2> DEFINE t == TakeFromHand(g, User, h)
  <2>4. t \in Tables /\ t = [g EXCEPT !.hand[User] = @ \ h]
    BY <1>1, <2>2, <2>3, TakeFromHandFacts
  <2>5. t.role = g.role /\ t.bet = g.bet /\ t.betBy = g.betBy /\ t.score = g.score
    BY <1>1, <2>4 DEF Tables
  <2>6. OneLord(g)
    BY <1>1, <2>2 DEF HandBegun
  <2>7. FewerSignals
    BY <1>1, <2>2, SameSignals
  <2> QED
    BY <2>1, <2>2, <2>3, <2>4, <2>5, <2>6, <2>7, OnHandScore
<1>6. CASE UserPasses
  <2>1. OnHand(g, User, {}) /\ selected' = {} /\ UNCHANGED signals /\ User \in Seats
    BY <1>6 DEF UserPasses, User, Seats
  <2>2. OneLord(g)
    BY <1>1, <1>6 DEF UserPasses, HandBegun
  <2>3. FewerSignals
    BY <1>1, <2>1, SameSignals
  <2> QED
    BY <1>1, <2>1, <2>2, <2>3, OnHandScore
<1>7. CASE Continue
  <2>1. DispatchFrom(g) /\ UNCHANGED <<tasks, lordDue, countdown>> /\ endings' \in Nat
    BY <1>1, <1>7 DEF Continue, TypeOK
  <2>2. /\ selected' \in SUBSET Deck /\ bids' \in Seq(Seats \X (0..3)) /\ hands' \in Nat
    BY <1>1, <1>7 DEF Continue, TypeOK
  <2>3. FewerSignals
    BY <1>1, <1>7, SameSignals DEF Continue
  <2> QED
    BY <1>1, <2>1, <2>2, <2>3, DispatchScore
<1>8. CASE DealCard
  <2>1. PICK c \in g.deck : g' = DealOne(g, c)
    BY <1>8 DEF DealCard
  <2>2. g' \in Tables
    BY <1>1, <2>1, DealOneType
  <2>3. /\ g'.role = g.role /\ g'.bet = g.bet /\ g'.betBy = g.betBy /\ g'.score = g.score
        /\ g'.status \in {g.status, "CallingLord"}
    BY <1>1, <2>1 DEF DealOne, Tables
  <2>4. /\ dealing' \in BOOLEAN /\ bids' \in {<<>>, bids} /\ buttons' \in {"Calllord", buttons}
        /\ (tasks' = tasks \/ Ask(g'.cur, "Bet"))
        /\ UNCHANGED <<lordDue, signals, countdown, endings, selected, kept, shown, hands>>
    BY <1>1, <1>8 DEF DealCard, AskBid, TypeOK
  <2>5. tasks' \in Seq(Tasks) /\ \A i \in DOMAIN tasks' : tasks'[i].kind = "Play" =>
                                   \E j \in DOMAIN tasks : tasks[j].kind = "Play"
    <3>1. tasks \in Seq(Tasks) /\ g'.cur \in Seats
      BY <1>1, <2>2 DEF TypeOK, Tables
    <3> DEFINE a == [seat |-> g'.cur, kind |-> "Bet"]
    <3>2. CASE tasks' = tasks
      BY <3>1, <3>2
    <3>3. CASE tasks' # tasks
      <4>1. tasks' = Append(tasks, a) /\ g'.cur # User
        BY <2>4, <3>3 DEF Ask
      <4>2. a \in Tasks
        BY <3>1, <4>1 DEF Tasks, Robots
      <4>3. a.kind # "Play"
        OBVIOUS
      <4> HIDE DEF a
      <4>4. /\ tasks' \in Seq(Tasks)
            /\ Len(tasks') = Len(tasks) + 1 /\ Len(tasks) \in Nat
            /\ \A i \in 1..Len(tasks) : tasks'[i] = tasks[i]
            /\ tasks'[Len(tasks) + 1] = a
            /\ DOMAIN tasks' = 1..Len(tasks') /\ DOMAIN tasks = 1..Len(tasks)
        BY <3>1, <4>1, <4>2, AppendProperties, LenProperties
      <4> QED
        BY <4>3, <4>4
    <3> QED
      BY <3>2, <3>3
  <2>6. <<>> \in Seq(Seats \X (0..3))
    OBVIOUS
  <2>7. TypeOK'
    BY <1>1, <2>2, <2>4, <2>5, <2>6 DEF TypeOK, Buttons
  <2>8. HandBegun' => HandBegun
    BY <2>3, <2>4, <2>5 DEF HandBegun
  <2>9. BetHasBidder(g') /\ Total(g') = Total(g) /\ (HandBegun' => OneLord(g'))
    BY <1>1, <2>3, <2>8 DEF BetHasBidder, Total, OneLord
  <2> QED
    BY <2>7, <2>9, ScoreInvNext
<1>9. CASE RobotBids
  <2>1. PICK i \in DOMAIN tasks, b \in 0..3 :
          /\ tasks[i].kind = "Bet"
          /\ tasks' = TasksWithout(i)
          /\ signals' = Append(signals, [seat |-> tasks[i].seat, kind |-> "Bet", bet |-> b])
    BY <1>9, GameControlAssumption DEF RobotBids
  <2>2. [seat |-> tasks[i].seat, kind |-> "Bet", bet |-> b] \in Signals
    <3>1. tasks[i] \in Tasks
      BY <1>1 DEF TypeOK
    <3> QED
      BY <3>1 DEF Tasks, Signals
  <2>3. UNCHANGED << g, dealing, lordDue, countdown, buttons, endings, selected, kept, shown,
                     bids, hands >>
    BY <1>9 DEF RobotBids
  <2> QED
    BY <1>1, <2>1, <2>2, <2>3, TaskDone
<1>10. CASE RobotPlays
  <2>1. PICK i \in DOMAIN tasks :
          /\ tasks[i].kind = "Play"
          /\ tasks' = TasksWithout(i)
          /\ \E h \in StrategyOf(tasks[i].seat) :
               /\ g' = TakeFromHand(g, tasks[i].seat, h)
               /\ signals' = Append(signals, [seat |-> tasks[i].seat, kind |-> "Play", hand |-> h])
          /\ UNCHANGED << dealing, lordDue, countdown, buttons, endings, selected, kept,
                          shown, bids, hands >>
    BY <1>10 DEF RobotPlays
  <2> DEFINE p == tasks[i].seat
  <2>2. p \in Robots /\ p \in Seats
    <3>1. tasks[i] \in Tasks
      BY <1>1 DEF TypeOK
    <3> QED
      BY <3>1 DEF Tasks, Robots
  <2>3. PICK h \in StrategyOf(p) :
          /\ g' = TakeFromHand(g, p, h)
          /\ signals' = Append(signals, [seat |-> p, kind |-> "Play", hand |-> h])
    BY <2>1
  <2> HIDE DEF p
  <2>4. h \in SUBSET Deck
    <3>1. g.hand[p] \subseteq Deck
      BY <1>1, <2>2 DEF Tables
    <3> QED
      BY <2>3, <3>1 DEF StrategyOf, Leads
  <2>5. [seat |-> p, kind |-> "Play", hand |-> h] \in Signals
    BY <2>2, <2>4 DEF Signals
  <2>6. g' \in Tables /\ g' = [g EXCEPT !.hand[p] = @ \ h]
    BY <1>1, <2>2, <2>3, <2>4, TakeFromHandFacts
  <2>7. /\ g'.role = g.role /\ g'.bet = g.bet /\ g'.betBy = g.betBy /\ g'.score = g.score
        /\ g'.status = g.status
    BY <1>1, <2>6 DEF Tables
  <2> QED
    BY <2>1, <2>3, <2>5, <2>6, <2>7, TaskDone
<1>11. CASE OnSignal
  <2> DEFINE s == Head(signals)
  <2>1. s \in Signals /\ FewerSignals /\ s = signals[1] /\ 1 \in DOMAIN signals
    <3>1. signals \in Seq(Signals) /\ signals # <<>> /\ signals' = Tail(signals)
      BY <1>1, <1>11 DEF OnSignal, TypeOK
    <3>2. /\ s \in Signals /\ Tail(signals) \in Seq(Signals)
          /\ Len(Tail(signals)) = Len(signals) - 1
          /\ \A i \in 1..Len(Tail(signals)) : Tail(signals)[i] = signals[i + 1]
          /\ Len(signals) \in Nat /\ DOMAIN signals = 1..Len(signals)
          /\ DOMAIN Tail(signals) = 1..Len(Tail(signals))
      BY <3>1, HeadTailProperties, LenProperties
    <3>3. Len(signals) # 0 /\ s = signals[1]
      BY <3>1
    <3> QED
      BY <3>1, <3>2, <3>3 DEF FewerSignals
  <2>2. CASE s.kind = "Bet"
    <3>1. OnBet(s.seat, s.bet)
      BY <1>11, <2>2 DEF OnSignal
    <3>2. s.seat \in Seats /\ s.bet \in 0..3
      BY <2>1, <2>2 DEF Signals, Robots
    <3> QED
      BY <2>1, <3>1, <3>2, OnBetScore
  <2>3. CASE s.kind # "Bet"
    <3>1. OnHand(g, s.seat, s.hand) /\ UNCHANGED selected
      BY <1>11, <2>3 DEF OnSignal
    <3>2. s.seat \in Seats /\ s.hand \in SUBSET Deck /\ s.kind = "Play"
      BY <2>1, <2>3 DEF Signals, Robots
    <3>3. OneLord(g)
      BY <1>1, <2>1, <3>2 DEF HandBegun
    <3>4. selected' \in SUBSET Deck
      BY <1>1, <3>1 DEF TypeOK
    <3> HIDE DEF s
    <3> QED
      BY <1>1, <2>1, <3>1, <3>2, <3>3, <3>4, OnHandScore
  <2> QED
    BY <2>2, <2>3
<1>12. CASE LordStarts
  <2>1. /\ lordDue /\ lordDue' = FALSE /\ g' = [g EXCEPT !.status = "PlayingHand"]
        /\ AskHand(g') /\ shown' \in {{}, shown}
        /\ bids' = <<>> /\ UNCHANGED <<dealing, signals, endings, selected, kept, hands>>
    BY <1>12 DEF LordStarts
  <2>2. g' \in Tables
    BY <1>1, <2>1 DEF Tables
  <2>3. /\ g'.role = g.role /\ g'.bet = g.bet /\ g'.betBy = g.betBy /\ g'.score = g.score
        /\ g'.cur = g.cur
    BY <1>1, <2>1 DEF Tables
  <2>4. OneLord(g')
    BY <1>1, <2>1, <2>3 DEF HandBegun, OneLord
  <2>5. tasks' \in Seq(Tasks)
    <3>1. tasks \in Seq(Tasks) /\ Ask(g'.cur, "Play") /\ g'.cur \in Seats
      BY <1>1, <2>1, <2>2 DEF TypeOK, AskHand, Tables
    <3>2. CASE g'.cur = User
      BY <3>1, <3>2 DEF Ask
    <3>3. CASE g'.cur # User
      <4>1. [seat |-> g'.cur, kind |-> "Play"] \in Tasks
        BY <3>1, <3>3 DEF Tasks, Robots
      <4> QED
        BY <3>1, <3>3, <4>1, AppendProperties DEF Ask
    <3> QED
      BY <3>2, <3>3
  <2>6. buttons' \in Buttons
    BY <2>1 DEF AskHand, Buttons
  <2>7. countdown' \in BOOLEAN
    BY <2>1, Zenon DEF AskHand, MustFollow
  <2>8. bids' \in Seq(Seats \X (0..3))
    BY <2>1
  <2>9. TypeOK'
    BY <1>1, <2>1, <2>2, <2>5, <2>6, <2>7, <2>8 DEF TypeOK
  <2>10. BetHasBidder(g') /\ Total(g') = Total(g)
    BY <1>1, <2>3 DEF BetHasBidder, Total
  <2> QED
    BY <2>4, <2>9, <2>10, ScoreInvNext
<1>13. CASE UNCHANGED vars
  <2>1. TypeOK'
    BY <1>1, <1>13 DEF vars, TypeOK
  <2>2. BetHasBidder(g') /\ Total(g') = Total(g) /\ (HandBegun' => OneLord(g'))
    BY <1>1, <1>13 DEF vars, BetHasBidder, Total, HandBegun, OneLord
  <2> QED
    BY <2>1, <2>2, ScoreInvNext
<1>14. Rest => UNCHANGED vars
  BY DEF Rest
<1> QED
  BY <1>2, <1>3, <1>4, <1>5, <1>6, <1>7, <1>8, <1>9, <1>10, <1>11, <1>12, <1>13, <1>14
     DEF Next

\* The types hold, for every deck and whatever the user clicks.
THEOREM TypesHold == Spec => []TypeOK
<1>1. ScoreInv => TypeOK
  BY DEF ScoreInv
<1> QED
  BY InitScoreInv, NextScoreInv, <1>1, PTL DEF Spec

\* The scores of the three players always add up to nothing (onPlayHand), for every
\* deck, any number of hands and whatever the user clicks.
THEOREM ScoresAddUp == Spec => []ZeroSum
<1>1. ScoreInv => ZeroSum
  BY DEF ScoreInv
<1> QED
  BY InitScoreInv, NextScoreInv, <1>1, PTL DEF Spec

-----------------------------------------------------------------------------
(* One move at a time, if the user clicks no cards on the table *)

\* How many players are dealt to before the user is.
Turns(p) == IF p = User THEN 0 ELSE 4 - p

\* A user without cards will get one before the dealing ends.
CardComing ==
  g.hand[User] = {} => Cardinality(Deck) - Cardinality(g.deck) + Turns(g.cur) <= 2

\* Which phase of the game each move belongs to, and whose it is. The user always has a
\* card to play while the game goes on, so that passing never wins.
Phases ==
  /\ dealing => g.status = "DispatchCard" /\ CardComing
  /\ lordDue => g.status = "CallingLord"
  /\ \A i \in DOMAIN tasks :
       /\ tasks[i].seat = g.cur
       /\ g.status = IF tasks[i].kind = "Bet" THEN "CallingLord" ELSE "PlayingHand"
  /\ \A i \in DOMAIN signals :
       /\ signals[i].seat = g.cur
       /\ g.status = IF signals[i].kind = "Bet" THEN "CallingLord" ELSE "PlayingHand"
  /\ buttons = "Start" => g.status = "DispatchCard"
  /\ buttons = "Calllord" => g.status = "CallingLord" /\ g.cur = User
  /\ buttons \in {"PlayCard", "PassOrPlay"} /\ ~Over => g.status = "PlayingHand" /\ g.cur = User
  /\ buttons = "PassOrPlay" /\ ~Over => MustFollow(g) /\ countdown
  /\ countdown => ~Over /\ buttons = "PassOrPlay"
  /\ Over => g.status = "PlayingHand" /\ ~MayPass
  /\ g.status # "DispatchCard" /\ ~Over => g.hand[User] # {}

MoveInv == OneMoveAtATime /\ Phases

\* The invariant holds of a new window.
LEMMA InitMoveInv == Init => MoveInv
<1> SUFFICES ASSUME Init PROVE MoveInv
  OBVIOUS
<1>1. OneMoveAtATime
  BY DEF Init, OneMoveAtATime, Ones, UserAsked
<1>2. Phases
  BY DEF Init, Phases, Over, CardComing
<1> QED
  BY <1>1, <1>2 DEF MoveInv

\* One move excludes the others.
LEMMA Alone ==
  ASSUME TypeOK, OneMoveAtATime
  PROVE  /\ Len(tasks) \in Nat /\ Len(signals) \in Nat
         /\ tasks = <<>> <=> Len(tasks) = 0
         /\ signals = <<>> <=> Len(signals) = 0
         /\ dealing => ~lordDue /\ Len(tasks) = 0 /\ Len(signals) = 0 /\ ~UserAsked /\ endings = 0
         /\ lordDue => ~dealing /\ Len(tasks) = 0 /\ Len(signals) = 0 /\ ~UserAsked /\ endings = 0
         /\ Len(tasks) # 0 => /\ Len(tasks) = 1 /\ ~dealing /\ ~lordDue /\ Len(signals) = 0
                              /\ ~UserAsked /\ endings = 0
         /\ Len(signals) # 0 => /\ Len(signals) = 1 /\ ~dealing /\ ~lordDue /\ Len(tasks) = 0
                                /\ ~UserAsked /\ endings = 0
         /\ UserAsked => /\ ~dealing /\ ~lordDue /\ Len(tasks) = 0 /\ Len(signals) = 0
                         /\ endings = 0
         /\ Over => /\ ~dealing /\ ~lordDue /\ Len(tasks) = 0 /\ Len(signals) = 0
                    /\ ~UserAsked /\ endings = 1
         /\ dealing \/ lordDue \/ Len(tasks) # 0 \/ Len(signals) # 0 \/ UserAsked \/ Over
         /\ ~UserAsked /\ ~Over => buttons = "Empty"
<1>1. /\ Len(tasks) \in Nat /\ Len(signals) \in Nat /\ endings \in Nat /\ dealing \in BOOLEAN
      /\ lordDue \in BOOLEAN /\ buttons \in Buttons
  BY LenProperties DEF TypeOK
<1>2. /\ tasks = <<>> <=> Len(tasks) = 0
      /\ signals = <<>> <=> Len(signals) = 0
  BY DEF TypeOK
<1>3. UserAsked \in BOOLEAN
  BY DEF UserAsked
<1>4. ~UserAsked /\ ~Over => buttons = "Empty"
  BY <1>1 DEF UserAsked, Buttons
<1>5. Over <=> endings # 0
  BY <1>1 DEF Over
<1>6. /\ Ones(dealing) \in {0, 1} /\ Ones(lordDue) \in {0, 1} /\ Ones(UserAsked) \in {0, 1}
      /\ dealing <=> Ones(dealing) = 1
      /\ lordDue <=> Ones(lordDue) = 1
      /\ UserAsked <=> Ones(UserAsked) = 1
  BY <1>1, <1>3 DEF Ones
<1>7. Ones(dealing) + Ones(lordDue) + Len(tasks) + Len(signals) + Ones(UserAsked) + endings = 1
  BY DEF OneMoveAtATime
<1> DEFINE d == Ones(dealing)
           l == Ones(lordDue)
           u == Ones(UserAsked)
           m == Len(tasks)
           n == Len(signals)
<1>8. /\ d \in {0, 1} /\ l \in {0, 1} /\ u \in {0, 1} /\ m \in Nat /\ n \in Nat /\ endings \in Nat
      /\ d + l + m + n + u + endings = 1
  BY <1>1, <1>6, <1>7
<1> HIDE DEF d, l, u, m, n
<1>9. /\ d = 1 => l = 0 /\ m = 0 /\ n = 0 /\ u = 0 /\ endings = 0
      /\ l = 1 => d = 0 /\ m = 0 /\ n = 0 /\ u = 0 /\ endings = 0
      /\ m # 0 => m = 1 /\ d = 0 /\ l = 0 /\ n = 0 /\ u = 0 /\ endings = 0
      /\ n # 0 => n = 1 /\ d = 0 /\ l = 0 /\ m = 0 /\ u = 0 /\ endings = 0
      /\ u = 1 => d = 0 /\ l = 0 /\ m = 0 /\ n = 0 /\ endings = 0
      /\ endings # 0 => d = 0 /\ l = 0 /\ m = 0 /\ n = 0 /\ u = 0 /\ endings = 1
      /\ d = 1 \/ l = 1 \/ m # 0 \/ n # 0 \/ u = 1 \/ endings # 0
  BY <1>8
<1>10. (dealing <=> d = 1) /\ (lordDue <=> l = 1) /\ (UserAsked <=> u = 1)
  BY <1>6 DEF d, l, u
<1>11. (d = 0 => ~dealing) /\ (l = 0 => ~lordDue) /\ (u = 0 => ~UserAsked)
  BY <1>10
<1>12. Len(tasks) = m /\ Len(signals) = n
  BY DEF m, n
<1> QED
  BY <1>1, <1>2, <1>4, <1>5, <1>9, <1>10, <1>11, <1>12

\* The deal timer is started.
LEMMA DispatchMove ==
  ASSUME ScoreInv', NEW t \in Tables, DispatchFrom(t), signals' = <<>>, tasks' = <<>>,
         ~lordDue', ~countdown', endings' = 0
  PROVE  MoveInv'
<1>1. g' = Dispatch(t) /\ dealing' = TRUE /\ buttons' = "Empty"
  BY DEF DispatchFrom
<1>2. /\ g'.status = "DispatchCard" /\ g'.deck = Deck /\ g'.cur = t.cur
  BY <1>1 DEF Dispatch, Tables
<1>3. CardComing'
  <2>1. Cardinality(Deck) \in Nat
    BY TableAssumption, FS_CardinalityType
  <2>2. t.cur \in 1..3
    BY DEF Tables, Seats
  <2>3. Turns(t.cur) <= 2 /\ Turns(t.cur) \in Nat
    BY <2>2 DEF Turns, User
  <2> QED
    BY <1>2, <2>1, <2>3 DEF CardComing
<1>4. ~UserAsked' /\ ~Over'
  BY <1>1 DEF UserAsked, Over
<1>5. OneMoveAtATime'
  BY <1>1, <1>4 DEF OneMoveAtATime, Ones
<1>6. Phases'
  BY <1>1, <1>2, <1>3, <1>4 DEF Phases
<1> QED
  BY <1>5, <1>6 DEF MoveInv

\* Somebody bids.
LEMMA OnBetMove ==
  ASSUME ScoreInv, ScoreInv', NEW p \in Seats, NEW b \in 0..3, OnBet(p, b), signals' = <<>>,
         tasks = <<>>, ~dealing, ~lordDue, ~countdown, endings = 0,
         g.status = "CallingLord", g.hand[User] # {}, p # User => buttons = "Empty"
  PROVE  MoveInv'
<1> DEFINE t == AfterBet(g, p, b)
<1>1. g \in Tables /\ BetHasBidder(g)
  BY DEF ScoreInv, TypeOK
<1>2. /\ t \in Tables /\ t.status = g.status
      /\ \A q \in Seats : g.hand[q] \subseteq t.hand[q]
      /\ ~EndsBidding(g, b) => t.cur = NextOf(p)
  BY <1>1, AfterBetFacts
<1>3. UNCHANGED <<countdown, endings>>
  BY DEF OnBet
<1>4. t.hand[User] # {}
  BY <1>2 DEF User, Seats
<1> HIDE DEF t
<1>5. CASE Redeals(g, b)
  <2>1. DispatchFrom(t) /\ UNCHANGED <<tasks, lordDue>>
    BY <1>5 DEF OnBet, t
  <2> QED
    BY <1>2, <1>3, <2>1, DispatchMove
<1>6. CASE ~Redeals(g, b) /\ EndsBidding(g, b)
  <2>1. g' = t /\ lordDue' = TRUE /\ buttons' = "Empty" /\ UNCHANGED <<tasks, dealing>>
    BY <1>6 DEF OnBet, t
  <2>2. ~UserAsked' /\ ~Over'
    BY <1>3, <2>1 DEF UserAsked, Over
  <2>3. OneMoveAtATime'
    BY <1>3, <2>1, <2>2 DEF OneMoveAtATime, Ones
  <2>4. Phases'
    BY <1>2, <1>3, <1>4, <2>1, <2>2 DEF Phases
  <2> QED
    BY <2>3, <2>4 DEF MoveInv
<1>7. CASE ~EndsBidding(g, b)
  <2>1. ~Redeals(g, b)
    BY <1>7 DEF EndsBidding, Redeals
  <2>2. /\ g' = t /\ UNCHANGED <<lordDue, dealing>> /\ Ask(NextOf(p), "Bet")
        /\ buttons' = IF p # User /\ NextOf(p) = User THEN "Calllord" ELSE "Empty"
    <3>1. CASE p = User
      BY <1>7, <2>1, <3>1 DEF OnBet, t
    <3>2. CASE p # User
      BY <1>7, <2>1, <3>2 DEF OnBet, AskBid, t
    <3> QED
      BY <3>1, <3>2
  <2>3. g'.cur = NextOf(p) /\ g'.status = "CallingLord" /\ g'.hand[User] # {} /\ ~Over'
    BY <1>2, <1>3, <1>4, <1>7, <2>2 DEF Over
  <2>4. p = User => NextOf(p) # User
    BY DEF User, NextOf
  <2>5. CASE NextOf(p) = User
    <3>1. tasks' = <<>> /\ buttons' = "Calllord"
      BY <2>2, <2>4, <2>5 DEF Ask
    <3>2. OneMoveAtATime'
      BY <1>3, <2>2, <3>1 DEF OneMoveAtATime, Ones, UserAsked
    <3>3. Phases'
      BY <1>3, <2>2, <2>3, <2>5, <3>1 DEF Phases
    <3> QED
      BY <3>2, <3>3 DEF MoveInv
  <2>6. CASE NextOf(p) # User
    <3> DEFINE a == [seat |-> NextOf(p), kind |-> "Bet"]
    <3>1. tasks' = <<a>> /\ buttons' = "Empty"
      BY <2>2, <2>6 DEF Ask
    <3>2. Len(tasks') = 1 /\ DOMAIN tasks' = {1} /\ tasks'[1] = a
      BY <3>1
    <3>3. ~UserAsked'
      BY <3>1 DEF UserAsked
    <3>4. OneMoveAtATime'
      BY <1>3, <2>2, <3>2, <3>3 DEF OneMoveAtATime, Ones
    <3>5. Phases'
      BY <1>3, <2>2, <2>3, <3>1, <3>2 DEF Phases
    <3> QED
      BY <3>4, <3>5 DEF MoveInv
  <2> QED
    BY <2>5, <2>6
<1> QED
  BY <1>5, <1>6, <1>7

\* The current player is asked for a hand.
LEMMA AskHandMove ==
  ASSUME ScoreInv', AskHand(g'), signals' = <<>>, tasks = <<>>, ~dealing', ~lordDue',
         endings' = 0, g'.status = "PlayingHand", g'.hand[User] # {}
  PROVE  MoveInv'
<1>1. g' \in Tables
  BY DEF ScoreInv, TypeOK
<1>2. ~Over'
  BY DEF Over
<1>3. CASE g'.cur = User
  <2>1. /\ tasks' = <<>> /\ buttons' = IF MustFollow(g') THEN "PassOrPlay" ELSE "PlayCard"
        /\ countdown' <=> MustFollow(g')
    BY <1>3 DEF AskHand, Ask
  <2>2. UserAsked'
    BY <1>2, <2>1 DEF UserAsked
  <2>3. OneMoveAtATime'
    BY <2>1, <2>2 DEF OneMoveAtATime, Ones
  <2>4. Phases'
    BY <1>2, <1>3, <2>1 DEF Phases
  <2> QED
    BY <2>3, <2>4 DEF MoveInv
<1>4. CASE g'.cur # User
  <2> DEFINE a == [seat |-> g'.cur, kind |-> "Play"]
  <2>1. tasks' = <<a>> /\ buttons' = "Empty" /\ ~countdown'
    <3>1. tasks' = Append(tasks, a) /\ buttons' = "Empty"
      BY <1>4 DEF AskHand, Ask
    <3>2. ~countdown'
      BY <1>4, Zenon DEF AskHand
    <3> QED
      BY <3>1, <3>2
  <2>2. Len(tasks') = 1 /\ DOMAIN tasks' = {1} /\ tasks'[1] = a
    BY <2>1
  <2>3. ~UserAsked'
    BY <2>1 DEF UserAsked
  <2>4. OneMoveAtATime'
    BY <2>2, <2>3 DEF OneMoveAtATime, Ones
  <2>5. Phases'
    BY <1>2, <2>1, <2>2 DEF Phases
  <2> QED
    BY <2>4, <2>5 DEF MoveInv
<1> QED
  BY <1>3, <1>4

\* A hand is shown.
LEMMA OnHandMove ==
  ASSUME ScoreInv, ScoreInv', NEW t \in Tables, OneLord(t), NEW p \in Seats,
         NEW h \in SUBSET Deck, OnHand(t, p, h), signals' = <<>>, tasks = <<>>, ~dealing,
         ~lordDue, endings = 0, t.status = "PlayingHand",
         buttons \notin {"Start", "Calllord"},
         WinsWith(t, p) /\ p = User => h # {},
         ~WinsWith(t, p) => t.hand[User] # {}
  PROVE  MoveInv'
<1>1. /\ g' = AfterHand(t, p, h) /\ ~dealing' /\ ~lordDue'
  BY DEF OnHand
<1>2. /\ g'.status = "PlayingHand" /\ g'.hand = t.hand
      /\ h # {} => g'.pend = p
      /\ g'.cur = IF WinsWith(t, p) THEN p ELSE NextOf(p)
  BY <1>1, AfterHandFacts
<1>3. CASE WinsWith(t, p)
  <2>1. endings' = 1 /\ ~countdown' /\ tasks' = <<>>
    BY <1>3 DEF OnHand
  <2>2. Over' /\ ~MayPass'
    BY <1>2, <1>3, <2>1 DEF Over, MayPass, MustFollow
  <2>3. buttons' = buttons
    BY <1>3 DEF OnHand
  <2>4. ~UserAsked'
    BY <2>2, <2>3 DEF UserAsked
  <2>5. OneMoveAtATime'
    BY <1>1, <2>1, <2>4 DEF OneMoveAtATime, Ones
  <2>6. Phases'
    BY <1>1, <1>2, <2>1, <2>2, <2>3 DEF Phases
  <2> QED
    BY <2>5, <2>6 DEF MoveInv
<1>4. CASE ~WinsWith(t, p)
  <2>1. AskHand(g') /\ endings' = 0
    BY <1>4 DEF OnHand
  <2>2. g'.hand[User] # {}
    BY <1>2, <1>4
  <2> QED
    BY <1>1, <1>2, <2>1, <2>2, AskHandMove
<1> QED
  BY <1>3, <1>4

\* A robot's only task becomes the only signal.
LEMMA TaskDoneMove ==
  ASSUME TypeOK, MoveInv, NEW i \in DOMAIN tasks, NEW s, s.seat = tasks[i].seat,
         s.kind = tasks[i].kind, tasks' = TasksWithout(i), signals' = Append(signals, s),
         g'.cur = g.cur, g'.status = g.status, g'.hand[User] = g.hand[User],
         UNCHANGED << dealing, lordDue, countdown, buttons, endings >>
  PROVE  MoveInv'
<1>1. /\ Len(tasks) = 1 /\ signals = <<>> /\ ~dealing /\ ~lordDue /\ ~UserAsked /\ endings = 0
      /\ i = 1
  <2>1. tasks \in Seq(Tasks) /\ DOMAIN tasks = 1..Len(tasks) /\ Len(tasks) \in Nat
    BY LenProperties DEF TypeOK
  <2>2. Len(tasks) # 0 /\ OneMoveAtATime
    BY <2>1 DEF MoveInv
  <2>3. Len(tasks) = 1 /\ Len(signals) = 0 /\ ~dealing /\ ~lordDue /\ ~UserAsked /\ endings = 0
    BY <2>2, Alone
  <2>4. signals = <<>>
    BY <2>2, <2>3, Alone
  <2> QED
    BY <2>1, <2>3, <2>4
<1>2. tasks' = <<>>
  <2>1. tasks' \in Seq(Tasks) /\ Len(tasks') = Len(tasks) - 1
    BY WithoutType DEF TypeOK
  <2> QED
    BY <1>1, <2>1
<1>3. Len(signals') = 1 /\ DOMAIN signals' = {1} /\ signals'[1] = s
  BY <1>1
<1>4. ~UserAsked' /\ ~Over' /\ ~Over
  BY <1>1 DEF UserAsked, Over
<1>5. OneMoveAtATime'
  BY <1>1, <1>2, <1>3, <1>4 DEF OneMoveAtATime, Ones
<1>6. buttons = "Empty"
  BY <1>1, <1>4, Alone DEF MoveInv
<1>7. Phases'
  BY <1>1, <1>2, <1>3, <1>4, <1>6 DEF MoveInv, Phases
<1> QED
  BY <1>5, <1>7 DEF MoveInv

\* Without cards from the table the user plays cards in the hand or selected before.
LEMMA UserPlaysOwnOrSelected ==
  ASSUME ~Restless, UserPlays
  PROVE  \E h \in SUBSET (g.hand[User] \cup selected) :
           MayPlay(h) /\ OnHand(TakeFromHand(g, User, h), User, h)
<1>1. PICK own \in SUBSET Clickable :
        LET h == own \cup Stale
        IN  MayPlay(h) /\ OnHand(TakeFromHand(g, User, h), User, h)
  BY DEF UserPlays
<1>2. own \cup Stale \in SUBSET (g.hand[User] \cup selected)
  BY <1>1 DEF Clickable, Stale
<1> QED
  BY <1>1, <1>2

\* Every action keeps the invariant, if the user clicks no cards on the table.
LEMMA NextMoveInv ==
  ASSUME ~Restless, ScoreInv, MoveInv, [Next]_vars, ScoreInv'
  PROVE  MoveInv'
<1>1. TypeOK /\ g \in Tables /\ Phases
  BY DEF ScoreInv, TypeOK, MoveInv
<1>2. /\ Len(tasks) \in Nat /\ Len(signals) \in Nat
      /\ tasks = <<>> <=> Len(tasks) = 0
      /\ signals = <<>> <=> Len(signals) = 0
      /\ dealing => ~lordDue /\ Len(tasks) = 0 /\ Len(signals) = 0 /\ ~UserAsked /\ endings = 0
      /\ lordDue => ~dealing /\ Len(tasks) = 0 /\ Len(signals) = 0 /\ ~UserAsked /\ endings = 0
      /\ Len(signals) # 0 => /\ Len(signals) = 1 /\ ~dealing /\ ~lordDue /\ Len(tasks) = 0
                             /\ ~UserAsked /\ endings = 0
      /\ UserAsked => /\ ~dealing /\ ~lordDue /\ Len(tasks) = 0 /\ Len(signals) = 0
                      /\ endings = 0
      /\ Over => /\ ~dealing /\ ~lordDue /\ Len(tasks) = 0 /\ Len(signals) = 0
                 /\ ~UserAsked /\ endings = 1
      /\ ~UserAsked /\ ~Over => buttons = "Empty"
      /\ dealing \/ lordDue \/ Len(tasks) # 0 \/ Len(signals) # 0 \/ UserAsked \/ Over
  BY <1>1, Alone DEF MoveInv
<1>3. endings \in Nat /\ (Over <=> endings # 0)
  BY <1>1 DEF TypeOK, Over
<1>4. CASE Start
  <2>1. PICK p \in Seats : DispatchFrom([g EXCEPT !.cur = p])
    BY <1>4 DEF Start
  <2>2. [g EXCEPT !.cur = p] \in Tables
    BY <1>1, Zenon DEF Tables
  <2>3. UserAsked /\ ~countdown /\ UNCHANGED <<lordDue, tasks, signals, countdown, endings>>
    BY <1>1, <1>4 DEF Start, UserAsked, Phases
  <2> QED
    BY <1>2, <2>1, <2>2, <2>3, DispatchMove
<1>5. CASE UserBids
  <2>1. PICK b \in 0..3 : OnBet(User, b)
    BY <1>5, GameControlAssumption DEF UserBids
  <2>2. buttons = "Calllord" /\ UNCHANGED signals /\ User \in Seats
    BY <1>5 DEF UserBids, User, Seats
  <2>3. UserAsked
    BY <2>2 DEF UserAsked
  <2>4. ~Over
    BY <1>2, <1>3, <2>3
  <2>5. g.status = "CallingLord" /\ ~countdown /\ g.hand[User] # {}
    BY <1>1, <2>2, <2>4 DEF Phases
  <2> QED
    BY <1>2, <2>1, <2>2, <2>3, <2>5, OnBetMove
<1>6. CASE UserPlays
  <2>1. /\ g.status = "PlayingHand" /\ g.cur = User /\ ~Over
        /\ UNCHANGED signals /\ User \in Seats
    BY <1>3, <1>6 DEF UserPlays, User, Seats
  <2>2. ~dealing /\ ~lordDue
    BY <1>1, <2>1 DEF Phases
  <2>3. tasks = <<>> /\ signals = <<>>
    <3>1. \A i \in DOMAIN tasks : tasks[i].seat # User
      <4>1. \A i \in DOMAIN tasks : tasks[i] \in Tasks
        BY <1>1 DEF TypeOK
      <4> QED
        BY <4>1 DEF Tasks, Robots
    <3>2. \A i \in DOMAIN signals : signals[i].seat # User
      <4>1. \A i \in DOMAIN signals : signals[i] \in Signals
        BY <1>1 DEF TypeOK
      <4> QED
        BY <4>1 DEF Signals, Robots
    <3>3. ~(1 \in DOMAIN tasks) /\ ~(1 \in DOMAIN signals)
      BY <1>1, <2>1, <3>1, <3>2 DEF Phases
    <3>4. DOMAIN tasks = 1..Len(tasks) /\ DOMAIN signals = 1..Len(signals)
      BY <1>1, LenProperties DEF TypeOK
    <3> QED
      BY <1>2, <3>3, <3>4
  <2>4. UserAsked /\ endings = 0
    BY <1>2, <1>3, <2>1, <2>2, <2>3
  <2>5. buttons \notin {"Start", "Calllord"}
    BY <1>1, <2>1 DEF Phases
  <2>6. PICK h \in SUBSET (g.hand[User] \cup selected) :
          MayPlay(h) /\ OnHand(TakeFromHand(g, User, h), User, h)
    BY <1>6, UserPlaysOwnOrSelected
  <2>7. h \in SUBSET Deck /\ h # {}
    BY <1>1, <2>1, <2>6 DEF Tables, TypeOK, MayPlay
  <2> DEFINE t == TakeFromHand(g, User, h)
  <2>8. t \in Tables /\ t = [g EXCEPT !.hand[User] = @ \ h]
    BY <1>1, <2>1, <2>7, TakeFromHandFacts
  <2>9. t.status = g.status /\ t.role = g.role
    BY <1>1, <2>8 DEF Tables
  <2>10. OneLord(t)
    BY <2>1, <2>9 DEF ScoreInv, HandBegun, OneLord
  <2>11. ~WinsWith(t, User) => t.hand[User] # {}
    BY DEF WinsWith
  <2> HIDE DEF t
  <2>12. OnHand(t, User, h)
    BY <2>6 DEF t
  <2> QED
    BY <2>1, <2>2, <2>3, <2>4, <2>5, <2>7, <2>8, <2>9, <2>10, <2>11, <2>12, OnHandMove
<1>7. CASE UserPasses
  <2>1. /\ buttons = "PassOrPlay" \/ countdown
        /\ MayPass /\ OnHand(g, User, {}) /\ UNCHANGED signals
        /\ User \in Seats
    BY <1>7 DEF UserPasses, User, Seats
  <2>2. ~Over /\ buttons = "PassOrPlay"
    BY <1>1, <2>1 DEF Phases
  <2>3. g.status = "PlayingHand" /\ g.hand[User] # {}
    BY <1>1, <2>2 DEF Phases
  <2>4. UserAsked
    BY <2>2 DEF UserAsked
  <2>5. OneLord(g)
    BY <2>3 DEF ScoreInv, HandBegun
  <2>6. ~WinsWith(g, User)
    BY <2>3 DEF WinsWith
  <2> QED
    BY <1>1, <1>2, <2>1, <2>2, <2>3, <2>4, <2>5, <2>6, OnHandMove
<1>8. CASE Continue
  <2>1. /\ endings > 0 /\ endings' = endings - 1 /\ DispatchFrom(g)
        /\ UNCHANGED <<lordDue, tasks, signals, countdown>>
    BY <1>8 DEF Continue
  <2>2. Over
    BY <2>1 DEF Over
  <2>3. ~countdown
    BY <1>1, <2>2 DEF Phases
  <2>4. endings' = 0
    BY <1>2, <2>1, <2>2
  <2> QED
    BY <1>1, <1>2, <2>1, <2>2, <2>3, <2>4, DispatchMove
<1>9. CASE DealCard
  <2>1. PICK c \in g.deck : g' = DealOne(g, c)
    BY <1>9 DEF DealCard
  <2>2. dealing /\ UNCHANGED <<lordDue, signals, countdown, endings>>
    BY <1>9 DEF DealCard
  <2>3. /\ ~lordDue /\ tasks = <<>> /\ signals = <<>> /\ ~UserAsked /\ ~Over /\ endings = 0
        /\ buttons = "Empty" /\ ~Over'
    BY <1>2, <1>3, <2>2 DEF Over
  <2>4. g.status = "DispatchCard" /\ CardComing /\ ~countdown
    BY <1>1, <2>2, <2>3 DEF Phases
  <2>5. g.cur \in Seats /\ g.deck \in SUBSET Deck /\ g.hand \in [Seats -> SUBSET Deck]
    BY <1>1 DEF Tables
  <2>6. /\ g'.deck = g.deck \ {c} /\ g'.cur = NextOf(g.cur)
        /\ g'.hand = [g.hand EXCEPT ![g.cur] = @ \cup {c}]
        /\ g'.status = IF Cardinality(g.deck) - 1 = Surplus THEN "CallingLord" ELSE "DispatchCard"
    BY <1>1, <2>1, <2>4 DEF DealOne, Tables
  <2>7. /\ Cardinality(g.deck) \in Nat /\ Cardinality(Deck) \in Nat
        /\ Cardinality(g'.deck) = Cardinality(g.deck) - 1
    <3>1. IsFiniteSet(g.deck) /\ IsFiniteSet(Deck)
      BY <2>5, TableAssumption, FS_Subset
    <3> QED
      BY <2>1, <2>6, <3>1, FS_RemoveElement, FS_CardinalityType
  <2>8. g'.hand[User] = {} =>
          /\ g.cur \in {2, 3}
          /\ Cardinality(Deck) - Cardinality(g.deck) + (4 - g.cur) <= 2
    <3>1. g.cur = User => g'.hand[User] # {}
      BY <2>5, <2>6
    <3>2. g.hand[User] \subseteq g'.hand[User]
      BY <2>5, <2>6 DEF User, Seats
    <3> QED
      BY <2>4, <2>5, <3>1, <3>2 DEF CardComing, Turns, User, Seats
  <2>9. CASE g'.status = "CallingLord"
    <3>1. ~dealing' /\ AskBid(g'.cur)
      BY <1>9, <2>9 DEF DealCard
    <3>2. g'.hand[User] # {}
      BY <2>6, <2>7, <2>8, <2>9, TableAssumption DEF Surplus
    <3>3. CASE g'.cur = User
      <4>1. tasks' = <<>> /\ buttons' = "Calllord"
        BY <2>3, <3>1, <3>3 DEF AskBid, Ask
      <4>2. OneMoveAtATime'
        BY <2>2, <2>3, <3>1, <4>1 DEF OneMoveAtATime, Ones, UserAsked
      <4>3. Phases'
        BY <2>2, <2>3, <2>4, <2>9, <3>1, <3>2, <3>3, <4>1 DEF Phases
      <4> QED
        BY <4>2, <4>3 DEF MoveInv
    <3>4. CASE g'.cur # User
      <4> DEFINE a == [seat |-> g'.cur, kind |-> "Bet"]
      <4>1. tasks' = <<a>> /\ buttons' = "Empty"
        BY <2>3, <3>1, <3>4 DEF AskBid, Ask
      <4>2. Len(tasks') = 1 /\ DOMAIN tasks' = {1} /\ tasks'[1] = a
        BY <4>1
      <4>3. ~UserAsked'
        BY <4>1 DEF UserAsked
      <4>4. OneMoveAtATime'
        BY <2>2, <2>3, <3>1, <4>2, <4>3 DEF OneMoveAtATime, Ones
      <4>5. Phases'
        BY <2>2, <2>3, <2>4, <2>9, <3>1, <3>2, <4>1, <4>2 DEF Phases
      <4> QED
        BY <4>4, <4>5 DEF MoveInv
    <3> QED
      BY <3>3, <3>4
  <2>10. CASE g'.status # "CallingLord"
    <3>1. UNCHANGED <<dealing, tasks, buttons>>
      BY <1>9, <2>10 DEF DealCard
    <3>2. g'.status = "DispatchCard"
      BY <2>6, <2>10
    <3>3. CardComing'
      <4>1. g.cur = 2 => Turns(g'.cur) = 1
        BY <2>6 DEF NextOf, Turns, User
      <4>2. g.cur = 3 => Turns(g'.cur) = 0
        BY <2>6 DEF NextOf, Turns, User
      <4> QED
        BY <2>7, <2>8, <4>1, <4>2 DEF CardComing
    <3>4. ~UserAsked'
      BY <2>3, <3>1 DEF UserAsked
    <3>5. OneMoveAtATime'
      BY <2>2, <2>3, <3>1, <3>4 DEF OneMoveAtATime, Ones
    <3>6. Phases'
      BY <2>2, <2>3, <2>4, <3>1, <3>2, <3>3 DEF Phases
    <3> QED
      BY <3>5, <3>6 DEF MoveInv
  <2> QED
    BY <2>9, <2>10
<1>10. CASE RobotBids
  <2>1. PICK i \in DOMAIN tasks, b \in Bets :
          /\ tasks[i].kind = "Bet"
          /\ tasks' = TasksWithout(i)
          /\ signals' = Append(signals, [seat |-> tasks[i].seat, kind |-> "Bet", bet |-> b])
    BY <1>10 DEF RobotBids
  <2>2. UNCHANGED << g, dealing, lordDue, countdown, buttons, endings >>
    BY <1>10 DEF RobotBids
  <2> QED
    BY <1>1, <2>1, <2>2, TaskDoneMove
<1>11. CASE RobotPlays
  <2>1. PICK i \in DOMAIN tasks :
          /\ tasks[i].kind = "Play"
          /\ tasks' = TasksWithout(i)
          /\ \E h \in StrategyOf(tasks[i].seat) :
               /\ g' = TakeFromHand(g, tasks[i].seat, h)
               /\ signals' = Append(signals, [seat |-> tasks[i].seat, kind |-> "Play", hand |-> h])
          /\ UNCHANGED << dealing, lordDue, countdown, buttons, endings >>
    BY <1>11 DEF RobotPlays
  <2>2. PICK h \in StrategyOf(tasks[i].seat) :
          /\ g' = [g EXCEPT !.hand[tasks[i].seat] = @ \ h]
          /\ signals' = Append(signals, [seat |-> tasks[i].seat, kind |-> "Play", hand |-> h])
    BY <2>1 DEF TakeFromHand
  <2>3. tasks[i].seat \in Seats /\ tasks[i].seat # User
    <3>1. tasks[i] \in Tasks
      BY <1>1 DEF TypeOK
    <3> QED
      BY <3>1 DEF Tasks, Robots
  <2>4. g'.cur = g.cur /\ g'.status = g.status /\ g'.hand[User] = g.hand[User]
    BY <1>1, <2>2, <2>3 DEF Tables, User, Seats
  <2> QED
    BY <1>1, <2>1, <2>2, <2>4, TaskDoneMove
<1>12. CASE OnSignal
  <2> DEFINE s == Head(signals)
  <2>1. signals # <<>> /\ Len(signals) = 1
    BY <1>2, <1>12 DEF OnSignal
  <2>2. s \in Signals /\ s = signals[1] /\ 1 \in DOMAIN signals /\ signals' = <<>>
    <3>1. signals \in Seq(Signals) /\ signals' = Tail(signals)
      BY <1>1, <1>12 DEF OnSignal, TypeOK
    <3>2. /\ s \in Signals /\ Tail(signals) \in Seq(Signals) /\ Len(Tail(signals)) = 0
          /\ DOMAIN signals = 1..1
      BY <2>1, <3>1, HeadTailProperties, LenProperties
    <3> QED
      BY <3>1, <3>2
  <2>3. /\ s.seat = g.cur /\ s.seat \in Robots
        /\ g.status = IF s.kind = "Bet" THEN "CallingLord" ELSE "PlayingHand"
    BY <1>1, <2>2 DEF Phases, Signals
  <2>4. tasks = <<>> /\ ~dealing /\ ~lordDue /\ ~UserAsked /\ endings = 0 /\ ~Over
    BY <1>2, <1>3, <2>1
  <2>5. buttons = "Empty" /\ ~countdown /\ g.hand[User] # {}
    BY <1>1, <1>2, <2>3, <2>4 DEF Phases
  <2>6. CASE s.kind = "Bet"
    <3>1. OnBet(s.seat, s.bet)
      BY <1>12, <2>6 DEF OnSignal
    <3>2. s.seat \in Seats /\ s.bet \in 0..3
      BY <2>2, <2>3, <2>6 DEF Signals, Robots
    <3> QED
      BY <2>2, <2>3, <2>4, <2>5, <2>6, <3>1, <3>2, OnBetMove
  <2>7. CASE s.kind # "Bet"
    <3>1. OnHand(g, s.seat, s.hand)
      BY <1>12, <2>5, <2>7 DEF OnSignal
    <3>2. s.seat \in Seats /\ s.seat # User /\ s.hand \in SUBSET Deck
      BY <2>2, <2>3, <2>7 DEF Signals, Robots
    <3>3. g.status = "PlayingHand"
      BY <2>3, <2>7
    <3>4. OneLord(g)
      BY <3>3 DEF ScoreInv, HandBegun
    <3> HIDE DEF s
    <3> QED
      BY <1>1, <2>2, <2>4, <2>5, <3>1, <3>2, <3>3, <3>4, OnHandMove
  <2> QED
    BY <2>6, <2>7
<1>13. CASE LordStarts
  <2>1. /\ lordDue /\ ~lordDue' /\ g' = [g EXCEPT !.status = "PlayingHand"]
        /\ AskHand(g') /\ UNCHANGED <<dealing, signals, endings>>
    BY <1>13 DEF LordStarts
  <2>2. g'.status = "PlayingHand" /\ g'.hand = g.hand
    BY <1>1, <2>1 DEF Tables
  <2>3. g.hand[User] # {}
    BY <1>1, <1>2, <1>3, <2>1 DEF Phases
  <2> QED
    BY <1>2, <2>1, <2>2, <2>3, AskHandMove
<1>14. CASE UNCHANGED vars \/ ClickCard
  <2>1. UNCHANGED << g, dealing, lordDue, tasks, signals, countdown, buttons, endings >>
    BY <1>14 DEF vars, ClickCard
  <2>2. OneMoveAtATime'
    BY <2>1 DEF MoveInv, OneMoveAtATime, UserAsked, Over
  <2>3. Phases'
    BY <1>1, <2>1 DEF Phases, CardComing, Over, MayPass
  <2> QED
    BY <2>2, <2>3 DEF MoveInv
<1>15. Rest => UNCHANGED vars
  BY DEF Rest
<1> QED
  BY <1>4, <1>5, <1>6, <1>7, <1>8, <1>9, <1>10, <1>11, <1>12, <1>13, <1>14, <1>15 DEF Next

\* For every deck: of the timers, the tasks in the pool, the queued signals, the
\* user's buttons and the result exactly one can change the table next, if the user
\* clicks no cards on the table.
THEOREM OneMove ==
  ASSUME ~Restless
  PROVE  Spec => []OneMoveAtATime
<1>1. Init => ScoreInv /\ MoveInv
  BY InitScoreInv, InitMoveInv
<1>2. ScoreInv /\ MoveInv /\ [Next]_vars => (ScoreInv /\ MoveInv)'
  BY NextScoreInv, NextMoveInv
<1>3. MoveInv => OneMoveAtATime
  BY DEF MoveInv
<1> QED
  BY <1>1, <1>2, <1>3, PTL DEF Spec

\* For every deck: the move is the current player's, and the countdown runs only while
\* the user has a hand to answer, if the user clicks no cards on the table.
THEOREM MoveIsCurrents ==
  ASSUME ~Restless
  PROVE  Spec => []MoveOfCurrent
<1>1. Init => ScoreInv /\ MoveInv
  BY InitScoreInv, InitMoveInv
<1>2. ScoreInv /\ MoveInv /\ [Next]_vars => (ScoreInv /\ MoveInv)'
  BY NextScoreInv, NextMoveInv
<1>3. MoveInv => MoveOfCurrent
  BY DEF MoveInv, Phases, MoveOfCurrent, MayPass
<1> QED
  BY <1>1, <1>2, <1>3, PTL DEF Spec

-----------------------------------------------------------------------------
(* Who wins, whatever the user clicks *)

\* A lord plays for something.
Stakes(t) == OneLord(t) => t.curBet > 0

\* What a step does to the roles, the stakes and the scores: nothing, a bid or a hand.
LEMMA TableSteps ==
  ASSUME ScoreInv, [Next]_vars
  PROVE  \/ g'.role = g.role /\ g'.curBet = g.curBet /\ g'.score = g.score
         \/ \E p \in Seats, b \in 0..3 : OnBet(p, b)
         \/ /\ OneLord(g)
            /\ \E t \in Tables, p \in Seats, h \in SUBSET Deck :
                 /\ t.role = g.role /\ t.curBet = g.curBet /\ t.score = g.score
                 /\ OnHand(t, p, h)
<1> DEFINE Kept == g'.role = g.role /\ g'.curBet = g.curBet /\ g'.score = g.score
           Shows == \E t \in Tables, p \in Seats, h \in SUBSET Deck :
                      /\ t.role = g.role /\ t.curBet = g.curBet /\ t.score = g.score
                      /\ OnHand(t, p, h)
<1>1. TypeOK /\ (HandBegun => OneLord(g)) /\ g \in Tables /\ User \in Seats
  BY DEF ScoreInv, TypeOK, User, Seats
<1>2. ASSUME NEW t \in Tables, DispatchFrom(t), t.role = g.role, t.curBet = g.curBet,
             t.score = g.score
      PROVE  Kept
  BY <1>2 DEF DispatchFrom, Dispatch, Tables
<1>3. ASSUME NEW p \in Seats, NEW h \in SUBSET Deck
      PROVE  LET t == TakeFromHand(g, p, h)
             IN  t \in Tables /\ t.role = g.role /\ t.curBet = g.curBet /\ t.score = g.score
  <2>1. TakeFromHand(g, p, h) \in Tables
    BY <1>1, TakeFromHandFacts
  <2> QED
    BY <1>1, <2>1 DEF TakeFromHand, Tables
<1>4. CASE Start
  <2>1. PICK p \in Seats : DispatchFrom([g EXCEPT !.cur = p])
    BY <1>4 DEF Start
  <2> DEFINE t == [g EXCEPT !.cur = p]
  <2>2. t \in Tables
    BY <1>1, Zenon DEF Tables
  <2>3. t.role = g.role /\ t.curBet = g.curBet /\ t.score = g.score
    BY <1>1 DEF Tables
  <2> HIDE DEF t, Kept
  <2>4. DispatchFrom(t)
    BY <2>1 DEF t
  <2>5. Kept
    BY <1>2, <2>2, <2>3, <2>4
  <2> QED
    BY <2>5 DEF Kept
<1>5. CASE UserBids
  BY <1>1, <1>5, GameControlAssumption DEF UserBids
<1>6. CASE UserPlays
  <2>1. PICK h \in SUBSET (g.hand[User] \cup shown \cup selected) :
          OnHand(TakeFromHand(g, User, h), User, h)
    BY <1>6, Zenon DEF UserPlays, Clickable, Stale
  <2>2. h \in SUBSET Deck
    BY <1>1, <2>1 DEF Tables, TypeOK
  <2>3. OneLord(g)
    BY <1>1, <1>6 DEF UserPlays, HandBegun
  <2>4. Shows
    BY <1>1, <1>3, <2>1, <2>2
  <2> QED
    BY <2>3, <2>4
<1>7. CASE UserPasses
  <2>1. OnHand(g, User, {})
    BY <1>7 DEF UserPasses
  <2>2. OneLord(g)
    BY <1>1, <1>7 DEF UserPasses, HandBegun
  <2> QED
    BY <1>1, <2>1, <2>2
<1>8. CASE Continue
  <2>1. DispatchFrom(g)
    BY <1>8 DEF Continue
  <2> QED
    BY <1>1, <1>2, <2>1
<1>9. CASE DealCard
  BY <1>1, <1>9 DEF DealCard, DealOne, Tables
<1>10. CASE RobotPlays
  <2>1. PICK i \in DOMAIN tasks :
          \E h \in StrategyOf(tasks[i].seat) : g' = TakeFromHand(g, tasks[i].seat, h)
    BY <1>10 DEF RobotPlays
  <2> QED
    BY <1>1, <2>1 DEF TakeFromHand, Tables
<1>11. CASE OnSignal
  <2> DEFINE s == Head(signals)
  <2>1. s \in Signals /\ s = signals[1] /\ 1 \in DOMAIN signals
    <3>1. signals \in Seq(Signals) /\ signals # <<>>
      BY <1>1, <1>11 DEF OnSignal, TypeOK
    <3> QED
      BY <3>1, HeadTailProperties, LenProperties
  <2>2. CASE s.kind = "Bet"
    <3>1. OnBet(s.seat, s.bet)
      BY <1>11, <2>2 DEF OnSignal
    <3>2. s.seat \in Seats /\ s.bet \in 0..3
      BY <2>1, <2>2 DEF Signals, Robots
    <3> QED
      BY <3>1, <3>2
  <2>3. CASE s.kind # "Bet"
    <3>1. OnHand(g, s.seat, s.hand)
      BY <1>11, <2>3 DEF OnSignal
    <3>2. s.seat \in Seats /\ s.hand \in SUBSET Deck /\ s.kind = "Play"
      BY <2>1, <2>3 DEF Signals, Robots
    <3>3. OneLord(g)
      BY <1>1, <2>1, <3>2 DEF HandBegun
    <3> HIDE DEF s
    <3> QED
      BY <1>1, <3>1, <3>2, <3>3
  <2> QED
    BY <2>2, <2>3
<1>12. CASE ClickCard \/ RobotBids \/ Rest \/ UNCHANGED vars
  BY <1>12 DEF ClickCard, RobotBids, Rest, vars
<1>13. CASE LordStarts
  BY <1>1, <1>13 DEF LordStarts, Tables
<1> QED
  BY <1>4, <1>5, <1>6, <1>7, <1>8, <1>9, <1>10, <1>11, <1>12, <1>13 DEF Next

\* A hand that is no win keeps the scores; one that is pays the winner's side, and the
\* higher stakes are still stakes.
LEMMA WinFacts ==
  ASSUME NEW t \in Tables, OneLord(t), t.curBet > 0, NEW p \in Seats, NEW h \in SUBSET Deck
  PROVE  LET r == AfterHand(t, p, h)
         IN  /\ r.role = t.role /\ r.curBet > 0
             /\ WinsWith(t, p) =>
                  \A q \in Seats : /\ r.win[q] <=> t.role[q] = t.role[p]
                                   /\ r.win[q] <=> r.score[q] > t.score[q]
<1> DEFINE u == [Pending(t, p, h) EXCEPT !.curBet = IF Doubles(h) THEN 2 * @ ELSE @]
<1>1. Pending(t, p, h) \in Tables
  BY DEF Pending, Tables
<1>2. u \in Tables /\ u.role = t.role /\ u.hand = t.hand /\ u.score = t.score
  <2>1. u \in Tables
    BY <1>1 DEF Tables
  <2>2. u.role = t.role /\ u.hand = t.hand /\ u.score = t.score
    BY DEF Pending, Tables
  <2> HIDE DEF u
  <2> QED
    BY <2>1, <2>2
<1>3. u.curBet \in {t.curBet, 2 * t.curBet}
  BY <1>1 DEF Pending, Tables
<1>4. u.curBet \in Nat /\ u.curBet > 0
  <2>1. t.curBet \in Nat
    BY DEF Tables
  <2> HIDE DEF u
  <2> QED
    BY <1>3, <2>1
<1>5. AfterHand(t, p, h) = IF WinsWith(t, p) THEN Settle(u, p) ELSE [u EXCEPT !.cur = NextOf(p)]
  BY <1>2 DEF AfterHand, WinsWith
<1> HIDE DEF u
<1>6. CASE ~WinsWith(t, p)
  BY <1>2, <1>4, <1>5, <1>6 DEF Tables
<1>7. CASE WinsWith(t, p)
  <2>1. /\ Settle(u, p).role = u.role /\ Settle(u, p).curBet = u.curBet
        /\ \A q \in Seats : /\ Settle(u, p).score[q] = u.score[q] + Worth(u, p, q)
                            /\ Settle(u, p).win[q] = (u.role[q] = u.role[p])
    BY <1>2 DEF Settle, Tables
  <2>2. ASSUME NEW q \in Seats
        PROVE  /\ Worth(u, p, q) \in Int
               /\ u.role[p] = u.role[q] => Worth(u, p, q) > 0
               /\ u.role[p] # u.role[q] => Worth(u, p, q) < 0
    <3>1. CASE u.role[p] = u.role[q]
      <4>1. Worth(u, p, q) \in {2 * u.curBet, u.curBet}
        BY <1>4, <3>1 DEF Worth
      <4> QED
        BY <1>4, <3>1, <4>1
    <3>2. CASE u.role[p] # u.role[q]
      <4>1. Worth(u, p, q) \in {-2 * u.curBet, -u.curBet}
        BY <1>4, <3>2 DEF Worth
      <4> QED
        BY <1>4, <3>2, <4>1
    <3> QED
      BY <3>1, <3>2
  <2>3. \A q \in Seats : u.score[q] \in Int
    BY <1>2 DEF Tables
  <2>4. \A q \in Seats : Settle(u, p).win[q] <=> u.role[q] = u.role[p]
    BY <2>1
  <2>5. \A q \in Seats : u.role[q] = u.role[p] <=> Settle(u, p).score[q] > u.score[q]
    BY <2>1, <2>2, <2>3
  <2> QED
    BY <1>2, <1>4, <1>5, <1>7, <2>1, <2>4, <2>5
<1> QED
  BY <1>6, <1>7

\* The lord who comes out of the bidding has bid something.
LEMMA AfterBetStakes ==
  ASSUME NEW t \in Tables, Stakes(t), NEW p \in Seats, NEW b \in 0..3
  PROVE  Stakes(AfterBet(t, p, b))
<1> DEFINE r == Recorded(t, p, b)
<1>1. /\ r \in Tables /\ r.role = t.role /\ r.curBet = t.curBet
      /\ r.bet \in 0..3 /\ r.bet >= t.bet /\ r.bet >= b /\ t.bet \in 0..3
  <2>1. r \in Tables /\ t.bet \in 0..3
    BY DEF Recorded, Tables
  <2>2. /\ r.role = t.role /\ r.curBet = t.curBet
        /\ r.bet = IF t.bet < b THEN b ELSE t.bet
    BY DEF Recorded, Tables
  <2> HIDE DEF r
  <2> QED
    BY <2>1, <2>2
<1> HIDE DEF r
<1>2. CASE b = 3
  <2>1. AfterBet(t, p, b).curBet = 3
    BY <1>2 DEF AfterBet, BecomeLord, Tables
  <2> QED
    BY <2>1 DEF Stakes
<1>3. CASE Redeals(t, b) \/ (b # 3 /\ t.times # 2)
  <2>1. AfterBet(t, p, b).role = t.role /\ AfterBet(t, p, b).curBet = t.curBet
    BY <1>1, <1>3 DEF AfterBet, Redeals, r, Tables
  <2> QED
    BY <2>1 DEF Stakes, OneLord
<1>4. CASE b # 3 /\ ~Redeals(t, b) /\ t.times = 2
  <2>1. AfterBet(t, p, b).curBet = r.bet
    BY <1>1, <1>4 DEF AfterBet, BecomeLord, r, Tables
  <2>2. r.bet > 0
    BY <1>1, <1>4 DEF Redeals
  <2> QED
    BY <2>1, <2>2 DEF Stakes
<1> QED
  BY <1>2, <1>3, <1>4

\* A fresh deal keeps the lord and the stakes of the last hand.
LEMMA DispatchStakes ==
  ASSUME NEW t \in Tables, Stakes(t)
  PROVE  Stakes(Dispatch(t))
BY DEF Dispatch, Stakes, OneLord, Tables

\* The bid's table is what AfterBet says, dealt anew after three zeroes.
LEMMA OnBetTable ==
  ASSUME NEW p \in Seats, NEW b \in 0..3, OnBet(p, b)
  PROVE  /\ g' = IF Redeals(g, b) THEN Dispatch(AfterBet(g, p, b)) ELSE AfterBet(g, p, b)
         /\ bids' = Append(bids, <<p, b>>)
         /\ lordDue' = IF EndsBidding(g, b) /\ ~Redeals(g, b) THEN TRUE ELSE lordDue
BY DEF OnBet, DispatchFrom

\* Every action keeps the stakes.
LEMMA NextStakes ==
  ASSUME ScoreInv, Stakes(g), [Next]_vars
  PROVE  Stakes(g')
<1>1. g \in Tables /\ BetHasBidder(g)
  BY DEF ScoreInv, TypeOK
<1>2. CASE g'.role = g.role /\ g'.curBet = g.curBet
  BY <1>2 DEF Stakes, OneLord
<1>3. ASSUME NEW p \in Seats, NEW b \in 0..3, OnBet(p, b)
      PROVE  Stakes(g')
  <2>1. AfterBet(g, p, b) \in Tables /\ Stakes(AfterBet(g, p, b))
    BY <1>1, AfterBetFacts, AfterBetStakes
  <2> QED
    BY <1>3, <2>1, DispatchStakes, OnBetTable
<1>4. ASSUME OneLord(g), NEW t \in Tables, NEW p \in Seats, NEW h \in SUBSET Deck,
             t.role = g.role, t.curBet = g.curBet, OnHand(t, p, h)
      PROVE  Stakes(g')
  <2>1. g' = AfterHand(t, p, h) /\ OneLord(t) /\ t.curBet > 0
    BY <1>4 DEF OnHand, OneLord, Stakes
  <2>2. AfterHand(t, p, h).curBet > 0
    BY <2>1, WinFacts
  <2> QED
    BY <2>1, <2>2 DEF Stakes
<1> QED
  BY <1>2, <1>3, <1>4, TableSteps

\* The step that settles a hand is the one that shows its last cards.
LEMMA SettlingStep ==
  ASSUME ScoreInv, Stakes(g), [Next]_vars, g'.score # g.score, hands' > hands
  PROVE  /\ Cardinality(Lords(g)) = 1
         /\ \A p, q \in Seats : (g'.win[p] = g'.win[q]) <=> (g.role[p] = g.role[q])
         /\ \A p \in Seats : g'.win[p] <=> g'.score[p] > g.score[p]
<1>1. g \in Tables /\ BetHasBidder(g) /\ hands \in Nat
  BY DEF ScoreInv, TypeOK
<1>2. ASSUME NEW p \in Seats, NEW b \in 0..3, OnBet(p, b)
      PROVE  FALSE
  BY <1>1, <1>2 DEF OnBet
<1>3. PICK t \in Tables, p \in Seats, h \in SUBSET Deck :
        /\ OneLord(g)
        /\ t.role = g.role /\ t.curBet = g.curBet /\ t.score = g.score
        /\ OnHand(t, p, h)
  BY <1>2, TableSteps
<1>4. WinsWith(t, p) /\ g' = AfterHand(t, p, h)
  BY <1>1, <1>3 DEF OnHand
<1>5. OneLord(t) /\ t.curBet > 0
  BY <1>3 DEF OneLord, Stakes
<1>6. \A q \in Seats : /\ g'.win[q] <=> t.role[q] = t.role[p]
                       /\ g'.win[q] <=> g'.score[q] > t.score[q]
  BY <1>4, <1>5, WinFacts
<1>7. g' \in Tables /\ g'.win \in [Seats -> BOOLEAN]
  <2>1. g' \in Tables
    BY <1>4, <1>5, AfterHandFacts
  <2> QED
    BY <2>1 DEF Tables
<1>8. \A q \in Seats : g.role[q] \in {"Lord", "Farmer"}
  BY <1>1 DEF Tables
<1>9. Cardinality(Lords(g)) = 1
  <2>1. PICK l \in Seats : g.role = [q \in Seats |-> IF q = l THEN "Lord" ELSE "Farmer"]
    BY <1>3 DEF OneLord
  <2>2. Lords(g) = {l}
    BY <2>1 DEF Lords
  <2> QED
    BY <2>2, FS_Singleton
<1>10. ASSUME NEW a \in Seats, NEW q \in Seats
       PROVE  (g'.win[a] = g'.win[q]) <=> (g.role[a] = g.role[q])
  <2>1. /\ g'.win[a] <=> g.role[a] = g.role[p]
        /\ g'.win[q] <=> g.role[q] = g.role[p]
        /\ g'.win[a] \in BOOLEAN /\ g'.win[q] \in BOOLEAN
    BY <1>3, <1>6, <1>7
  <2>2. /\ g.role[a] \in {"Lord", "Farmer"} /\ g.role[q] \in {"Lord", "Farmer"}
        /\ g.role[p] \in {"Lord", "Farmer"}
    BY <1>8
  <2>3. (g'.win[a] = g'.win[q]) <=> (g'.win[a] <=> g'.win[q])
    BY <2>1
  <2>4. (g.role[a] = g.role[q]) <=> (g.role[a] = g.role[p] <=> g.role[q] = g.role[p])
    BY <2>2
  <2> QED
    BY <2>1, <2>3, <2>4
<1> QED
  BY <1>3, <1>6, <1>9, <1>10

\* When a hand is settled there is one lord, each side wins or loses as one, and exactly
\* the winners' points rise (onPlayHand's branches), for every deck and whatever the
\* user clicks.
THEOREM SidesWin == Spec => SidesWinTogether
<1>1. Init => ScoreInv /\ Stakes(g)
  <2>1. Init => ~OneLord(g)
    BY DEF Init, OneLord
  <2> QED
    BY <2>1, InitScoreInv DEF Stakes
<1>2. ScoreInv /\ Stakes(g) /\ [Next]_vars => (ScoreInv /\ Stakes(g))'
  BY NextScoreInv, NextStakes
<1>3. ScoreInv /\ Stakes(g) /\ [Next]_vars =>
        [ g'.score # g.score /\ hands' > hands =>
            /\ Cardinality(Lords(g)) = 1
            /\ \A p, q \in Seats :
                 (g'.win[p] = g'.win[q]) <=> (g.role[p] = g.role[q])
            /\ \A p \in Seats : g'.win[p] <=> g'.score[p] > g.score[p] ]_vars
  BY SettlingStep
<1> QED
  BY <1>1, <1>2, <1>3, PTL DEF Spec, SidesWinTogether

-----------------------------------------------------------------------------
(* What can happen to the table, if the user clicks no cards on it: the    *)
(* moves, one at a time                                                    *)

\* The kinds of steps, with what one move at a time adds to them: nothing is due
\* besides, so no robot's signal is left when the table changes under it.
FreshDeal ==
  /\ g.status # "CallingLord"
  /\ \E t \in Tables : g' = Dispatch(t)
  /\ g'.bet = g.bet
  /\ signals' = <<>> /\ ~lordDue'

CardDealt ==
  /\ g.status = "DispatchCard"
  /\ \E c \in g.deck : g' = DealOne(g, c)
  /\ g'.status = "CallingLord" => bids' = <<>>
  /\ signals' = <<>> /\ ~lordDue'

BidMade(p, b) ==
  /\ g.status = "CallingLord" /\ ~lordDue
  /\ OnBet(p, b)
  /\ signals' = <<>>

\* The user's cards leave the hand and are shown in one step.
UserShows(h) ==
  /\ g.status = "PlayingHand" /\ ~Over
  /\ h \in SUBSET (g.hand[User] \cup selected)
  /\ (h # {} /\ g.pend # User) => CanBeat(Judge[h], Judge[g.pendHand])
  /\ g' = AfterHand(TakeFromHand(g, User, h), User, h)
  /\ WinsWith(TakeFromHand(g, User, h), User) => Over'
  /\ signals = <<>> /\ signals' = <<>> /\ ~lordDue'

\* A robot's cards are shown when its signal is taken up.
RobotShows(p, h) ==
  /\ g.status = "PlayingHand" /\ ~Over
  /\ signals = << [seat |-> p, kind |-> "Play", hand |-> h] >>
  /\ g' = AfterHand(g, p, h)
  /\ WinsWith(g, p) => Over'
  /\ signals' = <<>> /\ ~lordDue'

RobotTakes(p, h) ==
  /\ g.status = "PlayingHand" /\ ~Over
  /\ h \in StrategyOf(p)
  /\ g' = TakeFromHand(g, p, h)
  /\ signals = <<>>
  /\ signals' = << [seat |-> p, kind |-> "Play", hand |-> h] >>
  /\ ~lordDue'

LordIsAsked ==
  /\ g.status = "CallingLord" /\ lordDue
  /\ g' = [g EXCEPT !.status = "PlayingHand"]
  /\ signals' = <<>> /\ ~lordDue'

\* Nothing the players see: no more than a bid under way.
Nothing ==
  /\ g' = g /\ lordDue' = lordDue /\ bids' = bids /\ Over' = Over
  /\ \/ signals' = signals
     \/ signals = <<>> /\ \E s \in Signals : s.kind = "Bet" /\ signals' = <<s>>

\* Every step is one of them.
LEMMA Moves ==
  ASSUME ~Restless, ScoreInv, MoveInv, [Next]_vars
  PROVE  \/ FreshDeal \/ CardDealt \/ LordIsAsked \/ Nothing
         \/ \E p \in Seats, b \in 0..3 : BidMade(p, b)
         \/ \E h \in SUBSET Deck : UserShows(h)
         \/ \E p \in Robots, h \in SUBSET Deck : RobotShows(p, h) \/ RobotTakes(p, h)
<1>1. TypeOK /\ g \in Tables /\ Phases /\ User \in Seats
  BY DEF ScoreInv, TypeOK, MoveInv, User, Seats
<1>2. /\ signals \in Seq(Signals) /\ tasks \in Seq(Tasks)
      /\ Len(tasks) \in Nat /\ Len(signals) \in Nat
      /\ DOMAIN signals = 1..Len(signals) /\ DOMAIN tasks = 1..Len(tasks)
      /\ signals = <<>> <=> Len(signals) = 0
      /\ dealing => ~lordDue /\ signals = <<>>
      /\ lordDue => signals = <<>>
      /\ Len(tasks) # 0 => signals = <<>> /\ ~lordDue /\ ~Over
      /\ Len(signals) # 0 => Len(signals) = 1 /\ ~lordDue /\ ~Over
      /\ UserAsked => signals = <<>> /\ ~lordDue /\ ~Over
      /\ Over => signals = <<>> /\ ~lordDue
      /\ dealing \/ lordDue \/ Len(tasks) # 0 \/ Len(signals) # 0 \/ UserAsked \/ Over
  <2>1. endings \in Nat /\ (Over <=> endings # 0)
    BY <1>1 DEF TypeOK, Over
  <2>2. /\ signals \in Seq(Signals) /\ tasks \in Seq(Tasks)
        /\ DOMAIN signals = 1..Len(signals) /\ DOMAIN tasks = 1..Len(tasks)
    BY <1>1, LenProperties DEF TypeOK
  <2> QED
    BY <1>1, <2>1, <2>2, Alone DEF MoveInv
<1>3. ASSUME NEW t \in Tables, t.bet = g.bet
      PROVE  Dispatch(t).bet = g.bet
  BY <1>3 DEF Dispatch, Tables
<1>4. ASSUME NEW t, NEW p, NEW h, OnHand(t, p, h), WinsWith(t, p)
       PROVE  Over'
  <2>1. endings' = endings + 1 /\ endings \in Nat
    BY <1>1, <1>4 DEF OnHand, TypeOK
  <2> QED
    BY <2>1 DEF Over
<1>5. CASE Start
  <2>1. PICK p \in Seats : g' = Dispatch([g EXCEPT !.cur = p])
    BY <1>5 DEF Start, DispatchFrom
  <2> DEFINE t == [g EXCEPT !.cur = p]
  <2>2. t \in Tables /\ t.bet = g.bet
    BY <1>1, Zenon DEF Tables
  <2>3. buttons = "Start" /\ UNCHANGED <<lordDue, signals>>
    BY <1>5 DEF Start
  <2>4. UserAsked /\ g.status = "DispatchCard"
    BY <1>1, <2>3 DEF UserAsked, Phases
  <2> HIDE DEF t
  <2>5. g' = Dispatch(t)
    BY <2>1 DEF t
  <2>6. FreshDeal
    BY <1>2, <1>3, <2>2, <2>3, <2>4, <2>5 DEF FreshDeal
  <2> QED
    BY <2>6
<1>6. CASE UserBids
  <2>1. PICK b \in 0..3 : OnBet(User, b)
    BY <1>6, GameControlAssumption DEF UserBids
  <2>2. buttons = "Calllord" /\ UNCHANGED signals
    BY <1>6 DEF UserBids
  <2>3. UserAsked /\ g.status = "CallingLord"
    BY <1>1, <2>2 DEF UserAsked, Phases
  <2>4. BidMade(User, b)
    BY <1>2, <2>1, <2>2, <2>3 DEF BidMade
  <2> QED
    BY <1>1, <2>4
<1>7. CASE UserPlays
  <2>1. /\ g.status = "PlayingHand" /\ g.cur = User /\ ~Over /\ UNCHANGED <<signals, lordDue>>
    BY <1>1, <1>7 DEF UserPlays, TypeOK, Over, OnHand
  <2>2. signals = <<>> /\ ~lordDue
    <3>1. \A i \in DOMAIN signals : signals[i].seat # User
      <4>1. \A i \in DOMAIN signals : signals[i] \in Signals
        BY <1>2
      <4> QED
        BY <4>1 DEF Signals, Robots
    <3>2. ~(1 \in DOMAIN signals)
      BY <1>1, <2>1, <3>1 DEF Phases
    <3> QED
      BY <1>1, <1>2, <2>1, <3>2 DEF Phases
  <2>3. PICK h \in SUBSET (g.hand[User] \cup selected) :
          MayPlay(h) /\ OnHand(TakeFromHand(g, User, h), User, h)
    BY <1>7, UserPlaysOwnOrSelected
  <2>4. /\ g' = AfterHand(TakeFromHand(g, User, h), User, h)
        /\ WinsWith(TakeFromHand(g, User, h), User) => Over'
    BY <1>4, <2>3 DEF OnHand
  <2>5. UserShows(h)
    BY <2>1, <2>2, <2>3, <2>4 DEF UserShows, MayPlay
  <2>6. h \in SUBSET Deck
    BY <1>1 DEF Tables, TypeOK
  <2> QED
    BY <2>5, <2>6
<1>8. CASE UserPasses
  <2>1. /\ buttons = "PassOrPlay" \/ countdown
        /\ g' = AfterHand(g, User, {}) /\ UNCHANGED <<signals, lordDue>>
        /\ WinsWith(g, User) => Over'
    BY <1>8, <1>4 DEF UserPasses, OnHand
  <2>2. ~Over /\ buttons = "PassOrPlay" /\ g.status = "PlayingHand"
    BY <1>1, <2>1, <1>8 DEF Phases, UserPasses
  <2>3. UserAsked
    BY <2>2 DEF UserAsked
  <2>4. TakeFromHand(g, User, {}) = g
    BY <1>1 DEF TakeFromHand, Tables
  <2>5. UserShows({})
    BY <1>2, <2>1, <2>2, <2>3, <2>4 DEF UserShows
  <2> QED
    BY <2>5
<1>9. CASE Continue
  <2>1. endings > 0 /\ g' = Dispatch(g) /\ UNCHANGED <<lordDue, signals>>
    BY <1>9 DEF Continue, DispatchFrom
  <2>2. Over /\ g.status = "PlayingHand"
    BY <1>1, <2>1 DEF Over, Phases
  <2>3. FreshDeal
    BY <1>1, <1>2, <1>3, <2>1, <2>2 DEF FreshDeal
  <2> QED
    BY <2>3
<1>10. CASE DealCard
  <2>1. dealing /\ UNCHANGED <<lordDue, signals>> /\ \E c \in g.deck : g' = DealOne(g, c)
    BY <1>10 DEF DealCard
  <2>2. g'.status = "CallingLord" => bids' = <<>>
    BY <1>10 DEF DealCard
  <2>3. g.status = "DispatchCard"
    BY <1>1, <2>1 DEF Phases
  <2>4. CardDealt
    BY <1>2, <2>1, <2>2, <2>3 DEF CardDealt
  <2> QED
    BY <2>4
<1>11. CASE RobotBids
  <2>1. PICK i \in DOMAIN tasks, b \in 0..3 :
          signals' = Append(signals, [seat |-> tasks[i].seat, kind |-> "Bet", bet |-> b])
    BY <1>11, GameControlAssumption DEF RobotBids
  <2>2. UNCHANGED <<g, lordDue, bids>> /\ Over' = Over
    BY <1>11 DEF RobotBids, Over
  <2>3. [seat |-> tasks[i].seat, kind |-> "Bet", bet |-> b] \in Signals
    <3>1. tasks[i] \in Tasks
      BY <1>2
    <3> QED
      BY <3>1 DEF Tasks, Signals
  <2>4. signals = <<>>
    BY <1>2
  <2>5. Nothing
    BY <2>1, <2>2, <2>3, <2>4 DEF Nothing
  <2> QED
    BY <2>5
<1>12. CASE RobotPlays
  <2>1. PICK i \in DOMAIN tasks :
          /\ tasks[i].kind = "Play"
          /\ \E h \in StrategyOf(tasks[i].seat) :
               /\ g' = TakeFromHand(g, tasks[i].seat, h)
               /\ signals' = Append(signals, [seat |-> tasks[i].seat, kind |-> "Play", hand |-> h])
          /\ UNCHANGED lordDue
    BY <1>12 DEF RobotPlays
  <2>2. /\ tasks[i].seat \in Robots /\ g.status = "PlayingHand" /\ ~Over
        /\ signals = <<>> /\ ~lordDue
    <3>1. tasks[i] \in Tasks
      BY <1>2
    <3> QED
      BY <1>1, <1>2, <2>1, <3>1 DEF Tasks, Phases
  <2> DEFINE p == tasks[i].seat
  <2> HIDE DEF p
  <2>3. PICK h \in StrategyOf(p) :
          /\ g' = TakeFromHand(g, p, h)
          /\ signals' = << [seat |-> p, kind |-> "Play", hand |-> h] >>
    BY <2>1, <2>2 DEF p
  <2>4. h \in SUBSET Deck
    <3>1. g.hand[p] \subseteq Deck
      BY <1>1, <2>2 DEF Tables, Robots, p
    <3> QED
      BY <2>3, <3>1 DEF StrategyOf, Leads
  <2>5. RobotTakes(p, h)
    BY <2>1, <2>2, <2>3 DEF RobotTakes, p
  <2>6. p \in Robots
    BY <2>2 DEF p
  <2> QED
    BY <2>4, <2>5, <2>6
<1>13. CASE OnSignal
  <2> DEFINE s == Head(signals)
  <2>1. signals # <<>> /\ Len(signals) = 1 /\ ~lordDue /\ ~Over
    BY <1>2, <1>13 DEF OnSignal
  <2>2. s \in Signals /\ s = signals[1] /\ 1 \in DOMAIN signals /\ signals' = <<>>
    <3>1. signals' = Tail(signals)
      BY <1>13 DEF OnSignal
    <3>2. /\ s \in Signals /\ Tail(signals) \in Seq(Signals) /\ Len(Tail(signals)) = 0
          /\ DOMAIN signals = 1..1
      BY <1>2, <2>1, HeadTailProperties, LenProperties
    <3> QED
      BY <3>1, <3>2
  <2>3. s.seat \in Robots /\ g.status = IF s.kind = "Bet" THEN "CallingLord" ELSE "PlayingHand"
    BY <1>1, <2>2 DEF Phases, Signals
  <2>4. signals = <<s>>
    BY <1>2, <2>1, <2>2
  <2>5. CASE s.kind = "Bet"
    <3>1. OnBet(s.seat, s.bet)
      BY <1>13, <2>5 DEF OnSignal
    <3>2. s.seat \in Seats /\ s.bet \in 0..3
      BY <2>2, <2>5 DEF Signals, Robots
    <3>3. BidMade(s.seat, s.bet)
      BY <2>1, <2>2, <2>3, <2>5, <3>1 DEF BidMade
    <3> QED
      BY <3>2, <3>3
  <2>6. CASE s.kind # "Bet"
    <3>1. /\ g' = AfterHand(g, s.seat, s.hand) /\ UNCHANGED lordDue
          /\ WinsWith(g, s.seat) => Over'
      BY <1>13, <1>4, <2>6 DEF OnSignal, OnHand
    <3>2. s.hand \in SUBSET Deck /\ s = [seat |-> s.seat, kind |-> "Play", hand |-> s.hand]
      BY <2>2, <2>6 DEF Signals
    <3>3. RobotShows(s.seat, s.hand)
      BY <2>1, <2>2, <2>3, <2>4, <2>6, <3>1, <3>2 DEF RobotShows
    <3> QED
      BY <2>3, <3>2, <3>3
  <2> QED
    BY <2>5, <2>6
<1>14. CASE LordStarts
  <2>1. lordDue /\ ~lordDue' /\ g' = [g EXCEPT !.status = "PlayingHand"] /\ UNCHANGED signals
    BY <1>14 DEF LordStarts
  <2>2. LordIsAsked
    BY <1>1, <1>2, <2>1 DEF LordIsAsked, Phases
  <2> QED
    BY <2>2
<1>15. CASE ClickCard \/ Rest \/ UNCHANGED vars
  <2>1. Nothing
    BY <1>15 DEF ClickCard, Rest, vars, Nothing, Over
  <2> QED
    BY <2>1
<1> QED
  BY <1>5, <1>6, <1>7, <1>8, <1>9, <1>10, <1>11, <1>12, <1>13, <1>14, <1>15 DEF Next

-----------------------------------------------------------------------------
(* Who becomes the lord *)

\* Player p's bid b is the highest of s and the first of that height.
FirstHighest(s, p, b) ==
  \E i \in DOMAIN s :
    /\ s[i] = <<p, b>>
    /\ b > 0
    /\ \A j \in DOMAIN s : s[j][2] <= b
    /\ \A j \in 1..(i - 1) : s[j][2] < b

\* The table's record is that of the bids s, none of which has ended the bidding.
RecordOf(t, s) ==
  /\ t.bet < 3
  /\ IF t.bet = 0 THEN \A j \in DOMAIN s : s[j][2] = 0 ELSE FirstHighest(s, t.betBy, t.bet)

Bidding == g.status = "CallingLord" /\ ~lordDue

\* While there is bidding the record is that of the bids, and else it is empty; the lord
\* who waits for the timer is the first of the highest bidders.
BidInv ==
  /\ IF Bidding THEN RecordOf(g, bids) ELSE g.bet = 0
  /\ lordDue => \E l \in Seats : Lords(g) = {l} /\ FirstHighest(bids, l, g.curBet)

Bid == Seats \X (0..3)

\* One bid more: it is the highest if it is above the one on record.
LEMMA OneBidMore ==
  ASSUME NEW s \in Seq(Bid), NEW t \in Tables, RecordOf(t, s), NEW p \in Seats, NEW b \in 0..3
  PROVE  LET r == Recorded(t, p, b)
         IN  /\ r.bet = 0 => \A j \in DOMAIN Append(s, <<p, b>>) : Append(s, <<p, b>>)[j][2] = 0
             /\ r.bet > 0 => FirstHighest(Append(s, <<p, b>>), r.betBy, r.bet)
<1> DEFINE r == Recorded(t, p, b)
           n == Append(s, <<p, b>>)
<1>1. /\ t.bet \in 0..3 /\ t.bet < 3
      /\ r.bet = IF t.bet < b THEN b ELSE t.bet
      /\ r.betBy = IF t.bet < b THEN p ELSE t.betBy
  BY DEF Recorded, Tables, RecordOf
<1>2. /\ Len(s) \in Nat /\ DOMAIN s = 1..Len(s) /\ DOMAIN n = 1..(Len(s) + 1)
      /\ \A j \in 1..Len(s) : n[j] = s[j]
      /\ n[Len(s) + 1] = <<p, b>>
  BY AppendProperties, LenProperties DEF Bid
<1>3. \A j \in DOMAIN s : s[j][2] <= t.bet
  <2>1. t.bet = 0 => \A j \in DOMAIN s : s[j][2] = 0
    BY DEF RecordOf
  <2>2. t.bet # 0 => \A j \in DOMAIN s : s[j][2] <= t.bet
    BY DEF RecordOf, FirstHighest
  <2> QED
    BY <1>1, <2>1, <2>2
<1>4. \A j \in DOMAIN s : s[j][2] \in 0..3
  BY DEF Bid
<1> HIDE DEF r, n
<1>5. CASE t.bet < b
  <2>1. /\ n[Len(s) + 1] = <<r.betBy, r.bet>> /\ r.bet = b /\ r.bet > 0
        /\ Len(s) + 1 \in DOMAIN n
    BY <1>1, <1>2, <1>5
  <2>2. \A j \in 1..Len(s) : n[j][2] < r.bet
    BY <1>1, <1>2, <1>3, <1>4, <1>5
  <2>3. n[Len(s) + 1][2] = r.bet
    BY <2>1
  <2>4. \A j \in DOMAIN n : n[j][2] <= r.bet
    BY <1>1, <1>2, <1>4, <2>1, <2>2, <2>3
  <2>5. 1..((Len(s) + 1) - 1) = 1..Len(s)
    BY <1>2
  <2>6. FirstHighest(n, r.betBy, r.bet)
    BY <2>1, <2>2, <2>4, <2>5 DEF FirstHighest
  <2> QED
    BY <2>1, <2>6 DEF r, n
<1>6. CASE ~(t.bet < b)
  <2>1. r.bet = t.bet /\ r.betBy = t.betBy /\ b <= t.bet
    BY <1>1, <1>6
  <2>2. r.bet = 0 => \A j \in DOMAIN n : n[j][2] = 0
    <3>1. r.bet = 0 => \A j \in DOMAIN s : s[j][2] = 0
      BY <2>1 DEF RecordOf
    <3>2. r.bet = 0 => n[Len(s) + 1][2] = 0
      BY <1>1, <1>2, <2>1
    <3> QED
      BY <1>2, <3>1, <3>2
  <2>3. ASSUME r.bet > 0
        PROVE  FirstHighest(n, r.betBy, r.bet)
    <3>1. PICK i \in DOMAIN s :
            /\ s[i] = <<t.betBy, t.bet>>
            /\ \A j \in DOMAIN s : s[j][2] <= t.bet
            /\ \A j \in 1..(i - 1) : s[j][2] < t.bet
      BY <1>1, <2>1, <2>3 DEF RecordOf, FirstHighest
    <3>2. i \in DOMAIN n /\ n[i] = <<r.betBy, r.bet>>
      BY <1>2, <2>1, <3>1
    <3>3. \A j \in 1..(i - 1) : n[j][2] < r.bet
      BY <1>2, <2>1, <3>1
    <3>4. n[Len(s) + 1][2] <= r.bet
      BY <1>2, <2>1
    <3>5. \A j \in DOMAIN n : n[j][2] <= r.bet
      BY <1>2, <2>1, <3>1, <3>4
    <3> QED
      BY <2>3, <3>2, <3>3, <3>5 DEF FirstHighest
  <2> QED
    BY <2>2, <2>3 DEF r, n
<1> QED
  BY <1>5, <1>6

\* A bid leaves the record of the bids so far, makes the first of the highest bidders
\* the lord, or leaves no record after three zeroes.
LEMMA AfterBetRecord ==
  ASSUME NEW s \in Seq(Bid), NEW t \in Tables, BetHasBidder(t), RecordOf(t, s),
         NEW p \in Seats, NEW b \in 0..3
  PROVE  LET r == AfterBet(t, p, b)
             n == Append(s, <<p, b>>)
         IN  /\ Redeals(t, b) => r.bet = 0
             /\ EndsBidding(t, b) /\ ~Redeals(t, b) =>
                  r.bet = 0 /\ \E l \in Seats : Lords(r) = {l} /\ FirstHighest(n, l, r.curBet)
             /\ ~EndsBidding(t, b) => RecordOf(r, n)
<1> DEFINE r == Recorded(t, p, b)
           n == Append(s, <<p, b>>)
<1>1. /\ r.bet = 0 => \A j \in DOMAIN n : n[j][2] = 0
      /\ r.bet > 0 => FirstHighest(n, r.betBy, r.bet)
  BY OneBidMore
<1>2. r \in Tables /\ BetHasBidder(r)
  BY DEF Recorded, Tables, BetHasBidder
<1>3. /\ t.bet \in 0..3 /\ t.bet < 3 /\ b \in 0..3
      /\ r.bet = IF t.bet < b THEN b ELSE t.bet
      /\ r.betBy = IF t.bet < b THEN p ELSE t.betBy
  BY DEF Recorded, Tables, RecordOf
<1>4. ASSUME NEW u \in Tables, NEW l \in Seats, NEW c \in 0..3
      PROVE  /\ BecomeLord(u, l, c).bet = 0 /\ BecomeLord(u, l, c).curBet = c
             /\ Lords(BecomeLord(u, l, c)) = {l}
  BY DEF BecomeLord, Lords, Tables
<1> HIDE DEF r, n
<1>5. CASE b = 3
  <2>1. r.bet = 3 /\ r.betBy = p /\ AfterBet(t, p, b) = BecomeLord(t, p, 3)
    BY <1>3, <1>5 DEF AfterBet
  <2>2. ~Redeals(t, b) /\ EndsBidding(t, b)
    BY <1>5 DEF Redeals, EndsBidding
  <2>3. FirstHighest(n, p, 3)
    BY <1>1, <2>1
  <2> QED
    BY <1>4, <1>5, <2>1, <2>2, <2>3 DEF n
<1>6. CASE Redeals(t, b)
  <2>1. AfterBet(t, p, b) = [r EXCEPT !.betBy = Nobody, !.times = 0] /\ EndsBidding(t, b)
    BY <1>6 DEF AfterBet, Redeals, EndsBidding, r
  <2>2. r.bet = 0
    BY <1>3, <1>6 DEF Redeals
  <2>3. AfterBet(t, p, b).bet = 0
    BY <1>2, <2>1, <2>2 DEF Tables
  <2> QED
    BY <1>6, <2>1, <2>3
<1>7. CASE b # 3 /\ ~Redeals(t, b) /\ t.times = 2
  <2>1. AfterBet(t, p, b) = BecomeLord(r, r.betBy, r.bet) /\ EndsBidding(t, b)
    BY <1>7 DEF AfterBet, EndsBidding, r
  <2>2. r.bet > 0 /\ r.bet \in 0..3
    BY <1>3, <1>7 DEF Redeals
  <2>3. r.betBy \in Seats
    BY <1>2, <2>2 DEF BetHasBidder
  <2>4. FirstHighest(n, r.betBy, r.bet)
    BY <1>1, <2>2
  <2>5. /\ AfterBet(t, p, b).bet = 0 /\ AfterBet(t, p, b).curBet = r.bet
        /\ Lords(AfterBet(t, p, b)) = {r.betBy}
    BY <1>2, <1>4, <2>1, <2>2, <2>3
  <2> QED
    BY <1>7, <2>1, <2>3, <2>4, <2>5 DEF n
<1>8. CASE b # 3 /\ t.times # 2
  <2>1. AfterBet(t, p, b) = [r EXCEPT !.times = @ + 1, !.cur = NextOf(p)] /\ ~EndsBidding(t, b)
    BY <1>8 DEF AfterBet, Redeals, EndsBidding, r
  <2>2. AfterBet(t, p, b).bet = r.bet /\ AfterBet(t, p, b).betBy = r.betBy
    BY <1>2, <2>1 DEF Tables
  <2>3. r.bet < 3 /\ r.bet \in Nat
    BY <1>3, <1>8
  <2>4. RecordOf(AfterBet(t, p, b), n)
    BY <1>1, <2>2, <2>3 DEF RecordOf
  <2> QED
    BY <1>8, <2>1, <2>4 DEF Redeals, EndsBidding, n
<1> QED
  BY <1>5, <1>6, <1>7, <1>8 DEF Redeals

\* Every step keeps the record of the bids.
LEMMA NextBidInv ==
  ASSUME ~Restless, ScoreInv, MoveInv, BidInv, [Next]_vars
  PROVE  BidInv'
<1>1. g \in Tables /\ BetHasBidder(g) /\ bids \in Seq(Bid)
  BY DEF ScoreInv, TypeOK, Bid
<1>2. lordDue => g.status = "CallingLord"
  BY DEF MoveInv, Phases
<1>3. CASE FreshDeal
  <2>1. g'.status = "DispatchCard"
    BY <1>3 DEF FreshDeal, Dispatch, Tables
  <2> QED
    BY <1>3, <2>1 DEF FreshDeal, BidInv, Bidding
<1>4. CASE CardDealt
  <2>1. g'.bet = g.bet /\ g'.status \in {"DispatchCard", "CallingLord"} /\ ~lordDue'
    BY <1>1, <1>4 DEF CardDealt, DealOne, Tables
  <2>2. g.bet = 0
    BY <1>4 DEF CardDealt, BidInv, Bidding
  <2>3. g'.status = "CallingLord" => RecordOf(g', bids')
    BY <1>4, <2>1, <2>2 DEF CardDealt, RecordOf
  <2> QED
    BY <2>1, <2>2, <2>3 DEF BidInv, Bidding
<1>5. CASE LordIsAsked
  <2>1. g'.bet = g.bet /\ g'.status = "PlayingHand"
    BY <1>1, <1>5 DEF LordIsAsked, Tables
  <2> QED
    BY <1>5, <2>1 DEF LordIsAsked, BidInv, Bidding
<1>6. CASE Nothing
  BY <1>6 DEF Nothing, BidInv, Bidding
<1>7. ASSUME NEW p \in Seats, NEW b \in 0..3, BidMade(p, b)
      PROVE  BidInv'
  <2> DEFINE r == AfterBet(g, p, b)
             n == Append(bids, <<p, b>>)
  <2>1. RecordOf(g, bids) /\ g.status = "CallingLord" /\ ~lordDue /\ OnBet(p, b)
    BY <1>7 DEF BidMade, BidInv, Bidding
  <2>2. /\ Redeals(g, b) => r.bet = 0
        /\ EndsBidding(g, b) /\ ~Redeals(g, b) =>
             r.bet = 0 /\ \E l \in Seats : Lords(r) = {l} /\ FirstHighest(n, l, r.curBet)
        /\ ~EndsBidding(g, b) => RecordOf(r, n)
    BY <1>1, <2>1, AfterBetRecord
  <2>3. r \in Tables /\ r.status = "CallingLord"
    BY <1>1, <2>1, AfterBetFacts
  <2>4. /\ g' = IF Redeals(g, b) THEN Dispatch(r) ELSE r
        /\ bids' = n
        /\ lordDue' = IF EndsBidding(g, b) /\ ~Redeals(g, b) THEN TRUE ELSE lordDue
    BY <2>1, OnBetTable
  <2> HIDE DEF r, n
  <2>5. CASE Redeals(g, b)
    <3>1. Dispatch(r).bet = r.bet /\ Dispatch(r).status = "DispatchCard"
      BY <2>3 DEF Dispatch, Tables
    <3> QED
      BY <2>1, <2>2, <2>4, <2>5, <3>1 DEF BidInv, Bidding
  <2>6. CASE ~Redeals(g, b) /\ EndsBidding(g, b)
    BY <2>2, <2>4, <2>6 DEF BidInv, Bidding
  <2>7. CASE ~EndsBidding(g, b)
    <3>1. ~Redeals(g, b)
      BY <2>7 DEF EndsBidding, Redeals
    <3> QED
      BY <2>1, <2>2, <2>3, <2>4, <2>7, <3>1 DEF BidInv, Bidding
  <2> QED
    BY <2>5, <2>6, <2>7
<1>8. ASSUME NEW t \in Tables, NEW p \in Seats, NEW h \in SUBSET Deck, OneLord(t),
             g' = AfterHand(t, p, h), t.status = "PlayingHand", t.bet = 0, ~lordDue'
      PROVE  BidInv'
  <2>1. g'.status = "PlayingHand" /\ g'.bet = 0
    BY <1>8, AfterHandFacts
  <2> QED
    BY <1>8, <2>1 DEF BidInv, Bidding
<1>9. g.status = "PlayingHand" => OneLord(g) /\ g.bet = 0
  BY DEF ScoreInv, HandBegun, BidInv, Bidding
<1>10. ASSUME NEW h \in SUBSET Deck, UserShows(h)
       PROVE  BidInv'
  <2> DEFINE t == TakeFromHand(g, User, h)
  <2>1. User \in Seats /\ g.status = "PlayingHand" /\ ~lordDue' /\ g' = AfterHand(t, User, h)
    BY <1>10 DEF UserShows, User, Seats
  <2>2. t \in Tables
    BY <1>1, <2>1, TakeFromHandFacts
  <2>3. t.status = g.status /\ t.bet = g.bet /\ t.role = g.role
    BY <1>1 DEF TakeFromHand, Tables
  <2> HIDE DEF t
  <2>4. OneLord(t)
    BY <1>9, <2>1, <2>3 DEF OneLord
  <2> QED
    BY <1>8, <1>9, <2>1, <2>2, <2>3, <2>4
<1>11. ASSUME NEW p \in Robots, NEW h \in SUBSET Deck, RobotShows(p, h)
       PROVE  BidInv'
  BY <1>1, <1>8, <1>9, <1>11 DEF RobotShows, Robots
<1>12. ASSUME NEW p \in Robots, NEW h \in SUBSET Deck, RobotTakes(p, h)
       PROVE  BidInv'
  <2>1. g'.status = g.status /\ g'.bet = g.bet /\ g.status = "PlayingHand" /\ ~lordDue'
    BY <1>1, <1>12 DEF RobotTakes, TakeFromHand, Tables
  <2> QED
    BY <1>9, <2>1 DEF BidInv, Bidding
<1> QED
  BY <1>3, <1>4, <1>5, <1>6, <1>7, <1>10, <1>11, <1>12, Moves

\* The lord is the first of the highest bidders and plays for that bid, however early
\* the bidding ended and however often the cards were dealt again, for every deck, if the
\* user clicks no cards on the table.
THEOREM LordBidHighest ==
  ASSUME ~Restless
  PROVE  Spec => []HighestBidderIsLord
<1>1. Init => ScoreInv /\ MoveInv /\ BidInv
  <2>1. Init => BidInv
    BY DEF Init, BidInv, Bidding
  <2> QED
    BY <2>1, InitScoreInv, InitMoveInv
<1>2. ScoreInv /\ MoveInv /\ BidInv /\ [Next]_vars => (ScoreInv /\ MoveInv /\ BidInv)'
  BY NextScoreInv, NextMoveInv, NextBidInv
<1>3. BidInv => HighestBidderIsLord
  <2> SUFFICES ASSUME BidInv, lordDue
               PROVE  \E i \in DOMAIN bids :
                        /\ Lords(g) = {bids[i][1]}
                        /\ g.curBet = bids[i][2]
                        /\ g.curBet > 0
                        /\ \A j \in DOMAIN bids : bids[j][2] <= bids[i][2]
                        /\ \A j \in 1..(i - 1) : bids[j][2] < bids[i][2]
    BY DEF HighestBidderIsLord
  <2>1. PICK l \in Seats : Lords(g) = {l} /\ FirstHighest(bids, l, g.curBet)
    BY DEF BidInv
  <2>2. PICK i \in DOMAIN bids :
          /\ bids[i] = <<l, g.curBet>>
          /\ g.curBet > 0
          /\ \A j \in DOMAIN bids : bids[j][2] <= g.curBet
          /\ \A j \in 1..(i - 1) : bids[j][2] < g.curBet
    BY <2>1 DEF FirstHighest
  <2>3. bids[i][1] = l /\ bids[i][2] = g.curBet
    BY <2>2
  <2> QED
    BY <2>1, <2>2, <2>3
<1> QED
  BY <1>1, <1>2, <1>3, PTL DEF Spec

-----------------------------------------------------------------------------
(* Where the cards are *)

HandsApart(t) == \A p, q \in Seats : p # q => t.hand[p] \cap t.hand[q] = {}

\* No player holds a card of S.
Unheld(t, S) == \A p \in Seats : t.hand[p] \cap S = {}

\* The hands are apart, from the cards to be dealt and those for the lord, and, once
\* hands are shown, from the cards a robot has taken and from the table, but for
\* cards selected before the deal; what is selected is one of these or in the hand.
CardInv ==
  /\ HandsApart(g)
  /\ g.status = "DispatchCard" \/ Bidding => Unheld(g, g.deck)
  /\ Unheld(g, (g.pendHand \ kept) \cup InFlight)
  /\ g.status # "PlayingHand" => g.pendHand = {}

SelectedInv == selected \subseteq kept \cup g.hand[User]

\* What is selected comes from the hand, or is what the deal before found selected.
LEMMA NextSelectedInv ==
  ASSUME ~Restless, ScoreInv, SelectedInv, [Next]_vars
  PROVE  SelectedInv'
<1>1. TypeOK /\ g \in Tables /\ BetHasBidder(g) /\ User \in Seats /\ (HandBegun => OneLord(g))
  BY DEF ScoreInv, TypeOK, User, Seats
<1>2. ASSUME NEW t, DispatchFrom(t), selected' = selected
      PROVE  SelectedInv'
  BY <1>2 DEF DispatchFrom, SelectedInv
<1>3. ASSUME g.hand[User] \subseteq g'.hand[User], UNCHANGED <<selected, kept>>
      PROVE  SelectedInv'
  BY <1>3 DEF SelectedInv
<1>4. ASSUME NEW p \in Seats, NEW b \in 0..3, OnBet(p, b)
      PROVE  SelectedInv'
  <2>1. selected' = selected
    BY <1>4 DEF OnBet
  <2>2. CASE Redeals(g, b)
    BY <1>2, <1>4, <2>1, <2>2 DEF OnBet
  <2>3. CASE ~Redeals(g, b)
    <3>1. g' = AfterBet(g, p, b) /\ kept' = kept
      BY <1>4, <2>3 DEF OnBet
    <3>2. g.hand[User] \subseteq g'.hand[User]
      BY <1>1, <3>1, AfterBetFacts
    <3> QED
      BY <1>3, <2>1, <3>1, <3>2
  <2> QED
    BY <2>2, <2>3
<1>5. CASE Start \/ Continue
  BY <1>2, <1>5 DEF Start, Continue
<1>6. CASE UserBids
  BY <1>1, <1>4, <1>6, GameControlAssumption DEF UserBids
<1>7. CASE ClickCard
  BY <1>7 DEF ClickCard, Clickable, SelectedInv
<1>8. CASE UserPlays \/ UserPasses
  BY <1>8 DEF UserPlays, UserPasses, SelectedInv
<1>9. CASE DealCard
  <2>1. PICK c \in g.deck : g' = DealOne(g, c)
    BY <1>9 DEF DealCard
  <2>2. g.hand[User] \subseteq g'.hand[User]
    BY <1>1, <2>1 DEF DealOne, Tables
  <2> QED
    BY <1>3, <1>9, <2>2 DEF DealCard
<1>10. CASE RobotPlays
  <2>1. PICK i \in DOMAIN tasks :
          /\ \E h \in StrategyOf(tasks[i].seat) : g' = TakeFromHand(g, tasks[i].seat, h)
          /\ UNCHANGED <<selected, kept>>
    BY <1>10 DEF RobotPlays
  <2>2. tasks[i].seat # User
    <3>1. tasks[i] \in Tasks
      BY <1>1 DEF TypeOK
    <3> QED
      BY <3>1 DEF Tasks, Robots
  <2>3. g'.hand[User] = g.hand[User]
    BY <1>1, <2>1, <2>2 DEF TakeFromHand, Tables
  <2> QED
    BY <1>3, <2>1, <2>3
<1>11. CASE OnSignal
  <2> DEFINE s == Head(signals)
  <2>1. s \in Signals /\ s = signals[1] /\ 1 \in DOMAIN signals
    <3>1. signals \in Seq(Signals) /\ signals # <<>>
      BY <1>1, <1>11 DEF OnSignal, TypeOK
    <3> QED
      BY <3>1, HeadTailProperties, LenProperties
  <2>2. CASE s.kind = "Bet"
    <3>1. OnBet(s.seat, s.bet)
      BY <1>11, <2>2 DEF OnSignal
    <3>2. s.seat \in Seats /\ s.bet \in 0..3
      BY <2>1, <2>2 DEF Signals, Robots
    <3> QED
      BY <1>4, <3>1, <3>2
  <2>3. CASE s.kind # "Bet"
    <3>1. g' = AfterHand(g, s.seat, s.hand) /\ UNCHANGED <<selected, kept>>
      BY <1>11, <2>3 DEF OnSignal, OnHand
    <3>2. s.seat \in Seats /\ s.hand \in SUBSET Deck /\ s.kind = "Play"
      BY <2>1, <2>3 DEF Signals, Robots
    <3>3. OneLord(g)
      BY <1>1, <2>1, <3>2 DEF HandBegun
    <3> HIDE DEF s
    <3>4. g'.hand = g.hand
      BY <1>1, <3>1, <3>2, <3>3, AfterHandFacts
    <3> QED
      BY <1>3, <3>1, <3>4
  <2> QED
    BY <2>2, <2>3
<1>12. CASE LordStarts
  <2>1. g'.hand = g.hand /\ UNCHANGED <<selected, kept>>
    BY <1>1, <1>12 DEF LordStarts, Tables
  <2> QED
    BY <1>3, <2>1
<1>13. CASE RobotBids \/ Rest \/ UNCHANGED vars
  BY <1>3, <1>13 DEF RobotBids, Rest, vars
<1> QED
  BY <1>5, <1>6, <1>7, <1>8, <1>9, <1>10, <1>11, <1>12, <1>13 DEF Next

\* Only a deal takes note of what is selected, and clears the table.
LEMMA KeptSteps ==
  ASSUME ScoreInv, [Next]_vars
  PROVE  kept' = kept \/ g'.pendHand = {}
<1>1. ASSUME NEW t, t \in Tables, DispatchFrom(t)
      PROVE  g'.pendHand = {}
  BY <1>1 DEF DispatchFrom, Dispatch, Tables
<1>2. TypeOK /\ g \in Tables /\ BetHasBidder(g) /\ User \in Seats
  BY DEF ScoreInv, TypeOK, User, Seats
<1>3. ASSUME NEW p \in Seats, NEW b \in 0..3, OnBet(p, b)
      PROVE  kept' = kept \/ g'.pendHand = {}
  <2>1. CASE Redeals(g, b)
    BY <1>1, <1>2, <1>3, <2>1, AfterBetFacts DEF OnBet
  <2>2. CASE ~Redeals(g, b)
    BY <1>3, <2>2 DEF OnBet
  <2> QED
    BY <2>1, <2>2
<1>4. CASE Start
  <2>1. PICK p \in Seats : DispatchFrom([g EXCEPT !.cur = p])
    BY <1>4 DEF Start
  <2>2. [g EXCEPT !.cur = p] \in Tables
    BY <1>2, Zenon DEF Tables
  <2> QED
    BY <1>1, <2>1, <2>2
<1>5. CASE Continue
  BY <1>1, <1>2, <1>5 DEF Continue
<1>6. CASE UserBids
  BY <1>2, <1>3, <1>6, GameControlAssumption DEF UserBids
<1>7. CASE OnSignal
  <2>1. signals \in Seq(Signals) /\ signals # <<>>
    BY <1>2, <1>7 DEF OnSignal, TypeOK
  <2>2. Head(signals) \in Signals
    BY <2>1, HeadTailProperties
  <2>3. CASE Head(signals).kind = "Bet"
    <3>1. Head(signals).seat \in Seats /\ Head(signals).bet \in 0..3
      BY <2>2, <2>3 DEF Signals, Robots
    <3> QED
      BY <1>3, <1>7, <2>3, <3>1 DEF OnSignal
  <2>4. CASE Head(signals).kind # "Bet"
    BY <1>7, <2>4 DEF OnSignal, OnHand
  <2> QED
    BY <2>3, <2>4
<1>8. CASE \/ ClickCard \/ UserPlays \/ UserPasses \/ Rest \/ DealCard \/ RobotBids
           \/ RobotPlays \/ LordStarts \/ UNCHANGED vars
  <2>1. ClickCard \/ RobotBids \/ RobotPlays \/ LordStarts \/ DealCard => kept' = kept
    BY DEF ClickCard, RobotBids, RobotPlays, LordStarts, DealCard
  <2>2. UserPlays \/ UserPasses => kept' = kept
    BY DEF UserPlays, UserPasses, OnHand
  <2>3. Rest \/ UNCHANGED vars => kept' = kept
    BY DEF Rest, vars
  <2> QED
    BY <1>8, <2>1, <2>2, <2>3
<1> QED
  BY <1>4, <1>5, <1>6, <1>7, <1>8 DEF Next

\* No signal carries no cards, and one signal carries its hand.
LEMMA InFlightFacts ==
  /\ signals = <<>> => InFlight = {}
  /\ \A s \in Signals : signals = <<s>> => InFlight = IF s.kind = "Play" THEN s.hand ELSE {}
<1>1. ASSUME signals = <<>>
      PROVE  InFlight = {}
  BY <1>1 DEF InFlight
<1>2. ASSUME NEW s \in Signals, signals = <<s>>
      PROVE  InFlight = IF s.kind = "Play" THEN s.hand ELSE {}
  <2>1. DOMAIN signals = {1} /\ signals[1] = s
    BY <1>2
  <2>2. CASE s.kind = "Play"
    <3>1. { signals[i].hand : i \in { j \in DOMAIN signals : signals[j].kind = "Play" } } = {s.hand}
      BY <2>1, <2>2
    <3> QED
      BY <2>2, <3>1 DEF InFlight
  <2>3. CASE s.kind # "Play"
    <3>1. { signals[i].hand : i \in { j \in DOMAIN signals : signals[j].kind = "Play" } } = {}
      BY <2>1, <2>3
    <3> QED
      BY <2>3, <3>1 DEF InFlight
  <2> QED
    BY <2>2, <2>3
<1> QED
  BY <1>1, <1>2

\* The signals after a step carry what they say.
LEMMA InFlightNext ==
  /\ signals' = <<>> => InFlight' = {}
  /\ \A s \in Signals : signals' = <<s>> => InFlight' = IF s.kind = "Play" THEN s.hand ELSE {}
<1>1. ASSUME signals' = <<>>
      PROVE  InFlight' = {}
  BY <1>1 DEF InFlight
<1>2. ASSUME NEW s \in Signals, signals' = <<s>>
      PROVE  InFlight' = IF s.kind = "Play" THEN s.hand ELSE {}
  <2>1. DOMAIN signals' = {1} /\ signals'[1] = s
    BY <1>2
  <2>2. CASE s.kind = "Play"
    <3>1. { signals'[i].hand : i \in { j \in DOMAIN signals' : signals'[j].kind = "Play" } } = {s.hand}
      BY <2>1, <2>2
    <3> QED
      BY <2>2, <3>1 DEF InFlight
  <2>3. CASE s.kind # "Play"
    <3>1. { signals'[i].hand : i \in { j \in DOMAIN signals' : signals'[j].kind = "Play" } } = {}
      BY <2>1, <2>3
    <3> QED
      BY <2>3, <3>1 DEF InFlight
  <2> QED
    BY <2>2, <2>3
<1> QED
  BY <1>1, <1>2

\* A dealt card is in one place.
LEMMA DealOneCards ==
  ASSUME NEW t \in Tables, NEW c \in t.deck, HandsApart(t), Unheld(t, t.deck)
  PROVE  HandsApart(DealOne(t, c)) /\ Unheld(DealOne(t, c), DealOne(t, c).deck)
<1> DEFINE d == DealOne(t, c)
<1>1. /\ d.deck = t.deck \ {c}
      /\ \A p \in Seats : d.hand[p] = IF p = t.cur THEN t.hand[p] \cup {c} ELSE t.hand[p]
  BY DEF DealOne, Tables
<1>2. \A p \in Seats : c \notin t.hand[p]
  BY DEF Unheld
<1> HIDE DEF d
<1>3. HandsApart(d)
  <2> SUFFICES ASSUME NEW p \in Seats, NEW q \in Seats, p # q
               PROVE  d.hand[p] \cap d.hand[q] = {}
    BY DEF HandsApart
  <2>1. t.hand[p] \cap t.hand[q] = {}
    BY DEF HandsApart
  <2> QED
    BY <1>1, <1>2, <2>1
<1>4. Unheld(d, d.deck)
  BY <1>1 DEF Unheld
<1> QED
  BY <1>3, <1>4 DEF d

\* The lord's three cards are nobody else's.
LEMMA AfterBetCards ==
  ASSUME NEW t \in Tables, BetHasBidder(t), HandsApart(t), Unheld(t, t.deck),
         NEW p \in Seats, NEW b \in 0..3
  PROVE  LET r == AfterBet(t, p, b)
         IN  /\ HandsApart(r) /\ r.pendHand = t.pendHand
             /\ ~EndsBidding(t, b) => Unheld(r, r.deck)
<1> DEFINE r == Recorded(t, p, b)
           a == AfterBet(t, p, b)
<1>1. /\ r \in Tables /\ BetHasBidder(r) /\ r.hand = t.hand /\ r.deck = t.deck
      /\ r.pendHand = t.pendHand
  BY DEF Recorded, Tables, BetHasBidder
<1>2. ASSUME NEW u \in Tables, u.hand = t.hand, u.deck = t.deck, u.pendHand = t.pendHand,
             NEW l \in Seats, NEW c \in 0..3
      PROVE  HandsApart(BecomeLord(u, l, c)) /\ BecomeLord(u, l, c).pendHand = t.pendHand
  <2> DEFINE v == BecomeLord(u, l, c)
  <2>1. \A q \in Seats : v.hand[q] = IF q = l THEN t.hand[q] \cup t.deck ELSE t.hand[q]
    BY <1>2 DEF BecomeLord, Tables
  <2>2. v.pendHand = t.pendHand
    BY <1>2 DEF BecomeLord, Tables
  <2> HIDE DEF v
  <2>3. HandsApart(v)
    BY <2>1 DEF HandsApart, Unheld
  <2> QED
    BY <2>2, <2>3 DEF v
<1> HIDE DEF r
<1>3. CASE b = 3
  <2>1. a = BecomeLord(t, p, 3) /\ EndsBidding(t, b)
    BY <1>3 DEF AfterBet, EndsBidding
  <2> HIDE DEF a
  <2> QED
    BY <1>2, <2>1 DEF a
<1>4. CASE b # 3 /\ ~Redeals(t, b) /\ t.times = 2
  <2>1. a = BecomeLord(r, r.betBy, r.bet) /\ EndsBidding(t, b)
    BY <1>4 DEF AfterBet, EndsBidding, r
  <2>2. r.bet > 0 /\ r.bet \in 0..3
    BY <1>4 DEF Redeals, Recorded, r, Tables
  <2>3. r.betBy \in Seats
    BY <1>1, <2>2 DEF BetHasBidder
  <2> HIDE DEF a
  <2> QED
    BY <1>1, <1>2, <2>1, <2>2, <2>3 DEF a
<1>5. CASE Redeals(t, b) \/ (b # 3 /\ t.times # 2)
  <2>1. a.hand = t.hand /\ a.deck = t.deck /\ a.pendHand = t.pendHand
    BY <1>1, <1>5 DEF AfterBet, Redeals, r, Tables
  <2> HIDE DEF a
  <2>2. HandsApart(a) /\ Unheld(a, a.deck)
    BY <2>1 DEF HandsApart, Unheld
  <2> QED
    BY <2>1, <2>2 DEF a
<1> QED
  BY <1>3, <1>4, <1>5

\* Every step leaves each card in one place.
LEMMA NextCardInv ==
  ASSUME ~Restless, ScoreInv, MoveInv, CardInv, SelectedInv, [Next]_vars
  PROVE  CardInv'
<1>1. g \in Tables /\ BetHasBidder(g) /\ User \in Seats /\ Robots \subseteq Seats
  BY DEF ScoreInv, TypeOK, User, Seats, Robots
<1>2. HandsApart(g) /\ Unheld(g, (g.pendHand \ kept) \cup InFlight)
  BY DEF CardInv
<1>2a. ASSUME Unheld(g', (g'.pendHand \ kept) \cup InFlight')
      PROVE  Unheld(g', (g'.pendHand \ kept') \cup InFlight')
  <2>1. kept' = kept \/ g'.pendHand = {}
    BY KeptSteps
  <2> QED
    BY <1>2a, <2>1 DEF Unheld
<1>3. CASE FreshDeal
  <2>1. /\ g'.hand = [p \in Seats |-> {}] /\ g'.pendHand = {}
    BY <1>3 DEF FreshDeal, Dispatch, Tables
  <2>2. \A p \in Seats : g'.hand[p] = {}
    BY <2>1
  <2> QED
    BY <2>1, <2>2 DEF CardInv, HandsApart, Unheld
<1>4. CASE CardDealt
  <2>1. PICK c \in g.deck : g' = DealOne(g, c)
    BY <1>4 DEF CardDealt
  <2>2. g.status = "DispatchCard" /\ signals' = <<>>
    BY <1>4 DEF CardDealt
  <2>3. HandsApart(g') /\ Unheld(g', g'.deck)
    BY <1>1, <1>2, <2>1, <2>2, DealOneCards DEF CardInv
  <2>4. g'.pendHand = {} /\ InFlight' = {}
    <3>1. g'.pendHand = g.pendHand
      BY <1>1, <2>1 DEF DealOne, Tables
    <3> QED
      BY <2>2, <3>1, InFlightNext DEF CardInv
  <2> QED
    BY <2>3, <2>4 DEF CardInv, Unheld
<1>5. CASE LordIsAsked
  <2>1. /\ g'.hand = g.hand /\ g'.pendHand = g.pendHand /\ g'.status = "PlayingHand"
        /\ g.pendHand = {} /\ InFlight' = {}
    BY <1>1, <1>5, InFlightNext DEF LordIsAsked, CardInv, Tables
  <2>2. Unheld(g', (g'.pendHand \ kept') \cup InFlight')
    BY <2>1 DEF Unheld
  <2> QED
    BY <1>2, <2>1, <2>2 DEF CardInv, HandsApart, Bidding
<1>6. CASE Nothing
  <2>1. InFlight' = InFlight \/ InFlight' = {}
    <3>1. CASE signals' = signals
      BY <3>1 DEF InFlight
    <3>2. CASE signals' # signals
      <4>1. PICK s \in Signals : s.kind = "Bet" /\ signals' = <<s>>
        BY <1>6, <3>2 DEF Nothing
      <4> QED
        BY <4>1, InFlightNext
    <3> QED
      BY <3>1, <3>2
  <2>2. g' = g /\ lordDue' = lordDue
    BY <1>6 DEF Nothing
  <2>3. Unheld(g', (g'.pendHand \ kept') \cup InFlight')
    BY <1>2a, <1>2, <2>1, <2>2 DEF Unheld
  <2> QED
    BY <2>2, <2>3 DEF CardInv, Bidding
<1>7. ASSUME NEW p \in Seats, NEW b \in 0..3, BidMade(p, b)
      PROVE  CardInv'
  <2> DEFINE r == AfterBet(g, p, b)
  <2>1. /\ g.status = "CallingLord" /\ ~lordDue /\ signals' = <<>> /\ OnBet(p, b)
        /\ Unheld(g, g.deck) /\ g.pendHand = {}
    BY <1>7 DEF BidMade, CardInv, Bidding
  <2>2. /\ HandsApart(r) /\ r.pendHand = {}
        /\ ~EndsBidding(g, b) => Unheld(r, r.deck)
    BY <1>1, <1>2, <2>1, AfterBetCards
  <2>3. r \in Tables /\ r.status = "CallingLord"
    BY <1>1, <2>1, AfterBetFacts
  <2>4. /\ g' = IF Redeals(g, b) THEN Dispatch(r) ELSE r
        /\ lordDue' = IF EndsBidding(g, b) /\ ~Redeals(g, b) THEN TRUE ELSE lordDue
        /\ InFlight' = {}
    BY <2>1, OnBetTable, InFlightNext
  <2> HIDE DEF r
  <2>5. CASE Redeals(g, b)
    <3>1. g'.hand = [q \in Seats |-> {}] /\ g'.pendHand = {}
      BY <2>3, <2>4, <2>5 DEF Dispatch, Tables
    <3>2. \A q \in Seats : g'.hand[q] = {}
      BY <3>1
    <3> QED
      BY <3>1, <3>2 DEF CardInv, HandsApart, Unheld
  <2>6. CASE ~Redeals(g, b)
    <3>1. Unheld(g', (g'.pendHand \ kept') \cup InFlight')
      BY <2>2, <2>4, <2>6 DEF Unheld
    <3> QED
      BY <2>2, <2>3, <2>4, <2>6, <3>1 DEF CardInv, Bidding
  <2> QED
    BY <2>5, <2>6
<1>8. ASSUME NEW t \in Tables, NEW p \in Seats, NEW h \in SUBSET Deck, OneLord(t),
             g' = AfterHand(t, p, h), t.status = "PlayingHand", HandsApart(t),
             Unheld(t, (h \cup t.pendHand) \ kept), signals' = <<>>
      PROVE  CardInv'
  <2>1. /\ g'.status = "PlayingHand" /\ g'.hand = t.hand
        /\ h # {} => g'.pendHand = h
        /\ h = {} => g'.pendHand = t.pendHand
    BY <1>8, AfterHandFacts
  <2>2. InFlight' = {}
    BY <1>8, InFlightNext
  <2>3. Unheld(g', (g'.pendHand \ kept') \cup InFlight')
    BY <1>2a, <1>8, <2>1, <2>2 DEF Unheld
  <2> QED
    BY <1>8, <2>1, <2>3 DEF CardInv, Bidding, HandsApart
<1>9. g.status = "PlayingHand" => OneLord(g)
  BY DEF ScoreInv, HandBegun
<1>10. ASSUME NEW p \in Seats, NEW h \in SUBSET Deck
       PROVE  LET t == TakeFromHand(g, p, h)
              IN  /\ t \in Tables
                  /\ t.status = g.status /\ t.role = g.role /\ t.pendHand = g.pendHand
                  /\ HandsApart(t)
                  /\ Unheld(t, ((h \cap g.hand[p]) \cup g.pendHand) \ kept)
                  /\ Unheld(t, h \cap g.hand[p])
  <2> DEFINE t == TakeFromHand(g, p, h)
  <2>2. t \in Tables
    BY <1>1, TakeFromHandFacts
  <2>3. /\ t.status = g.status /\ t.role = g.role /\ t.pendHand = g.pendHand
        /\ \A q \in Seats : t.hand[q] = IF q = p THEN g.hand[q] \ h ELSE g.hand[q]
    BY <1>1 DEF TakeFromHand, Tables
  <2> HIDE DEF t
  <2>4. HandsApart(t)
    BY <1>2, <2>3 DEF HandsApart
  <2>5. Unheld(t, h \cap g.hand[p])
    BY <1>2, <2>3 DEF HandsApart, Unheld
  <2>6. Unheld(t, g.pendHand \ kept)
    BY <1>2, <2>3 DEF Unheld
  <2>7. Unheld(t, ((h \cap g.hand[p]) \cup g.pendHand) \ kept)
    BY <2>5, <2>6 DEF Unheld
  <2> QED
    BY <2>2, <2>3, <2>4, <2>5, <2>7 DEF t
<1>11. ASSUME NEW h \in SUBSET Deck, UserShows(h)
       PROVE  CardInv'
  <2> DEFINE t == TakeFromHand(g, User, h)
  <2>1. /\ g.status = "PlayingHand" /\ h \in SUBSET (g.hand[User] \cup selected)
        /\ signals' = <<>> /\ g' = AfterHand(t, User, h)
    BY <1>11 DEF UserShows
  <2>2. /\ t \in Tables /\ t.status = g.status /\ t.role = g.role /\ t.pendHand = g.pendHand
        /\ HandsApart(t) /\ Unheld(t, ((h \cap g.hand[User]) \cup g.pendHand) \ kept)
    BY <1>1, <1>10
  <2> HIDE DEF t
  <2>3. OneLord(t)
    BY <1>9, <2>1, <2>2 DEF OneLord
  <2>4. h \subseteq kept \cup g.hand[User]
    BY <2>1 DEF SelectedInv
  <2>5. Unheld(t, (h \cup t.pendHand) \ kept)
    BY <2>2, <2>4 DEF Unheld
  <2> QED
    BY <1>1, <1>8, <2>1, <2>2, <2>3, <2>5
<1>12. ASSUME NEW p \in Robots, NEW h \in SUBSET Deck, RobotShows(p, h)
       PROVE  CardInv'
  <2> DEFINE s == [seat |-> p, kind |-> "Play", hand |-> h]
  <2>1. s \in Signals /\ s.kind = "Play" /\ s.hand = h
    BY DEF Signals
  <2>2. /\ g.status = "PlayingHand" /\ signals = <<s>> /\ signals' = <<>>
        /\ g' = AfterHand(g, p, h)
    BY <1>12 DEF RobotShows
  <2> HIDE DEF s
  <2>3. InFlight = h
    BY <2>1, <2>2, InFlightFacts
  <2>4. Unheld(g, (h \cup g.pendHand) \ kept)
    BY <1>2, <2>3 DEF Unheld
  <2> QED
    BY <1>1, <1>2, <1>8, <1>9, <2>2, <2>4
<1>13. ASSUME NEW p \in Robots, NEW h \in SUBSET Deck, RobotTakes(p, h)
       PROVE  CardInv'
  <2> DEFINE s == [seat |-> p, kind |-> "Play", hand |-> h]
             t == TakeFromHand(g, p, h)
  <2>1. s \in Signals /\ s.kind = "Play" /\ s.hand = h
    BY DEF Signals
  <2>2. /\ g.status = "PlayingHand" /\ signals' = <<s>> /\ g' = t
        /\ h \in SUBSET g.hand[p]
    BY <1>13 DEF RobotTakes, StrategyOf, Leads
  <2>3. /\ t \in Tables /\ t.status = g.status /\ t.role = g.role /\ t.pendHand = g.pendHand
        /\ HandsApart(t) /\ Unheld(t, g.pendHand \ kept) /\ Unheld(t, h)
    <3>1. h \cap g.hand[p] = h
      BY <2>2
    <3>2. /\ t \in Tables /\ t.status = g.status /\ t.role = g.role /\ t.pendHand = g.pendHand
          /\ HandsApart(t) /\ Unheld(t, ((h \cap g.hand[p]) \cup g.pendHand) \ kept)
          /\ Unheld(t, h \cap g.hand[p])
      BY <1>1, <1>10
    <3> HIDE DEF t
    <3> QED
      BY <3>1, <3>2 DEF Unheld
  <2> HIDE DEF s, t
  <2>4. InFlight' = h
    BY <2>1, <2>2, InFlightNext
  <2>5. Unheld(g', (g'.pendHand \ kept') \cup InFlight')
    BY <1>2a, <2>2, <2>3, <2>4 DEF Unheld
  <2> QED
    BY <2>2, <2>3, <2>5 DEF CardInv, Bidding
<1> QED
  BY <1>3, <1>4, <1>5, <1>6, <1>7, <1>11, <1>12, <1>13, Moves

\* No card is in two places, though robots take cards from their hands in threads of
\* their own: two hands, a hand and the cards to be dealt, or a hand and what has been
\* shown or is on its way (playHand, onPlayHand), but for a card that was selected
\* before it was dealt to another (onCardSelected, startDispatchCard). For every deck and
\* selection, if the user clicks no cards on the table.
THEOREM CardsStayApart ==
  ASSUME ~Restless
  PROVE  Spec => []CardsApart
<1>1. Init => ScoreInv /\ MoveInv /\ CardInv /\ SelectedInv
  <2>1. ASSUME Init
        PROVE  CardInv /\ SelectedInv
    <3>1. g.pendHand = {} /\ selected = {} /\ \A p \in Seats : g.hand[p] = {}
      BY <2>1 DEF Init
    <3> QED
      BY <3>1 DEF CardInv, HandsApart, Unheld, SelectedInv
  <2> QED
    BY <2>1, InitScoreInv, InitMoveInv
<1>2. ScoreInv /\ MoveInv /\ CardInv /\ SelectedInv /\ [Next]_vars =>
        (ScoreInv /\ MoveInv /\ CardInv /\ SelectedInv)'
  BY NextScoreInv, NextMoveInv, NextCardInv, NextSelectedInv
<1>3. CardInv => CardsApart
  BY DEF CardInv, CardsApart, HandsApart, Unheld
<1> QED
  BY <1>1, <1>2, <1>3, PTL DEF Spec

-----------------------------------------------------------------------------
(* What takes the table *)

\* A robot's hand on its way beats what is on the table, unless it passes or leads.
ChoiceInv ==
  \A i \in DOMAIN signals :
    signals[i].kind = "Play" =>
      \/ signals[i].hand = {}
      \/ g.pend \in {signals[i].seat, Nobody}
      \/ Greater(signals[i].hand, Judge[g.pendHand])

\* Every step keeps it: the table does not change while a hand is on its way.
LEMMA NextChoiceInv ==
  ASSUME ~Restless, ScoreInv, MoveInv, ChoiceInv, [Next]_vars
  PROVE  ChoiceInv'
<1>1. g \in Tables /\ User \in Seats
  BY DEF ScoreInv, TypeOK, User, Seats
<1>2. CASE signals' = <<>>
  BY <1>2 DEF ChoiceInv
<1>3. CASE Nothing
  <2>1. CASE signals' = signals
    BY <1>3, <2>1 DEF Nothing, ChoiceInv
  <2>2. CASE signals' # signals
    <3>1. PICK s \in Signals : s.kind = "Bet" /\ signals' = <<s>>
      BY <1>3, <2>2 DEF Nothing
    <3>2. DOMAIN signals' = {1} /\ signals'[1] = s
      BY <3>1
    <3> QED
      BY <3>1, <3>2 DEF ChoiceInv
  <2> QED
    BY <2>1, <2>2
<1>4. ASSUME NEW p \in Robots, NEW h \in SUBSET Deck, RobotTakes(p, h)
      PROVE  ChoiceInv'
  <2> DEFINE s == [seat |-> p, kind |-> "Play", hand |-> h]
  <2>1. /\ g' = TakeFromHand(g, p, h) /\ h \in StrategyOf(p) /\ signals' = <<s>>
    BY <1>4 DEF RobotTakes
  <2>2. g'.pend = g.pend /\ g'.pendHand = g.pendHand
    BY <1>1, <2>1 DEF TakeFromHand, Tables
  <2>3. h = {} \/ g.pend \in {p, Nobody} \/ Greater(h, Judge[g.pendHand])
    BY <2>1 DEF StrategyOf
  <2>4. DOMAIN signals' = {1} /\ signals'[1] = s /\ s.hand = h /\ s.seat = p
    BY <2>1
  <2> QED
    BY <2>2, <2>3, <2>4 DEF ChoiceInv
<1>5. FreshDeal \/ CardDealt \/ LordIsAsked => signals' = <<>>
  BY DEF FreshDeal, CardDealt, LordIsAsked
<1>6. \A p, b, h : BidMade(p, b) \/ UserShows(h) \/ RobotShows(p, h) => signals' = <<>>
  BY DEF BidMade, UserShows, RobotShows
<1> QED
  BY <1>2, <1>3, <1>4, <1>5, <1>6, Moves

\* The hand that takes the table beats the one that lay there.
LEMMA TakingStep ==
  ASSUME ~Restless, ScoreInv, MoveInv, ChoiceInv, [Next]_vars,
         g'.pend # g.pend, g.pend # Nobody, g'.pend # Nobody
  PROVE  Greater(g'.pendHand, Judge[g.pendHand])
<1>1. g \in Tables /\ BetHasBidder(g) /\ User \in Seats /\ Robots \subseteq Seats
  BY DEF ScoreInv, TypeOK, User, Seats, Robots
<1>2. g.status = "PlayingHand" => OneLord(g)
  BY DEF ScoreInv, HandBegun
<1>3. ~FreshDeal
  BY DEF FreshDeal, Dispatch, Tables
<1>4. ~CardDealt /\ ~LordIsAsked /\ ~Nothing
  BY <1>1 DEF CardDealt, DealOne, LordIsAsked, Nothing, Tables
<1>5. ASSUME NEW p \in Seats, NEW b \in 0..3, BidMade(p, b)
      PROVE  FALSE
  <2>1. g' = IF Redeals(g, b) THEN Dispatch(AfterBet(g, p, b)) ELSE AfterBet(g, p, b)
    BY <1>5, OnBetTable DEF BidMade
  <2>2. AfterBet(g, p, b) \in Tables
    BY <1>1, AfterBetFacts
  <2>3. ~Redeals(g, b)
    BY <2>1, <2>2 DEF Dispatch, Tables
  <2>4. AfterBet(g, p, b).pend = g.pend
    BY <1>1 DEF AfterBet, Recorded, BecomeLord, Tables
  <2> QED
    BY <2>1, <2>3, <2>4
<1>6. ASSUME NEW p \in Robots, NEW h \in SUBSET Deck, RobotTakes(p, h)
      PROVE  FALSE
  BY <1>1, <1>6 DEF RobotTakes, TakeFromHand, Tables
<1>7. ASSUME NEW h \in SUBSET Deck, UserShows(h)
      PROVE  Greater(g'.pendHand, Judge[g.pendHand])
  <2> DEFINE t == TakeFromHand(g, User, h)
  <2>1. t \in Tables
    BY <1>1, TakeFromHandFacts
  <2>2. t.pend = g.pend /\ t.role = g.role
    BY <1>1 DEF TakeFromHand, Tables
  <2>3. OneLord(t)
    BY <1>2, <1>7, <2>2 DEF OneLord, UserShows
  <2>4. g' = AfterHand(t, User, h)
    BY <1>7 DEF UserShows
  <2> HIDE DEF t
  <2>5. /\ h # {} => g'.pend = User /\ g'.pendHand = h
        /\ h = {} => g'.pend = t.pend
    BY <1>1, <2>1, <2>3, <2>4, AfterHandFacts
  <2>6. CanBeat(Judge[h], Judge[g.pendHand])
    BY <1>7, <2>2, <2>5 DEF UserShows
  <2> QED
    BY <2>2, <2>5, <2>6 DEF Greater
<1>8. ASSUME NEW p \in Robots, NEW h \in SUBSET Deck, RobotShows(p, h)
      PROVE  Greater(g'.pendHand, Judge[g.pendHand])
  <2> DEFINE s == [seat |-> p, kind |-> "Play", hand |-> h]
  <2>1. /\ signals = <<s>> /\ g' = AfterHand(g, p, h) /\ OneLord(g)
    BY <1>2, <1>8 DEF RobotShows
  <2>2. /\ h # {} => g'.pend = p /\ g'.pendHand = h
        /\ h = {} => g'.pend = g.pend
    BY <1>1, <2>1, AfterHandFacts
  <2>3. 1 \in DOMAIN signals /\ signals[1].kind = "Play" /\ signals[1].seat = p
        /\ signals[1].hand = h
    BY <2>1
  <2> HIDE DEF s
  <2>4. h = {} \/ g.pend \in {p, Nobody} \/ Greater(h, Judge[g.pendHand])
    BY <2>3 DEF ChoiceInv
  <2> QED
    BY <2>2, <2>4
<1> QED
  BY <1>3, <1>4, <1>5, <1>6, <1>7, <1>8, Moves

\* Who takes the table from another does it with a hand that beats the one lying there
\* at that moment, though a robot chose it earlier in another thread, for every deck, if
\* the user clicks no cards on the table.
THEOREM TakenByBeating ==
  ASSUME ~Restless
  PROVE  Spec => TakenOnlyByBeating
<1>1. Init => ScoreInv /\ MoveInv /\ ChoiceInv
  <2>1. Init => ChoiceInv
    BY DEF Init, ChoiceInv
  <2> QED
    BY <2>1, InitScoreInv, InitMoveInv
<1>2. ScoreInv /\ MoveInv /\ ChoiceInv /\ [Next]_vars => (ScoreInv /\ MoveInv /\ ChoiceInv)'
  BY NextScoreInv, NextMoveInv, NextChoiceInv
<1>3. ScoreInv /\ MoveInv /\ ChoiceInv /\ [Next]_vars =>
        [ g'.pend # g.pend /\ g.pend # Nobody /\ g'.pend # Nobody =>
            Greater(g'.pendHand, Judge[g.pendHand]) ]_vars
  BY TakingStep
<1> QED
  BY <1>1, <1>2, <1>3, PTL DEF Spec, TakenOnlyByBeating

-----------------------------------------------------------------------------
(* Nobody is asked without cards, if the user clicks no cards on the table  *)

\* How many players are dealt to before player p is.
TurnsTo(t, p) == IF p >= t.cur THEN p - t.cur ELSE p - t.cur + 3

\* Player p has cards or gets one before the dealing ends.
CardComes(t, p) ==
  t.hand[p] = {} => Cardinality(Deck) - Cardinality(t.deck) + TurnsTo(t, p) <= 2

\* Only a robot whose last cards are on their way has none left, and on the table lie
\* cards.
HoldInv ==
  /\ g.status = "DispatchCard" /\ g.deck # {} => \A p \in Seats : CardComes(g, p)
  /\ g.status = "CallingLord" => \A p \in Seats : g.hand[p] # {}
  /\ g.status = "PlayingHand" /\ ~Over =>
       \A p \in Seats : g.hand[p] = {} =>
         \E i \in DOMAIN signals : signals[i].kind = "Play" /\ signals[i].seat = p
  /\ g.pend # Nobody => g.pendHand # {}

\* A fresh deal has a card for everybody.
LEMMA DispatchHolds ==
  ASSUME NEW t \in Tables
  PROVE  LET r == Dispatch(t)
         IN  /\ r.status = "DispatchCard" /\ r.pend = Nobody
             /\ \A p \in Seats : CardComes(r, p)
<1> DEFINE r == Dispatch(t)
<1>1. /\ r.status = "DispatchCard" /\ r.pend = Nobody /\ r.deck = Deck
      /\ r.cur \in Seats
  BY DEF Dispatch, Tables
<1>2. Cardinality(Deck) \in Nat
  BY TableAssumption, FS_CardinalityType
<1>3. \A p \in Seats : TurnsTo(r, p) <= 2 /\ TurnsTo(r, p) \in Nat
  <2> HIDE DEF r
  <2> QED
    BY <1>1 DEF TurnsTo, Seats
<1> HIDE DEF r
<1>4. \A p \in Seats : CardComes(r, p)
  BY <1>1, <1>2, <1>3 DEF CardComes
<1> QED
  BY <1>1, <1>4 DEF r

\* A dealt card keeps that promise, and with the last one it is fulfilled.
LEMMA DealOneHolds ==
  ASSUME NEW t \in Tables, NEW c \in t.deck, \A p \in Seats : CardComes(t, p),
         t.status = "DispatchCard"
  PROVE  LET r == DealOne(t, c)
         IN  /\ r.pend = t.pend /\ r.pendHand = t.pendHand
             /\ r.status \in {"DispatchCard", "CallingLord"}
             /\ \A p \in Seats : CardComes(r, p)
             /\ r.status = "CallingLord" => \A p \in Seats : r.hand[p] # {}
<1> DEFINE r == DealOne(t, c)
<1>1. /\ r.pend = t.pend /\ r.pendHand = t.pendHand /\ r.deck = t.deck \ {c}
      /\ r.cur = NextOf(t.cur) /\ t.cur \in Seats
      /\ r.status = IF Cardinality(t.deck) - 1 = Surplus THEN "CallingLord" ELSE t.status
      /\ \A p \in Seats : r.hand[p] = IF p = t.cur THEN t.hand[p] \cup {c} ELSE t.hand[p]
  BY DEF DealOne, Tables
<1>2. /\ Cardinality(t.deck) \in Nat /\ Cardinality(Deck) \in Nat /\ Cardinality(Deck) >= 6
      /\ Cardinality(r.deck) = Cardinality(t.deck) - 1
  <2>1. t.deck \in SUBSET Deck
    BY DEF Tables
  <2>2. IsFiniteSet(t.deck)
    BY <2>1, TableAssumption, FS_Subset
  <2> QED
    BY <1>1, <2>2, TableAssumption, FS_CardinalityType, FS_RemoveElement
<1> HIDE DEF r
<1>3. ASSUME NEW p \in Seats, r.hand[p] = {}
      PROVE  Cardinality(Deck) - Cardinality(r.deck) + TurnsTo(r, p) <= 2
  <2>1. p # t.cur /\ t.hand[p] = {}
    BY <1>1, <1>3
  <2>2. Cardinality(Deck) - Cardinality(t.deck) + TurnsTo(t, p) <= 2
    BY <2>1 DEF CardComes
  <2>3. TurnsTo(r, p) = TurnsTo(t, p) - 1 /\ TurnsTo(t, p) \in 1..2
    BY <1>1, <2>1 DEF TurnsTo, NextOf, Seats
  <2> QED
    BY <1>2, <2>2, <2>3
<1>4. \A p \in Seats : CardComes(r, p)
  BY <1>3 DEF CardComes
<1>5. ASSUME r.status = "CallingLord", NEW p \in Seats
      PROVE  r.hand[p] # {}
  <2>1. Cardinality(r.deck) = 3
    BY <1>1, <1>2, <1>5 DEF Surplus
  <2>2. TurnsTo(r, p) \in 0..2
    BY <1>1 DEF TurnsTo, NextOf, Seats
  <2> QED
    BY <1>2, <1>3, <2>1, <2>2
<1> QED
  BY <1>1, <1>4, <1>5 DEF r

\* Every step keeps the invariant.
LEMMA NextHoldInv ==
  ASSUME ~Restless, ScoreInv, MoveInv, HoldInv, [Next]_vars
  PROVE  HoldInv'
<1>1. g \in Tables /\ BetHasBidder(g) /\ User \in Seats /\ Robots \subseteq Seats
  BY DEF ScoreInv, TypeOK, User, Seats, Robots
<1>2. g.status = "PlayingHand" => OneLord(g)
  BY DEF ScoreInv, HandBegun
<1>3. ASSUME NEW t \in Tables, g' = Dispatch(t)
      PROVE  HoldInv'
  <2>1. /\ g'.status = "DispatchCard" /\ g'.pend = Nobody
        /\ \A p \in Seats : CardComes(g', p)
    BY <1>3, DispatchHolds
  <2> QED
    BY <2>1 DEF HoldInv
<1>4. CASE CardDealt
  <2>1. PICK c \in g.deck : g' = DealOne(g, c)
    BY <1>4 DEF CardDealt
  <2>2. /\ g.status = "DispatchCard" /\ \A p \in Seats : CardComes(g, p)
    BY <1>4, <2>1 DEF CardDealt, HoldInv
  <2>3. /\ g'.pend = g.pend /\ g'.pendHand = g.pendHand
        /\ g'.status \in {"DispatchCard", "CallingLord"}
        /\ \A p \in Seats : CardComes(g', p)
        /\ g'.status = "CallingLord" => \A p \in Seats : g'.hand[p] # {}
    BY <1>1, <2>1, <2>2, DealOneHolds
  <2> QED
    BY <2>3 DEF HoldInv
<1>5. CASE LordIsAsked
  <2>1. /\ g'.status = "PlayingHand" /\ g'.hand = g.hand /\ g'.pend = g.pend
        /\ g'.pendHand = g.pendHand
    BY <1>1, <1>5 DEF LordIsAsked, Tables
  <2>2. \A p \in Seats : g.hand[p] # {}
    BY <1>5 DEF LordIsAsked, HoldInv
  <2> QED
    BY <2>1, <2>2 DEF HoldInv
<1>6. CASE Nothing
  <2>1. g' = g /\ Over' = Over
    BY <1>6 DEF Nothing
  <2>2. signals' = signals \/ signals = <<>>
    BY <1>6 DEF Nothing
  <2>3. signals = <<>> => DOMAIN signals = {}
    OBVIOUS
  <2> QED
    BY <2>1, <2>2, <2>3 DEF HoldInv
<1>7. ASSUME NEW p \in Seats, NEW b \in 0..3, BidMade(p, b)
      PROVE  HoldInv'
  <2> DEFINE r == AfterBet(g, p, b)
  <2>1. g' = (IF Redeals(g, b) THEN Dispatch(r) ELSE r) /\ g.status = "CallingLord"
    BY <1>7, OnBetTable DEF BidMade
  <2>2. /\ r \in Tables /\ r.status = g.status
        /\ \A q \in Seats : g.hand[q] \subseteq r.hand[q]
    BY <1>1, AfterBetFacts
  <2>3. r.pend = g.pend /\ r.pendHand = g.pendHand
    BY <1>1 DEF AfterBet, Recorded, BecomeLord, Tables
  <2> HIDE DEF r
  <2>4. CASE Redeals(g, b)
    BY <1>3, <2>1, <2>2, <2>4
  <2>5. CASE ~Redeals(g, b)
    <3>1. \A q \in Seats : r.hand[q] # {}
      BY <2>1, <2>2 DEF HoldInv
    <3> QED
      BY <2>1, <2>2, <2>3, <2>5, <3>1 DEF HoldInv
  <2> QED
    BY <2>4, <2>5
<1>8. ASSUME g'.status = "PlayingHand", g'.pend # Nobody => g'.pendHand # {},
             ~Over' => \A q \in Seats : g'.hand[q] # {}
      PROVE  HoldInv'
  BY <1>8 DEF HoldInv
<1>9. ASSUME NEW h \in SUBSET Deck, UserShows(h)
      PROVE  HoldInv'
  <2> DEFINE t == TakeFromHand(g, User, h)
  <2>1. /\ g.status = "PlayingHand" /\ ~Over /\ g' = AfterHand(t, User, h)
        /\ WinsWith(t, User) => Over'
        /\ DOMAIN signals = {}
    BY <1>9 DEF UserShows
  <2>2. t \in Tables
    BY <1>1, TakeFromHandFacts
  <2>3. /\ t.status = g.status /\ t.pend = g.pend /\ t.pendHand = g.pendHand
        /\ t.role = g.role
        /\ \A q \in Seats : q # User => t.hand[q] = g.hand[q]
    BY <1>1 DEF TakeFromHand, Tables
  <2> HIDE DEF t
  <2>4. OneLord(t)
    BY <1>2, <2>1, <2>3 DEF OneLord
  <2>5. \A q \in Seats : q # User => t.hand[q] # {}
    BY <2>1, <2>3 DEF HoldInv
  <2>6. /\ g'.status = "PlayingHand" /\ g'.hand = t.hand
        /\ h # {} => g'.pendHand = h
        /\ h = {} => g'.pend = g.pend /\ g'.pendHand = g.pendHand
    BY <1>1, <2>1, <2>2, <2>3, <2>4, AfterHandFacts
  <2>7. g'.pend # Nobody => g'.pendHand # {}
    BY <2>6 DEF HoldInv
  <2>8. ~Over' => \A q \in Seats : g'.hand[q] # {}
    BY <2>1, <2>5, <2>6 DEF WinsWith
  <2> QED
    BY <1>8, <2>6, <2>7, <2>8
<1>10. ASSUME NEW p \in Robots, NEW h \in SUBSET Deck, RobotShows(p, h)
       PROVE  HoldInv'
  <2> DEFINE s == [seat |-> p, kind |-> "Play", hand |-> h]
  <2>1. /\ g.status = "PlayingHand" /\ ~Over /\ signals = <<s>>
        /\ g' = AfterHand(g, p, h)
        /\ WinsWith(g, p) => Over'
    BY <1>10 DEF RobotShows
  <2>2. s.seat = p /\ \A i \in DOMAIN signals : signals[i] = s
    BY <2>1
  <2> HIDE DEF s
  <2>3. \A q \in Seats : q # p => g.hand[q] # {}
    BY <2>1, <2>2 DEF HoldInv
  <2>4. /\ g'.status = "PlayingHand" /\ g'.hand = g.hand
        /\ h # {} => g'.pendHand = h
        /\ h = {} => g'.pend = g.pend /\ g'.pendHand = g.pendHand
    BY <1>1, <1>2, <2>1, AfterHandFacts
  <2>5. g'.pend # Nobody => g'.pendHand # {}
    BY <2>4 DEF HoldInv
  <2>6. ~Over' => \A q \in Seats : g'.hand[q] # {}
    BY <2>1, <2>3, <2>4 DEF WinsWith
  <2> QED
    BY <1>8, <2>4, <2>5, <2>6
<1>11. ASSUME NEW p \in Robots, NEW h \in SUBSET Deck, RobotTakes(p, h)
       PROVE  HoldInv'
  <2> DEFINE s == [seat |-> p, kind |-> "Play", hand |-> h]
  <2>1. /\ g.status = "PlayingHand" /\ ~Over /\ DOMAIN signals = {} /\ signals' = <<s>>
        /\ g' = TakeFromHand(g, p, h)
    BY <1>11 DEF RobotTakes
  <2>2. /\ g'.status = g.status /\ g'.pend = g.pend /\ g'.pendHand = g.pendHand
        /\ \A q \in Seats : q # p => g'.hand[q] = g.hand[q]
    BY <1>1, <2>1 DEF TakeFromHand, Tables
  <2>3. /\ 1 \in DOMAIN signals' /\ signals'[1] = s /\ s.kind = "Play" /\ s.seat = p
    BY <2>1
  <2> HIDE DEF s
  <2>4. \A q \in Seats : q # p => g'.hand[q] # {}
    BY <2>1, <2>2 DEF HoldInv
  <2> QED
    BY <2>1, <2>2, <2>3, <2>4 DEF HoldInv
<1>12. FreshDeal => HoldInv'
  BY <1>3 DEF FreshDeal
<1> QED
  BY <1>4, <1>5, <1>6, <1>7, <1>9, <1>10, <1>11, <1>12, Moves

\* A robot that is asked for a hand has cards, and so has the table if it must follow.
LEMMA AskedHolds ==
  ASSUME ScoreInv, MoveInv, HoldInv, NEW i \in DOMAIN tasks, tasks[i].kind = "Play"
  PROVE  /\ tasks[i].seat \in Robots /\ g.hand[tasks[i].seat] # {}
         /\ g.pend # Nobody => g.pendHand # {}
<1>1. TypeOK /\ Phases /\ OneMoveAtATime
  BY DEF ScoreInv, MoveInv
<1>2. tasks[i] \in Tasks /\ Len(tasks) # 0
  <2>1. tasks \in Seq(Tasks) /\ DOMAIN tasks = 1..Len(tasks) /\ Len(tasks) \in Nat
    BY <1>1, LenProperties DEF TypeOK
  <2> QED
    BY <2>1
<1>3. tasks[i].seat \in Robots /\ tasks[i].seat \in Seats
  BY <1>2 DEF Tasks, Robots
<1>4. Len(signals) = 0 /\ signals = <<>> /\ endings = 0
  BY <1>1, <1>2, Alone
<1>5. DOMAIN signals = {} /\ ~Over
  BY <1>4 DEF Over
<1>6. g.status = "PlayingHand"
  BY <1>1 DEF Phases
<1> QED
  BY <1>3, <1>5, <1>6 DEF HoldInv

-----------------------------------------------------------------------------
(* What the robots play *)

\* The cards of h, counted by point.
CountsOf(h) == [p \in Points |-> Cardinality({ c \in h : c.point = p })]

\* The deck is one deck: four suits of every point and one card of each joker.
OneDeck ==
  \A p \in Points :
    Cardinality({ c \in Deck : c.point = p }) <= IF p \in Jokers THEN 1 ELSE 4

\* The cards of one point.
Of(h, p) == { c \in h : c.point = p }

\* Cards are judged by their counts.
LEMMA JudgeCounts ==
  ASSUME NEW h \in SUBSET Deck
  PROVE  /\ Judge[h] = HandOf(CountsOf(h))
         /\ Judge[h].type = HandType(CountsOf(h))
         /\ Judge[h].point = HandPoint(CountsOf(h))
<1>1. Judge[h] = HandOf(CountsOf(h))
  BY DEF Judge, CountsOf
<1> QED
  BY <1>1 DEF HandOf

\* Cards of one point are counted by a number.
LEMMA OfFinite ==
  ASSUME NEW h \in SUBSET Deck, NEW p \in Points
  PROVE  /\ IsFiniteSet(h) /\ Of(h, p) \in SUBSET h /\ IsFiniteSet(Of(h, p))
         /\ CountsOf(h)[p] = Cardinality(Of(h, p))
         /\ CountsOf(h)[p] \in Nat
<1>1. IsFiniteSet(h)
  BY TableAssumption, FS_Subset
<1>2. Of(h, p) \in SUBSET h
  BY DEF Of
<1>3. IsFiniteSet(Of(h, p)) /\ Cardinality(Of(h, p)) \in Nat
  BY <1>1, <1>2, FS_Subset, FS_CardinalityType
<1>4. CountsOf(h)[p] = Cardinality(Of(h, p))
  BY DEF CountsOf, Of
<1> QED
  BY <1>1, <1>2, <1>3, <1>4

\* Some of the cards have no more of any point, and cards out of one deck are a hand.
LEMMA FewerCounts ==
  ASSUME NEW H \in SUBSET Deck, NEW h \in SUBSET H
  PROVE  PartOf(CountsOf(h), CountsOf(H))
<1>1. ASSUME NEW p \in Points
      PROVE  CountsOf(h)[p] <= CountsOf(H)[p]
  <2>1. IsFiniteSet(Of(H, p)) /\ Of(h, p) \in SUBSET Of(H, p)
    BY OfFinite DEF Of
  <2>2. Cardinality(Of(h, p)) <= Cardinality(Of(H, p))
    BY <2>1, FS_Subset
  <2> QED
    BY <2>2, OfFinite
<1>2. \A p \in Points : CountsOf(h)[p] \in Nat
  BY OfFinite
<1>3. CountsOf(h) = [p \in Points |-> CountsOf(h)[p]]
  BY DEF CountsOf
<1> HIDE DEF CountsOf
<1>4. CountsOf(h) \in [Points -> Nat]
  BY <1>2, <1>3
<1> QED
  BY <1>1, <1>4 DEF PartOf

LEMMA OneDeckCounts ==
  ASSUME OneDeck, NEW h \in SUBSET Deck
  PROVE  CountsOf(h) \in Counts
<1>1. PartOf(CountsOf(h), CountsOf(Deck))
  BY FewerCounts
<1>2. \A p \in Points : CountsOf(Deck)[p] <= IF p \in Jokers THEN 1 ELSE 4
  BY DEF OneDeck, CountsOf
<1>3. \A p \in Points : CountsOf(Deck)[p] \in Nat /\ CountsOf(h)[p] \in Nat
  BY OfFinite
<1>4. \A p \in Points : CountsOf(h)[p] \in 0..4 /\ (p \in Jokers => CountsOf(h)[p] <= 1)
  BY <1>1, <1>2, <1>3 DEF PartOf
<1>5. CountsOf(h) = [p \in Points |-> CountsOf(h)[p]]
  BY DEF CountsOf
<1>6. Card_SJ \in Points /\ Card_BJ \in Points /\ Card_SJ \in Jokers /\ Card_BJ \in Jokers
  BY DEF Points, Jokers, Card_SJ, Card_BJ
<1> HIDE DEF CountsOf
<1>7. CountsOf(h) \in [Points -> 0..4]
  BY <1>4, <1>5
<1> QED
  BY <1>4, <1>6, <1>7 DEF Counts

\* Of finitely many things one can take any number that is there.
LEMMA SomeOfThem ==
  ASSUME NEW S, IsFiniteSet(S), NEW n \in Nat, n <= Cardinality(S)
  PROVE  \E T \in SUBSET S : Cardinality(T) = n
<1> DEFINE m == Cardinality(S)
<1>1. m \in Nat /\ ExistsBijection(1..m, S)
  BY FS_CardinalityType
<1>2. PICK f \in Bijection(1..m, S) : TRUE
  BY <1>1 DEF ExistsBijection
<1>3. f \in [1..m -> S] /\ \A i, j \in 1..m : f[i] = f[j] => i = j
  BY <1>2 DEF Bijection, Injection, IsInjective
<1> DEFINE T == { f[i] : i \in 1..n }
           k == [i \in 1..n |-> f[i]]
<1> HIDE DEF m
<1>4. 1..n \subseteq 1..m /\ n <= m
  BY <1>1 DEF m
<1>5. T \in SUBSET S
  BY <1>3, <1>4
<1>6. k \in Bijection(1..n, T)
  <2>1. k \in [1..n -> T] /\ \A i, j \in 1..n : k[i] = k[j] => i = j
    BY <1>3, <1>4
  <2>2. \A t \in T : \E i \in 1..n : k[i] = t
    OBVIOUS
  <2> QED
    BY <2>1, <2>2 DEF Bijection, Injection, Surjection, IsInjective
<1>7. IsFiniteSet(1..n) /\ Cardinality(1..n) = n
  <2>1. 1 \in Int /\ n \in Int
    OBVIOUS
  <2>2. IsFiniteSet(1..n) /\ Cardinality(1..n) = IF 1 > n THEN 0 ELSE n - 1 + 1
    BY <2>1, FS_Interval
  <2> QED
    BY <2>2
<1> HIDE DEF T, k
<1>8. Cardinality(T) = n
  BY <1>6, <1>7, FS_Bijection DEF ExistsBijection
<1> QED
  BY <1>5, <1>8

\* So any part of the counts of some cards counts some of them.
LEMMA CardsFor ==
  ASSUME NEW H \in SUBSET Deck, NEW x, PartOf(x, CountsOf(H))
  PROVE  \E h \in SUBSET H : CountsOf(h) = x
<1>1. \A p \in Points : \E T \in SUBSET Of(H, p) : Cardinality(T) = x[p]
  <2> TAKE p \in Points
  <2>1. x[p] \in Nat /\ x[p] <= CountsOf(H)[p]
    BY DEF PartOf
  <2>2. IsFiniteSet(Of(H, p)) /\ x[p] <= Cardinality(Of(H, p))
    BY <2>1, OfFinite
  <2> QED
    BY <2>1, <2>2, SomeOfThem
<1> DEFINE some == [p \in Points |-> CHOOSE T \in SUBSET Of(H, p) : Cardinality(T) = x[p]]
           h == UNION { some[p] : p \in Points }
<1>2. \A p \in Points : some[p] \in SUBSET Of(H, p) /\ Cardinality(some[p]) = x[p]
  BY <1>1
<1> HIDE DEF some
<1>3. \A p \in Points : \A c \in some[p] : c \in H /\ c.point = p
  BY <1>2 DEF Of
<1>4. h \in SUBSET H
  BY <1>3
<1>5. \A p \in Points : { c \in h : c.point = p } = some[p]
  BY <1>3
<1> HIDE DEF h
<1>6. CountsOf(h) = [p \in Points |-> x[p]]
  BY <1>2, <1>5 DEF CountsOf
<1> QED
  BY <1>4, <1>6 DEF PartOf

\* Sets that share nothing are counted together.
LEMMA DisjointUnion ==
  ASSUME NEW S, NEW T, IsFiniteSet(S), IsFiniteSet(T), S \cap T = {}
  PROVE  Cardinality(S \cup T) = Cardinality(S) + Cardinality(T)
<1>1. Cardinality(S \cup T) = Cardinality(S) + Cardinality(T) - Cardinality(S \cap T)
  BY FS_Union
<1>2. Cardinality(S \cap T) = 0
  BY FS_EmptySet
<1>3. Cardinality(S) \in Nat /\ Cardinality(T) \in Nat
  BY FS_CardinalityType
<1> QED
  BY <1>1, <1>2, <1>3

\* What is left is counted by the difference.
LEMMA RestCounts ==
  ASSUME NEW H \in SUBSET Deck, NEW h \in SUBSET H, NEW p \in Points
  PROVE  CountsOf(H \ h)[p] = CountsOf(H)[p] - CountsOf(h)[p]
<1>1. /\ IsFiniteSet(Of(H, p)) /\ IsFiniteSet(Of(h, p)) /\ IsFiniteSet(Of(H \ h, p))
      /\ Cardinality(Of(h, p)) \in Nat /\ Cardinality(Of(H \ h, p)) \in Nat
      /\ Cardinality(Of(H, p)) \in Nat
      /\ CountsOf(H)[p] = Cardinality(Of(H, p)) /\ CountsOf(h)[p] = Cardinality(Of(h, p))
      /\ CountsOf(H \ h)[p] = Cardinality(Of(H \ h, p))
  BY OfFinite
<1>2. Of(H, p) = Of(h, p) \cup Of(H \ h, p) /\ Of(h, p) \cap Of(H \ h, p) = {}
  BY DEF Of
<1>3. Cardinality(Of(h, p) \cup Of(H \ h, p))
        = Cardinality(Of(h, p)) + Cardinality(Of(H \ h, p))
  BY <1>1, <1>2, DisjointUnion
<1> QED
  BY <1>1, <1>2, <1>3

\* One card of each of two points is two cards.
LEMMA TwoSingles ==
  ASSUME NEW h \in SUBSET Deck, NEW T \in SUBSET Points, Cardinality(T) = 2,
         CountsOf(h) = Each(1, T)
  PROVE  Cardinality(h) = 2
<1>1. PICK a, b \in Points : a # b /\ T = {a, b}
  BY TwoPoints
<1>2. \A p \in Points : Cardinality(Of(h, p)) = IF p \in T THEN 1 ELSE 0
  <2> TAKE p \in Points
  <2>1. Each(1, T)[p] = IF p \in T THEN 1 ELSE 0
    BY DEF Each
  <2> QED
    BY <2>1, OfFinite
<1>3. \A p \in Points : IsFiniteSet(Of(h, p))
  BY OfFinite
<1>4. PICK c : Of(h, a) = {c}
  BY <1>1, <1>2, <1>3, FS_Singleton
<1>5. PICK d : Of(h, b) = {d}
  BY <1>1, <1>2, <1>3, FS_Singleton
<1>6. \A p \in Points : p \notin T => Of(h, p) = {}
  BY <1>2, <1>3, FS_EmptySet
<1>7. \A e \in h : e.point \in Points /\ e \in Of(h, e.point)
  BY TableAssumption DEF Of
<1>8. c \in h /\ d \in h /\ c.point = a /\ d.point = b
  BY <1>4, <1>5 DEF Of
<1>9. h = {c} \cup {d} /\ c # d
  BY <1>1, <1>4, <1>5, <1>6, <1>7, <1>8
<1>10. IsFiniteSet({c}) /\ Cardinality({c}) = 1
  BY FS_Singleton
<1>11. Cardinality({c} \cup {d}) = 1 + 1
  BY <1>9, <1>10, FS_AddElement
<1> QED
  BY <1>9, <1>11

\* No cards are counted for nothing but the empty set.
LEMMA EmptyCounts ==
  ASSUME NEW h \in SUBSET Deck
  PROVE  CountsOf(h) = NoCards <=> h = {}
<1>1. ASSUME CountsOf(h) = NoCards PROVE h = {}
  <2>1. \A p \in Points : Of(h, p) = {}
    <3> TAKE p \in Points
    <3>1. NoCards[p] = 0
      BY DEF NoCards
    <3>2. Cardinality(Of(h, p)) = 0
      BY <1>1, <3>1, OfFinite
    <3> QED
      BY <3>2, OfFinite, FS_EmptySet
  <2>2. \A c \in h : c.point \in Points /\ c \in Of(h, c.point)
    BY TableAssumption DEF Of
  <2> QED
    BY <2>1, <2>2
<1>2. ASSUME h = {} PROVE CountsOf(h) = NoCards
  <2>1. \A p \in Points : Cardinality({ c \in h : c.point = p }) = 0
    <3> TAKE p \in Points
    <3>1. { c \in h : c.point = p } = {}
      BY <1>2
    <3> QED
      BY <3>1, FS_EmptySet
  <2> QED
    BY <2>1 DEF CountsOf, NoCards
<1> QED
  BY <1>1, <1>2

\* Two points held four times and none otherwise: nothing but bombs, more than one.
LEMMA BombsOnly ==
  ASSUME NEW H \in SUBSET Deck, \A p \in Points : CountsOf(H)[p] \in {0, 4},
         NEW p \in Points, NEW q \in Points, p # q, CountsOf(H)[p] = 4, CountsOf(H)[q] = 4
  PROVE  OnlyBombs(H)
<1>1. /\ IsFiniteSet(H) /\ IsFiniteSet(Of(H, p)) /\ IsFiniteSet(Of(H, q))
      /\ Of(H, p) \cup Of(H, q) \in SUBSET H
      /\ Cardinality(Of(H, p)) = 4 /\ Cardinality(Of(H, q)) = 4
  BY OfFinite
<1>2. Of(H, p) \cap Of(H, q) = {}
  BY DEF Of
<1>3. Cardinality(Of(H, p) \cup Of(H, q)) = 8
  BY <1>1, <1>2, DisjointUnion
<1>4. Cardinality(H) \in Nat /\ Cardinality(Of(H, p) \cup Of(H, q)) <= Cardinality(H)
  BY <1>1, FS_Subset, FS_CardinalityType
<1>5. Cardinality(H) > 4
  BY <1>3, <1>4
<1>6. ASSUME NEW c \in H
      PROVE  Cardinality({ d \in H : d.point = c.point }) = 4
  <2>1. c.point \in Points /\ c \in Of(H, c.point)
    BY TableAssumption DEF Of
  <2>2. Cardinality(Of(H, c.point)) # 0
    BY <2>1, OfFinite, FS_EmptySet
  <2>3. Cardinality(Of(H, c.point)) = 4
    BY <2>1, <2>2, OfFinite
  <2> QED
    BY <2>3 DEF Of
<1> QED
  BY <1>5, <1>6 DEF OnlyBombs

\* What firstPlay picks is a hand, and nothing only out of bombs.
LEMMA LeadAllowed ==
  ASSUME OneDeck, NEW H \in SUBSET Deck, H # {}, NEW tbl
  PROVE  LET x == FirstPlay(CountsOf(H), tbl)
         IN  /\ PartOf(x, CountsOf(H))
             /\ \A h \in SUBSET H : CountsOf(h) = x =>
                  \/ Judge[h].type \notin {"Unknown", "Pass"}
                  \/ h = {} /\ OnlyBombs(H)
<1> DEFINE c == CountsOf(H)
           x == FirstPlay(c, tbl)
<1>1. c \in Counts /\ c # NoCards
  BY OneDeckCounts, EmptyCounts
<1>2. PartOf(x, c) /\ HandType(x) # "Unknown"
  BY <1>1, FirstPlayLeads DEF LeadsWith
<1>3. ASSUME NEW h \in SUBSET H, CountsOf(h) = x, Judge[h].type \in {"Unknown", "Pass"}
      PROVE  h = {} /\ OnlyBombs(H)
  <2>1. Judge[h].type = HandType(CountsOf(h)) /\ h \in SUBSET Deck
    BY JudgeCounts
  <2>2. HandType(x) = "Pass"
    BY <1>2, <1>3, <2>1
  <2>3. x \in Counts
    BY <1>3, OneDeckCounts
  <2> HIDE DEF x
  <2>4. x = NoCards
    BY <2>2, <2>3, PassIsNone
  <2>5. h = {}
    BY <1>3, <2>4, EmptyCounts
  <2>6. /\ \A p \in Points : c[p] \in {0, 4}
        /\ \E p, q \in Points : p # q /\ c[p] = 4 /\ c[q] = 4
    BY <1>1, <2>4, NothingToLead DEF x
  <2> QED
    BY <2>5, <2>6, BombsOnly
<1> QED
  BY <1>2, <1>3

\* What getGreaterCards picks is greater than the hand on the table.
LEMMA AnswerAllowed ==
  ASSUME NEW H \in SUBSET Deck, NEW D \in SUBSET Deck, NEW h \in SUBSET H,
         Answers(CountsOf(H), CountsOf(D), CountsOf(h))
  PROVE  Greater(h, Judge[D])
<1> DEFINE d == CountsOf(D)
           x == CountsOf(h)
<1>1. Judge[h] = HandOf(x) /\ Judge[D] = HandOf(d)
  BY JudgeCounts
<1>2. Judge[D].type = HandType(d) /\ Judge[D].point = HandPoint(d)
  BY JudgeCounts
<1> HIDE DEF d, x
<1>3. HandPoint(d) \in Nat
  BY PointIsNumber
<1>4. CASE CanBeat(HandOf(x), HandOf(d))
  BY <1>1, <1>4 DEF Greater
<1>5. CASE HandType(d) = "Plane_Two_Single" /\ HigherPlaneWithTwo(d, x)
  <2>1. PICK p \in Points, T \in SUBSET Points :
          /\ HandPoint(d) < p /\ p + 1 \in Points /\ p < Card_A
          /\ Cardinality(T) = 2
          /\ x = With(Each(3, {p, p + 1}), Each(1, T))
    BY <1>5 DEF HigherPlaneWithTwo
  <2> DEFINE y == Each(3, {p, p + 1})
  <2>2. \A r \in Points : /\ x[r] = y[r] + Each(1, T)[r]
                          /\ y[r] \in Nat /\ Each(1, T)[r] \in Nat
    BY <2>1 DEF With, Each
  <2>3. y \in [Points -> Nat]
    BY DEF Each
  <2>4. HandType(y) = "Plane" /\ HandPoint(y) = p
    BY <2>1, PlaneHand
  <2> HIDE DEF y
  <2>5. PartOf(y, CountsOf(h))
    BY <2>2, <2>3 DEF PartOf, x
  <2>6. PICK plane \in SUBSET h : CountsOf(plane) = y
    BY <2>5, CardsFor
  <2>7. Judge[plane].type = "Plane" /\ Judge[plane].point > Judge[D].point
    <3>1. Judge[plane] = HandOf(y)
      BY <2>6, JudgeCounts
    <3>2. p > HandPoint(d)
      BY <1>3, <2>1 DEF Points
    <3> QED
      BY <1>2, <2>4, <3>1, <3>2 DEF HandOf
  <2>8. CountsOf(h \ plane) = Each(1, T)
    <3>1. \A r \in Points : CountsOf(h \ plane)[r] = Each(1, T)[r]
      <4> TAKE r \in Points
      <4>1. CountsOf(h \ plane)[r] = CountsOf(h)[r] - CountsOf(plane)[r]
        BY RestCounts
      <4> QED
        BY <2>2, <2>6, <4>1 DEF x
    <3>2. /\ CountsOf(h \ plane) = [r \in Points |-> CountsOf(h \ plane)[r]]
          /\ Each(1, T) = [r \in Points |-> Each(1, T)[r]]
      BY DEF CountsOf, Each
    <3> HIDE DEF CountsOf
    <3> QED
      BY <3>1, <3>2
  <2>9. Cardinality(h \ plane) = 2
    BY <2>1, <2>8, TwoSingles
  <2>10. Judge[h \ plane].type # "Pair"
    <3>1. Judge[h \ plane].type = HandType(Each(1, T))
      <4>1. h \ plane \in SUBSET Deck
        OBVIOUS
      <4> QED
        BY <2>8, <4>1, JudgeCounts
    <3>2. 1 \in 1..4 /\ 2 \in (1..4) \ {1}
      OBVIOUS
    <3>3. Cardinality(Held(Each(1, T), 2)) = 0
      BY <3>2, LotHeld
    <3>4. HandType(Each(1, T)) # "Pair"
      BY <3>3, TypeIs DEF Held4
    <3> QED
      BY <3>1, <3>4
  <2> QED
    BY <1>2, <1>5, <2>7, <2>9, <2>10 DEF Greater, HigherPlane
<1>6. CASE HandType(d) \in {"Triple_Single", "Triple_Pair"} /\ HigherTriple(d, x)
  <2>1. PICK p \in Points : HandPoint(d) < p /\ x = Each(3, {p})
    BY <1>6 DEF HigherTriple
  <2>2. HandType(x) = "Triple" /\ HandPoint(x) = p
    BY <2>1, OnePointHand
  <2>3. p > HandPoint(d)
    BY <1>3, <2>1 DEF Points
  <2> QED
    BY <1>1, <1>2, <1>6, <2>2, <2>3 DEF Greater, LoneTriple, HandOf
<1>7. \/ CanBeat(HandOf(x), HandOf(d))
      \/ HandType(d) = "Plane_Two_Single" /\ HigherPlaneWithTwo(d, x)
      \/ HandType(d) \in {"Triple_Single", "Triple_Pair"} /\ HigherTriple(d, x)
  <2>1. \A n \in 1..2 : << "Triple_Single", "Triple_Pair" >>[n] \in {"Triple_Single", "Triple_Pair"}
    OBVIOUS
  <2> QED
    BY <2>1 DEF Answers, d, x
<1> QED
  BY <1>4, <1>5, <1>6, <1>7

\* What makeStrategy picks for robot p, by the number of cards of each point, if it
\* knows tbl of the other players.
Picked(p, tbl) ==
  MakeStrategy(CountsOf(g.hand[p]),
               IF g.pend \in {p, Nobody} THEN NoCards ELSE CountsOf(g.pendHand), tbl)

\* The robot has the cards that are picked, and whichever suits it takes, they are a
\* hand that it may play.
PicksToPlay(p, tbl) ==
  /\ \E h \in SUBSET g.hand[p] : CountsOf(h) = Picked(p, tbl)
  /\ \A h \in SUBSET g.hand[p] : CountsOf(h) = Picked(p, tbl) => h \in StrategyOf(p)

\* So it is for a player who has cards, if those to follow are cards.
LEMMA PickAllowed ==
  ASSUME OneDeck, g \in Tables, NEW p \in Seats, g.hand[p] # {},
         g.pend # Nobody => g.pendHand # {}, NEW tbl
  PROVE  PicksToPlay(p, tbl)
<1> DEFINE H == g.hand[p]
           D == g.pendHand
           x == Picked(p, tbl)
<1>1. H \in SUBSET Deck /\ D \in SUBSET Deck
  BY DEF Tables
<1>2. CASE g.pend \in {p, Nobody}
  <2>1. x = FirstPlay(CountsOf(H), tbl)
    BY <1>2 DEF Picked, MakeStrategy
  <2>2. /\ PartOf(x, CountsOf(H))
        /\ \A h \in SUBSET H : CountsOf(h) = x =>
             \/ Judge[h].type \notin {"Unknown", "Pass"}
             \/ h = {} /\ OnlyBombs(H)
    BY <1>1, <2>1, LeadAllowed
  <2>3. StrategyOf(p) = Leads(p)
    BY <1>2 DEF StrategyOf
  <2> HIDE DEF x
  <2>4. \A h \in SUBSET H : CountsOf(h) = x => h \in StrategyOf(p)
    BY <2>2, <2>3 DEF Leads
  <2>5. \E h \in SUBSET H : CountsOf(h) = x
    BY <1>1, <2>2, CardsFor
  <2> QED
    BY <2>4, <2>5 DEF PicksToPlay, x
<1>3. CASE g.pend \notin {p, Nobody}
  <2> DEFINE y == GetGreaterCards(CountsOf(H), HandOf(CountsOf(D)), tbl)
  <2>1. CountsOf(D) # NoCards
    BY <1>1, <1>3, EmptyCounts
  <2>2. x \in {y, NoCards}
    BY <1>3, <2>1 DEF Picked, MakeStrategy
  <2>3. StrategyOf(p) = { h \in SUBSET H : h = {} \/ Greater(h, Judge[D]) }
    BY <1>3 DEF StrategyOf
  <2>4. CountsOf(H) \in Counts
    BY <1>1, OneDeckCounts
  <2> HIDE DEF x, y, H, D
  <2>5. CASE x = NoCards
    <3>1. {} \in SUBSET H /\ \A h \in SUBSET H : CountsOf(h) = x <=> h = {}
      BY <1>1, <2>5, EmptyCounts
    <3> QED
      BY <2>3, <3>1 DEF PicksToPlay, x, H
  <2>6. CASE x # NoCards
    <3>1. Answers(CountsOf(H), CountsOf(D), x)
      BY <2>2, <2>4, <2>6, GreaterAnswers DEF y
    <3>2. \A h \in SUBSET H : CountsOf(h) = x => Greater(h, Judge[D])
      BY <1>1, <3>1, AnswerAllowed
    <3>3. \E h \in SUBSET H : CountsOf(h) = x
      BY <1>1, <3>1, CardsFor DEF Answers
    <3> QED
      BY <2>3, <3>2, <3>3 DEF PicksToPlay, x, H
  <2> QED
    BY <2>5, <2>6
<1> QED
  BY <1>2, <1>3

\* Every robot that is asked for a hand.
RobotsFollowStrategy ==
  \A i \in DOMAIN tasks :
    tasks[i].kind = "Play" => \A tbl : PicksToPlay(tasks[i].seat, tbl)

\* What Strategy picks for a robot that is asked for a hand is among what GameControl
\* lets it play, whatever the robot knows of the others (thinkPlayHand, makeStrategy):
\* the two models of a robot agree, for every deck with four suits of a point, if the user
\* clicks no cards on the table.
THEOREM RobotsAgree ==
  ASSUME ~Restless, OneDeck
  PROVE  Spec => []RobotsFollowStrategy
<1>1. Init => ScoreInv /\ MoveInv /\ HoldInv
  <2>1. Init => HoldInv
    BY DEF Init, HoldInv, Nobody
  <2> QED
    BY <2>1, InitScoreInv, InitMoveInv
<1>2. ScoreInv /\ MoveInv /\ HoldInv /\ [Next]_vars => (ScoreInv /\ MoveInv /\ HoldInv)'
  BY NextScoreInv, NextMoveInv, NextHoldInv
<1>3. ScoreInv /\ MoveInv /\ HoldInv => RobotsFollowStrategy
  <2> SUFFICES ASSUME ScoreInv, MoveInv, HoldInv, NEW i \in DOMAIN tasks,
                      tasks[i].kind = "Play", NEW tbl
               PROVE  PicksToPlay(tasks[i].seat, tbl)
    BY DEF RobotsFollowStrategy
  <2> DEFINE p == tasks[i].seat
  <2>1. p \in Seats /\ g.hand[p] # {} /\ (g.pend # Nobody => g.pendHand # {})
    BY AskedHolds DEF Robots
  <2>2. g \in Tables
    BY DEF ScoreInv, TypeOK
  <2> HIDE DEF p
  <2>3. PicksToPlay(p, tbl)
    BY <2>1, <2>2, PickAllowed
  <2> QED
    BY <2>3 DEF p
<1> QED
  BY <1>1, <1>2, <1>3, PTL DEF Spec
=============================================================================

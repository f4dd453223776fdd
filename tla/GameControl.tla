------------------------------ MODULE GameControl ------------------------------
(***************************************************************************)
(* The single-player game: GameControl, the user and two robots, and the   *)
(* window, timers and threads that drive them (control/gamecontrol.cpp,    *)
(* windows/gamepanel.cpp, player/*.cpp, thread/robot*.cpp,                 *)
(* windows/countdown.cpp).                                                 *)
(*                                                                         *)
(* The window, the timers and the slots of GameControl run in the GUI      *)
(* thread, one action at a time.  A robot thinks in a thread of the pool   *)
(* and its signal is queued for the GUI thread, in order.  Which hand a    *)
(* robot prefers is Strategy's business: here it bids anything, leads with *)
(* any hand and follows with any that Strategy can find.                   *)
(***************************************************************************)
EXTENDS Table, Sequences

CONSTANTS
  MaxHands,  \* bound: hands settled in one window
  Bets,      \* bound: the bids that are made
  MaxClicks,  \* bound: cards that clicks select before the user plays
  Restless   \* BOOLEAN: the user also clicks cards on the table

ASSUME GameControlAssumption ==
  /\ MaxHands \in Nat \ {0}
  /\ {0, 3} \subseteq Bets /\ Bets \subseteq 0..3
  /\ MaxClicks \in Nat
  /\ Restless \in BOOLEAN

VARIABLES
  g,          \* the table
  dealing,    \* m_timer is running
  lordDue,    \* becomeLord's singleShot is pending
  tasks,      \* what the robots were asked and the pool has not run
  signals,    \* the robots' signals queued for the GUI thread
  countdown,  \* m_countDown is running
  buttons,    \* the page ButtonGroup shows
  endings,    \* EndingPanels on display
  selected,   \* m_selectCards, as the user's clicks and plays leave it
  kept,       \* what was selected when the cards were dealt last
  shown,      \* the user's lastCards, on the table
  bids,       \* the bids of this bidding, shown beside the players, until it is over
  hands       \* hands settled in this window

vars == << g, dealing, lordDue, tasks, signals, countdown, buttons, endings, selected,
           kept, shown, bids, hands >>

User == 1

\* Bound: EndingPanels on display at once.
MaxEndings == 2

\* Bound: a restless user, who can play the same cards again, doubles no stakes
\* above this.
MaxStakes == 12

Robots == Seats \ {User}

Tasks == [seat : Robots, kind : {"Bet", "Play"}]
Signals ==    [seat : Robots, kind : {"Bet"}, bet : 0..3]
         \cup [seat : Robots, kind : {"Play"}, hand : SUBSET Deck]

Buttons == {"Start", "Empty", "Calllord", "PlayCard", "PassOrPlay"}

TypeOK ==
  /\ g \in Tables
  /\ dealing \in BOOLEAN
  /\ lordDue \in BOOLEAN
  /\ tasks \in Seq(Tasks)
  /\ signals \in Seq(Signals)
  /\ countdown \in BOOLEAN
  /\ buttons \in Buttons
  /\ endings \in Nat
  /\ selected \in SUBSET Deck
  /\ kept \in SUBSET Deck
  /\ shown \in SUBSET Deck
  /\ bids \in Seq(Seats \X (0..3))
  /\ hands \in Nat

\* A new window. What is not initialised is set before it is used.
Init ==
  /\ g = [ status |-> "DispatchCard", cur |-> User, hand |-> [p \in Seats |-> {}],
           deck |-> {}, pend |-> Nobody, pendHand |-> {},
           role |-> [p \in Seats |-> "Farmer"], betBy |-> Nobody, bet |-> 0,
           times |-> 0, curBet |-> 0, score |-> [p \in Seats |-> 0],
           win |-> [p \in Seats |-> FALSE] ]
  /\ dealing = FALSE
  /\ lordDue = FALSE
  /\ tasks = <<>>
  /\ signals = <<>>
  /\ countdown = FALSE
  /\ buttons = "Start"
  /\ endings = 0
  /\ selected = {}
  /\ kept = {}
  /\ shown = {}
  /\ bids = <<>>
  /\ hands = 0

-----------------------------------------------------------------------------
\* startDispatchCard: m_selectCards is not cleared, so what is in it is kept for
\* the hand that is dealt.
DispatchFrom(t) ==
  /\ g' = Dispatch(t)
  /\ dealing' = TRUE
  /\ buttons' = "Empty"
  /\ kept' = selected
  /\ shown' = {}

\* The player who is to act: a robot gets a task, the user gets buttons.
Ask(p, kind) == tasks' = IF p = User THEN tasks
                         ELSE Append(tasks, [seat |-> p, kind |-> kind])

\* playerStatusChanged(p, ThinkingForCallLord).
AskBid(p) ==
  /\ Ask(p, "Bet")
  /\ buttons' = IF p = User THEN "Calllord" ELSE buttons

\* There is a hand of another player to beat.
MustFollow(t) == t.pend \notin {User, Nobody}

\* Mistake: a play does not stop the countdown.
AskHandStillCounting(t) ==
  /\ Ask(t.cur, "Play")
  /\ buttons' = IF t.cur # User THEN "Empty"
                ELSE IF MustFollow(t) THEN "PassOrPlay" ELSE "PlayCard"
  /\ countdown' = (countdown \/ (t.cur = User /\ MustFollow(t)))

\* preparePlayHand and playerStatusChanged(p, ThinkingForPlayHand); UserPlayer's
\* preparePlayHand starts the countdown if the user may pass.
AskHand(t) ==
  /\ Ask(t.cur, "Play")
  /\ buttons' = IF t.cur # User THEN "Empty"
                ELSE IF MustFollow(t) THEN "PassOrPlay" ELSE "PlayCard"
  /\ countdown' = (t.cur = User /\ MustFollow(t))

\* onGrabBet. The buttons are put away after the user's own bid.
OnBet(p, b) ==
  /\ bids' = Append(bids, <<p, b>>)
  /\ IF Redeals(g, b)
     THEN DispatchFrom(AfterBet(g, p, b)) /\ UNCHANGED <<tasks, lordDue>>
     ELSE /\ g' = AfterBet(g, p, b)
          /\ UNCHANGED <<dealing, kept, shown>>
          /\ IF EndsBidding(g, b)
             THEN /\ lordDue' = TRUE
                  /\ buttons' = "Empty"
                  /\ UNCHANGED tasks
             ELSE /\ IF p = User
                     THEN Ask(NextOf(p), "Bet") /\ buttons' = "Empty"
                     ELSE AskBid(NextOf(p))
                  /\ UNCHANGED lordDue
  /\ UNCHANGED <<countdown, endings, selected, hands>>

\* Mistake: no return after the hand is settled.
OnHandGoesOn(t, p, h) ==
  /\ g' = AfterHand(t, p, h)
  /\ AskHand(g')
  /\ shown' = IF g'.cur = User THEN {} ELSE IF p = User THEN h ELSE shown
  /\ endings' = IF WinsWith(t, p) THEN endings + 1 ELSE endings
  /\ hands' = IF WinsWith(t, p) THEN hands + 1 ELSE hands
  /\ UNCHANGED <<dealing, lordDue, kept, bids>>

\* onPlayHand, with onDisposPlayHand and hidePlayerDropCards for what is shown of
\* the user's cards.
OnHand(t, p, h) ==
  /\ g' = AfterHand(t, p, h)
  /\ IF WinsWith(t, p)
     THEN /\ endings' = endings + 1
          /\ hands' = hands + 1
          /\ countdown' = FALSE
          /\ shown' = IF p = User THEN h ELSE shown
          /\ UNCHANGED <<tasks, buttons>>
     ELSE /\ AskHand(g')
          /\ shown' = IF g'.cur = User THEN {} ELSE IF p = User THEN h ELSE shown
          /\ UNCHANGED <<endings, hands>>
  /\ UNCHANGED <<dealing, lordDue, kept, bids>>

-----------------------------------------------------------------------------
(* The user *)

\* The cards on display that belong to the user and are clicked.
Clickable == g.hand[User] \cup (IF Restless THEN shown ELSE {})

\* Selected cards that the user cannot click any more.
Stale == selected \ (g.hand[User] \cup shown)

\* The Start button deals to a random player first.
Start ==
  /\ buttons = "Start"
  /\ \E p \in Seats : DispatchFrom([g EXCEPT !.cur = p])
  /\ UNCHANGED << lordDue, tasks, signals, countdown, endings, selected, bids, hands >>

\* The bids on offer are 0 and those above the highest.
UserBids ==
  /\ buttons = "Calllord"
  /\ \E b \in Bets \cap ({0} \cup (g.bet + 1)..3) : OnBet(User, b)
  /\ UNCHANGED signals

\* onCardSelected with the left button: cards in the user's hand and the user's cards
\* on the table belong to the user. The clicks in the user's own turn are part of
\* UserPlays, which empties the selection, as UserPasses does.
ClickCard ==
  /\ g.status = "PlayingHand"
  /\ g.cur = User => endings > 0
  /\ \E c \in Clickable :
       selected' = IF c \in selected THEN selected \ {c} ELSE selected \cup {c}
  /\ Cardinality(selected') <= MaxClicks
  /\ UNCHANGED << g, dealing, lordDue, tasks, signals, countdown, buttons, endings,
                  kept, shown, bids, hands >>

\* Mistake: the pending hand is not compared with.
MayPlayAnything(h) == h # {} /\ Judge[h].type # "Unknown"

\* onUserPlayHand's conditions on the cards.
MayPlay(h) ==
  /\ h # {}
  /\ Judge[h].type # "Unknown"
  /\ g.pend # User => CanBeat(Judge[h], Judge[g.pendHand])

\* The user makes a selection of own cards, which leaves the cards selected before
\* that belong to others now, and plays it. The buttons are not asked.
UserPlays ==
  /\ g.status = "PlayingHand"
  /\ g.cur = User
  /\ endings > 0 => Restless /\ endings < MaxEndings
  /\ Restless => g.curBet <= MaxStakes
  /\ \E own \in SUBSET Clickable :
       LET h == own \cup Stale
       IN  /\ MayPlay(h)
           /\ OnHand(TakeFromHand(g, User, h), User, h)
  /\ selected' = {}
  /\ UNCHANGED signals

\* onUserPass' conditions.
MayPass == g.cur = User /\ MustFollow(g)

\* The Pass button or the end of the countdown.
UserPasses ==
  /\ buttons = "PassOrPlay" \/ countdown
  /\ MayPass
  /\ OnHand(g, User, {})
  /\ selected' = {}
  /\ UNCHANGED signals

\* The Continue button of an EndingPanel.
Continue ==
  /\ endings > 0
  /\ hands < MaxHands
  /\ endings' = endings - 1
  /\ DispatchFrom(g)
  /\ UNCHANGED <<lordDue, tasks, signals, countdown, selected, bids, hands>>

\* The result stays on display until the user presses the button.
Rest == endings > 0 /\ UNCHANGED vars

-----------------------------------------------------------------------------
(* Timers, the thread pool and the queue of the GUI thread *)

\* onDispatchCard, and startLordCard after the last card.
DealCard ==
  /\ dealing
  /\ \E c \in g.deck : g' = DealOne(g, c)
  /\ IF g'.status = "CallingLord"
     THEN dealing' = FALSE /\ bids' = <<>> /\ AskBid(g'.cur)
     ELSE UNCHANGED <<dealing, bids, tasks, buttons>>
  /\ UNCHANGED <<lordDue, signals, countdown, endings, selected, kept, shown, hands>>

\* The task leaves the pool.
TasksWithout(i) == [j \in 1..(Len(tasks) - 1) |-> IF j < i THEN tasks[j] ELSE tasks[j + 1]]

\* RobotGrabLord: thinkCallLord.
RobotBids ==
  \E i \in DOMAIN tasks :
    /\ tasks[i].kind = "Bet"
    /\ tasks' = TasksWithout(i)
    /\ \E b \in Bets :
         signals' = Append(signals, [seat |-> tasks[i].seat, kind |-> "Bet", bet |-> b])
    /\ UNCHANGED << g, dealing, lordDue, countdown, buttons, endings, selected, kept,
                    shown, bids, hands >>

\* Nothing but bombs, and more than one: firstPlay sets them aside and finds no card.
OnlyBombs(h) ==
  /\ Cardinality(h) > 4
  /\ \A c \in h : Cardinality({ d \in h : d.point = c.point }) = 4

\* Mistake: a robot may pass though it leads.
LeadsOrPasses(p) ==
  { h \in SUBSET g.hand[p] : Judge[h].type # "Unknown" }

\* firstPlay's hands are of a known type.
Leads(p) ==
  { h \in SUBSET g.hand[p] : Judge[h].type \notin {"Unknown", "Pass"} }
  \cup (IF OnlyBombs(g.hand[p]) THEN {{}} ELSE {})

\* getPlane2SingleOr2Pair carries any two singles, jokers too.
HigherPlane(h, other) ==
  /\ other.type = "Plane_Two_Single"
  /\ \E plane \in SUBSET h :
       /\ Judge[plane].type = "Plane"
       /\ Judge[plane].point > other.point
       /\ Cardinality(h \ plane) = 2
       /\ Judge[h \ plane].type # "Pair"

\* getTripleSingleOrPair reads kickers beyond their end if it finds more triples:
\* undefined, and at best a triple stays alone.
LoneTriple(h, other) ==
  /\ other.type \in {"Triple_Single", "Triple_Pair"}
  /\ Judge[h].type = "Triple"
  /\ Judge[h].point > other.point

\* A hand getGreaterCards can find.
Greater(h, other) == CanBeat(Judge[h], other) \/ HigherPlane(h, other) \/ LoneTriple(h, other)

\* What makeStrategy can return to player p.
StrategyOf(p) ==
  IF g.pend \in {p, Nobody}
  THEN Leads(p)
  ELSE { h \in SUBSET g.hand[p] : h = {} \/ Greater(h, Judge[g.pendHand]) }

\* RobotPlayHand: thinkPlayHand and playHand, which takes the cards from the
\* robot's hand in the pool's thread.
RobotPlays ==
  \E i \in DOMAIN tasks :
    LET p == tasks[i].seat
    IN  /\ tasks[i].kind = "Play"
        /\ tasks' = TasksWithout(i)
        /\ \E h \in StrategyOf(p) :
             /\ g' = TakeFromHand(g, p, h)
             /\ signals' = Append(signals, [seat |-> p, kind |-> "Play", hand |-> h])
        /\ UNCHANGED << dealing, lordDue, countdown, buttons, endings, selected, kept,
                        shown, bids, hands >>

\* The GUI thread takes up the next queued signal.
OnSignal ==
  /\ signals # <<>>
  /\ LET s == Head(signals)
     IN  IF s.kind = "Bet"
         THEN OnBet(s.seat, s.bet)
         ELSE OnHand(g, s.seat, s.hand) /\ UNCHANGED selected
  /\ signals' = Tail(signals)

\* A second after becomeLord the lord is asked for the first hand.
LordStarts ==
  /\ lordDue
  /\ lordDue' = FALSE
  /\ g' = [g EXCEPT !.status = "PlayingHand"]
  /\ AskHand(g')
  /\ shown' = IF g.cur = User THEN {} ELSE shown
  /\ bids' = <<>>
  /\ UNCHANGED <<dealing, signals, endings, selected, kept, hands>>

Next ==
  \/ Start \/ UserBids \/ ClickCard \/ UserPlays \/ UserPasses \/ Continue \/ Rest
  \/ DealCard \/ RobotBids \/ RobotPlays \/ OnSignal \/ LordStarts

\* What is due: timers fire, the pool runs its tasks, the event loop handles its
\* events, the user bids and leads in the end and is passed for by the countdown.
\* At most one of them is (OneMoveAtATime), so fairness of the whole is enough.
Due == DealCard \/ RobotBids \/ RobotPlays \/ OnSignal \/ LordStarts
       \/ UserBids \/ UserPlays \/ UserPasses

Spec == Init /\ [][Next]_vars
FairSpec == Spec /\ WF_vars(Due)

-----------------------------------------------------------------------------
(* Properties *)

Over == endings > 0

\* The user is asked for something: by the Start or the bid buttons, or for a hand.
UserAsked ==
  \/ buttons \in {"Start", "Calllord"}
  \/ buttons \in {"PlayCard", "PassOrPlay"} /\ ~Over

\* 1 if the condition holds.
Ones(b) == IF b THEN 1 ELSE 0

\* There is one move at a time: of the deal timer, the lord's timer, the tasks in
\* the pool, the queued signals, the user's buttons and the result exactly one can
\* change the table next. Nothing else in the code keeps the pool's threads, which
\* take cards from hands, from racing with the GUI thread.
OneMoveAtATime ==
  Ones(dealing) + Ones(lordDue) + Len(tasks) + Len(signals) + Ones(UserAsked) + endings = 1

\* The move belongs to the current player, and the countdown runs only while the
\* user has a hand of another player to answer (initCountDown, onUserPass).
MoveOfCurrent ==
  /\ \A i \in DOMAIN tasks : tasks[i].seat = g.cur
  /\ \A i \in DOMAIN signals : signals[i].seat = g.cur
  /\ buttons = "Calllord" => g.cur = User
  /\ countdown => g.status = "PlayingHand" /\ MayPass /\ buttons = "PassOrPlay"
  /\ buttons = "PassOrPlay" /\ ~Over => countdown

\* The cards a robot has taken from its hand and the table does not know of yet.
InFlight == UNION { signals[i].hand : i \in { j \in DOMAIN signals : signals[j].kind = "Play" } }

\* No card is in two places: two hands, a hand and the undealt cards, or a hand and
\* what a robot plays, or the table. Only a card the user had selected before the
\* deal, and plays now that somebody else has it, is on the table and in a hand. The
\* lord's three cards are not dealt again.
CardsApart ==
  /\ \A p, q \in Seats : p # q => g.hand[p] \cap g.hand[q] = {}
  /\ \A p \in Seats : g.hand[p] \cap InFlight = {}
  /\ \A p \in Seats : g.hand[p] \cap g.pendHand \subseteq kept
  /\ g.status = "DispatchCard" => \A p \in Seats : g.hand[p] \cap g.deck = {}

\* The lord is the first of the highest bidders and the hand is worth that bid: the
\* bids all three players see decide, across a bidding that ends early with three
\* points (onGrabBet, becomeLord).
HighestBidderIsLord ==
  lordDue =>
    \E i \in DOMAIN bids :
      /\ Lords(g) = {bids[i][1]}
      /\ g.curBet = bids[i][2]
      /\ g.curBet > 0
      /\ \A j \in DOMAIN bids : bids[j][2] <= bids[i][2]
      /\ \A j \in 1..(i - 1) : bids[j][2] < bids[i][2]

\* Nobody's points come from nowhere, whoever was lord and however the stakes were
\* doubled (onPlayHand).
ZeroSum == g.score[1] + g.score[2] + g.score[3] = 0

\* Both farmers win or lose together, and the lord against them (onPlayHand's three
\* branches).
SidesWinTogether ==
  [][ g'.score # g.score /\ hands' > hands =>
        /\ Cardinality(Lords(g)) = 1
        /\ \A p, q \in Seats :
             (g'.win[p] = g'.win[q]) <=> (g.role[p] = g.role[q])
        /\ \A p \in Seats : g'.win[p] <=> g'.score[p] > g.score[p] ]_vars

\* The table changes hands only to a hand that beats the one that was pending when
\* it is shown, though a robot chose it earlier in another thread (thinkPlayHand,
\* onPlayHand); a plane with a joker is the exception.
TakenOnlyByBeating ==
  [][ g'.pend # g.pend /\ g.pend # Nobody /\ g'.pend # Nobody =>
        Greater(g'.pendHand, Judge[g.pendHand]) ]_vars

\* Cards selected before the deal can leave a leading user no hand to play.
UserIsStuck == g.cur = User /\ \A own \in SUBSET Clickable : ~MayPlay(own \cup Stale)

\* A hand that has begun is settled, if everybody who may not pass plays, unless a
\* robot is left with bombs it does not lead or the user with a selection that is
\* no hand.
HandEnds ==
  g.status = "PlayingHand" ~>
    Over \/ (kept # {} /\ UserIsStuck) \/ \E p \in Robots : OnlyBombs(g.hand[p])

=============================================================================

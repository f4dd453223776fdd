-------------------------------- MODULE NetGame --------------------------------
(***************************************************************************)
(* A hand in network mode: three clients, each with a table of its own on  *)
(* which two robots stand for the others, and the server that tells the    *)
(* others of a client's bids and hands (windows/gamepanel.cpp,             *)
(* player/robot.cpp, thread/taskqueue.cpp, thread/communication.cpp of the *)
(* client, game/Communication.cpp and game/RoomList.cpp of the server).    *)
(*                                                                         *)
(* What a move says of who made it is left behind by TaskQueue: the robot  *)
(* whose turn a client believes it to be takes the next move, whoever it   *)
(* came from.  Only the order of the moves keeps the tables the same.      *)
(*                                                                         *)
(* The threads of a client, its timers and signals are those of            *)
(* GameControl; buttons, countdown and what is shown are left out, and     *)
(* nobody closes a window.                                                 *)
(***************************************************************************)
EXTENDS Table, Sequences

Seqs == INSTANCE SequencesExt

CONSTANTS
  Dealt,     \* the cards in the order of the DealCards message
  Bets,      \* bound: the bids that are made
  MaxMoves,  \* bound: moves of a game
  WorkerOf,  \* the worker thread of each client's connection
  ByName,    \* the clients in the order of their names
  Relock     \* what may happen when a thread locks RoomList's m_mutex again, which
             \* C++ leaves undefined: it "returns" or it "hangs" (with glibc it hangs)

\* In the order of playersOrder, in which they bid.
Clients == 1..3
User == 1
Robots == Seats \ {User}

ASSUME NetGameAssumption ==
  /\ Dealt \in Seq(Deck) /\ Len(Dealt) = Cardinality(Deck) /\ Seqs!ToSet(Dealt) = Deck
  /\ {0, 3} \subseteq Bets /\ Bets \subseteq 0..3
  /\ MaxMoves \in Nat
  /\ DOMAIN WorkerOf = Clients
  /\ ByName \in Seq(Clients) /\ Len(ByName) = 3 /\ Seqs!ToSet(ByName) = Clients
  /\ Relock \subseteq {"returns", "hangs"}

VARIABLES
  g,        \* the table of each client
  dealing,  \* StartGame has come, or three zeroes: the cards are to be dealt
  lordDue,  \* becomeLord's singleShot is pending
  tasks,    \* what the robots were asked
  signals,  \* the robots' signals queued for the GUI thread
  over,     \* the hand is settled
  queue,    \* TaskQueue
  up,       \* moves sent to the server
  down,     \* moves sent to the client
  relays,   \* what each worker has yet to send
  hung,     \* workers that wait for the mutex they hold
  seen      \* the moves of this game on each client's table

tableVars  == << g, dealing, lordDue, tasks, over, seen >>
serverVars == << relays, hung >>
vars == << tableVars, signals, queue, up, down, serverVars >>

\* Task, and what the messages carry of it.
Task == [bet : Bets, cards : SUBSET Deck]
BetOf(b)   == [bet |-> b, cards |-> {}]
CardsOf(h) == [bet |-> 0, cards |-> h]

Move == [by : Clients, kind : {"Bet", "Play"}, bet : Bets, cards : SUBSET Deck]

Workers == { WorkerOf[c] : c \in Clients }

TypeOK ==
  /\ g \in [Clients -> Tables]
  /\ dealing \in [Clients -> BOOLEAN]
  /\ lordDue \in [Clients -> BOOLEAN]
  /\ tasks \in [Clients -> Seq([seat : Robots, kind : {"Bet", "Play"}])]
  /\ signals \in [Clients -> Seq([seat : Robots, kind : {"Bet", "Play"}, task : Task])]
  /\ over \in [Clients -> BOOLEAN]
  /\ queue \in [Clients -> Seq(Task)]
  /\ up \in [Clients -> Seq(Task)]
  /\ down \in [Clients -> Seq(Task)]
  /\ relays \in [Workers -> Seq([to : Clients, task : Task])]
  /\ hung \in SUBSET Workers
  /\ seen \in [Clients -> Seq(Move)]

\* updatePlayerInfo: the next in the order sits to the right, the one before to the
\* left. SeatOf is where client d sits at c's table, and ClientAt who sits at seat p.
SeatOf(c, d)   == ((d - c + 3) % 3) + 1
ClientAt(c, p) == ((c + p - 2) % 3) + 1

\* The table of a new window, at which p begins.
NewTable(p) ==
  [ status |-> "DispatchCard", cur |-> p, hand |-> [q \in Seats |-> {}], deck |-> {},
    pend |-> Nobody, pendHand |-> {}, role |-> [q \in Seats |-> "Farmer"],
    betBy |-> Nobody, bet |-> 0, times |-> 0, curBet |-> 0,
    score |-> [q \in Seats |-> 0], win |-> [q \in Seats |-> FALSE] ]

\* StartGame is on its way to three new windows; setCurrentPlayer makes the first in
\* the order the current player of every table.
Init ==
  /\ g = [c \in Clients |-> NewTable(SeatOf(c, 1))]
  /\ dealing = [c \in Clients |-> TRUE]
  /\ lordDue = [c \in Clients |-> FALSE]
  /\ tasks = [c \in Clients |-> << >>]
  /\ signals = [c \in Clients |-> << >>]
  /\ over = [c \in Clients |-> FALSE]
  /\ queue = [c \in Clients |-> << >>]
  /\ up = [c \in Clients |-> << >>]
  /\ down = [c \in Clients |-> << >>]
  /\ relays = [w \in Workers |-> << >>]
  /\ hung = {}
  /\ seen = [c \in Clients |-> << >>]

-----------------------------------------------------------------------------
(* The table of a client *)

\* Mistake: the user is asked like a robot.
AskedLikeRobots(c, p, kind) == Append(tasks[c], [seat |-> p, kind |-> kind])

\* prepareCallLord and preparePlayHand of a robot start a task, those of the user show
\* buttons.
Asked(c, p, kind) == IF p = User THEN tasks[c]
                     ELSE Append(tasks[c], [seat |-> p, kind |-> kind])

See(c, p, kind, task) ==
  seen' = [seen EXCEPT ![c] = Append(@, [by |-> ClientAt(c, p), kind |-> kind,
                                         bet |-> task.bet, cards |-> task.cards])]

\* onGrabBet.
OnBet(c, p, b) ==
  LET t == AfterBet(g[c], p, b)
      again == Redeals(g[c], b)
      ends  == EndsBidding(g[c], b) /\ ~again
  IN  /\ g' = [g EXCEPT ![c] = IF again THEN Dispatch(t) ELSE t]
      /\ dealing' = [dealing EXCEPT ![c] = again]
      /\ lordDue' = [lordDue EXCEPT ![c] = ends]
      /\ tasks' = [tasks EXCEPT ![c] = IF again \/ ends THEN @ ELSE Asked(c, NextOf(p), "Bet")]
      /\ See(c, p, "Bet", BetOf(b))
      /\ UNCHANGED over

\* Mistake: the next player is asked after the last hand, too.
OnHandGoesOn(c, t, p, h) ==
  /\ g' = [g EXCEPT ![c] = AfterHand(t, p, h)]
  /\ over' = [over EXCEPT ![c] = WinsWith(t, p)]
  /\ tasks' = [tasks EXCEPT ![c] = Asked(c, NextOf(p), "Play")]
  /\ See(c, p, "Play", CardsOf(h))
  /\ UNCHANGED << dealing, lordDue >>

\* onPlayHand; t is the table after playHand.
OnHand(c, t, p, h) ==
  /\ g' = [g EXCEPT ![c] = AfterHand(t, p, h)]
  /\ over' = [over EXCEPT ![c] = WinsWith(t, p)]
  /\ tasks' = [tasks EXCEPT ![c] = IF WinsWith(t, p) THEN @ ELSE Asked(c, NextOf(p), "Play")]
  /\ See(c, p, "Play", CardsOf(h))
  /\ UNCHANGED << dealing, lordDue >>

\* onDispatchCard, from the first card to the last: all but three are dealt in the order
\* they came in (takeRandCard in network mode), every third to the same player, so that
\* the first player is the current one again.
Batch(k) == { Dealt[i] : i \in { j \in 1..(Len(Dealt) - Surplus) : (j - 1) % 3 = k } }

LordsCards == { Dealt[i] : i \in (Len(Dealt) - Surplus + 1)..Len(Dealt) }

DealtOut(t) ==
  [t EXCEPT !.hand = [p \in Seats |-> Batch((p - t.cur + 3) % 3)],
            !.deck = LordsCards,
            !.status = "CallingLord"]

\* The timer deals, and the first player is asked to bid.
Deal(c) ==
  /\ dealing[c]
  /\ g' = [g EXCEPT ![c] = DealtOut(Dispatch(@))]
  /\ tasks' = [tasks EXCEPT ![c] = Asked(c, g[c].cur, "Bet")]
  /\ dealing' = [dealing EXCEPT ![c] = FALSE]
  /\ UNCHANGED << lordDue, signals, over, queue, up, down, serverVars, seen >>

LordStarts(c) ==
  /\ lordDue[c]
  /\ lordDue' = [lordDue EXCEPT ![c] = FALSE]
  /\ g' = [g EXCEPT ![c].status = "PlayingHand"]
  /\ tasks' = [tasks EXCEPT ![c] = Asked(c, g[c].cur, "Play")]
  /\ UNCHANGED << dealing, signals, over, queue, up, down, serverVars, seen >>

-----------------------------------------------------------------------------
(* The user *)

Tell(c, task) == up' = [up EXCEPT ![c] = Append(@, task)]

UsersTurn(c, status) ==
  /\ g[c].status = status
  /\ g[c].cur = User
  /\ ~lordDue[c] /\ ~over[c]
  /\ Len(seen[c]) < MaxMoves

\* The bid buttons: the bid is made, and then the server is told.
UserBids(c) ==
  /\ UsersTurn(c, "CallingLord")
  /\ \E b \in Bets \cap ({0} \cup (g[c].bet + 1)..3) : OnBet(c, User, b) /\ Tell(c, BetOf(b))
  /\ UNCHANGED << signals, queue, down, serverVars >>

\* onUserPlayHand's conditions on the cards, and onUserPass'.
MayPlay(t, h) ==
  /\ h # {}
  /\ Judge[h].type # "Unknown"
  /\ t.pend # User => CanBeat(Judge[h], Judge[t.pendHand])

MayPass(t) == t.pend \notin {User, Nobody}

\* The user plays or passes, or the countdown passes; then the server is told
\* (notifyOtherPlayHand).
UserPlays(c) ==
  /\ UsersTurn(c, "PlayingHand")
  /\ \E h \in SUBSET g[c].hand[User] :
       /\ MayPlay(g[c], h) \/ (h = {} /\ MayPass(g[c]))
       /\ OnHand(c, TakeFromHand(g[c], User, h), User, h)
       /\ Tell(c, CardsOf(h))
  /\ UNCHANGED << signals, queue, down, serverVars >>

-----------------------------------------------------------------------------
(* The other threads of a client *)

\* Communication's thread turns OtherGrabLord and OtherPlayHand into a task.
AddTask(c) ==
  /\ down[c] # << >>
  /\ queue' = [queue EXCEPT ![c] = Append(@, Head(down[c]))]
  /\ down' = [down EXCEPT ![c] = Tail(@)]
  /\ UNCHANGED << tableVars, signals, up, serverVars >>

\* thinkCallLord and thinkPlayHand wait for a move and make it: a robot that was asked
\* to bid reads the bid of it, one that was asked to play the cards.
RobotTakes(c) ==
  /\ queue[c] # << >>
  /\ \E i \in DOMAIN tasks[c] :
       LET r == tasks[c][i]
           t == Head(queue[c])
       IN  /\ g' = [g EXCEPT ![c] = IF r.kind = "Play" THEN TakeFromHand(@, r.seat, t.cards)
                                    ELSE @]
           /\ signals' = [signals EXCEPT ![c] =
                            Append(@, [seat |-> r.seat, kind |-> r.kind, task |-> t])]
           /\ tasks' = [tasks EXCEPT ![c] = Seqs!RemoveAt(@, i)]
  /\ queue' = [queue EXCEPT ![c] = Tail(@)]
  /\ UNCHANGED << dealing, lordDue, over, up, down, serverVars, seen >>

\* The GUI thread takes up the next queued signal.
OnSignal(c) ==
  /\ signals[c] # << >>
  /\ LET s == Head(signals[c])
     IN  IF s.kind = "Bet" THEN OnBet(c, s.seat, s.task.bet)
                           ELSE OnHand(c, g[c], s.seat, s.task.cards)
  /\ signals' = [signals EXCEPT ![c] = Tail(@)]
  /\ UNCHANGED << queue, up, down, serverVars >>

-----------------------------------------------------------------------------
(* The server *)

\* Mistake: the player stays among the players that are told.
PlayersToo(c) == ByName

\* Whom getPartners returns: the player is found among all and erased.
Partners(c) == Seqs!RemoveAt(ByName, CHOOSE i \in DOMAIN ByName : ByName[i] = c)

\* A worker handles the next request of one of its connections. getPartners locks the
\* mutex and calls getPlayers, which locks it again.
HandleMove(c) ==
  LET w == WorkerOf[c]
  IN  /\ up[c] # << >>
      /\ relays[w] = << >>
      /\ hung = {}
      /\ \/ /\ "returns" \in Relock
            /\ relays' = [relays EXCEPT ![w] =
                            [i \in DOMAIN Partners(c) |-> [to   |-> Partners(c)[i],
                                                           task |-> Head(up[c])]]]
            /\ UNCHANGED hung
         \/ /\ "hangs" \in Relock
            /\ hung' = {w}
            /\ UNCHANGED relays
      /\ up' = [up EXCEPT ![c] = Tail(@)]
      /\ UNCHANGED << tableVars, signals, queue, down >>

\* notifyOtherPlayers sends to one after the other.
NotifyOther(w) ==
  /\ relays[w] # << >> /\ w \notin hung
  /\ LET r == Head(relays[w])
     IN  down' = [down EXCEPT ![r.to] = Append(@, r.task)]
  /\ relays' = [relays EXCEPT ![w] = Tail(@)]
  /\ UNCHANGED << tableVars, signals, queue, up, hung >>

\* What is due: timers fire, threads go on, workers handle what has come. Users need not
\* move.
Due ==
  \/ \E c \in Clients : \/ Deal(c) \/ LordStarts(c) \/ AddTask(c) \/ RobotTakes(c)
                        \/ OnSignal(c) \/ HandleMove(c)
  \/ \E w \in Workers : NotifyOther(w)

Next == Due \/ \E c \in Clients : UserBids(c) \/ UserPlays(c)

Spec == Init /\ [][Next]_vars

\* Between two moves of users there is an end to what is due, so fairness of the whole
\* is enough.
FairSpec == Spec /\ WF_vars(Due)

-----------------------------------------------------------------------------
Foremost == CHOOSE c \in Clients : \A d \in Clients : Len(seen[d]) <= Len(seen[c])

M == INSTANCE Moves WITH log <- seen[Foremost], broken <- (hung # {})

\* The three tables go through the same moves, each ascribed to the player who made it,
\* and who moves has seen all moves before; as long as no worker hangs, all tables see
\* all moves (robot.cpp:42 and robot.cpp:100, which take whatever move is next).
SameGame == M!Spec

\* When the hand is settled at a table, no robot still waits for a move there and no
\* move for a robot: though TaskQueue outlives the game and nobody calls its clear, the
\* robots of the next game begin with its first move (taskqueue.cpp:49).
LeavesNothing ==
  \A c \in Clients :
    over[c] => /\ tasks[c] = << >> /\ signals[c] = << >>
               /\ queue[c] = << >> /\ down[c] = << >>

-----------------------------------------------------------------------------
(* What the repository says of the code and the code does not do *)

\* Communication.cpp:44: the other players are told ("inform the other players").
OthersAreTold ==
  \A n \in 1..MaxMoves :
    (\E c \in Clients : Len(seen[c]) >= n) ~> (\A c \in Clients : Len(seen[c]) >= n)
=============================================================================

# TLA+ models of networkAntimaster

networkAntimaster is a networked Dou Dizhu (fight the landlord).  A C++ server
(`src/server-antiMaster`) seats players in rooms, deals, relays bids and hands
and keeps scores; a Qt client (`src/client-antiMaster`) shows the game and also
runs a single-player game against two robots.  This directory models the parts
of the program that decide *what happens when*: the lobby of the server with the
windows of its clients, the worker threads between its redis commands, the event loop that
serves a connection, the bytes on the wire, the rules of hands, the single-player game with
its timers and threads, and the network game with its relays.  All paths below are relative to `src/`.

## 1. Inventory

### Server (`server-antiMaster`)

| part | state | operations | correct when |
|---|---|---|---|
| `Room` (`game/Room.cpp`) | redis: sets `OnePlayers`, `TwoPlayers`, `ThreePlayers`, `Invalid`; a sorted set of members with scores per room; hash `Players` (player -> room joined last) | `joinRoom` (automatic, by name), `leaveRoom`, `updatePlayerScore`, `whereAmI`, `playerScore`, `playersOrder`, `clear` | the class of a room bounds its members, no room exceeds three, a player is in one room, full and broken rooms are not offered |
| `RoomList` (`game/RoomList.cpp`) | singleton map room -> (player -> send callback) and a mutex | `addUser`, `getPlayers`, `getPartners`, `removePlayer`, `removeRoom` | registered players are members; callbacks are alive; the lock is not taken twice |
| `Communication` (`game/Communication.cpp`) | one per connection: AES key, callbacks | `parseRequest` and one handler per request: `handleAddRoom`, `handleLeaveRoom`, `handleGameOver`, `restartGame`, `handleGoodBye`, `notifyOtherPlayers`, `startGame`, login, registration, key exchange | a hand starts for exactly the three members of a room; clients know their room; scores survive a change of room |
| `MySqlConn` | tables `user`, `information` (score, status) | login, registration, `playerScore`, `updatePlayerScore` | redis and MySQL keep the same score; who plays is logged in, once |
| Reactor (`reactor/`, `thread/`, `tcp/`) | event loops with task queues and channels, worker threads, connections with their buffers and events | `addTask`, `processTaskQ`, `add/modify/remove/freeChannel`, `takeWorkerEventLoop`, reads and writes, `addWriteTask` from any worker | tasks run in the loop's own thread and soon; epoll watches what the channel says, and the channel says what the buffers need; answers arrive |
| `Buffer`, `Codec` | read and write positions; protobuf messages | `bufferExtenRoom`, `appendPackage`, `socketRead`, `sendData`, `data`; `sendMsg`, `recvMsg`, `readn` of the client | no byte lost, changed or overtaken while memory is moved and packages are cut |

### Client (`client-antiMaster`)

| part | state | operations | correct when |
|---|---|---|---|
| `GameControl` (`control/gamecontrol.cpp`) | three players, current player, cards undealt, bid record, stakes, pending hand | `startLordCard`, `onGrabBet`, `becomeLord`, `onPlayHand`, `resetCardData` | the highest bidder is lord; cards are in one place; points add up; sides win together |
| `Player`, `UserPlayer`, `Robot`, pool tasks (`player/`, `thread/robot*.cpp`) | hand, role, score, neighbours, copy of the pending hand | `prepareCallLord`, `preparePlayHand`, `thinkCallLord`, `thinkPlayHand`, `playHand` | one player at a time is asked, and it is the current one |
| `GamePanel`, `ButtonGroup`, `CountDown`, `EndingPanel` (`windows/`) | status, deal timer, countdown, page of buttons, selected cards, cards shown, results on display | `startDispatchCard`, `onDispatchCard`, `onPlayerStatusChanged`, `onUserPlayHand`, `onUserPass`, `onCardSelected`, `showEndingScorePanel`, `closeEvent` | the countdown passes for nobody else; a new hand starts clean; a result is shown once |
| `PlayHand` (`strategy/playhand.cpp`) | none | type, point and length of a hand; `canBeat` | types follow the rules, beating is one-way |
| `Strategy` (`strategy/strategy.cpp`) | none | `firstPlay`, `getGreaterCards`, `whetherToBeat` | a leader plays, a follower's hand beats |
| `TaskQueue` (`thread/taskqueue.cpp`) | queue of a partner's moves from the server | `add`, `take`, `clear` | robots of a network game make their partners' moves, in order, and leave none behind |
| `GameMode`, `JoinRoom`, `Login`, `DataManager`, `Communication` | window, room name and mode, the connection | which request follows which | the room a request names is the room the player is in |

### How they interact

A client's windows send requests over one TCP connection; a worker thread of
the server, whose event loop reads the request, runs the handler, which changes redis, MySQL and RoomList and calls
the send callbacks of other players' connections: these append to the other
connection's buffer and leave a task for its own loop to start writing.  In a network game each client
runs its own `GameControl`, and the other two players are robots that take
their moves from `TaskQueue` instead of `Strategy`.  In a single-player game the
GUI thread asks robots by starting tasks in the global thread pool, which take
cards from the robots' hands there and answer by queued signals; two timers and
a countdown run beside them.  Nothing but turn-taking protects the hands.

### What is hard

* state kept in three places (redis, RoomList, MySQL) by separate calls, with
  joins that can be refused after the old seat is already given up;
* buffers and events of a connection changed by several workers, of which only the
  task queue is locked, and a loop asleep while tasks are added;
* handlers of several workers that read and write redis one command at a time, without
  a transaction;
* three replicas of one game fed by relays that say neither who moved nor in which turn;
* classes of rooms that leaving does not bring up to date, callbacks that outlive their
  connection, and a login status that outlives the server;
* memory moved while it is read, packages split over reads;
* requests sent before the answer that changes the room's name;
* cards moving between threads, with a countdown racing the user, and a window
  that goes from one hand to the next without being rebuilt;
* hands of several sizes and types that must form an order without cycles.

`PROJECT.json` lists every hazard at its line with the properties about it, and
those that no property covers yet with the reason.

## 2. Modules

| module | models | relies on |
|---|---|---|
| `RoomStore` | `Room` and `RoomList`: operators from a store to the store after the whole method | |
| `Lobby` | `Communication`'s handlers, the clients' windows, the requests in flight, login and `Goodbye`, aborts and restarts | `RoomStore` |
| `MCLobby` | instances of `Lobby` | `Lobby` |
| `LobbyProofs` | lemmas about the store, theorems about the lobby | `Lobby` |
| `Workers`, `MCWorkers` | `handleAddRoom` and `handleLeaveRoom` one redis command at a time, over several workers | `RoomStore` |
| `Reactor` | one connection, its `EventLoop` and epoll dispatcher, the main thread and the workers that relay to it | |
| `MCReactor` | instances of `Reactor` | `Reactor` |
| `ReactorProofs` | theorems about the event loop | `Reactor` |
| `Buffer` | `Buffer`: operators from a buffer to the buffer after the whole method | |
| `Wire`, `MCWire` | the bytes between a client and its connection, both ways | `Buffer` |
| `ByteQueue`, `Link` | what a direction of a connection promises, byte by byte and package by package | |
| `WireProofs` | that the buffer is a queue of bytes, that requests and answers stay in order | `Wire`, `ByteQueue`, `Link` |
| `PlayHand` | type, point, length of a hand, `canBeat`, on the number of cards held of each point | |
| `Strategy` | the search for hands and the choice among them, as operators on the number of cards held of each point | `PlayHand` |
| `MCHands` | a reference definition of the types, written from the enum's comments (`strategy/playhand.h:9-37`) as lists of shapes; a robot dealt one card after the other, asked to lead and to follow | `Strategy` |
| `StrategyProofs` | lemmas about hands put together and about what every search and choice of `Strategy` finds | `Strategy` |
| `HandsProofs` | theorems about the rules, for any hands picked of one deck, and about what a robot leads and answers, whatever it is dealt | `MCHands`, `StrategyProofs` |
| `Table` | one hand as `GameControl` and its `Player`s keep it: a record `g` and one operator per method | `PlayHand` |
| `GameControl` | the threads, timers and windows around the table of a single-player game | `Table` |
| `MCGameControl` | instances: a small deck, from the deal on | `GameControl` |
| `TableProofs` | lemmas about the methods of a table, for both games | `Table` |
| `GameControlProofs` | theorems about the single-player game: types, turns, scores, the lord, the cards, the table, the winners, and that the robots of `Strategy` play by it | `GameControl`, `TableProofs`, `StrategyProofs` |
| `NetGame`, `MCNetGame` | a network game: three tables, the robots that replay, `TaskQueue`, the relays | `Table` |
| `Moves` | what three clients promise each other: one log of moves | |
| `NetGameProofs` | theorems about the network game: types, the safety of `Moves`, nothing left behind | `NetGame`, `TableProofs` |

`NetGame` implements `Moves`, `Wire` implements `Link` and `ByteQueue`; the refinement
mappings are in `NetGame` and `Wire`.

Definitions that begin with a comment "Mistake:" are deliberate bugs.  No
specification uses them: each replaces the definition after it to see that a
property notices (`mutants` in `PROJECT.json`).

### The lobby

`db` is redis, `roomMap` is RoomList, `score` and `online` are MySQL.  A callback is modelled by
whether it is alive: `dangling` holds the players whose registered callback is
bound to a deleted connection; calling one is undefined, so `Deliver` lets the
process die or the message be lost.  Each client has a window (`phase`), the room
name and mode of its `DataManager` (`croom`, `mode`) and a FIFO of requests sent
and not handled (`req`).

Each handler is one action, as in a server with one worker.  Replies reach the
client in the step that sends them; a request that overtakes a reply is one that
was sent earlier and is still in `req`.  `HandDecided` stands for the relayed hand:
it happens when all three registered players have an open hand and no other
request in flight, because bids and hands use the same connections.  This
over-approximates the relays, whose own matter is `NetGame`.  

A room name is any text: `Rooms` has the empty name (`NoRoom`), which a player may type like any
other and which is also what `whereAmI` answers for nothing, the names of other redis
keys (`Reserved`: `RSA`, `Players`, the four classes), the six digits that `getNewRoomName` draws
(`DrawnRooms`) and names that are only typed.  `getNewRoomName` does not look whether a name is
in use: with `Redraws` it draws any, without it a free one, which is what happens unless one of
900000 names is drawn again.  A reserved name ends the server at the first command
(`JoinAborts`), as redis does for a key of another type.  This is simplified for a class that is
still empty: redis then has no such key, a room of that name is made, and the exception comes
within that join or when the class is next used.  The reply to a refused join names no room and so
goes to the players of the room with the empty name, whose hand starts if they are three (`Refuse`).

`OrdinaryUse` is the negation of three habits that break the rooms (section 6): that the empty name
is typed, that a name in use is drawn, and that single-player results are reported (`Offline`).
The properties about rooms, scores and clients are checked and proved in ordinary use, and that is
written in each theorem as its assumption.  Three theorems hold in any use.

A new `DataManager` has mode `Auto`.  The assert of `joinRoom` aborts, as
in a debug build.  `SearchRoom` changes no state and is left out.  A login starts a new client program and needs `online` to be `FALSE`;
`Goodbye` sets it so, and nothing else does, so that after an abort the players who were
logged in stay out (section 6).

### The workers

`main.cpp` starts four workers, and a connection stays with one of them (`WorkerOf`).
`Workers` has the two handlers that change rooms as a program counter `at` per player and
one step per redis command, since a command is what redis runs alone; a call of RoomList is
one step, for its mutex.  `job` holds the local variables.  A worker has one request in
hand.  `joinRoom(user)` asks for the size of a set and then for a member of it: when the
set has become empty in between, `room.value()` throws and the server ends (`Abort`), as it
does in the assert.  Scores are left out; GameOver, Continue and Goodbye are in `Lobby` only.

With one worker the steps of handlers do not interleave, and `Workers` does what `Lobby`
says of these two requests; this was checked with TLC (three players, two requests each, a
typed name: `FullRoomsPlay` and, whenever no handler is at work, `StoreInv`).

### The reactor

Threads are the worker's loop, the main thread that accepted the connection, and
partners' workers that relay to it; `at` is where each is in the code.  A step ends
where another thread may come between: after an append, after `setCurrentEvent`,
after the task is in the queue, after the wake-up, and in the loop after `send`,
after its test for an empty buffer, after every task.  `queue` is the locked task
queue, `wake` whether bytes wait in the socket pair, `events` what the channel says,
`watch` what epoll knows of the connection; reading and writing exclude each other.
`ready` holds the events of one `epoll_wait` not yet handled.  Requests are `Ask`
(answered on their own connection), `Tell` (not answered) and `Bye`.

Relays come from joins and from the start of a hand (`readyForPlay`, `startGame`), and
from bids and hands where `getPartners` returns.  An answer is one package; that
starting a hand sends its last player three, one after the other by the same code, is left
out.  Packages are whole and an append is one step (the buffer itself is the matter of
`Wire`), at most seven wake-ups wait at a
time (one `read` takes them all), events of a connection with an error or hang-up
are skipped as `dispatch` does.  A callback of a deleted connection is undefined:
`UseDeleted` lets the process die or nothing happen.  A deleted connection keeps its
place in the map if a buffer was not empty; the next task for it makes `epoll_ctl`
fail and the server exit (`Modify`).

### The wire

`Buffer` is memory with a read and a write position, as in the code, and an operator per
method: `BufferExtenRoom` moves what is readable to the front or grows.  The move is a
`memcpy` of overlapping memory, which C leaves undefined; `CopiesForward` says that it
begins with the first byte, and `Moved` also says what a copy from the other end leaves.
`Wire` is one connection: `SendMsg` of the client writes a length and a request,
`ProcessRead` reads any number of bytes that have come and parses *one* request from the
buffer without asking whether it is there, with an answer or none, `SendData` sends
what the socket takes, `Readn` and `RecvMsg` are the client's loop.  A request that reaches
beyond the memory may do anything (`alive`).  Lengths are two bytes of a small `Base`.

When the loop reads and writes is `Reactor`'s matter: here the connection has one thread.
Two threads in one buffer (an append by a partner's worker during `send`) are not modelled:
`Buffer` has no lock, so what they do to each other is undefined.

### The single-player game

`g` is the table.  Deal timer, `becomeLord`'s single shot and the countdown are
Booleans (`dealing`, `lordDue`, `countdown`): a timer is due or not.  A robot asked
is an element of `tasks`, run by the pool in any order; its answer is an element of
`signals`, taken up in order.  `buttons` is the page of `ButtonGroup`; `endings`
counts results on display.  `selected` is `m_selectCards`.  The user clicks own cards
at any time a hand is on (`ClickCard`); the clicks in the user's own turn are part of `UserPlays`, which
plays what is selected and empties the selection, as passing does.  Nothing else empties it, so that
it outlives the hand and the deal: cards in it that others hold now cannot be clicked any more (`Stale`)
and are played with the next hand.  `MaxClicks` bounds how many cards are selected out of
turn.  `kept` records the selection at the last deal, for the properties that except such a
card.  `bids` records the bids all players see until the bidding is over; it exists for
`HighestBidderIsLord`.  `hands`
counts settled hands for the bound.

A robot bids anything, leads with any hand of a known type (nothing at all if it
holds only bombs and more than one: `firstPlay` sets bombs aside) and follows with
any hand that `getGreaterCards` may find, or passes.  This keeps every choice of
`Strategy` and abstracts its preferences; that no choice is lost is a theorem (`RobotsAgree`).  With `Restless` the user
also clicks the own cards on the table, which the window allows, and can then play them again and
win a won hand again.  With it and three or more hands, the game can come to a standstill: two results on
display let the user press Continue in the middle of the next hand's bidding, which deals
again while a bid is outstanding.  No run has `Restless = TRUE`; what holds with it is proved
(`TypesHold`, `ScoresAddUp`, `SidesWin`), and the other theorems about turns and cards assume `~Restless`.

### The network game

Each of `Clients` has a table `g[c]` of its own, at which it is seat 1 and two robots stand
for the others (`SeatOf`, `ClientAt`).  A move of the user is made at the own table and sent
(`up`); a worker takes the request (`HandleMove`) and appends it to the two others one
after the other (`NotifyOther`, `down`); the receiving thread puts it into `queue`
(`AddTask`); the robot whose turn the client believes it to be takes it (`RobotTakes`), and the
GUI thread takes up the signal (`OnSignal`).  Nothing in a task says whose move it is.

`getPartners` locks `m_mutex` and calls `getPlayers`, which locks it again.  For a
`std::mutex` this is undefined (with glibc the thread waits for itself), so `Relock` says
which outcomes there are; a worker that hangs stays in `hung`, and no other gets past the
mutex.

The timer's deal is one step (`DealtOut`), written as what the dealing of one card after the
other comes to: every third card goes to the same player.  `MCNetGame` has TLC check that it is
`Table`'s `DealOne` repeated, whoever is dealt to first (`DealtOneByOne`).

`Moves` has one log.  A client makes a move when it has seen the whole log, and sees the log's
moves in order; with nobody hung everybody sees all.  The mapping takes the longest record
of a table for the log.  `seen` records the moves at each table and exists for the mapping.

## 3. Runs

| run | instance | shows |
|---|---|---|
| `rooms` | ordinary use: 3 players, 2 rooms, also typed, one request in flight each, Goodbye and restarts | classes, memberships, registrations, logins and the clients' room names agree; hands are for three; only the name of a room that is closed aborts; the invariants of the proofs hold of reachable states |
| `scores` | ordinary use: 3 players, 2 drawn rooms, 2 scores, two requests in flight each | RoomList lists members only and redis and MySQL agree on the scores, though results and Continues are overtaken by joins and leaves |
| `anyuse` | 2 players, one drawn room, the room without a name and a reserved name, all of them typed, names in use drawn, single-player results, two requests in flight each | no player's seat changes but in the own request, and only the names `NameAborts` lists, or a deleted connection's callback, take the server down |
| `crowd` | 4 players over 2 workers, who ask for any room once | a room of three to whom no hand is dealt, see section 6 |
| `loop` | a connection, two workers that relay twice, two requests, with fairness | tasks are noticed and run, no change of the events is lost, a client left alone is answered |
| `deaf` | as `loop`, safety only | a relayed package left unsent, see section 6 |
| `wire` | 2 requests of one or two bytes, answers likewise, memory for less than two packages, every way to cut them, with fairness | answers arrive whole, in order, and all of them (`Link`); the buffer and the network are a queue of bytes; requests are parsed in order as long as none is split |
| `hands` | two selections of cards of ten points, jokers included, that grow card by card (12 in all, compared over six points), and a robot dealt up to 12 cards of one of two decks, leading or following a hand of each type | `HandType` is the type the enum describes; `canBeat` is one-way, and only bombs change the size; `FirstPlay` leads one hand; an answer beats the table, with the exceptions of section 6 |
| `game` | two hands in one window, 6 cards, bids 0, 2, 3, one card selected out of turn | the properties of the game below; what the first hand leaves behind, a selected card included, does not disturb the second but for that card |
| `ends` | the first hand, all bids, one card selected out of turn, with fairness | the first highest bidder is lord; a hand that has begun is settled |
| `net` | one game at three tables, 6 cards, 9 moves, one worker, the relock returns or hangs, with fairness | the tables go through the same moves (`Moves`), and a settled game leaves nothing in any queue |
| `relay` | as `net`, the relock hangs | other players are not told, see section 6 |

*Bounds.*  Three players and two rooms are the least in which a room fills, breaks
and is left for another; that no room ever takes a fourth is a theorem
(`RoomsKeepTheirClass`), for any number of players.  `MaxPending` bounds a client's
unhandled requests: 1 already lets a client act on a room it is about to lose (`rooms`); that a
request is sent from one room and handled in another takes 2 (`scores`, `anyuse`), and the theorems
hold for any number.  `scores` leaves out typed names, `Goodbye` and restarts, which `rooms` has, and `anyuse`
`Goodbye` and restarts, so that no callback dangles there; the theorems have them all.  Two players are
enough in `anyuse` to take another's seat and to break a room; three with two requests are
beyond the time of a run.  The
deck of 6 cards gives each player one card and leaves three for the lord: four
threes and both jokers, so that singles, pairs, triples and both kinds of bombs occur;
larger decks only lengthen the hand; hands of more cards are the matter of `hands`.
`MaxHands` bounds the hands in a window, `Bets` the bids (`game` leaves
out 1, `ends` has all: the record distinguishes only smaller, equal and greater
bids, zero and three).  With `MaxClicks = 1` one card is kept over the deal, enough for a card of
a robot to be on the table and in its hand, which TLC reaches in `game`.  That kept cards leave a
leading user no hand at all, the exception in `HandEnds`, takes more cards than six; in `ends` nothing is
kept, as it has one hand.  `MaxEndings` and `MaxStakes` would bound a restless user, who
could win the same hand forever.  In `loop`, two workers that relay can disturb the connection's own loop and each other,
and two relays can come before and after a send; two requests arrive in one read or
in two, and the second may overtake the answer to the first.
In `hands` one deck of the robot has two cards of six points and both jokers, for the sequences, the
other four of four points and the big joker, for triples, planes and bombs.
In `wire` five bytes of memory hold one package and part of the next, so that the buffer moves,
grows and, in reading, spills into the second area (`Extra`), and a length of two digits
in base 3 is cut in the middle.
In `net` nine moves (`MaxMoves`) are six bids, with one redeal, and three hands, or three bids
and a game to its end.
`crowd` needs the fourth player for the second worker to take the room's last seat while the
first worker's handler is between two commands.

`CHECK_DEADLOCK FALSE` appears where the system may stop: the walk through the hands ends; the
server may exit (`loop`, `deaf`) or hang and a game ends (`net`, `relay`); everybody may be
locked out after an abort, and a crashed server has clients with full queues (`rooms`, `anyuse`); requests are
bounded and users need not send one (`scores`, `crowd`, `wire`).

*Symmetry* permutes players and drawn rooms (lobby), rooms (`crowd`) and suits (game); it is not used
with liveness.

*Fairness.*  `FairSpec` asks weak fairness of `Due`: what a running timer, the thread
pool, Qt's event loop or the countdown does without being asked, and that the
user bids and leads in the end.  Timers fire, pool threads run their tasks and the
event loop handles its events as long as the program runs; the countdown passes
for a user who must only answer.  For leading and bidding there is no countdown in
the code, hence the assumption about the user.  At most one of these can happen at
a time (`OneMoveAtATime`), so fairness of their disjunction is enough.
The reactor's `FairSpec` asks weak fairness of the loop's steps, of the main thread and of
a worker that has begun a relay: threads run.  The client and the network are not
fair, and no relay has to begin.
The connection's `FairSpec` (`Wire`) asks that the loop sends while there is data and that the
client's thread goes on reading.  `NetGame`'s asks weak fairness of `Due`: timers, threads,
the GUI's event loop and the workers go on; users need not move, which is why `net` has no
property that a game ends.

## 4. Properties

Lobby: `RoomClasses`, `OneRoomPerPlayer`, `ListedAreMembers`, `WaitingRoomsAgree`,
`ScoresAgree`, `KnowsRoom`, `LobbyInv` (invariants; the last is the inductive one and has
`LoggedIn`, that a client at work is logged in), `HandsNeedThree`, `SeatsAreOnesOwn`,
`AbortsByNameOnly` (of steps).  They relate redis, RoomList, MySQL and what the
clients believe, over joins, refusals, leaves, logins, restarts of a room and of the server.
The last two hold in any use, the others in `OrdinaryUse`.

Network game: `SameGame` (`NetGame` implements `Moves`, liveness included) and
`LeavesNothing`.  The first is what the players rely on: that the task a robot takes is the move
of the player it stands for follows from the order of moves alone, over six queues per
move.

Wire: `AnswersArrive` (`Wire` implements `Link`), `BytesInOrder` (implements `ByteQueue`),
`ParsedInOrder`.

Game: `OneMoveAtATime` (of timers, tasks, signals, buttons and result exactly one can
move next), `MoveOfCurrent`, `CardsApart`, `HighestBidderIsLord`, `ZeroSum`
(invariants), `SidesWinTogether`, `TakenOnlyByBeating` (of steps), `HandEnds`
(liveness).  The code takes cards from hands in pool threads without a lock;
`OneMoveAtATime` is why that is safe.  `CardsApart` excepts cards that were selected before they were
dealt to another player and are played by the user from there.

Reactor: `TasksNoticed`, `WatchFollows` (invariants), `TasksRun`, `Answered` (liveness).
`WatchFollows` says that what epoll watches differs from what the channel says only while a
`MODIFY` is under way; that the channel says what the *buffer* needs is what the code
does not ensure (`deaf`).  So `Answered` is about a client to which nobody relays and
that sends one request at a time: `parseRequest` takes one request from a read, and a
second one that came with it waits for further data.

Rules: `TypesFollowTheRules`, `BeatingIsOneWay`, `SizesMatch`, checked as invariants of a
specification that walks through all hands within the bounds.

Strategy: `LeadsOneHand` and `AnswersBeat`, over what the search finds, takes away and puts
together; the table takes a robot's hand without comparing it again, so that nothing
else stands behind `AnswersBeat`.  Both are checked for small decks and proved for any.

## 5. Proofs

*Lobby* (`LobbyProofs`, which begins with lemmas about `RoomStore`).  Under `OrdinaryUse` and
for any finite set of players, any rooms, scores and number of requests in flight, `IInv` is
inductive.  It consists of what `Room`'s methods keep true
of a store (`StoreInv`), of the agreement of RoomList with redis, and of facts about
clients and requests in flight without which the properties are not inductive: a
request that names a room was sent by a player registered or seated there, a
panel is only open for a seated player, a player who is gone has no window.
From it follow `RoomsKeepTheirClass`, `MembershipIsUnique`, `RegistrationsAgree`,
`RegisteredAreMembers`, `ScoresStayEqual`, `ClientsKnowTheirRoom` and `HandsAreForThree`.  The assumption
is needed: TLC refutes `OneRoomPerPlayer` where the empty name is typed, `RoomClasses` where a
name in use is drawn or a single-player result is reported, and `ScoresAgree` where two requests
are in flight and one is such a result.

Two more conjuncts are added, `Filed` (a room with members is filed under some class)
and `LoggedIn`, for `FiledAndLoggedIn` (`LobbyInv` is inductive; a `Goodbye` is the last
request of a client, so nobody is logged out at work).

Three theorems assume nothing of the use.  Their invariant `AnyInv` is `TypeOK`, that reserved names stay
apart from rooms, and `LobbyInv` in ordinary use only:

* `LobbyTypes`;
* `SeatsBelongToTheirOwners`: whatever room a request is about, the handlers change the members
  of a room by the request's sender only;
* `ServerFallsByNameOnly`: what ends `joinRoom` is a name that is reserved or that of a room with members
  and a seat which is not on offer; the room an automatic join takes from the open classes is neither,
  so that only a drawn name can be.  In ordinary use, by `Filed`, the closed rooms are those that
  have been full, and none is drawn.

*Game* (`GameControlProofs`).  For every deck of at least six cards divisible by
three, every `MaxHands` and every set of bids:

* `ScoresAddUp` and `TypesHold`, whatever the user clicks.  `ZeroSum` alone is not
  inductive: that winning adds up to zero needs exactly one lord.  `ScoreInv` adds
  that the best bid has a bidder (who becomes lord) and that from the bidding's end
  on there is one lord, in whatever window, task or signal the game goes on.
* `OneMove` and `MoveIsCurrents`, for `Restless = FALSE` (the user selects own cards at any time, but none
  on the table).  `MoveInv` adds to
  `OneMoveAtATime` which phase each move belongs to and whose it is; that the user
  always holds a card while a hand is on, since otherwise passing would win and the
  user could pass again; and, for that, that the dealing ends only after the user
  has got a card (`CardComing`, a count of the cards dealt and of the players before the
  user's turn).  The invariant was also checked with TLC on the instance of `game`.

*A hand* (`GameControlProofs`), on top of these and for every such deck:

* `SidesWin`, whatever the user clicks: with one lord (from `ScoreInv`) the winner's side is the
  winners' side; that points *rise* needs a lord's stakes above zero (`Stakes`).
* `LordBidHighest`.  `HighestBidderIsLord` speaks of the lord; the invariant `BidInv` speaks of the
  bidding before: the table's record is the first of the highest bids so far (`RecordOf`), and is
  empty whenever there is no bidding, also when the third player's zero has the cards dealt again.
* `CardsStayApart`.  `CardInv` adds to `CardsApart` when the cards undealt are apart from the hands
  (until the lord has them; afterwards the same cards are in a hand and still in the deck) and that
  the table is empty before hands are played; it excepts `kept`.  `SelectedInv` says why nothing else
  is excepted: until the next deal a selected card is in the user's hand or was kept.
* `TakenByBeating`.  `ChoiceInv`: a robot's hand on its way to the GUI thread beats what is on the
  table *now*, though it was chosen against what was there earlier; it is `OneMoveAtATime`
  that keeps the table the same in between, so the last three need `Restless = FALSE`, and
  nothing about the selection.

These and the next are said of steps by their kinds (`Moves`: a deal, a card dealt, a bid, the lord asked, a
hand shown by the user, taken or shown by a robot, or nothing the players see), which is proved once.

*Robots* (`GameControlProofs`).  `GameControl` says of a robot only which hands it may play (`StrategyOf`),
`Strategy` which it picks (`MakeStrategy`, on numbers of cards).  `RobotsAgree` says that these agree:
whenever a robot has been asked for a hand, the cards that are picked are in its hand, and a hand of
that many cards of each point, of whichever suits, is one it may play; so the theorems about
`GameControl` are about the robots the program has.  It holds whatever the robot knows of the other players.
It assumes of the deck, as `initAllCards` builds it, four suits of a point and one card of
each joker (`OneDeck`), and `Restless = FALSE`.  Three arguments meet in it:

* `HoldInv`: a robot that is asked has cards, since a robot has none left only while its last hand is on the
  way to the GUI thread, nobody's dealing ends without a card (`CardComes`, for all three
  players), and the pending hand of a player is not empty.
* What `makeStrategy` returns is part of the cards and a hand of a known type, or greater than the
  pending one (`FirstPlayLeads`, `GreaterAnswers`), and a leader who picks nothing has two bombs or
  more (`NothingToLead`; one bomb alone is a hand).
* From numbers to cards and back: any part of the numbers is that of some of the cards
  (`CardsFor`), and what is left is counted by the difference (`RestCounts`).

`HoldInv` and `RobotsFollowStrategy` were also checked with TLC on the instance of `game`.

*Network game* (`NetGameProofs`).  For every deck, deal, order of names, set of bids and number of
moves: `TypesKept`, whatever the workers do.  `SameMoves` (`Spec => M!Safety`, the refinement of
`Moves` without its fairness) and `NothingLeft` need `OneWorker \/ "returns" \notin Relock`: the three
connections share a worker, or the thread that locks `m_mutex` twice does not get it, as with glibc, where
nothing is relayed at all and the tables stay as they are.  The condition is needed: with two workers
and a mutex that is granted twice TLC refutes `SameGame` (section 6).

The inductive invariant `GameInv` says that there is one log of moves and a hand `T[n]` after each
`n` of them, kept without any table (`History`):

* each move is by the player whose turn `T` says it is (`LogInv`), each table has seen a beginning of the log
  that includes all its own moves (`SeenInv`), and it agrees with `T` after those moves: seats turned,
  a hand that a robot has taken already missing, robots asked or having answered (`TableInv`);
* a signal, a task in `TaskQueue` and a message under way to a client carry the log's next moves, in this
  order (`PipeInv`); a client has been told of every move the server has handled, but for the
  one that is being relayed (`TellInv`, `RelayInv`);
* one client at most is ahead of the server, and what waits in `up` is its moves (`ServerInv`).

From `SeenInv` and `LogInv` a client whose turn it is has seen the whole log (`MoverHasSeenAll`),
so its move extends it; from `PipeInv` and `TableInv` the robot that takes a move is the one that stands for
the player who made it.  `NothingLeft` follows because a table that is done has seen the last move.
The invariant was also checked with TLC on the instance of `net` with seven moves, the longest record of a table
taken for the log.

*Reactor* (`ReactorProofs`).  For any number of workers, relays and requests:
`ReactorTypes`, `NoTaskOverslept` and `NoChangeLost`.  `TasksNoticed` is inductive: the loop
goes to sleep only with an empty queue, and another thread that adds a task goes on to
wake it.  `WatchFollows` is not: it needs `AddedOnce`, that the connection is handed to the
loop once and is watched only while it exists and is in the map, since otherwise a
`MODIFY` could be dropped, or an `ADD` could come after it.  `WatchInv` was also checked
with TLC on the instance of `loop`.

*Wire* (`WireProofs`).  For any capacity, any second area, any packages and any bytes, and a `memcpy`
that copies forward:

* `WireTypes`, that no position leaves its buffer, and `BytesAreAQueue`, that
  the bytes of answers are a queue, through every move and growth of the buffer (the refinement of
  `ByteQueue`).  The lemmas say of each method of `Buffer` what it does to the readable bytes.
* `RequestsInOrder` (`ParsedInOrder`).  The invariant `RequestInv` says it without the recursive
  function `Whole`: the bytes in the buffer and in the network are whole requests `ps`, one
  behind the other (`Made`, by the positions where they begin), and what was asked is what was
  parsed and `ps`.  A read that does not cut a request leaves the first of `ps` at the read position.
* `AnswersInOrder` (`Spec => L!Safety`, the refinement of `Link` without its fairness).  By
  `AnswerInv` what is on the way to the client are whole answers while the server lives.  When it
  dies, bytes are lost from the end, and from a first part of the bytes a first part of the packages is
  unpacked (`WholePrefix`), which is `Cut`.

`Whole` is recursive, so its equation is a lemma of its own (`WholeIs`): that a function with this
equation exists, and only one, follows from what is left being shorter.  The inductions in it, and over the
number of packages, are on the least number for which a fact fails (`LeastNumber`, from the
library's well-founded induction), since the induction theorems themselves take an operator.

*Hands* (`HandsProofs`, on the lemmas of `StrategyProofs`).  For two hands that `MCHands` picks of one deck, whatever
points and however many cards its bounds allow:

* `BeatenOnce` (`BeatingIsOneWay`), as every hand with a type has a point (`PointIsNumber`) and what one
  type does to another it does not suffer from it.  It needs of the picking (`HandsInv`) that the
  two hands come of one deck: of a joker there is one, so that two bombs of jokers cannot meet.
* `OneSize` (`SizesMatch`), from the shape of every type: how many points it has with one, two,
  three and four cards (`Shape`), hence how many cards (`CountOfShape`).
* `RulesFollowed` (`TypesFollowTheRules`): for each type, what `HandType` asks of a hand's shape and
  runs is what the lists of `Rule` have.  A run is told from other sets of points by its
  least point and its number of points (`RunIs`).

For a robot dealt any cards, with the points and bounds left open like there:

* `RobotAnswers` (`AnswersBeat`).  Of the dealing, `DealtInv` says that a robot's cards are numbers of
  cards (one at most of a joker) and that what it follows is one hand.  The lemmas about
  hands that are put together (`PlaneHand`, `SequenceHand`, `TripleWithKicker`, ...) give the type
  and the point of what a search builds; one lemma per search (`BombAnswers`, `PlaneAnswers`,
  `TripleAnswers`, ...) says that it is held by the robot and beats what it answers,
  or is one of the exceptions `AnswersBeat` names.  Kickers are taken from the list of what is held once or
  twice, by the place of their triple in the list of triples: no two places of a list have the
  same point and every place that is short enough has one (`RankTaken`, over
  the number of points below a point).
* `RobotLeads` (`LeadsOneHand`).  `firstPlay` sets sequences, planes, triples and bombs aside
  before it looks for the next kind, so the lemmas follow its order (`SeqPairLeads`, `PlaneLeads`,
  `TripleLeads`, `LowLeads`): each leads one hand from what was not set aside, or hands over what is
  left; at the end nothing is left but bombs.

*Only model-checked*: `HandEnds`, `TasksRun`, `Answered` and the liveness in `AnswersArrive` and
`SameGame` (liveness is out of the prover's reach).  The runs that are
expected to fail are refuted by TLC, not proved.

## 6. Where code and comments disagree

Three are runs that TLC refutes, with the quoted line in `PROJECT.json`:

* `crowd`: two workers that fill a room at the same time can leave its three players without a
  hand (`readme.md:7` promises one).
* `deaf`: a partner's worker that relays between `processWrite`'s test for an empty buffer
  and its change of the events leaves a package that is sent only with the next one
  (`tcp/tcpConnection.cpp:69`).
* `relay`: with a mutex that hangs when it is locked again, no bid or hand reaches the other
  players (`game/Communication.cpp:44`, `game/RoomList.cpp:51`).

The models contain more of the kind, which no run is kept for.

Of the server:

* the assert of `joinRoom` that calls its case abnormal is reached by typing the name of a
  room that has been full, or by drawing it (`game/Room.cpp:113`; `AbortsByNameOnly` says which
  requests reach it);
* a player who types no name at all sits in the room `""`, which `handleAddRoom` takes for no room at
  the next join, so that the player is a member of two rooms, registered in both, and told of
  both; the JoinRoomOK of the one changes the room name the client uses in the other
  (`windows/joinroom.cpp:48`, `game/Communication.cpp:231`; `anyuse` with `OneRoomPerPlayer` or `KnowsRoom`);
* `getNewRoomName` does not look whether the name it draws is in use.  If that room is full,
  `joinRoom` refuses, which the automatic join ignores, and a fourth player is entered
  (`game/Room.cpp:78` and `74`; `Redraws`);
* a typed name that is the name of another redis key makes redis throw, which nobody catches
  (`game/Room.cpp:93`; `Reserved`);
* the refusal of a join names no room, so that `readyForPlay` sends it to the players of the room
  `""` and not to the one who is refused (`game/Communication.cpp:283`; `Refuse`);
* an abort leaves the players logged in, and nobody who was can log in again
  (`game/Communication.cpp:180`; `Restart`);
* across workers (`Workers`) a room can take four players, a hand can be dealt twice, an
  automatic join can reach the assert or an empty `optional` and end the server, `del` can drop
  the seat another has just taken, and a refused automatic join puts a player into a room
  that `Players` does not name (`game/Room.cpp:53`, `90` and `171`);
* with two workers the relay of a move can overtake the one before it on the way to
  the third client, whose robots then play each other's moves (`game/Communication.cpp:379`;
  `net` with `WorkerOf` = <<1, 2, 1>> refutes `SameGame`);
* `parseRequest` takes a request of which not all bytes have come, and parses what lies
  behind them (`game/Communication.cpp:9`; `split` in `Wire`);
* a `memcpy` that does not copy forward destroys bytes when the buffer moves
  (`common/buffer.cpp:32`; `wire` with `CopiesForward` = FALSE refutes `AnswersArrive`);
* a room left before it was full stays filed one class too high, and counts as full
  with two members (`game/Room.cpp:102`);
* a client that closes while registered leaves a callback bound to a deleted
  connection (`game/Communication.cpp:453`; `dangling`);
* a single-player result reported for a room left long ago makes the player a member
  again, which no class accounts for (`windows/gamepanel.cpp:523`; `Offline`).

Of the client:

* cards selected while others think stay selected when the next hand is dealt
  (`windows/gamepanel.cpp:755`, `286`), so that the user plays a card a robot holds; the robot keeps it.
  If what is kept makes no hand with any own cards, a user who leads cannot play until
  the selection is emptied, which only passing and playing do (`kept`, `UserIsStuck` in `GameControl`);
* cards on the table still belong to the user and stay selected, so they can be played again, and
  a won hand can be won again (`windows/gamepanel.cpp:736`, `control/gamecontrol.cpp:255`;
  `Restless` in `GameControl`);
* a robot left with nothing but two bombs passes though it leads; if all pass, nobody
  ever has to play (`strategy/strategy.cpp:230`; the exception in `HandEnds`);
* a plane or a bomb with two singles is refused when the big joker is one of them, and
  not when the small one is (`strategy/playhand.cpp:266`; the exception in
  `TypesFollowTheRules`);
* a robot answers a plane with such a hand, which `PlayHand` judges as unknown; the table
  takes it all the same, and only a bomb can beat it (`strategy/strategy.cpp:610`; part of
  `Greater`, an exception in `AnswersBeat`); the same when the plane is made of bombs, whose
  fourth cards count as singles;
* triples that are more than the kickers for them are completed from beyond the end of the
  list of kickers (`strategy/strategy.cpp:564`; `KickersMissing`);
* the search for sequences of singles tries all of them and keeps none
  (`strategy/strategy.cpp:471`: what the recursion finds is not added to `seqArray`), so it
  leads a sequence only if it is all the robot holds, and spares none;
* singles for a plane that leads are collected in the list of pairs
  (`strategy/strategy.cpp:145`), so a plane is led with two pairs or alone;
* a sequence up to the ace is not found against another one (`strategy/strategy.cpp:640`),
  though the comment above the loop allows it ("最少3个，最大A").

## 7. Not modelled, and the plan

Not modelled:

* a window closed in the middle of a game: pool tasks go on with pointers to deleted players,
  undefined at once (`windows/gamepanel.cpp:1048`), and robots of a closed network game take the
  first moves of the next;
* that GameMode stops listening for `StartGame` after the first (`windows/gamemode.cpp:36`)
  beyond `StartGame`'s choice in `Lobby`, and that `readv` returns 0 for a peer that closed
  (`tcp/tcpConnection.cpp:46`): single-threaded facts that a model would only repeat;
* the key exchange, registration and cryptography; two logins under one name that pass each other
  between `SELECT` and `UPDATE`;
* the start of the workers, poll and select dispatchers (not chosen by the build), drawing, music,
  animations, the login form, protobuf's generated code and headers, the HTTP classes (unused).
  Most of the repository's lines are the vendored protobuf headers.

Next, in this order:

1. `Workers` with GameOver, Continue and Goodbye, and the refinement of `Lobby` with one worker.
2. A game left in the middle: `NetGame` with `closeEvent`, the robots that wait and the next game.

-------------------------------- MODULE Lobby --------------------------------
(***************************************************************************)
(* The server's lobby: how Communication (game/Communication.cpp) seats    *)
(* players in rooms, starts a hand when a room holds three, records the    *)
(* scores, lets players leave and restarts a room, together with the part  *)
(* of the client's windows that decides which request may follow which.    *)
(*                                                                         *)
(* One action per request handler, each handler atomic: the server with a  *)
(* single worker thread.  Each client owns one TCP connection, a FIFO of   *)
(* requests it has sent and the server has not handled; replies reach the  *)
(* client with the step that sends them, so a request that overtakes a     *)
(* reply is one that was sent earlier and is still in the FIFO.            *)
(***************************************************************************)
EXTENDS RoomStore, Sequences

CONSTANTS
  TypedRooms,  \* bound: room names players type into the dialogs
  MaxPending,  \* bound: requests of one client in flight
  Offline,     \* BOOLEAN: clients also play the single-player mode
  Quits        \* BOOLEAN: clients say Goodbye, and the server restarts

ASSUME LobbyAssumption ==
  /\ TypedRooms \subseteq Rooms
  /\ MaxPending \in Nat \ {0}
  /\ Offline \in BOOLEAN
  /\ Quits \in BOOLEAN

VARIABLES
  db,        \* redis
  roomMap,   \* RoomList: the players registered for each room
  dangling,  \* players whose registered callback is bound to a deleted connection
  score,     \* MySQL, table information
  online,    \* and its column status: the player is logged in
  crashed,   \* the server process has aborted
  phase,     \* the client's window
  croom,     \* the client's DataManager::m_roomName
  mode,      \* the client's DataManager::m_roomMode
  req        \* requests in flight, per client

vars == <<db, roomMap, dangling, score, online, crashed, phase, croom, mode, req>>

serverVars == <<db, roomMap, dangling, score, online, crashed>>

\* menu: GameMode is shown; play: a hand is on in GamePanel; won: its last hand
\* was relayed; over: the result is shown; wait: Continue was pressed;
\* solo: GamePanel in single-player mode; gone: the program was closed.
Phases == {"menu", "play", "won", "over", "wait", "solo", "gone"}

\* Phases in which a GamePanel is open in network mode.
Panel == {"play", "won", "over", "wait"}

\* Requests that carry a room name.
Named == {"ManualRoom", "LeaveRoom", "GameOver", "Continue"}

\* The fields of a Message the lobby reads; room and score are idle in some.
Requests ==
  { m \in [ op    : Named \cup {"AutoRoom", "Goodbye"},
            room  : Rooms,
            score : Scores ] : m.op = "ManualRoom" => m.room \in TypedRooms }

TypeOK ==
  /\ db \in Stores
  /\ roomMap \in [Rooms -> SUBSET Users]
  /\ dangling \in SUBSET Users
  /\ score \in [Users -> Scores]
  /\ online \in [Users -> BOOLEAN]
  /\ crashed \in BOOLEAN
  /\ phase \in [Users -> Phases]
  /\ croom \in [Users -> Rooms]
  /\ mode \in [Users -> {"Auto", "Manual"}]
  /\ req \in [Users -> Seq(Requests)]

Init ==
  /\ db = EmptyStore
  /\ roomMap = [r \in Rooms |-> {}]
  /\ dangling = {}
  /\ score \in [Users -> Scores]
  /\ online = [u \in Users |-> TRUE]
  /\ crashed = FALSE
  /\ phase = [u \in Users |-> "menu"]
  /\ croom = [u \in Users |-> NoRoom]
  /\ mode = [u \in Users |-> "Auto"]
  /\ req = [u \in Users |-> <<>>]

-----------------------------------------------------------------------------
(* The client *)

Send(u, op, r, s) ==
  /\ Len(req[u]) < MaxPending
  /\ req' = [req EXCEPT ![u] = Append(@, [op |-> op, room |-> r, score |-> s])]

\* Mistake: the text of the dialog is not read.
AskRoomUnread(u) ==
  /\ phase[u] = "menu"
  /\ \/ /\ Send(u, "AutoRoom", NoRoom, 0)
        /\ mode' = [mode EXCEPT ![u] = "Auto"]
     \/ /\ Send(u, "ManualRoom", NoRoom, 0)
        /\ mode' = [mode EXCEPT ![u] = "Manual"]
  /\ UNCHANGED <<serverVars, phase, croom>>

\* GameMode: the buttons can be pressed again while an answer is outstanding or
\* the player is already seated; JoinRoom takes any text, also none.
AskRoom(u) ==
  /\ phase[u] = "menu"
  /\ \/ /\ Send(u, "AutoRoom", NoRoom, 0)
        /\ mode' = [mode EXCEPT ![u] = "Auto"]
     \/ /\ \E r \in TypedRooms : Send(u, "ManualRoom", r, 0)
        /\ mode' = [mode EXCEPT ![u] = "Manual"]
  /\ UNCHANGED <<serverVars, phase, croom>>

\* The last hand of a game was relayed to the three players of the room. Their
\* bids and hands travel on the same connections as their other requests, so
\* none of these is still in flight.
HandDecided(r) ==
  /\ Cardinality(roomMap[r]) = 3
  /\ \A u \in roomMap[r] : phase[u] = "play" /\ req[u] = <<>>
  /\ phase' = [u \in Users |-> IF u \in roomMap[r] THEN "won" ELSE phase[u]]
  /\ UNCHANGED <<serverVars, croom, mode, req>>

\* GamePanel, status Winning: show the result and send the player's own score.
ReportScore(u) ==
  /\ phase[u] = "won"
  /\ \E s \in Scores : Send(u, "GameOver", croom[u], s)
  /\ phase' = [phase EXCEPT ![u] = "over"]
  /\ UNCHANGED <<serverVars, croom, mode>>

\* The Continue button of the result: Continue if the player's last choice was
\* a room by name, AutoRoom if it was an automatic one.
PressContinue(u) ==
  /\ phase[u] = "over"
  /\ IF mode[u] = "Manual"
     THEN Send(u, "Continue", croom[u], 0)
     ELSE Send(u, "AutoRoom", NoRoom, 0)
  /\ phase' = [phase EXCEPT ![u] = "wait"]
  /\ UNCHANGED <<serverVars, croom, mode>>

\* GamePanel::closeEvent in network mode.
ClosePanel(u) ==
  /\ phase[u] \in Panel
  /\ Send(u, "LeaveRoom", croom[u], 0)
  /\ phase' = [phase EXCEPT ![u] = "menu"]
  /\ UNCHANGED <<serverVars, croom, mode>>

\* Single-player mode: entered from GameMode and left without a message, but the
\* end of a hand is reported to the server all the same, for the room joined last or, if
\* there was none, for the empty name.
SoloPlay(u) ==
  /\ Offline
  /\ \/ /\ phase[u] = "menu"
        /\ phase' = [phase EXCEPT ![u] = "solo"]
        /\ UNCHANGED req
     \/ /\ phase[u] = "solo"
        /\ phase' = [phase EXCEPT ![u] = "menu"]
        /\ UNCHANGED req
     \/ /\ phase[u] = "solo"
        /\ \E s \in Scores : Send(u, "GameOver", croom[u], s)
        /\ UNCHANGED phase
  /\ UNCHANGED <<serverVars, croom, mode>>

\* GameMode::closeEvent on its first page.
Quit(u) ==
  /\ Quits
  /\ phase[u] = "menu"
  /\ Send(u, "Goodbye", NoRoom, 0)
  /\ phase' = [phase EXCEPT ![u] = "gone"]
  /\ UNCHANGED <<serverVars, croom, mode>>

\* Mistake: the login is not recorded in MySQL.
LoginUnrecorded(u) ==
  /\ ~crashed
  /\ phase[u] = "gone"
  /\ req[u] = <<>>
  /\ ~online[u]
  /\ phase' = [phase EXCEPT ![u] = "menu"]
  /\ croom' = [croom EXCEPT ![u] = NoRoom]
  /\ mode' = [mode EXCEPT ![u] = "Auto"]
  /\ UNCHANGED <<serverVars, req>>

\* A new client program, a new connection and a login, which handleLogin allows only to
\* a player who is not logged in.
Login(u) ==
  /\ ~crashed
  /\ phase[u] = "gone"
  /\ req[u] = <<>>
  /\ ~online[u]
  /\ online' = [online EXCEPT ![u] = TRUE]
  /\ phase' = [phase EXCEPT ![u] = "menu"]
  /\ croom' = [croom EXCEPT ![u] = NoRoom]
  /\ mode' = [mode EXCEPT ![u] = "Auto"]
  /\ UNCHANGED <<db, roomMap, dangling, score, crashed, req>>

-----------------------------------------------------------------------------
(* The server *)

\* The request of u at the head of its connection is handled.
Receive(u, op) ==
  /\ ~crashed
  /\ req[u] # <<>>
  /\ Head(req[u]).op = op
  /\ req' = [req EXCEPT ![u] = Tail(@)]
  /\ UNCHANGED mode

\* Calling a callback of a deleted connection is undefined: the process dies or
\* the message is lost.
Deliver(to) ==
  crashed' \in IF to \cap dangling' = {} THEN {FALSE} ELSE BOOLEAN

\* DealCards and StartGame reach the players "to". An open panel starts the new
\* hand; GameMode opens one for the first StartGame it receives only.
StartGame(to) ==
  \E opens \in SUBSET { u \in to \ dangling' : phase[u] = "menu" } :
    phase' = [ u \in Users |->
                 IF u \in opens \/ (u \in to \ dangling' /\ phase[u] \in Panel)
                 THEN "play" ELSE phase[u] ]

\* Mistake: two players are enough.
StartGameIfTwo(to) ==
  IF Cardinality(to) >= 2 THEN StartGame(to) ELSE UNCHANGED phase

StartGameIfThree(to) ==
  IF Cardinality(to) = 3 THEN StartGame(to) ELSE UNCHANGED phase

\* handleAddRoom up to the join: leave the room the player joined last.
LeftStore(u) ==
  LET old == WhereAmI(db, u)
  IN  IF old = NoRoom THEN db ELSE LeaveRoom(db, old, u)

\* Mistake: the registration in the old room is left behind.
LeftMapForgotten(u) == roomMap

LeftMap(u) ==
  LET old == WhereAmI(db, u)
  IN  IF old = NoRoom THEN roomMap ELSE RemovePlayer(roomMap, old, u)

\* Mistake: a score of 0 is never looked up in MySQL.
CarriedFromRedis(u) == PlayerScore(db, WhereAmI(db, u), u)

\* The score the player takes along, or MySQL's when that is 0.
CarriedScore(u) ==
  LET kept == PlayerScore(db, WhereAmI(db, u), u)
  IN  IF kept = 0 THEN score[u] ELSE kept

\* handleAddRoom after the join, then readyForPlay: JoinRoomOK to everyone
\* registered for the room, and the first hand once they are three.
Seat(u, r, joined) ==
  /\ db' = UpdatePlayerScore(joined, r, u, CarriedScore(u))
  /\ roomMap' = AddUser(LeftMap(u), r, u)
  /\ dangling' = dangling \ {u}
  /\ Deliver(roomMap'[r])
  /\ croom' = [ v \in Users |->
                  IF v \in roomMap'[r] \ dangling' /\ phase[v] # "gone"
                  THEN r ELSE croom[v] ]
  /\ StartGameIfThree(roomMap'[r])
  /\ UNCHANGED <<score, online>>

\* joinRoom's assert(false): what was done before it stays in redis.
AbortInJoin(u) ==
  /\ crashed' = TRUE
  /\ db' = LeftStore(u)
  /\ roomMap' = LeftMap(u)
  /\ UNCHANGED <<dangling, score, online, phase, croom>>

\* The automatic join goes on whatever joinRoom(user, room) returned.
HandleAutoRoom(u) ==
  /\ Receive(u, "AutoRoom")
  /\ \E r \in AutoChoices(LeftStore(u)) :
       IF JoinAborts(LeftStore(u), r)
       THEN AbortInJoin(u)
       ELSE Seat(u, r, JoinRoom(LeftStore(u), r, u))

\* A full room refuses, and the player has left the old room. The reply names no room,
\* so readyForPlay sends it to the players of the room named "", and starts their hand
\* if they are three.
Refuse(u, left) ==
  /\ db' = left
  /\ roomMap' = LeftMap(u)
  /\ UNCHANGED dangling
  /\ Deliver(roomMap'[NoRoom])
  /\ StartGameIfThree(roomMap'[NoRoom])
  /\ UNCHANGED <<score, online, croom>>

HandleManualRoom(u) ==
  /\ Receive(u, "ManualRoom")
  /\ LET r == Head(req[u]).room
         left == LeftStore(u)
     IN  \/ /\ JoinAborts(left, r)
            /\ AbortInJoin(u)
         \/ /\ HasSeat(left, r) /\ ~JoinAborts(left, r)
            /\ Seat(u, r, JoinRoom(left, r, u))
         \/ /\ ~HasSeat(left, r) /\ ~JoinAborts(left, r)
            /\ Refuse(u, left)

\* OtherLeaveRoom goes to the players that stay; it changes nothing but a label.
HandleLeaveRoom(u) ==
  /\ Receive(u, "LeaveRoom")
  /\ LET r == Head(req[u]).room
     IN  /\ db' = LeaveRoom(db, r, u)
         /\ roomMap' = RemovePlayer(roomMap, r, u)
         /\ UNCHANGED dangling
         /\ Deliver(roomMap'[r])
  /\ UNCHANGED <<score, online, phase, croom>>

HandleGameOver(u) ==
  /\ Receive(u, "GameOver")
  /\ LET m == Head(req[u])
     IN  /\ db' = UpdatePlayerScore(db, m.room, u, m.score)
         /\ score' = [score EXCEPT ![u] = m.score]
  /\ UNCHANGED <<roomMap, dangling, online, crashed, phase, croom>>

\* restartGame: the first player to continue clears the room, the third deals.
HandleContinue(u) ==
  /\ Receive(u, "Continue")
  /\ LET r == Head(req[u]).room
         cleared == IF Cardinality(roomMap[r]) = 3
                    THEN RemoveRoom(roomMap, r) ELSE roomMap
     IN  /\ roomMap' = AddUser(cleared, r, u)
         /\ dangling' = IF u \in cleared[r] THEN dangling ELSE dangling \ {u}
         /\ IF Cardinality(roomMap'[r]) = 3
            THEN Deliver(roomMap'[r]) /\ StartGame(roomMap'[r])
            ELSE UNCHANGED <<crashed, phase>>
  /\ UNCHANGED <<db, score, online, croom>>

\* handleGoodBye: the player is logged out and the connection object deleted; RoomList
\* and redis are not told.
HandleGoodBye(u) ==
  /\ Receive(u, "Goodbye")
  /\ dangling' = IF \E r \in Rooms : u \in roomMap[r]
                 THEN dangling \cup {u} ELSE dangling
  /\ online' = [online EXCEPT ![u] = FALSE]
  /\ UNCHANGED <<db, roomMap, score, crashed, phase, croom>>

\* The server is started again after an abort: TcpServer::run flushes redis.
\* Connections and requests are lost and the clients have to be started again, but
\* MySQL still has their players logged in, so that these cannot log in.
Restart ==
  /\ crashed
  /\ db' = EmptyStore
  /\ roomMap' = [r \in Rooms |-> {}]
  /\ dangling' = {}
  /\ crashed' = FALSE
  /\ phase' = [u \in Users |-> "gone"]
  /\ croom' = [u \in Users |-> NoRoom]
  /\ mode' = [u \in Users |-> "Auto"]
  /\ req' = [u \in Users |-> <<>>]
  /\ UNCHANGED <<score, online>>

ClientStep(u) ==
  \/ AskRoom(u)
  \/ ReportScore(u)
  \/ PressContinue(u)
  \/ ClosePanel(u)
  \/ SoloPlay(u)
  \/ Quit(u)
  \/ Login(u)

ServerStep(u) ==
  \/ HandleAutoRoom(u)
  \/ HandleManualRoom(u)
  \/ HandleLeaveRoom(u)
  \/ HandleGameOver(u)
  \/ HandleContinue(u)
  \/ HandleGoodBye(u)

Next ==
  \/ \E u \in Users : ClientStep(u) \/ ServerStep(u)
  \/ \E r \in Rooms : HandDecided(r)
  \/ Restart

Spec == Init /\ [][Next]_vars

-----------------------------------------------------------------------------
(* Properties *)

\* What the properties of rooms suppose: nobody types the empty name, which the server
\* takes for no room (Communication.cpp:231), no name in use is drawn (Room.cpp:78), and no
\* single-player result is reported for a room left long ago (gamepanel.cpp:523). Without
\* it a room can hold a fourth player, a player two rooms, and a client the wrong name.
OrdinaryUse ==
  /\ NoRoom \notin TypedRooms
  /\ ~Redraws
  /\ ~Offline

\* The class a room is filed under bounds its members, and no room ever holds
\* more than three: a room handed out by the automatic join, which ignores what
\* joinRoom(user, room) returns, always has a seat (Room.cpp joinRoom,
\* leaveRoom).
RoomClasses == ClassBounds(db)

\* A full or a broken room is never offered to players who look for one, and
\* never outlives its last member (Room.cpp joinRoom, leaveRoom).
ClassesDisjoint == ClassesSplit(db)

\* A player is a member of one room at most, the one whereAmI answers, which is
\* where handleAddRoom looks for the membership to give up.
OneRoomPerPlayer == MembersFound(db)

\* RoomList and redis, written by separate calls of the handlers, never list a
\* player for a room in which redis does not know the player.
ListedAreMembers ==
  \A r \in Rooms : roomMap[r] \subseteq db.zset[r]

\* In a room still open to players the two agree, so the count a JoinRoomOK
\* announces (zcard) is the number of players it is sent to, and the third
\* member is the one that starts the hand (Communication.cpp handleAddRoom,
\* readyForPlay).
WaitingRoomsAgree ==
  \A r \in db.one \cup db.two : roomMap[r] = db.zset[r]

\* The score redis keeps for a member is the one in MySQL, over every change of
\* room, although handleAddRoom takes it from the old room when it can and
\* mistakes a score of 0 for a missing one.
ScoresAgree ==
  \A u \in Users, r \in Rooms :
     u \in db.zset[r] => db.zscore[r][u] = score[u]

\* The room name a client attaches to its bids, hands and other requests is the
\* room RoomList relays them in (communication.cpp, JoinRoomOK).
KnowsRoom ==
  \A r \in Rooms : \A u \in roomMap[r] \ dangling :
     phase[u] # "gone" => croom[u] = r

\* A hand is only ever dealt to three players, and they are the three members
\* the StartGame ranks by score: playersOrder reads redis, the recipients come
\* from RoomList (Communication.cpp startGame).
HandsNeedThree ==
  [][ \A u \in Users : phase[u] # "play" /\ phase'[u] = "play" =>
        LET r == croom'[u]
        IN  /\ u \in roomMap'[r]
            /\ roomMap'[r] = db'.zset[r]
            /\ Cardinality(roomMap'[r]) = 3 ]_vars

\* What the server does for one player never gives or takes the seat of another:
\* a membership changes only while a request of its owner is handled.
SeatsAreOnesOwn ==
  [][ \A u \in Users, r \in Rooms :
        (u \in db.zset[r]) # (u \in db'.zset[r]) => crashed \/ req'[u] # req[u] ]_vars

\* A room that has members but is not offered to players: a full or a broken one, in
\* OrdinaryUse.
Closed(r) ==
  /\ Exists(db, r)
  /\ r \notin db.one \cup db.two
  /\ OrdinaryUse => r \in db.three \cup db.invalid

\* The request ends in a name that joinRoom cannot join.
NameAborts(m) ==
  \/ m.op = "ManualRoom" /\ (m.room \in Reserved \/ Closed(m.room))
  \/ /\ m.op = "AutoRoom" /\ Redraws
     /\ db.one \cup db.two = {}
     /\ \E r \in DrawnRooms : Closed(r)

\* The last case of joinRoom, which its assert calls abnormal (Room.cpp:113), is not: a
\* name leads to it, that of a room closed to players, the own one or one that others have
\* not all left yet. The name is typed, or drawn by an automatic join that found no
\* open room, without a look at what is there; an open room never leads to it. Besides,
\* only the name of another redis key and the callback of a deleted connection take the
\* server down.
AbortsByNameOnly ==
  [][ crashed' /\ ~crashed =>
        \/ dangling # {}
        \/ \E u \in Users : /\ req'[u] # req[u]
                            /\ NameAborts(Head(req[u])) ]_vars

-----------------------------------------------------------------------------
(* The inductive invariant behind them, for clients that play online only *)

\* A score or a Continue in flight names a room its sender is still a member of,
\* and nothing that would end the membership is ahead of it.
SeatedRequests ==
  \A u \in Users : \A i \in 1..Len(req[u]) :
    req[u][i].op \in {"GameOver", "Continue"} =>
      /\ u \in db.zset[req[u][i].room]
      /\ phase[u] # "gone" => croom[u] = req[u][i].room
      /\ \A j \in 1..i : req[u][j].op \in {"GameOver", "Continue"}

\* So does the room of a client that is about to send one.
SeatedPanels ==
  \A u \in Users :
    /\ phase[u] \in Panel => croom[u] # NoRoom
    /\ phase[u] \in {"won", "over"} =>
         /\ u \in db.zset[croom[u]]
         /\ \A i \in 1..Len(req[u]) : req[u][i].op = "GameOver"

\* A client whose old connection still has a callback registered has not been
\* seated over the new one, and will leave the old room when it is.
DanglingIsIdle ==
  \A u \in dangling :
    /\ phase[u] \in {"menu", "gone"}
    /\ \A i \in 1..Len(req[u]) : req[u][i].op \in {"AutoRoom", "ManualRoom", "Goodbye"}

\* A closed client is registered nowhere but through a dangling callback once
\* its Goodbye, the last request it sends, has been handled.
GoneIsGone ==
  \A u \in Users :
    /\ \A i \in 1..Len(req[u]) :
         req[u][i].op = "Goodbye" => phase[u] = "gone" /\ i = Len(req[u])
    /\ phase[u] = "gone" /\ req[u] # <<>> => req[u][Len(req[u])].op = "Goodbye"
    /\ phase[u] = "gone" /\ req[u] = <<>> =>
         \A r \in Rooms : u \in roomMap[r] => u \in dangling

\* What the server keeps, and what the clients and their requests are to it.
ServerInv ==
  /\ StoreInv(db)
  /\ ScoresAgree
  /\ ListedAreMembers
  /\ WaitingRoomsAgree

ClientInv ==
  /\ KnowsRoom
  /\ SeatedRequests
  /\ SeatedPanels
  /\ DanglingIsIdle
  /\ GoneIsGone

IInv == TypeOK /\ ServerInv /\ ClientInv

\* Whoever has a program running, or a request on the way from one, is logged in, so
\* handleLogin lets nobody else in under the same name.
LoggedIn ==
  \A u \in Users : phase[u] # "gone" \/ req[u] # <<>> => online[u]

\* What the theorems on logins and aborts need besides.
LobbyInv == IInv /\ Filed(db) /\ LoggedIn
=============================================================================

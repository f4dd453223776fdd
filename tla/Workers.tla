------------------------------- MODULE Workers -------------------------------
(***************************************************************************)
(* handleAddRoom and handleLeaveRoom as the worker threads run them: one   *)
(* step per redis command and per locked call of RoomList (tcpServer and   *)
(* main.cpp start four workers; a connection stays with its worker).  Lobby*)
(* has the same handlers in one step each, and everything around them.     *)
(*                                                                         *)
(* Scores are left out (each is its player's own).  A client's window is   *)
(* either GameMode, where it asks for rooms, or a GamePanel, which it may  *)
(* close.                                                                  *)
(***************************************************************************)
EXTENDS RoomStore

CONSTANTS
  WorkerOf,     \* the worker of each player's connection
  TypedRooms,   \* bound: room names players type
  MaxRequests   \* bound: requests of a player

VARIABLES
  db,        \* redis
  roomMap,   \* RoomList
  at,        \* the command a player's handler comes to next
  job,       \* the request: what is asked, the room it leaves, the room it joins
  crashed,   \* the server has aborted
  panel,     \* the client has a GamePanel open
  croom,     \* the client's room name
  asked,     \* requests sent so far
  dealt      \* rooms whose members were sent StartGame

clientVars == << panel, croom, asked, dealt >>
vars == << db, roomMap, at, job, crashed, clientVars >>

\* Before a command, in the order of the code.
Commands == { "WhereAmI", "InThree", "Break", "Zrem", "CountLeft", "Del", "Srem", "Forget",
              "CountTwo", "PickTwo", "CountOne", "PickOne", "NewName",
              "Full", "Exists", "AddOne", "InOne", "MoveOne", "InTwo", "MoveTwo",
              "Zadd", "Hset", "Score", "Register", "Ready" }

Jobs == [op : {"AutoRoom", "ManualRoom", "LeaveRoom"}, old : Rooms, to : Rooms]

TypeOK ==
  /\ db \in Stores
  /\ roomMap \in [Rooms -> SUBSET Users]
  /\ at \in [Users -> Commands \cup {"Idle"}]
  /\ job \in [Users -> Jobs]
  /\ crashed \in BOOLEAN
  /\ panel \in [Users -> BOOLEAN]
  /\ croom \in [Users -> Rooms]
  /\ asked \in [Users -> 0..MaxRequests]
  /\ dealt \in SUBSET Rooms

Init ==
  /\ db = EmptyStore
  /\ roomMap = [r \in Rooms |-> {}]
  /\ at = [u \in Users |-> "Idle"]
  /\ job = [u \in Users |-> [op |-> "AutoRoom", old |-> NoRoom, to |-> NoRoom]]
  /\ crashed = FALSE
  /\ panel = [u \in Users |-> FALSE]
  /\ croom = [u \in Users |-> NoRoom]
  /\ asked = [u \in Users |-> 0]
  /\ dealt = {}

-----------------------------------------------------------------------------
(* Commands *)

Goto(u, command) == at' = [at EXCEPT ![u] = command]

\* A command that reads, and what follows its answer.
Read(u, command, next) ==
  /\ at[u] = command
  /\ Goto(u, next)
  /\ UNCHANGED << db, roomMap, job, crashed, clientVars >>

\* A command that leaves redis as d.
Write(u, command, d, next) ==
  /\ at[u] = command
  /\ Goto(u, next)
  /\ db' = d
  /\ UNCHANGED << roomMap, job, crashed, clientVars >>

\* The handler has chosen the room it joins.
Choose(u, command, choices) ==
  /\ at[u] = command
  /\ \E r \in choices : job' = [job EXCEPT ![u].to = r]
  /\ Goto(u, "Full")
  /\ UNCHANGED << db, roomMap, crashed, clientVars >>

Abort(u, command) ==
  /\ at[u] = command
  /\ crashed' = TRUE
  /\ UNCHANGED << db, roomMap, at, job, clientVars >>

\* smove, which does nothing when the member is not in the set.
Smove(from, to, r) ==
  IF r \in db[from] THEN [db EXCEPT ![from] = @ \ {r}, ![to] = @ \cup {r}] ELSE db

Zadd(r, u) == [db EXCEPT !.zset[r] = @ \cup {u}]

-----------------------------------------------------------------------------
(* Requests *)

\* A worker reads the next request of one of its connections; it has no other in hand.
Ask(u) ==
  /\ \A v \in Users : WorkerOf[v] = WorkerOf[u] => at[v] = "Idle"
  /\ asked[u] < MaxRequests
  /\ asked' = [asked EXCEPT ![u] = @ + 1]
  /\ \/ /\ ~panel[u]
        /\ \/ job' = [job EXCEPT ![u] = [op |-> "AutoRoom", old |-> NoRoom, to |-> NoRoom]]
           \/ \E r \in TypedRooms :
                job' = [job EXCEPT ![u] = [op |-> "ManualRoom", old |-> NoRoom, to |-> r]]
        /\ Goto(u, "WhereAmI")
        /\ UNCHANGED panel
     \/ /\ panel[u]
        /\ job' = [job EXCEPT ![u] = [op |-> "LeaveRoom", old |-> croom[u], to |-> NoRoom]]
        /\ Goto(u, "InThree")
        /\ panel' = [panel EXCEPT ![u] = FALSE]
  /\ UNCHANGED << db, roomMap, crashed, croom, dealt >>

\* What handleAddRoom goes on with once the old room is left.
Join(u) == IF job[u].op = "AutoRoom" THEN "CountTwo" ELSE "Full"

\* whereAmI: the room the player joined last is left first.
WhereAmIFirst(u) ==
  /\ at[u] = "WhereAmI"
  /\ job' = [job EXCEPT ![u].old = WhereAmI(db, u)]
  /\ Goto(u, IF WhereAmI(db, u) = NoRoom THEN Join(u) ELSE "InThree")
  /\ UNCHANGED << db, roomMap, crashed, clientVars >>

\* leaveRoom.
Leave(u) ==
  LET r == job[u].old
  IN  \/ Read(u, "InThree", IF r \in db.three THEN "Break" ELSE "Zrem")
      \/ Write(u, "Break", Smove("three", "invalid", r), "Zrem")
      \/ Write(u, "Zrem", [db EXCEPT !.zset[r] = @ \ {u}], "CountLeft")
      \/ Read(u, "CountLeft", IF db.zset[r] = {} THEN "Del" ELSE "Forget")
      \/ Write(u, "Del", [db EXCEPT !.zset[r] = {}], "Srem")
      \/ Write(u, "Srem", [db EXCEPT !.invalid = @ \ {r}], "Forget")

\* RoomList::removePlayer; a LeaveRoom ends with it.
Forget(u) ==
  /\ at[u] = "Forget"
  /\ roomMap' = RemovePlayer(roomMap, job[u].old, u)
  /\ Goto(u, IF job[u].op = "LeaveRoom" THEN "Idle" ELSE Join(u))
  /\ UNCHANGED << db, job, crashed, clientVars >>

\* joinRoom(user): a set that was not empty may be so when a member of it is asked for;
\* room.value() throws then, and nobody catches it.
JoinAny(u) ==
  \/ Read(u, "CountTwo", IF db.two # {} THEN "PickTwo" ELSE "CountOne")
  \/ Choose(u, "PickTwo", db.two)
  \/ db.two = {} /\ Abort(u, "PickTwo")
  \/ Read(u, "CountOne", IF db.one # {} THEN "PickOne" ELSE "NewName")
  \/ Choose(u, "PickOne", db.one)
  \/ db.one = {} /\ Abort(u, "PickOne")
  \/ Choose(u, "NewName", NewRoomNames(db))

\* joinRoom(user, room), and the zadd of updatePlayerScore. Only the join by name minds
\* that it is refused.
JoinNamed(u) ==
  LET r == job[u].to
  IN  \/ Read(u, "Full", CASE HasSeat(db, r) -> "Exists"
                           [] ~HasSeat(db, r) /\ job[u].op = "AutoRoom" -> "Score"
                           [] OTHER -> "Idle")
      \/ Read(u, "Exists", IF Exists(db, r) THEN "InOne" ELSE "AddOne")
      \/ Write(u, "AddOne", [db EXCEPT !.one = @ \cup {r}], "Zadd")
      \/ Read(u, "InOne", IF r \in db.one THEN "MoveOne" ELSE "InTwo")
      \/ Write(u, "MoveOne", Smove("one", "two", r), "Zadd")
      \/ r \in db.two /\ Read(u, "InTwo", "MoveTwo")
      \/ r \notin db.two /\ Abort(u, "InTwo")
      \/ Write(u, "MoveTwo", Smove("two", "three", r), "Zadd")
      \/ Write(u, "Zadd", Zadd(r, u), "Hset")
      \/ Write(u, "Hset", [db EXCEPT !.players[u] = r], "Score")
      \/ Write(u, "Score", Zadd(r, u), "Register")

Register(u) ==
  /\ at[u] = "Register"
  /\ roomMap' = AddUser(roomMap, job[u].to, u)
  /\ Goto(u, "Ready")
  /\ UNCHANGED << db, job, crashed, clientVars >>

\* readyForPlay: JoinRoomOK to everybody registered by now, and the hand if they are
\* three. GameMode opens a panel for the first StartGame only.
Ready(u) ==
  /\ at[u] = "Ready"
  /\ LET r  == job[u].to
         to == roomMap[r]
     IN  /\ croom' = [v \in Users |-> IF v \in to THEN r ELSE croom[v]]
         /\ IF Cardinality(to) = 3
            THEN /\ dealt' = dealt \cup {r}
                 /\ \E opens \in SUBSET to :
                      panel' = [v \in Users |-> panel[v] \/ v \in opens]
            ELSE UNCHANGED << dealt, panel >>
  /\ Goto(u, "Idle")
  /\ UNCHANGED << db, roomMap, job, crashed, asked >>

Handle(u) ==
  WhereAmIFirst(u) \/ Leave(u) \/ Forget(u) \/ JoinAny(u) \/ JoinNamed(u) \/ Register(u) \/ Ready(u)

Next == ~crashed /\ \E u \in Users : Ask(u) \/ Handle(u)

Spec == Init /\ [][Next]_vars

-----------------------------------------------------------------------------
(* What the repository says of the code and the code does not do *)

\* readme.md:7: when a room has enough players, the game starts by itself. Checked when
\* all requests have been handled.
FullRoomsPlay ==
  (\A u \in Users : at[u] = "Idle") =>
    \A r \in Rooms : Cardinality(db.zset[r]) >= 3 => r \in dealt
=============================================================================

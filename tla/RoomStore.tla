------------------------------ MODULE RoomStore ------------------------------
(***************************************************************************)
(* The two places where the server keeps its rooms:                        *)
(*                                                                         *)
(*  - the redis database behind class Room (game/Room.cpp): four sets of   *)
(*    room names (OnePlayers, TwoPlayers, ThreePlayers, Invalid), one      *)
(*    sorted set of members with scores per room, and the hash "Players"   *)
(*    from a player to the room that player joined last;                   *)
(*  - the singleton RoomList (game/RoomList.cpp): a map from a room to the *)
(*    players whose sendMessage callbacks are registered for it.           *)
(*                                                                         *)
(* The operators take a store and return the store after the whole method. *)
(* Their redis commands are not interleaved with those of other methods.   *)
(***************************************************************************)
EXTENDS Integers, FiniteSets

CONSTANTS
  Users,       \* players, by user name
  Rooms,       \* room names, the empty one among them
  NoRoom,      \* the empty room name, which is also whereAmI's answer for nothing
  Reserved,    \* names of redis keys that hold something else: "RSA", "Players", ...
  DrawnRooms,  \* the names getNewRoomName draws: six digits
  Redraws,     \* BOOLEAN: it also draws names that are in use
  Scores       \* the scores a player can have

ASSUME RoomStoreAssumption ==
  /\ IsFiniteSet(Users)
  /\ NoRoom \in Rooms
  /\ Reserved \subseteq Rooms \ {NoRoom}
  /\ DrawnRooms \subseteq Rooms \ ({NoRoom} \cup Reserved)
  /\ Redraws \in BOOLEAN
  /\ Scores \subseteq Int
  /\ 0 \in Scores

\* Room.h: how many players a room seats.
Seats == 3

Stores == [ one     : SUBSET Rooms,
            two     : SUBSET Rooms,
            three   : SUBSET Rooms,
            invalid : SUBSET Rooms,
            zset    : [Rooms -> SUBSET Users],
            zscore  : [Rooms -> [Users -> Scores]],
            players : [Users -> Rooms] ]

\* After flushdb. A score that is absent from a sorted set reads as 0, which is
\* what playerScore returns for it; an empty sorted set is a missing key.
EmptyStore == [ one     |-> {},
                two     |-> {},
                three   |-> {},
                invalid |-> {},
                zset    |-> [r \in Rooms |-> {}],
                zscore  |-> [r \in Rooms |-> [u \in Users |-> 0]],
                players |-> [u \in Users |-> NoRoom] ]

-----------------------------------------------------------------------------
(* class Room *)

Exists(db, r) == db.zset[r] # {}

HasSeat(db, r) == Cardinality(db.zset[r]) < Seats

\* Mistake: a room of two players falls through to the assert.
TwoAborts(db, r) ==
  \/ r \in Reserved
  \/ /\ HasSeat(db, r)
     /\ Exists(db, r)
     /\ r \notin db.one

\* joinRoom(user, room) ends the process: redis throws at the zcard of a key of another
\* type, which nobody catches; or the room has a seat and members but is filed
\* neither under OnePlayers nor under TwoPlayers, and assert(false) is reached.
JoinAborts(db, r) ==
  \/ r \in Reserved
  \/ /\ HasSeat(db, r)
     /\ Exists(db, r)
     /\ r \notin db.one \cup db.two

\* zadd: insert the member, or give it a new score.
UpdatePlayerScore(db, r, u, s) ==
  [ one     |-> db.one,
    two     |-> db.two,
    three   |-> db.three,
    invalid |-> db.invalid,
    zset    |-> [db.zset EXCEPT ![r] = @ \cup {u}],
    zscore  |-> [db.zscore EXCEPT ![r] = [@ EXCEPT ![u] = s]],
    players |-> db.players ]

\* Mistake: the join does not tell the hash "Players".
TakeSeatUntold(db, r, u) ==
  [ one     |-> IF ~Exists(db, r) THEN db.one \cup {r} ELSE db.one \ {r},
    two     |-> IF r \in db.one THEN db.two \cup {r} ELSE db.two \ {r},
    three   |-> IF r \in db.two THEN db.three \cup {r} ELSE db.three,
    invalid |-> db.invalid,
    zset    |-> [db.zset EXCEPT ![r] = @ \cup {u}],
    zscore  |-> [db.zscore EXCEPT ![r] = [@ EXCEPT ![u] = 0]],
    players |-> db.players ]

\* Mistake: a two-player room that fills up stays on offer.
TakeSeatStillTwo(db, r, u) ==
  [ one     |-> IF ~Exists(db, r) THEN db.one \cup {r} ELSE db.one \ {r},
    two     |-> IF r \in db.one THEN db.two \cup {r} ELSE db.two,
    three   |-> IF r \in db.two THEN db.three \cup {r} ELSE db.three,
    invalid |-> db.invalid,
    zset    |-> [db.zset EXCEPT ![r] = @ \cup {u}],
    zscore  |-> [db.zscore EXCEPT ![r] = [@ EXCEPT ![u] = 0]],
    players |-> [db.players EXCEPT ![u] = r] ]

\* joinRoom(user, room) for a join that neither fails nor aborts: a room that
\* does not exist is filed under OnePlayers, one that does moves up a class; then
\* zadd with score 0 and hset.
TakeSeat(db, r, u) ==
  LET isNew    == ~Exists(db, r)
      fromOne  == Exists(db, r) /\ r \in db.one
      fromTwo  == Exists(db, r) /\ r \notin db.one
  IN  [ one     |-> IF isNew THEN db.one \cup {r}
                    ELSE IF fromOne THEN db.one \ {r} ELSE db.one,
        two     |-> IF fromOne THEN db.two \cup {r}
                    ELSE IF fromTwo THEN db.two \ {r} ELSE db.two,
        three   |-> IF fromTwo THEN db.three \cup {r} ELSE db.three,
        invalid |-> db.invalid,
        zset    |-> [db.zset EXCEPT ![r] = @ \cup {u}],
        zscore  |-> [db.zscore EXCEPT ![r] = [@ EXCEPT ![u] = 0]],
        players |-> [db.players EXCEPT ![u] = r] ]

\* joinRoom(user, room): without a seat it returns false and changes nothing.
JoinRoom(db, r, u) == IF HasSeat(db, r) THEN TakeSeat(db, r, u) ELSE db

\* getNewRoomName draws one of 900000 names without a look at the rooms: one in use, if
\* Redraws says so.
NewRoomNames(db) ==
  { r \in DrawnRooms :
      \/ Redraws
      \/ /\ ~Exists(db, r)
         /\ r \notin db.one \cup db.two \cup db.three \cup db.invalid }

\* The room joinRoom(user) picks: any TwoPlayers room, else any OnePlayers room,
\* else a new one.
AutoChoices(db) ==
  IF db.two # {} THEN db.two
  ELSE IF db.one # {} THEN db.one
  ELSE NewRoomNames(db)

\* Mistake: a room that was full is filed nowhere (srem instead of smove).
LeaveRoomUnfiled(db, r, u) ==
  [ one     |-> db.one,
    two     |-> db.two,
    three   |-> db.three \ {r},
    invalid |-> IF db.zset[r] \ {u} = {} THEN db.invalid \ {r} ELSE db.invalid,
    zset    |-> [db.zset EXCEPT ![r] = @ \ {u}],
    zscore  |-> [db.zscore EXCEPT ![r] = [@ EXCEPT ![u] = 0]],
    players |-> db.players ]

\* Mistake: the key of the room is deleted while a member is left.
LeaveRoomDropsLast(db, r, u) ==
  LET stay == db.zset[r] \ {u}
  IN  [ one     |-> db.one,
        two     |-> db.two,
        three   |-> db.three \ {r},
        invalid |-> db.invalid \ {r},
        zset    |-> [db.zset EXCEPT ![r] = IF Cardinality(stay) <= 1 THEN {} ELSE stay],
        zscore  |-> [db.zscore EXCEPT ![r] = [@ EXCEPT ![u] = 0]],
        players |-> db.players ]

\* leaveRoom: a full room becomes an invalid one, the last member takes the room
\* along; the one-player and the two-player rooms are not brought up to date.
LeaveRoom(db, r, u) ==
  LET stay  == db.zset[r] \ {u}
      filed == IF r \in db.three THEN db.invalid \cup {r} ELSE db.invalid
  IN  [ one     |-> db.one,
        two     |-> db.two,
        three   |-> db.three \ {r},
        invalid |-> IF stay = {} THEN filed \ {r} ELSE filed,
        zset    |-> [db.zset EXCEPT ![r] = stay],
        zscore  |-> [db.zscore EXCEPT ![r] = [@ EXCEPT ![u] = 0]],
        players |-> db.players ]

WhereAmI(db, u) == db.players[u]

PlayerScore(db, r, u) == db.zscore[r][u]

-----------------------------------------------------------------------------
(* class RoomList: an absent room and a room without players are both {}. *)

\* Mistake: the whole room is dropped with the player.
RemoveRoomWith(rl, r, u) == [rl EXCEPT ![r] = {}]

AddUser(rl, r, u)      == [rl EXCEPT ![r] = @ \cup {u}]
RemovePlayer(rl, r, u) == [rl EXCEPT ![r] = @ \ {u}]
RemoveRoom(rl, r)      == [rl EXCEPT ![r] = {}]

-----------------------------------------------------------------------------
(* What the methods keep true of a store *)

\* The class a room is filed under bounds its members.
ClassBounds(d) ==
  \A r \in Rooms :
    /\ r \in d.one => Cardinality(d.zset[r]) <= 1
    /\ r \in d.two => Cardinality(d.zset[r]) <= 2
    /\ Cardinality(d.zset[r]) <= 3

\* A full or a broken room has members and is not open to more.
ClassesSplit(d) ==
  /\ d.three \cap (d.one \cup d.two \cup d.invalid) = {}
  /\ d.invalid \cap (d.one \cup d.two) = {}
  /\ \A r \in d.three \cup d.invalid : Exists(d, r)

\* A room with members is filed under one of the classes.
Filed(d) ==
  \A r \in Rooms : Exists(d, r) => r \in d.one \cup d.two \cup d.three \cup d.invalid

\* The hash "Players" finds every membership.
MembersFound(d) ==
  \A u \in Users, r \in Rooms : u \in d.zset[r] => d.players[u] = r

\* How absent scores are represented.
AbsentIsZero(d) ==
  \A u \in Users, r \in Rooms : u \notin d.zset[r] => d.zscore[r][u] = 0

\* No room goes by the empty name or by that of another key.
Nameless(d) ==
  \A r \in Reserved \cup {NoRoom} :
    /\ ~Exists(d, r)
    /\ r \notin d.one \cup d.two \cup d.three \cup d.invalid

StoreInv(d) ==
  /\ d \in Stores
  /\ Nameless(d)
  /\ ClassBounds(d)
  /\ ClassesSplit(d)
  /\ MembersFound(d)
  /\ AbsentIsZero(d)
=============================================================================

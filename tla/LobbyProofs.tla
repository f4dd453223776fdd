---------------------------- MODULE LobbyProofs ----------------------------
(***************************************************************************)
(* The lobby's invariants hold for every number of players, rooms, scores  *)
(* and requests in flight in OrdinaryUse; its types, who may change a seat *)
(* and what takes the server down hold in any use.                         *)
(*                                                                         *)
(* Nothing of RoomClasses alone is inductive: a GameOver inserts its       *)
(* sender into the room it names, so the capacity of a room rests on the   *)
(* requests in flight naming rooms their senders are still members of      *)
(* (SeatedRequests), which rests on the room names clients hold            *)
(* (KnowsRoom, SeatedPanels), which rests on who the callbacks in RoomList *)
(* belong to (DanglingIsIdle, GoneIsGone).  IInv is their conjunction.     *)
(***************************************************************************)
EXTENDS Lobby, FiniteSetTheorems, SequenceTheorems, TLAPS

-----------------------------------------------------------------------------
(* What the methods of class Room return and preserve, for every store *)

\* A sorted set is finite, and one member more or less changes zcard by one.
LEMMA MemberCount ==
  ASSUME NEW S \in SUBSET Users, NEW u \in Users
  PROVE  /\ IsFiniteSet(S)
         /\ Cardinality(S) \in Nat
         /\ Cardinality(S) = 0 <=> S = {}
         /\ Cardinality(S \cup {u}) <= Cardinality(S) + 1
         /\ Cardinality(S \cup {u}) \in Nat
         /\ Cardinality(S \ {u}) <= Cardinality(S)
         /\ Cardinality(S \ {u}) \in Nat
<1>1. IsFiniteSet(S)
  BY RoomStoreAssumption, FS_Subset
<1>2. IsFiniteSet(S \cup {u}) /\ IsFiniteSet(S \ {u})
  BY <1>1, FS_AddElement, FS_RemoveElement
<1>3. Cardinality(S) \in Nat /\ Cardinality(S \cup {u}) \in Nat /\ Cardinality(S \ {u}) \in Nat
  BY <1>1, <1>2, FS_CardinalityType
<1>4. Cardinality(S) = 0 <=> S = {}
  BY <1>1, FS_EmptySet
<1>5. Cardinality(S \cup {u}) <= Cardinality(S) + 1
  BY <1>1, <1>3, FS_AddElement
<1>6. Cardinality(S \ {u}) <= Cardinality(S)
  BY <1>1, <1>3, FS_RemoveElement
<1> QED
  BY <1>1, <1>2, <1>3, <1>4, <1>5, <1>6

\* The store after flushdb is a good one.
LEMMA EmptyStoreInv == StoreInv(EmptyStore)
<1>1. EmptyStore \in Stores
  BY RoomStoreAssumption DEF EmptyStore, Stores
<1>2. ClassBounds(EmptyStore)
  BY FS_EmptySet DEF EmptyStore, ClassBounds
<1> QED
  BY <1>1, <1>2, RoomStoreAssumption
     DEF StoreInv, EmptyStore, ClassesSplit, MembersFound, AbsentIsZero, Nameless, Exists

\* What leaveRoom returns is a store, without the member and its score.
LEMMA LeaveRoomType ==
  ASSUME NEW d \in Stores, NEW r \in Rooms, NEW u \in Users
  PROVE  LeaveRoom(d, r, u) \in Stores
BY RoomStoreAssumption DEF LeaveRoom, Stores

\* leaveRoom takes u from rooms and opens none.
LEMMA LeaveRoomFacts ==
  ASSUME NEW d \in Stores, NEW r \in Rooms, NEW u \in Users
  PROVE  /\ LeaveRoom(d, r, u).one = d.one /\ LeaveRoom(d, r, u).two = d.two
         /\ \A q \in Rooms : LeaveRoom(d, r, u).zset[q] \in {d.zset[q], d.zset[q] \ {u}}
BY DEF LeaveRoom, Stores

\* leaveRoom keeps a store good, whichever room and player it is called for.
LEMMA LeaveRoomInv ==
  ASSUME NEW d, StoreInv(d), NEW r \in Rooms, NEW u \in Users
  PROVE  StoreInv(LeaveRoom(d, r, u))
<1> DEFINE e == LeaveRoom(d, r, u)
<1>1. d \in Stores /\ e \in Stores
  BY LeaveRoomType DEF StoreInv
<1>2. ClassBounds(e)
  <2> SUFFICES ASSUME NEW q \in Rooms
               PROVE  /\ q \in e.one => Cardinality(e.zset[q]) <= 1
                      /\ q \in e.two => Cardinality(e.zset[q]) <= 2
                      /\ Cardinality(e.zset[q]) <= 3
    BY DEF ClassBounds
  <2>1. e.one = d.one /\ e.two = d.two
    BY DEF LeaveRoom
  <2>2. e.zset[q] = d.zset[q] \/ e.zset[q] = d.zset[q] \ {u}
    BY <1>1 DEF LeaveRoom, Stores
  <2>3. d.zset[q] \in SUBSET Users
    BY <1>1 DEF Stores
  <2>4. /\ Cardinality(e.zset[q]) <= Cardinality(d.zset[q])
        /\ Cardinality(d.zset[q]) \in Nat
        /\ Cardinality(e.zset[q]) \in Nat
    <3>1. /\ Cardinality(d.zset[q]) \in Nat
          /\ Cardinality(d.zset[q] \ {u}) <= Cardinality(d.zset[q])
          /\ Cardinality(d.zset[q] \ {u}) \in Nat
      BY <2>3, MemberCount
    <3> QED
      BY <2>2, <3>1
  <2>5. /\ q \in d.one => Cardinality(d.zset[q]) <= 1
        /\ q \in d.two => Cardinality(d.zset[q]) <= 2
        /\ Cardinality(d.zset[q]) <= 3
    BY DEF StoreInv, ClassBounds
  <2> QED
    BY <2>1, <2>4, <2>5
<1>3. ClassesSplit(e)
  BY <1>1 DEF StoreInv, ClassesSplit, LeaveRoom, Exists, Stores
<1>4. MembersFound(e)
  BY <1>1 DEF StoreInv, MembersFound, LeaveRoom, Stores
<1>5. AbsentIsZero(e)
  BY <1>1 DEF StoreInv, AbsentIsZero, LeaveRoom, Stores
<1>6. Nameless(e)
  BY <1>1, RoomStoreAssumption DEF StoreInv, Nameless, LeaveRoom, Stores, Exists
<1> QED
  BY <1>1, <1>2, <1>3, <1>4, <1>5, <1>6 DEF StoreInv

\* A seat taken by a player who is a member nowhere, in a room that the join
\* neither refuses nor aborts on, keeps a store good: the class the room moves to
\* has place for one more than the class it leaves.
LEMMA TakeSeatInv ==
  ASSUME NEW d, StoreInv(d), NEW r \in Rooms, NEW u \in Users,
         r # NoRoom, HasSeat(d, r), ~JoinAborts(d, r),
         \A q \in Rooms : u \notin d.zset[q]
  PROVE  /\ StoreInv(TakeSeat(d, r, u))
         /\ r \notin TakeSeat(d, r, u).invalid
<1> DEFINE e == TakeSeat(d, r, u)
<1>1. d \in Stores
  BY DEF StoreInv
<1>2. e \in Stores
  BY <1>1, RoomStoreAssumption DEF TakeSeat, Stores
<1>3. ~Exists(d, r) => r \notin d.three /\ r \notin d.invalid
  BY <1>1 DEF StoreInv, ClassesSplit
<1>4. Exists(d, r) => r \in d.one \/ r \in d.two
  BY DEF JoinAborts
<1>5. r \notin d.three /\ r \notin d.invalid
  BY <1>1, <1>3, <1>4 DEF StoreInv, ClassesSplit
<1>6. ClassBounds(e)
  <2> SUFFICES ASSUME NEW q \in Rooms
               PROVE  /\ q \in e.one => Cardinality(e.zset[q]) <= 1
                      /\ q \in e.two => Cardinality(e.zset[q]) <= 2
                      /\ Cardinality(e.zset[q]) <= 3
    BY DEF ClassBounds
  <2>1. /\ q \in d.one => Cardinality(d.zset[q]) <= 1
        /\ q \in d.two => Cardinality(d.zset[q]) <= 2
        /\ Cardinality(d.zset[q]) <= 3
    BY DEF StoreInv, ClassBounds
  <2>2. CASE q # r
    <3>1. e.zset[q] = d.zset[q]
      BY <1>1, <2>2 DEF TakeSeat, Stores
    <3>2. (q \in e.one <=> q \in d.one) /\ (q \in e.two <=> q \in d.two)
      BY <2>2 DEF TakeSeat
    <3> QED
      BY <2>1, <3>1, <3>2
  <2>3. CASE q = r
    <3>1. e.zset[r] = d.zset[r] \cup {u} /\ d.zset[r] \in SUBSET Users
      BY <1>1 DEF TakeSeat, Stores
    <3>2. /\ Cardinality(d.zset[r]) \in Nat
          /\ Cardinality(e.zset[r]) \in Nat
          /\ Cardinality(e.zset[r]) <= Cardinality(d.zset[r]) + 1
          /\ d.zset[r] = {} => Cardinality(d.zset[r]) = 0
      BY <3>1, MemberCount
    <3>3. Cardinality(d.zset[r]) <= 2
      BY <3>2 DEF HasSeat, Seats
    <3>4. CASE ~Exists(d, r)
      <4>1. Cardinality(e.zset[r]) <= 1
        BY <3>2, <3>4 DEF Exists
      <4> QED
        BY <2>3, <3>2, <4>1
    <3>5. CASE Exists(d, r) /\ r \in d.one
      <4>1. r \notin e.one
        BY <3>5 DEF TakeSeat
      <4> QED
        BY <2>1, <2>3, <3>2, <3>5, <4>1
    <3>6. CASE Exists(d, r) /\ r \notin d.one
      <4>1. r \notin e.one /\ r \notin e.two
        BY <3>6 DEF TakeSeat
      <4> QED
        BY <2>3, <3>2, <3>3, <4>1
    <3> QED
      BY <3>4, <3>5, <3>6
  <2> QED
    BY <2>2, <2>3
<1>7. ClassesSplit(e)
  <2>1. /\ e.three \cap (e.one \cup e.two \cup e.invalid) = {}
        /\ e.invalid \cap (e.one \cup e.two) = {}
    BY <1>4, <1>5 DEF StoreInv, ClassesSplit, TakeSeat
  <2>2. \A q \in e.three \cup e.invalid : Exists(e, q)
    BY <1>1, <1>5 DEF StoreInv, ClassesSplit, TakeSeat, Exists, Stores
  <2> QED
    BY <2>1, <2>2 DEF ClassesSplit
<1>8. MembersFound(e)
  BY <1>1 DEF StoreInv, MembersFound, TakeSeat, Stores
<1>9. AbsentIsZero(e)
  BY <1>1 DEF StoreInv, AbsentIsZero, TakeSeat, Stores
<1>10. Nameless(e)
  <2>1. r \notin Reserved \cup {NoRoom}
    BY DEF JoinAborts
  <2> QED
    BY <1>1, <2>1, RoomStoreAssumption DEF StoreInv, Nameless, TakeSeat, Stores, Exists
<1> QED
  BY <1>2, <1>5, <1>6, <1>7, <1>8, <1>9, <1>10 DEF StoreInv, TakeSeat

\* zadd for a player who is a member already only changes the score.
LEMMA UpdateScoreInv ==
  ASSUME NEW d, StoreInv(d), NEW r \in Rooms, NEW u \in Users, NEW s \in Scores,
         u \in d.zset[r]
  PROVE  /\ StoreInv(UpdatePlayerScore(d, r, u, s))
         /\ UpdatePlayerScore(d, r, u, s).zset = d.zset
<1> DEFINE e == UpdatePlayerScore(d, r, u, s)
<1>1. d \in Stores /\ e \in Stores
  BY DEF StoreInv, UpdatePlayerScore, Stores
<1>2. e.zset = d.zset
  BY <1>1 DEF UpdatePlayerScore, Stores
<1>3. ClassBounds(e) /\ ClassesSplit(e) /\ MembersFound(e) /\ Nameless(e)
  BY <1>2 DEF StoreInv, ClassBounds, ClassesSplit, MembersFound, Nameless, UpdatePlayerScore,
     Exists
<1>4. AbsentIsZero(e)
  BY <1>1 DEF StoreInv, AbsentIsZero, UpdatePlayerScore, Stores
<1> QED
  BY <1>1, <1>2, <1>3, <1>4 DEF StoreInv

\* The automatic join picks a room.
LEMMA AutoChoiceRoom ==
  ASSUME NEW d \in Stores, NEW r \in AutoChoices(d)
  PROVE  r \in Rooms
BY RoomStoreAssumption DEF AutoChoices, NewRoomNames, Stores

\* As long as no name in use is drawn, the room's join succeeds, so ignoring what
\* joinRoom(user, room) returns does no harm.
LEMMA AutoChoiceJoinable ==
  ASSUME NEW d, StoreInv(d), ~Redraws, NEW r \in AutoChoices(d)
  PROVE  r \in Rooms \ {NoRoom} /\ HasSeat(d, r) /\ ~JoinAborts(d, r)
<1>1. d \in Stores
  BY DEF StoreInv
<1>2. r \in Rooms
  BY <1>1, AutoChoiceRoom
<1>3. r \notin Reserved \cup {NoRoom}
  BY RoomStoreAssumption DEF AutoChoices, NewRoomNames, StoreInv, Nameless
<1>4. d.zset[r] \in SUBSET Users
  BY <1>1, <1>2 DEF Stores
<1>5. Cardinality(d.zset[r]) \in Nat /\ (d.zset[r] = {} => Cardinality(d.zset[r]) = 0)
  <2>1. IsFiniteSet(d.zset[r])
    BY <1>4, RoomStoreAssumption, FS_Subset
  <2> QED
    BY <2>1, FS_CardinalityType, FS_EmptySet
<1>6. CASE r \in d.one \cup d.two
  <2>1. Cardinality(d.zset[r]) <= 2
    BY <1>2, <1>5, <1>6 DEF StoreInv, ClassBounds
  <2> QED
    BY <1>2, <1>5, <1>6, <1>3, <2>1 DEF HasSeat, Seats, JoinAborts
<1>7. CASE r \in NewRoomNames(d)
  BY <1>2, <1>5, <1>7, <1>3 DEF NewRoomNames, Exists, HasSeat, Seats, JoinAborts
<1> QED
  BY <1>6, <1>7 DEF AutoChoices

-----------------------------------------------------------------------------
(* Connections *)

\* What Send leaves in a connection.
LEMMA AppendFacts ==
  ASSUME NEW s \in Seq(Requests), NEW m \in Requests
  PROVE  /\ Append(s, m) \in Seq(Requests)
         /\ Len(s) \in Nat
         /\ Len(Append(s, m)) = Len(s) + 1
         /\ Append(s, m) # <<>>
         /\ \A i \in 1..Len(s) : Append(s, m)[i] = s[i]
         /\ Append(s, m)[Len(s) + 1] = m
<1>1. Append(s, m) # <<>>
  BY LenProperties, EmptySeq
<1> QED
  BY <1>1

\* What Receive takes from a connection and leaves in it.
LEMMA TailFacts ==
  ASSUME NEW s \in Seq(Requests), s # <<>>
  PROVE  /\ Head(s) \in Requests
         /\ Head(s) = s[1]
         /\ Len(s) \in Nat /\ Len(s) >= 1
         /\ Tail(s) \in Seq(Requests)
         /\ Len(Tail(s)) = Len(s) - 1
         /\ \A i \in 1..Len(Tail(s)) : Tail(s)[i] = s[i + 1]
         /\ Tail(s) = <<>> <=> Len(s) = 1
<1>1. Len(s) \in Nat /\ Len(s) >= 1
  BY EmptySeq
<1>2. Head(s) = s[1]
  BY <1>1
<1>3. /\ Head(s) \in Requests
      /\ Tail(s) \in Seq(Requests)
      /\ Len(Tail(s)) = Len(s) - 1
      /\ \A i \in 1..Len(Tail(s)) : Tail(s)[i] = s[i + 1]
  BY HeadTailProperties
<1>4. Tail(s) = <<>> <=> Len(s) = 1
  <2> DEFINE t == Tail(s)
  <2>1. t \in Seq(Requests) /\ Len(t) = Len(s) - 1
    BY <1>3
  <2> HIDE DEF t
  <2>2. t = <<>> => Len(t) = 0
    BY EmptySeq
  <2>3. t # <<>> => Len(t) \in Nat \ {0}
    BY <2>1, EmptySeq
  <2> QED
    BY <1>1, <2>1, <2>2, <2>3 DEF t
<1> QED
  BY <1>1, <1>2, <1>3, <1>4

\* IInv holds initially.
LEMMA InitIInv == Init => IInv
<1> SUFFICES ASSUME Init PROVE TypeOK /\ ServerInv /\ ClientInv
  BY DEF IInv
<1>1. TypeOK
  <2>1. db \in Stores
    BY EmptyStoreInv DEF Init, StoreInv
  <2>2. req \in [Users -> Seq(Requests)]
    BY EmptySeq DEF Init
  <2> QED
    BY <2>1, <2>2, RoomStoreAssumption DEF Init, TypeOK, Phases
<1>2. ServerInv
  BY EmptyStoreInv DEF Init, ServerInv, ScoresAgree, ListedAreMembers,
     WaitingRoomsAgree, EmptyStore
<1>3. ClientInv
  BY DEF Init, ClientInv, KnowsRoom, SeatedRequests, SeatedPanels,
     DanglingIsIdle, GoneIsGone, Panel
<1> QED
  BY <1>1, <1>2, <1>3

-----------------------------------------------------------------------------
(* Client steps *)

\* A step that leaves redis, RoomList and the scores alone keeps the server's half.
LEMMA ServerUntouched ==
  ASSUME ServerInv, UNCHANGED <<db, roomMap, score>>
  PROVE  ServerInv'
BY DEF ServerInv, ScoresAgree, ListedAreMembers, WaitingRoomsAgree

\* What a request carries.
LEMMA RequestFacts ==
  ASSUME NEW m \in Requests
  PROVE  /\ m.room \in Rooms /\ m.score \in Scores
         /\ m.op = "ManualRoom" => m.room \in TypedRooms
BY DEF Requests

\* What the connections hold once u has sent a request.
LEMMA SendFacts ==
  ASSUME TypeOK, NEW u \in Users, NEW op \in Named \cup {"AutoRoom", "Goodbye"},
         NEW r \in Rooms, NEW s \in Scores,
         op = "ManualRoom" => r \in TypedRooms,
         Send(u, op, r, s)
  PROVE  /\ req' \in [Users -> Seq(Requests)]
         /\ \A v \in Users : v # u => req'[v] = req[v]
         /\ req'[u] # <<>>
         /\ Len(req[u]) \in Nat
         /\ Len(req'[u]) = Len(req[u]) + 1
         /\ \A i \in 1..Len(req[u]) : req'[u][i] = req[u][i]
         /\ req'[u][Len(req[u]) + 1].op = op
         /\ req'[u][Len(req[u]) + 1].room = r
<1> DEFINE m == [op |-> op, room |-> r, score |-> s]
<1>1. m \in Requests
  BY DEF Requests
<1>2. req[u] \in Seq(Requests)
  BY DEF TypeOK
<1>3. req' = [req EXCEPT ![u] = Append(req[u], m)]
  BY DEF Send
<1>4. req'[u] = Append(req[u], m) /\ \A v \in Users : v # u => req'[v] = req[v]
  BY <1>3 DEF TypeOK
<1>5. m.op = op /\ m.room = r
  OBVIOUS
<1> HIDE DEF m
<1>6. req' \in [Users -> Seq(Requests)]
  BY <1>1, <1>2, <1>3, AppendFacts DEF TypeOK
<1>7. /\ Len(req[u]) \in Nat
      /\ Len(req'[u]) = Len(req[u]) + 1
      /\ req'[u] # <<>>
      /\ \A i \in 1..Len(req[u]) : req'[u][i] = req[u][i]
      /\ req'[u][Len(req[u]) + 1] = m
  BY <1>1, <1>2, <1>4, AppendFacts
<1> QED
  BY <1>4, <1>5, <1>6, <1>7

\* A client step that sends a request and moves to window p keeps IInv, provided
\* the request and the window suit the client's membership.
LEMMA SendInv ==
  ASSUME IInv, NEW u \in Users, NEW op \in Named \cup {"AutoRoom", "Goodbye"},
         NEW r \in Rooms, NEW s \in Scores, NEW p \in Phases,
         op = "ManualRoom" => r \in TypedRooms,
         Send(u, op, r, s),
         UNCHANGED <<serverVars, croom>>,
         phase' = [phase EXCEPT ![u] = p],
         mode' \in [Users -> {"Auto", "Manual"}],
         phase[u] # "gone",
         op = "Goodbye" <=> p = "gone",
         op \in {"GameOver", "Continue"} =>
           /\ r = croom[u] /\ u \in db.zset[r]
           /\ \A j \in 1..Len(req[u]) : req[u][j].op \in {"GameOver", "Continue"},
         p \in Panel => croom[u] # NoRoom,
         p \in {"won", "over"} =>
           /\ op = "GameOver" /\ u \in db.zset[croom[u]]
           /\ \A j \in 1..Len(req[u]) : req[u][j].op = "GameOver",
         u \in dangling =>
           p \in {"menu", "gone"} /\ op \in {"AutoRoom", "ManualRoom", "Goodbye"}
  PROVE  IInv'
<1>1. TypeOK /\ ServerInv /\ ClientInv
  BY DEF IInv
<1>2. /\ req' \in [Users -> Seq(Requests)]
      /\ \A v \in Users : v # u => req'[v] = req[v]
      /\ req'[u] # <<>>
      /\ Len(req[u]) \in Nat
      /\ Len(req'[u]) = Len(req[u]) + 1
      /\ \A i \in 1..Len(req[u]) : req'[u][i] = req[u][i]
      /\ req'[u][Len(req[u]) + 1].op = op
      /\ req'[u][Len(req[u]) + 1].room = r
  <2>1. /\ TypeOK
        /\ op = "ManualRoom" => r \in TypedRooms
        /\ Send(u, op, r, s)
    BY <1>1
  <2> QED
    BY <2>1, SendFacts
<1>3. /\ db' = db /\ roomMap' = roomMap /\ dangling' = dangling /\ croom' = croom
      /\ phase'[u] = p /\ \A v \in Users : v # u => phase'[v] = phase[v]
  BY <1>1 DEF serverVars, TypeOK
<1>4. TypeOK' /\ ServerInv'
  BY <1>1, <1>2, ServerUntouched DEF TypeOK, serverVars
<1>5. KnowsRoom'
  BY <1>1, <1>3 DEF ClientInv, KnowsRoom
<1>6. SeatedRequests'
  <2> SUFFICES ASSUME NEW v \in Users, NEW i \in 1..Len(req'[v]),
                      req'[v][i].op \in {"GameOver", "Continue"}
               PROVE  /\ v \in db'.zset[req'[v][i].room]
                      /\ phase'[v] # "gone" => croom'[v] = req'[v][i].room
                      /\ \A j \in 1..i : req'[v][j].op \in {"GameOver", "Continue"}
    BY DEF SeatedRequests
  <2>1. CASE v # u
    BY <1>1, <1>2, <1>3, <2>1 DEF ClientInv, SeatedRequests
  <2>2. CASE v = u /\ i \in 1..Len(req[u])
    <3>1. /\ u \in db.zset[req[u][i].room]
          /\ croom[u] = req[u][i].room
          /\ \A j \in 1..i : req[u][j].op \in {"GameOver", "Continue"}
      BY <1>1, <1>2, <2>2 DEF ClientInv, SeatedRequests
    <3>2. \A j \in 1..i : req'[u][j] = req[u][j]
      BY <1>2, <2>2
    <3> QED
      BY <1>2, <1>3, <2>2, <3>1, <3>2
  <2>3. CASE v = u /\ i = Len(req[u]) + 1
    <3>1. \A j \in 1..i : j \in 1..Len(req[u]) \/ j = i
      BY <1>2, <2>3
    <3> QED
      BY <1>2, <1>3, <2>3, <3>1
  <2> QED
    BY <1>2, <2>1, <2>2, <2>3
<1>7. SeatedPanels'
  <2> SUFFICES ASSUME NEW v \in Users
               PROVE  /\ phase'[v] \in Panel => croom'[v] # NoRoom
                      /\ phase'[v] \in {"won", "over"} =>
                           /\ v \in db'.zset[croom'[v]]
                           /\ \A i \in 1..Len(req'[v]) : req'[v][i].op = "GameOver"
    BY DEF SeatedPanels, Panel
  <2>1. CASE v # u
    BY <1>1, <1>2, <1>3, <2>1 DEF ClientInv, SeatedPanels
  <2>2. CASE v = u
    <3>1. \A i \in 1..Len(req'[u]) : i \in 1..Len(req[u]) \/ i = Len(req[u]) + 1
      BY <1>2
    <3> QED
      BY <1>2, <1>3, <2>2, <3>1
  <2> QED
    BY <2>1, <2>2
<1>8. DanglingIsIdle'
  <2> SUFFICES ASSUME NEW v \in dangling
               PROVE  /\ phase'[v] \in {"menu", "gone"}
                      /\ \A i \in 1..Len(req'[v]) :
                           req'[v][i].op \in {"AutoRoom", "ManualRoom", "Goodbye"}
    BY <1>3 DEF DanglingIsIdle
  <2>1. v \in Users
    BY <1>1 DEF TypeOK
  <2>2. CASE v # u
    BY <1>1, <1>2, <1>3, <2>1, <2>2 DEF ClientInv, DanglingIsIdle
  <2>3. CASE v = u
    <3>1. \A i \in 1..Len(req'[u]) : i \in 1..Len(req[u]) \/ i = Len(req[u]) + 1
      BY <1>2
    <3>2. \A i \in 1..Len(req[u]) : req[u][i].op \in {"AutoRoom", "ManualRoom", "Goodbye"}
      BY <1>1, <2>3 DEF ClientInv, DanglingIsIdle
    <3> QED
      BY <1>2, <1>3, <2>3, <3>1, <3>2
  <2> QED
    BY <2>2, <2>3
<1>9. GoneIsGone'
  <2> SUFFICES ASSUME NEW v \in Users
               PROVE  /\ \A i \in 1..Len(req'[v]) :
                           req'[v][i].op = "Goodbye" => phase'[v] = "gone" /\ i = Len(req'[v])
                      /\ phase'[v] = "gone" /\ req'[v] # <<>> =>
                           req'[v][Len(req'[v])].op = "Goodbye"
                      /\ phase'[v] = "gone" /\ req'[v] = <<>> =>
                           \A q \in Rooms : v \in roomMap'[q] => v \in dangling'
    BY DEF GoneIsGone
  <2>1. CASE v # u
    BY <1>1, <1>2, <1>3, <2>1 DEF ClientInv, GoneIsGone
  <2>2. CASE v = u
    <3>1. \A i \in 1..Len(req'[u]) : i \in 1..Len(req[u]) \/ i = Len(req[u]) + 1
      BY <1>2
    <3>2. \A i \in 1..Len(req[u]) : req[u][i].op # "Goodbye"
      BY <1>1 DEF ClientInv, GoneIsGone
    <3> QED
      BY <1>2, <1>3, <2>2, <3>1, <3>2
  <2> QED
    BY <2>1, <2>2
<1> QED
  BY <1>4, <1>5, <1>6, <1>7, <1>8, <1>9 DEF IInv, ClientInv

\* AskRoom.
LEMMA AskRoomInv ==
  ASSUME IInv, NEW u \in Users, AskRoom(u)
  PROVE  IInv'
<1>1. /\ phase[u] = "menu" /\ phase \in [Users -> Phases] /\ mode \in [Users -> {"Auto", "Manual"}]
      /\ UNCHANGED <<serverVars, phase, croom>>
  BY DEF AskRoom, IInv, TypeOK
<1>2. /\ phase' = [phase EXCEPT ![u] = "menu"] /\ "menu" \in Phases
      /\ 0 \in Scores /\ NoRoom \in Rooms
  BY <1>1, RoomStoreAssumption DEF Phases
<1>3. mode' \in [Users -> {"Auto", "Manual"}]
  BY <1>1 DEF AskRoom
<1>4. CASE Send(u, "AutoRoom", NoRoom, 0)
  BY <1>1, <1>2, <1>3, <1>4, SendInv DEF Panel, Named
<1>5. CASE \E r \in TypedRooms : Send(u, "ManualRoom", r, 0)
  <2>1. PICK r \in TypedRooms : r \in Rooms /\ Send(u, "ManualRoom", r, 0)
    BY <1>5, LobbyAssumption
  <2> QED
    BY <1>1, <1>2, <1>3, <2>1, SendInv DEF Panel, Named
<1> QED
  BY <1>4, <1>5 DEF AskRoom

\* ReportScore: a client that has just seen the end of a game is a member of the
\* room it names.
LEMMA ReportScoreInv ==
  ASSUME IInv, NEW u \in Users, ReportScore(u)
  PROVE  IInv'
<1>1. PICK s \in Scores : Send(u, "GameOver", croom[u], s)
  BY DEF ReportScore
<1>2. /\ phase[u] = "won" /\ phase' = [phase EXCEPT ![u] = "over"] /\ "over" \in Phases
      /\ UNCHANGED <<serverVars, croom>>
      /\ mode' \in [Users -> {"Auto", "Manual"}]
  BY DEF ReportScore, IInv, TypeOK, Phases
<1>3. /\ croom[u] \in Rooms
      /\ u \in db.zset[croom[u]]
      /\ \A j \in 1..Len(req[u]) : req[u][j].op = "GameOver"
  BY <1>2 DEF IInv, TypeOK, ClientInv, SeatedPanels, Panel
<1>4. u \notin dangling
  BY <1>2 DEF IInv, ClientInv, DanglingIsIdle
<1>5. croom[u] # NoRoom
  BY <1>2 DEF IInv, ClientInv, SeatedPanels, Panel
<1> QED
  BY <1>1, <1>2, <1>3, <1>4, <1>5, SendInv DEF Named

\* PressContinue.
LEMMA PressContinueInv ==
  ASSUME IInv, NEW u \in Users, PressContinue(u)
  PROVE  IInv'
<1>1. /\ phase[u] = "over" /\ phase' = [phase EXCEPT ![u] = "wait"] /\ "wait" \in Phases
      /\ UNCHANGED <<serverVars, croom>>
      /\ mode' \in [Users -> {"Auto", "Manual"}]
      /\ 0 \in Scores /\ NoRoom \in Rooms
  BY RoomStoreAssumption DEF PressContinue, IInv, TypeOK, Phases
<1>2. /\ croom[u] \in Rooms
      /\ u \in db.zset[croom[u]]
      /\ \A j \in 1..Len(req[u]) : req[u][j].op = "GameOver"
  BY <1>1 DEF IInv, TypeOK, ClientInv, SeatedPanels, Panel
<1>3. u \notin dangling
  BY <1>1 DEF IInv, ClientInv, DanglingIsIdle
<1>4. croom[u] # NoRoom
  BY <1>1 DEF IInv, ClientInv, SeatedPanels, Panel
<1>5. CASE Send(u, "Continue", croom[u], 0)
  BY <1>1, <1>2, <1>3, <1>4, <1>5, SendInv DEF Named
<1>6. CASE Send(u, "AutoRoom", NoRoom, 0)
  BY <1>1, <1>3, <1>4, <1>6, SendInv DEF Named
<1> QED
  BY <1>5, <1>6 DEF PressContinue

\* ClosePanel.
LEMMA ClosePanelInv ==
  ASSUME IInv, NEW u \in Users, ClosePanel(u)
  PROVE  IInv'
<1>1. /\ phase[u] \in Panel /\ phase' = [phase EXCEPT ![u] = "menu"] /\ "menu" \in Phases
      /\ UNCHANGED <<serverVars, croom>>
      /\ mode' \in [Users -> {"Auto", "Manual"}]
      /\ 0 \in Scores
      /\ Send(u, "LeaveRoom", croom[u], 0)
  BY RoomStoreAssumption DEF ClosePanel, IInv, TypeOK, Phases
<1>2. croom[u] \in Rooms
  BY <1>1 DEF IInv, TypeOK, ClientInv, SeatedPanels
<1>3. u \notin dangling
  BY <1>1 DEF IInv, ClientInv, DanglingIsIdle, Panel
<1> QED
  BY <1>1, <1>2, <1>3, SendInv DEF Named, Panel

\* Quit.
LEMMA QuitInv ==
  ASSUME IInv, NEW u \in Users, Quit(u)
  PROVE  IInv'
<1>1. /\ phase[u] = "menu" /\ phase' = [phase EXCEPT ![u] = "gone"] /\ "gone" \in Phases
      /\ UNCHANGED <<serverVars, croom>>
      /\ mode' \in [Users -> {"Auto", "Manual"}]
      /\ 0 \in Scores /\ NoRoom \in Rooms
      /\ Send(u, "Goodbye", NoRoom, 0)
  BY RoomStoreAssumption DEF Quit, IInv, TypeOK, Phases
<1> QED
  BY <1>1, SendInv DEF Named, Panel

\* Login: the old connection of the program that was closed has nothing in it,
\* so its callback, if there is one, is a dangling one.
LEMMA LoginInv ==
  ASSUME IInv, NEW u \in Users, Login(u)
  PROVE  IInv'
<1>1. TypeOK /\ ServerInv /\ ClientInv
  BY DEF IInv
<1>2. /\ phase[u] = "gone" /\ req[u] = <<>> /\ req' = req
      /\ phase'[u] = "menu" /\ croom'[u] = NoRoom
      /\ \A v \in Users : v # u => phase'[v] = phase[v] /\ croom'[v] = croom[v]
      /\ db' = db /\ roomMap' = roomMap /\ dangling' = dangling
      /\ score' = score
  BY <1>1 DEF Login, TypeOK
<1>3. TypeOK' /\ ServerInv'
  <2>1. online' \in [Users -> BOOLEAN]
    BY <1>1 DEF Login, TypeOK
  <2> QED
    BY <1>1, <1>2, <2>1, ServerUntouched, RoomStoreAssumption DEF Login, TypeOK, Phases
<1>4. \A i \in 1..Len(req[u]) : FALSE
  BY <1>2
<1>5. \A r \in Rooms : u \in roomMap[r] => u \in dangling
  BY <1>1, <1>2 DEF ClientInv, GoneIsGone
<1>6. KnowsRoom'
  <2>1. \A r \in Rooms : roomMap[r] \subseteq Users
    BY <1>1 DEF TypeOK
  <2> QED
    BY <1>1, <1>2, <1>5, <2>1 DEF ClientInv, KnowsRoom
<1>7. SeatedRequests'
  BY <1>1, <1>2, <1>4 DEF ClientInv, SeatedRequests
<1>8. SeatedPanels'
  BY <1>1, <1>2, <1>4 DEF ClientInv, SeatedPanels, Panel
<1>9. DanglingIsIdle'
  BY <1>1, <1>2, <1>4 DEF ClientInv, DanglingIsIdle, TypeOK
<1>10. GoneIsGone'
  BY <1>1, <1>2, <1>4 DEF ClientInv, GoneIsGone
<1> QED
  BY <1>3, <1>6, <1>7, <1>8, <1>9, <1>10 DEF IInv, ClientInv

\* HandDecided: the players a game ends for are members of its room, under the
\* room name they hold.
LEMMA HandDecidedInv ==
  ASSUME IInv, NEW r \in Rooms, HandDecided(r)
  PROVE  IInv'
<1>1. TypeOK /\ ServerInv /\ ClientInv
  BY DEF IInv
<1>2. /\ \A u \in Users : phase'[u] = IF u \in roomMap[r] THEN "won" ELSE phase[u]
      /\ \A u \in roomMap[r] : phase[u] = "play" /\ req[u] = <<>>
      /\ req' = req /\ croom' = croom
      /\ db' = db /\ roomMap' = roomMap /\ dangling' = dangling
      /\ roomMap[r] \subseteq Users
  BY <1>1 DEF HandDecided, serverVars, TypeOK
<1>3. \A u \in roomMap[r] : /\ u \in Users /\ u \notin dangling
                            /\ croom[u] = r /\ u \in db.zset[r]
  BY <1>1, <1>2 DEF ServerInv, ClientInv, ListedAreMembers, KnowsRoom, DanglingIsIdle
<1>4. TypeOK' /\ ServerInv'
  <2>1. phase' \in [Users -> Phases]
    BY <1>1 DEF HandDecided, TypeOK, Phases
  <2> QED
    BY <1>1, <2>1, ServerUntouched DEF HandDecided, TypeOK, serverVars
<1>5. KnowsRoom'
  <2>1. \A q \in Rooms : roomMap[q] \subseteq Users
    BY <1>1 DEF TypeOK
  <2> QED
    BY <1>1, <1>2, <1>3, <2>1 DEF ClientInv, KnowsRoom
<1>6. SeatedRequests'
  BY <1>1, <1>2 DEF ClientInv, SeatedRequests
<1>7. SeatedPanels'
  BY <1>1, <1>2, <1>3 DEF ClientInv, SeatedPanels, Panel
<1>8. DanglingIsIdle'
  BY <1>1, <1>2, <1>3 DEF ClientInv, DanglingIsIdle, TypeOK
<1>9. GoneIsGone'
  BY <1>1, <1>2 DEF ClientInv, GoneIsGone
<1> QED
  BY <1>4, <1>5, <1>6, <1>7, <1>8, <1>9 DEF IInv, ClientInv

-----------------------------------------------------------------------------
(* Server steps *)

\* What the connections hold once the first request of u has been taken.
LEMMA ReceiveFacts ==
  ASSUME TypeOK, NEW u \in Users, NEW op, Receive(u, op)
  PROVE  /\ req' \in [Users -> Seq(Requests)]
         /\ mode' = mode
         /\ \A v \in Users : v # u => req'[v] = req[v]
         /\ Head(req[u]) = req[u][1] /\ Head(req[u]) \in Requests
         /\ req[u][1].op = op
         /\ Len(req[u]) \in Nat /\ Len(req[u]) >= 1
         /\ Len(req'[u]) = Len(req[u]) - 1
         /\ \A i \in 1..Len(req'[u]) : req'[u][i] = req[u][i + 1]
         /\ req'[u] = <<>> <=> Len(req[u]) = 1
<1>1. req[u] \in Seq(Requests) /\ req[u] # <<>>
  BY DEF TypeOK, Receive
<1>2. /\ req' = [req EXCEPT ![u] = Tail(req[u])]
      /\ Head(req[u]).op = op /\ mode' = mode
  BY DEF Receive
<1>3. req'[u] = Tail(req[u]) /\ \A v \in Users : v # u => req'[v] = req[v]
  BY <1>2 DEF TypeOK
<1>4. Tail(req[u]) \in Seq(Requests)
  BY <1>1, TailFacts
<1>5. req' \in [Users -> Seq(Requests)]
  BY <1>2, <1>4 DEF TypeOK
<1> QED
  BY <1>1, <1>2, <1>3, <1>5, TailFacts

\* The clients' half of IInv after the first request of u, an op, has been
\* handled: the handler takes no membership but that of u, registers nobody but
\* u, and moves clients to a hand only with the name of the room it is played in.
LEMMA ServeInv ==
  ASSUME IInv, NEW u \in Users, NEW op, Receive(u, op),
         TypeOK', ServerInv', KnowsRoom',
         \A v \in Users, q \in Rooms :
            v \in db.zset[q] /\ (v # u \/ op \in {"GameOver", "Continue"}) => v \in db'.zset[q],
         \A v \in Users, q \in Rooms : v # u /\ v \in roomMap'[q] => v \in roomMap[q],
         \A v \in Users :
            \/ phase'[v] = phase[v]
            \/ /\ phase[v] \in Panel \cup {"menu"} /\ phase'[v] = "play"
               /\ v \notin dangling' /\ croom'[v] # NoRoom,
         \A v \in Users :
            \/ croom'[v] = croom[v]
            \/ croom'[v] \in Rooms /\ v \in db'.zset[croom'[v]],
         \A v \in dangling' : v \in dangling \/ (v = u /\ op = "Goodbye"),
         \A v \in dangling : v # u => v \in dangling',
         op = "Goodbye" => \A q \in Rooms : u \in roomMap'[q] => u \in dangling'
  PROVE  IInv'
<1>1. TypeOK /\ ServerInv /\ ClientInv
  BY DEF IInv
<1>2. /\ \A v \in Users : v # u => req'[v] = req[v]
      /\ req[u][1].op = op
      /\ Len(req[u]) \in Nat /\ Len(req[u]) >= 1
      /\ Len(req'[u]) = Len(req[u]) - 1
      /\ \A i \in 1..Len(req'[u]) : req'[u][i] = req[u][i + 1]
      /\ req'[u] = <<>> <=> Len(req[u]) = 1
  <2>1. TypeOK /\ Receive(u, op)
    BY <1>1
  <2> QED
    BY <2>1, ReceiveFacts
<1>3. \A v \in Users, q, p \in Rooms : v \in db'.zset[q] /\ v \in db'.zset[p] => q = p
  BY DEF ServerInv, StoreInv, MembersFound
<1>4. \A v \in Users : \A i \in 1..Len(req[v]) : req[v][i] \in Requests
  <2>1. \A v \in Users : req[v] \in Seq(Requests)
    BY <1>1 DEF TypeOK
  <2> QED
    BY <2>1, ElementOfSeq
<1>5. SeatedRequests'
  <2> SUFFICES ASSUME NEW v \in Users, NEW i \in 1..Len(req'[v]),
                      req'[v][i].op \in {"GameOver", "Continue"}
               PROVE  /\ v \in db'.zset[req'[v][i].room]
                      /\ phase'[v] # "gone" => croom'[v] = req'[v][i].room
                      /\ \A j \in 1..i : req'[v][j].op \in {"GameOver", "Continue"}
    BY DEF SeatedRequests
  <2>1. PICK k \in 1..Len(req[v]) :
          /\ req'[v][i] = req[v][k]
          /\ v # u => k = i
          /\ v = u => k = i + 1
    <3>1. CASE v # u
      BY <1>2, <3>1
    <3>2. CASE v = u
      <4>1. i + 1 \in 1..Len(req[u]) /\ req'[u][i] = req[u][i + 1]
        BY <1>2, <3>2
      <4> QED
        BY <3>2, <4>1
    <3> QED
      BY <3>1, <3>2
  <2>2. /\ v \in db.zset[req[v][k].room]
        /\ phase[v] # "gone" => croom[v] = req[v][k].room
        /\ \A j \in 1..k : req[v][j].op \in {"GameOver", "Continue"}
    BY <1>1, <2>1 DEF ClientInv, SeatedRequests
  <2>3. v = u => op \in {"GameOver", "Continue"}
    <3>1. 1 \in 1..k
      OBVIOUS
    <3> QED
      BY <1>2, <2>2, <3>1
  <2>4. v \in db'.zset[req[v][k].room] /\ req[v][k].room \in Rooms
    <3>1. req[v][k].room \in Rooms
      BY <1>4, RequestFacts
    <3> QED
      BY <2>2, <2>3, <3>1
  <2>5. phase'[v] # "gone" => croom'[v] = req[v][k].room
    <3>1. phase'[v] # "gone" => phase[v] # "gone"
      BY DEF Panel
    <3> QED
      BY <1>3, <2>2, <2>4, <3>1
  <2>6. \A j \in 1..i : req'[v][j].op \in {"GameOver", "Continue"}
    <3>1. CASE v # u
      BY <1>2, <2>1, <2>2, <3>1
    <3>2. CASE v = u
      <4>1. \A j \in 1..i : j \in 1..Len(req'[u]) /\ j + 1 \in 1..k
        BY <1>2, <2>1, <3>2
      <4> QED
        BY <1>2, <2>2, <3>2, <4>1
    <3> QED
      BY <3>1, <3>2
  <2> QED
    BY <2>1, <2>4, <2>5, <2>6
<1>6. SeatedPanels'
  <2> SUFFICES ASSUME NEW v \in Users
               PROVE  /\ phase'[v] \in Panel => croom'[v] # NoRoom
                      /\ phase'[v] \in {"won", "over"} =>
                           /\ v \in db'.zset[croom'[v]]
                           /\ \A i \in 1..Len(req'[v]) : req'[v][i].op = "GameOver"
    BY DEF SeatedPanels, Panel
  <2>1. phase'[v] \in Panel => croom'[v] # NoRoom
    <3>1. v \notin db'.zset[NoRoom]
      BY DEF ServerInv, StoreInv, Nameless, Exists
    <3> QED
      BY <1>1, <3>1 DEF ClientInv, SeatedPanels, Panel
  <2>2. ASSUME phase'[v] \in {"won", "over"}
        PROVE  /\ v \in db'.zset[croom'[v]]
               /\ \A i \in 1..Len(req'[v]) : req'[v][i].op = "GameOver"
    <3>1. /\ v \in db.zset[croom[v]] /\ croom[v] \in Rooms
          /\ \A i \in 1..Len(req[v]) : req[v][i].op = "GameOver"
      BY <1>1, <2>2 DEF ClientInv, SeatedPanels, Panel, TypeOK
    <3>2. v = u => op = "GameOver"
      BY <1>2, <3>1
    <3> QED
      BY <1>2, <3>1, <3>2
  <2> QED
    BY <2>1, <2>2
<1>7. DanglingIsIdle'
  <2> SUFFICES ASSUME NEW v \in dangling'
               PROVE  /\ phase'[v] \in {"menu", "gone"}
                      /\ \A i \in 1..Len(req'[v]) :
                           req'[v][i].op \in {"AutoRoom", "ManualRoom", "Goodbye"}
    BY DEF DanglingIsIdle
  <2>1. v \in Users /\ phase'[v] = phase[v]
    BY DEF TypeOK
  <2>2. CASE v \in dangling
    <3>1. /\ phase[v] \in {"menu", "gone"}
          /\ \A i \in 1..Len(req[v]) : req[v][i].op \in {"AutoRoom", "ManualRoom", "Goodbye"}
      BY <1>1, <2>2 DEF ClientInv, DanglingIsIdle
    <3>2. \A i \in 1..Len(req'[v]) : \E j \in 1..Len(req[v]) : req'[v][i] = req[v][j]
      <4>1. CASE v # u
        BY <1>2, <2>1, <4>1
      <4>2. CASE v = u
        <5>1. \A i \in 1..Len(req'[u]) : i + 1 \in 1..Len(req[u])
          BY <1>2
        <5> QED
          BY <1>2, <4>2, <5>1
      <4> QED
        BY <4>1, <4>2
    <3> QED
      BY <2>1, <3>1, <3>2
  <2>3. CASE v = u /\ op = "Goodbye"
    <3>1. phase[u] = "gone" /\ Len(req[u]) = 1
      BY <1>1, <1>2, <2>3 DEF ClientInv, GoneIsGone
    <3> QED
      BY <1>2, <2>1, <2>3, <3>1
  <2> QED
    BY <2>2, <2>3
<1>8. GoneIsGone'
  <2> SUFFICES ASSUME NEW v \in Users
               PROVE  /\ \A i \in 1..Len(req'[v]) :
                           req'[v][i].op = "Goodbye" => phase'[v] = "gone" /\ i = Len(req'[v])
                      /\ phase'[v] = "gone" /\ req'[v] # <<>> =>
                           req'[v][Len(req'[v])].op = "Goodbye"
                      /\ phase'[v] = "gone" /\ req'[v] = <<>> =>
                           \A q \in Rooms : v \in roomMap'[q] => v \in dangling'
    BY DEF GoneIsGone
  <2>1. phase'[v] = "gone" <=> phase[v] = "gone"
    BY DEF Panel
  <2>2. CASE v # u
    BY <1>1, <1>2, <2>1, <2>2 DEF ClientInv, GoneIsGone
  <2>3. CASE v = u
    <3>1. /\ \A i \in 1..Len(req[u]) :
               req[u][i].op = "Goodbye" => phase[u] = "gone" /\ i = Len(req[u])
          /\ phase[u] = "gone" /\ req[u] # <<>> => req[u][Len(req[u])].op = "Goodbye"
      BY <1>1 DEF ClientInv, GoneIsGone
    <3>2. req[u] # <<>>
      BY DEF Receive
    <3>3. phase[u] = "gone" /\ req'[u] = <<>> => op = "Goodbye"
      BY <1>2, <3>1, <3>2
    <3>4. req'[u] # <<>> => Len(req'[u]) \in 1..Len(req'[u]) /\ Len(req'[u]) + 1 = Len(req[u])
      BY <1>2
    <3> QED
      BY <1>2, <2>1, <2>3, <3>1, <3>2, <3>3, <3>4
  <2> QED
    BY <2>2, <2>3
<1> QED
  BY <1>5, <1>6, <1>7, <1>8 DEF IInv, ClientInv

\* handleAddRoom up to the join: the player is a member of no room and listed for
\* none, whichever room that was, and nothing else has changed.
LEMMA LeftFacts ==
  ASSUME TypeOK, ServerInv, NEW u \in Users
  PROVE  /\ StoreInv(LeftStore(u))
         /\ LeftStore(u).one = db.one /\ LeftStore(u).two = db.two
         /\ \A q \in Rooms : /\ LeftStore(u).zset[q] = db.zset[q] \ {u}
                             /\ LeftMap(u)[q] = roomMap[q] \ {u}
         /\ \A q \in Rooms, v \in Users :
              v # u => LeftStore(u).zscore[q][v] = db.zscore[q][v]
         /\ LeftMap(u) \in [Rooms -> SUBSET Users]
<1> DEFINE w == db.players[u]
<1>1. db \in Stores /\ StoreInv(db) /\ w \in Rooms
  BY DEF TypeOK, ServerInv, Stores
<1>2. \A q \in Rooms : u \in db.zset[q] => q = w
  BY <1>1 DEF StoreInv, MembersFound
<1>3. \A q \in Rooms : u \in roomMap[q] => q = w
  BY <1>2 DEF ServerInv, ListedAreMembers
<1>4. CASE w = NoRoom
  <2>1. LeftStore(u) = db /\ LeftMap(u) = roomMap
    BY <1>4 DEF LeftStore, LeftMap, WhereAmI
  <2>2. \A q \in Rooms : u \notin db.zset[q] /\ u \notin roomMap[q]
    <3>1. db.zset[NoRoom] = {}
      BY <1>1 DEF StoreInv, Nameless, Exists
    <3>2. roomMap[NoRoom] = {}
      BY <3>1, RoomStoreAssumption DEF ServerInv, ListedAreMembers
    <3> QED
      BY <1>2, <1>3, <1>4, <3>1, <3>2
  <2> QED
    BY <1>1, <2>1, <2>2 DEF TypeOK
<1>5. CASE w # NoRoom
  <2>1. LeftStore(u) = LeaveRoom(db, w, u) /\ LeftMap(u) = RemovePlayer(roomMap, w, u)
    BY <1>5 DEF LeftStore, LeftMap, WhereAmI
  <2>2. StoreInv(LeftStore(u))
    BY <1>1, <2>1, LeaveRoomInv
  <2>3. LeftStore(u).one = db.one /\ LeftStore(u).two = db.two
    BY <2>1 DEF LeaveRoom
  <2>4. \A q \in Rooms : LeftStore(u).zset[q] = db.zset[q] \ {u}
    BY <1>1, <1>2, <2>1 DEF LeaveRoom, Stores
  <2>5. \A q \in Rooms : LeftMap(u)[q] = roomMap[q] \ {u}
    BY <1>1, <1>3, <2>1 DEF RemovePlayer, TypeOK
  <2>6. \A q \in Rooms, v \in Users :
          v # u => LeftStore(u).zscore[q][v] = db.zscore[q][v]
    BY <1>1, <2>1 DEF LeaveRoom, Stores
  <2>7. LeftMap(u) \in [Rooms -> SUBSET Users]
    BY <1>1, <2>1 DEF RemovePlayer, TypeOK
  <2> QED
    BY <2>2, <2>3, <2>4, <2>5, <2>6, <2>7
<1> QED
  BY <1>1, <1>4, <1>5

\* The score a player takes along is the one in MySQL, whatever a 0 in redis meant.
LEMMA CarriedFacts ==
  ASSUME TypeOK, ServerInv, NEW u \in Users
  PROVE  CarriedScore(u) = score[u]
<1> DEFINE w == db.players[u]
<1>1. db \in Stores /\ w \in Rooms
  BY DEF TypeOK, Stores
<1>2. db.zscore[w][u] = 0 \/ db.zscore[w][u] = score[u]
  BY <1>1 DEF ServerInv, StoreInv, AbsentIsZero, ScoresAgree
<1> QED
  BY <1>1, <1>2 DEF CarriedScore, PlayerScore, WhereAmI

\* Both ways of giving up the old room without taking a new one, AbortInJoin and
\* the refusal of handleAddRoom.
LEMMA LeftInv ==
  ASSUME IInv, NEW u \in Users, NEW op, Receive(u, op), op \notin {"GameOver", "Continue", "Goodbye"},
         db' = LeftStore(u), roomMap' = LeftMap(u), crashed' \in BOOLEAN,
         UNCHANGED <<dangling, score, online, phase, croom>>
  PROVE  IInv'
<1>1. TypeOK /\ ServerInv /\ ClientInv
  BY DEF IInv
<1>2. /\ StoreInv(db') /\ db'.one = db.one /\ db'.two = db.two
      /\ \A q \in Rooms : db'.zset[q] = db.zset[q] \ {u} /\ roomMap'[q] = roomMap[q] \ {u}
      /\ \A q \in Rooms, v \in Users : v # u => db'.zscore[q][v] = db.zscore[q][v]
      /\ roomMap' \in [Rooms -> SUBSET Users]
  BY <1>1, LeftFacts
<1>3. req' \in [Users -> Seq(Requests)] /\ mode' = mode
  BY <1>1, ReceiveFacts
<1>4. TypeOK'
  BY <1>1, <1>2, <1>3 DEF TypeOK, StoreInv
<1>5. ServerInv'
  <2>1. score' = score
    OBVIOUS
  <2>2. ScoresAgree'
    <3> SUFFICES ASSUME NEW v \in Users, NEW q \in Rooms, v \in db'.zset[q]
                 PROVE  db'.zscore[q][v] = score[v]
      BY <2>1 DEF ScoresAgree
    <3>1. v \in db.zset[q] /\ v # u
      BY <1>2
    <3> QED
      BY <1>1, <1>2, <3>1 DEF ServerInv, ScoresAgree
  <2>3. ListedAreMembers'
    BY <1>1, <1>2 DEF ServerInv, ListedAreMembers
  <2>4. WaitingRoomsAgree'
    <3>1. db.one \cup db.two \subseteq Rooms
      BY <1>1 DEF TypeOK, Stores
    <3>2. \A q \in db.one \cup db.two : roomMap[q] = db.zset[q]
      BY <1>1 DEF ServerInv, WaitingRoomsAgree
    <3> SUFFICES ASSUME NEW q \in db.one \cup db.two PROVE roomMap'[q] = db'.zset[q]
      BY <1>2 DEF WaitingRoomsAgree
    <3>3. roomMap'[q] = roomMap[q] \ {u} /\ db'.zset[q] = db.zset[q] \ {u}
      BY <1>2, <3>1
    <3> QED
      BY <3>2, <3>3
  <2> QED
    BY <1>2, <2>2, <2>3, <2>4 DEF ServerInv
<1>6. KnowsRoom'
  <2>1. phase' = phase /\ croom' = croom /\ dangling' = dangling
    OBVIOUS
  <2> QED
    BY <1>1, <1>2, <2>1 DEF ClientInv, KnowsRoom
<1>7. \A v \in Users, q \in Rooms :
        v \in db.zset[q] /\ (v # u \/ op \in {"GameOver", "Continue"}) => v \in db'.zset[q]
  BY <1>2
<1>8. \A v \in Users, q \in Rooms : v # u /\ v \in roomMap'[q] => v \in roomMap[q]
  BY <1>2
<1> QED
  BY <1>4, <1>5, <1>6, <1>7, <1>8, ServeInv

\* StartGame moves clients registered for the room to a hand and leaves the others
\* where they are.
LEMMA StartFacts ==
  ASSUME TypeOK, roomMap' \in [Rooms -> SUBSET Users], NEW r \in Rooms,
         StartGame(roomMap'[r]) \/ UNCHANGED phase
  PROVE  /\ phase' \in [Users -> Phases]
         /\ \A v \in Users :
              \/ phase'[v] = phase[v]
              \/ /\ phase[v] \in Panel \cup {"menu"} /\ phase'[v] = "play"
                 /\ v \in roomMap'[r] /\ v \notin dangling'
<1>1. CASE UNCHANGED phase
  BY <1>1 DEF TypeOK
<1>2. CASE StartGame(roomMap'[r])
  <2>1. PICK opens \in SUBSET { v \in roomMap'[r] \ dangling' : phase[v] = "menu" } :
          phase' = [ v \in Users |->
                       IF v \in opens \/ (v \in roomMap'[r] \ dangling' /\ phase[v] \in Panel)
                       THEN "play" ELSE phase[v] ]
    BY <1>2 DEF StartGame
  <2> QED
    BY <2>1 DEF TypeOK, Phases
<1> QED
  BY <1>1, <1>2

\* handleAddRoom and readyForPlay when the join succeeds: the room was new, or it
\* was one where RoomList and redis agreed; it is open to more only if it still is.
LEMMA SeatInv ==
  ASSUME IInv, NEW u \in Users, NEW op, Receive(u, op), op \in {"AutoRoom", "ManualRoom"},
         NEW r \in Rooms \ {NoRoom}, HasSeat(LeftStore(u), r), ~JoinAborts(LeftStore(u), r),
         Seat(u, r, JoinRoom(LeftStore(u), r, u))
  PROVE  IInv'
<1> DEFINE left == LeftStore(u)
           took == TakeSeat(left, r, u)
<1>1. TypeOK /\ ServerInv /\ ClientInv
  BY DEF IInv
<1>2. /\ StoreInv(left) /\ left \in Stores
      /\ left.one = db.one /\ left.two = db.two
      /\ \A q \in Rooms : /\ left.zset[q] = db.zset[q] \ {u}
                          /\ LeftMap(u)[q] = roomMap[q] \ {u}
      /\ \A q \in Rooms, v \in Users : v # u => left.zscore[q][v] = db.zscore[q][v]
      /\ LeftMap(u) \in [Rooms -> SUBSET Users]
  BY <1>1, LeftFacts DEF StoreInv
<1>3. CarriedScore(u) = score[u] /\ score[u] \in Scores
  BY <1>1, CarriedFacts DEF TypeOK
<1>4. StoreInv(took) /\ took \in Stores
  <2>1. \A q \in Rooms : u \notin left.zset[q]
    BY <1>2
  <2> HIDE DEF left
  <2>2. HasSeat(left, r) /\ ~JoinAborts(left, r)
    BY DEF left
  <2> QED
    BY <1>2, <2>1, <2>2, TakeSeatInv DEF StoreInv
<1>5. db' = UpdatePlayerScore(took, r, u, score[u])
  BY <1>3 DEF Seat, JoinRoom
<1>6. /\ \A q \in Rooms : took.zset[q] = IF q = r THEN left.zset[q] \cup {u} ELSE left.zset[q]
      /\ \A q \in Rooms, v \in Users : v # u => took.zscore[q][v] = left.zscore[q][v]
      /\ \A q \in took.one \cup took.two :
           q # r => q \in left.one \cup left.two
      /\ r \in took.one \cup took.two => ~Exists(left, r) \/ r \in left.one \cup left.two
  <2> HIDE DEF left
  <2> QED
    BY <1>2 DEF took, TakeSeat, Stores
<1>7. /\ StoreInv(db') /\ db'.zset = took.zset
      /\ db'.one = took.one /\ db'.two = took.two
      /\ \A q \in Rooms, v \in Users : v # u => db'.zscore[q][v] = took.zscore[q][v]
      /\ db'.zscore[r][u] = score[u]
  <2>1. u \in took.zset[r]
    BY <1>6
  <2> HIDE DEF took
  <2>2. StoreInv(db') /\ db'.zset = took.zset
    BY <1>3, <1>4, <1>5, <2>1, UpdateScoreInv
  <2> QED
    BY <1>4, <1>5, <2>2 DEF UpdatePlayerScore, Stores
<1>8. \A q \in Rooms : db'.zset[q] = IF q = r THEN db.zset[q] \cup {u} ELSE db.zset[q] \ {u}
  BY <1>2, <1>6, <1>7
<1>9. /\ roomMap' \in [Rooms -> SUBSET Users]
      /\ \A q \in Rooms : roomMap'[q] = IF q = r THEN roomMap[q] \cup {u} ELSE roomMap[q] \ {u}
  BY <1>2 DEF Seat, AddUser
<1>10. /\ dangling' = dangling \ {u}
       /\ score' = score /\ online' = online
       /\ crashed' \in BOOLEAN
       /\ \A v \in Users : croom'[v] = IF v \in roomMap'[r] \ dangling' /\ phase[v] # "gone"
                                       THEN r ELSE croom[v]
       /\ StartGameIfThree(roomMap'[r])
  <2>1. crashed' \in BOOLEAN
    BY Zenon DEF Seat, Deliver
  <2> QED
    BY <2>1 DEF Seat
<1>11. /\ phase' \in [Users -> Phases]
       /\ \A v \in Users :
            \/ phase'[v] = phase[v]
            \/ /\ phase[v] \in Panel \cup {"menu"} /\ phase'[v] = "play"
               /\ v \in roomMap'[r] /\ v \notin dangling'
  <2>1. StartGame(roomMap'[r]) \/ UNCHANGED phase
    BY <1>10 DEF StartGameIfThree
  <2> QED
    BY <1>1, <1>9, <2>1, StartFacts
<1>12. TypeOK'
  <2>1. req' \in [Users -> Seq(Requests)] /\ mode' = mode
    BY <1>1, ReceiveFacts
  <2>2. db' \in Stores /\ dangling' \in SUBSET Users
    BY <1>1, <1>7, <1>10 DEF TypeOK, StoreInv
  <2>3. croom' \in [Users -> Rooms]
    BY <1>1 DEF Seat, TypeOK
  <2> QED
    BY <1>1, <1>9, <1>10, <1>11, <2>1, <2>2, <2>3 DEF TypeOK
<1>13. ServerInv'
  <2>1. ScoresAgree'
    <3> SUFFICES ASSUME NEW v \in Users, NEW q \in Rooms, v \in db'.zset[q]
                 PROVE  db'.zscore[q][v] = score[v]
      BY <1>10 DEF ScoresAgree
    <3>1. CASE v = u
      BY <1>7, <1>8, <3>1
    <3>2. CASE v # u
      <4>1. v \in db.zset[q]
        BY <1>8, <3>2
      <4> QED
        BY <1>1, <1>2, <1>6, <1>7, <3>2, <4>1 DEF ServerInv, ScoresAgree
    <3> QED
      BY <3>1, <3>2
  <2>2. ListedAreMembers'
    BY <1>1, <1>8, <1>9 DEF ServerInv, ListedAreMembers
  <2>3. WaitingRoomsAgree'
    <3> SUFFICES ASSUME NEW q \in db'.one \cup db'.two PROVE roomMap'[q] = db'.zset[q]
      BY DEF WaitingRoomsAgree
    <3>1. q \in Rooms
      BY <1>7 DEF StoreInv, Stores
    <3>2. CASE q # r
      <4>1. roomMap[q] = db.zset[q]
        BY <1>1, <1>2, <1>6, <1>7, <3>2 DEF ServerInv, WaitingRoomsAgree
      <4> QED
        BY <1>8, <1>9, <3>1, <3>2, <4>1
    <3>3. CASE q = r /\ ~Exists(left, r)
      <4>1. db.zset[r] \ {u} = {}
        BY <1>2, <3>3 DEF Exists
      <4>2. roomMap[r] \subseteq db.zset[r]
        BY <1>1 DEF ServerInv, ListedAreMembers
      <4> QED
        BY <1>8, <1>9, <3>3, <4>1, <4>2
    <3>4. CASE q = r /\ r \in left.one \cup left.two
      <4>1. roomMap[r] = db.zset[r]
        BY <1>1, <1>2, <3>4 DEF ServerInv, WaitingRoomsAgree
      <4> QED
        BY <1>8, <1>9, <3>4, <4>1
    <3> QED
      BY <1>6, <1>7, <3>2, <3>3, <3>4
  <2> QED
    BY <1>7, <2>1, <2>2, <2>3 DEF ServerInv
<1>14. \A v \in Users, q, p \in Rooms : v \in db'.zset[q] /\ v \in db'.zset[p] => q = p
  BY <1>7 DEF StoreInv, MembersFound
<1>15. \A q \in Rooms : roomMap'[q] \subseteq db'.zset[q] /\ roomMap'[q] \subseteq Users
  BY <1>9, <1>13 DEF ServerInv, ListedAreMembers
<1>16. KnowsRoom'
  <2> SUFFICES ASSUME NEW q \in Rooms, NEW v \in roomMap'[q] \ dangling', phase'[v] # "gone"
               PROVE  croom'[v] = q
    BY DEF KnowsRoom
  <2>1. v \in Users /\ phase[v] # "gone"
    BY <1>11, <1>15 DEF Panel
  <2>2. CASE q = r
    BY <1>10, <2>1, <2>2
  <2>3. CASE q # r
    <3>1. v \notin roomMap'[r]
      BY <1>14, <1>15, <2>1, <2>3
    <3>2. v # u /\ v \in roomMap[q] /\ v \notin dangling
      BY <1>9, <1>10, <2>3
    <3> QED
      BY <1>1, <1>10, <2>1, <3>1, <3>2 DEF ClientInv, KnowsRoom
  <2> QED
    BY <2>2, <2>3
<1>17. /\ \A v \in Users, q \in Rooms :
            v \in db.zset[q] /\ (v # u \/ op \in {"GameOver", "Continue"}) => v \in db'.zset[q]
       /\ \A v \in Users, q \in Rooms : v # u /\ v \in roomMap'[q] => v \in roomMap[q]
  BY <1>8, <1>9
<1>18. /\ \A v \in Users :
            \/ phase'[v] = phase[v]
            \/ /\ phase[v] \in Panel \cup {"menu"} /\ phase'[v] = "play"
               /\ v \notin dangling' /\ croom'[v] # NoRoom
       /\ \A v \in Users :
            \/ croom'[v] = croom[v]
            \/ croom'[v] \in Rooms /\ v \in db'.zset[croom'[v]]
  <2>1. \A v \in Users : phase'[v] = "play" /\ phase[v] \in Panel \cup {"menu"} => phase[v] # "gone"
    BY DEF Panel
  <2> QED
    BY <1>10, <1>11, <1>15, <2>1
<1>19. /\ \A v \in dangling' : v \in dangling \/ (v = u /\ op = "Goodbye")
       /\ \A v \in dangling : v # u => v \in dangling'
       /\ op = "Goodbye" => \A q \in Rooms : u \in roomMap'[q] => u \in dangling'
  BY <1>10
<1> QED
  BY <1>12, <1>13, <1>16, <1>17, <1>18, <1>19, ServeInv


\* AutoRoom: the room that is picked can always be joined, so the assertion in
\* joinRoom cannot fail for it.
LEMMA HandleAutoRoomInv ==
  ASSUME ~Redraws, IInv, NEW u \in Users, HandleAutoRoom(u)
  PROVE  IInv'
<1>1. PICK r \in AutoChoices(LeftStore(u)) :
        IF JoinAborts(LeftStore(u), r)
        THEN AbortInJoin(u)
        ELSE Seat(u, r, JoinRoom(LeftStore(u), r, u))
  BY DEF HandleAutoRoom
<1>2. StoreInv(LeftStore(u))
  BY LeftFacts DEF IInv
<1>3. r \in Rooms \ {NoRoom} /\ HasSeat(LeftStore(u), r) /\ ~JoinAborts(LeftStore(u), r)
  BY <1>2, AutoChoiceJoinable
<1>4. Receive(u, "AutoRoom")
  BY DEF HandleAutoRoom
<1> QED
  BY <1>1, <1>3, <1>4, SeatInv

\* A refusal reaches nobody and starts nothing, for the room "" has no players.
LEMMA RefuseFacts ==
  ASSUME TypeOK, ServerInv, NEW u \in Users, Refuse(u, LeftStore(u))
  PROVE  /\ db' = LeftStore(u) /\ roomMap' = LeftMap(u) /\ crashed' = FALSE
         /\ UNCHANGED <<dangling, score, online, phase, croom>>
<1>1. db' = LeftStore(u) /\ roomMap' = LeftMap(u)
  BY DEF Refuse
<1>2. roomMap'[NoRoom] = {}
  <2>1. roomMap[NoRoom] = {}
    BY RoomStoreAssumption DEF ServerInv, StoreInv, Nameless, Exists, ListedAreMembers
  <2>2. LeftMap(u)[NoRoom] = roomMap[NoRoom] \ {u}
    BY RoomStoreAssumption, LeftFacts
  <2> QED
    BY <1>1, <2>1, <2>2
<1>3. crashed' = FALSE
  <2>1. roomMap'[NoRoom] \cap dangling' = {}
    BY <1>2
  <2> QED
    BY <2>1, Zenon DEF Refuse, Deliver
<1>4. phase' = phase
  <2>1. Cardinality(roomMap'[NoRoom]) # 3
    BY <1>2, FS_EmptySet
  <2> QED
    BY <2>1 DEF Refuse, StartGameIfThree
<1> QED
  BY <1>1, <1>3, <1>4 DEF Refuse

\* ManualRoom: the room aborts, seats or refuses.
LEMMA HandleManualRoomInv ==
  ASSUME NoRoom \notin TypedRooms, IInv, NEW u \in Users, HandleManualRoom(u)
  PROVE  IInv'
<1> DEFINE r == Head(req[u]).room
<1>1. Receive(u, "ManualRoom") /\ TypeOK
  BY DEF HandleManualRoom, IInv
<1>2. r \in Rooms \ {NoRoom}
  BY <1>1, ReceiveFacts DEF Requests, Receive
<1>3. CASE AbortInJoin(u)
  <2>1. db' = LeftStore(u) /\ roomMap' = LeftMap(u) /\ crashed' = TRUE
    BY <1>3 DEF AbortInJoin
  <2>2. UNCHANGED <<dangling, score, online, phase, croom>>
    BY <1>3 DEF AbortInJoin
  <2> QED
    BY <1>1, <2>1, <2>2, LeftInv
<1>4. CASE /\ HasSeat(LeftStore(u), r) /\ ~JoinAborts(LeftStore(u), r)
           /\ Seat(u, r, JoinRoom(LeftStore(u), r, u))
  BY <1>1, <1>2, <1>4, SeatInv
<1>5. CASE Refuse(u, LeftStore(u))
  <2>1. /\ db' = LeftStore(u) /\ roomMap' = LeftMap(u) /\ crashed' \in BOOLEAN
        /\ UNCHANGED <<dangling, score, online, phase, croom>>
    BY <1>1, <1>5, RefuseFacts DEF IInv
  <2> QED
    BY <1>1, <2>1, LeftInv
<1> QED
  BY <1>3, <1>4, <1>5 DEF HandleManualRoom

\* LeaveRoom: the sender leaves the room it names in both places.
LEMMA HandleLeaveRoomInv ==
  ASSUME IInv, NEW u \in Users, HandleLeaveRoom(u)
  PROVE  IInv'
<1> DEFINE r == Head(req[u]).room
<1>1. /\ TypeOK /\ ServerInv /\ ClientInv
      /\ Receive(u, "LeaveRoom")
      /\ db' = LeaveRoom(db, r, u)
      /\ roomMap' = RemovePlayer(roomMap, r, u)
      /\ dangling' = dangling /\ score' = score /\ online' = online
      /\ phase' = phase /\ croom' = croom
  BY DEF HandleLeaveRoom, IInv
<1>2. /\ r \in Rooms
      /\ req' \in [Users -> Seq(Requests)] /\ mode' = mode
  BY <1>1, ReceiveFacts DEF Requests, Named
<1>3. crashed' \in BOOLEAN
  BY Zenon DEF HandleLeaveRoom, Deliver
<1>4. StoreInv(db)
  BY <1>1 DEF ServerInv
<1>5. StoreInv(db')
  BY <1>1, <1>2, <1>4, LeaveRoomInv
<1>6. /\ db'.one = db.one /\ db'.two = db.two
      /\ \A q \in Rooms : /\ db'.zset[q] = IF q = r THEN db.zset[q] \ {u} ELSE db.zset[q]
                          /\ roomMap'[q] = IF q = r THEN roomMap[q] \ {u} ELSE roomMap[q]
      /\ \A q \in Rooms, v \in Users :
           v \in db'.zset[q] => db'.zscore[q][v] = db.zscore[q][v]
      /\ roomMap' \in [Rooms -> SUBSET Users]
  <2>1. db \in Stores
    BY <1>4 DEF StoreInv
  <2> HIDE DEF r
  <2> QED
    BY <1>1, <1>2, <2>1 DEF LeaveRoom, RemovePlayer, Stores, TypeOK
<1> HIDE DEF r
<1>7. TypeOK'
  BY <1>1, <1>2, <1>3, <1>5, <1>6 DEF TypeOK, StoreInv
<1>8. ServerInv'
  <2>1. ScoresAgree'
    BY <1>1, <1>6 DEF ServerInv, ScoresAgree
  <2>2. ListedAreMembers'
    BY <1>1, <1>6 DEF ServerInv, ListedAreMembers
  <2>3. WaitingRoomsAgree'
    BY <1>1, <1>4, <1>6 DEF ServerInv, WaitingRoomsAgree, StoreInv, Stores
  <2> QED
    BY <1>5, <2>1, <2>2, <2>3 DEF ServerInv
<1>9. KnowsRoom'
  BY <1>1, <1>6 DEF ClientInv, KnowsRoom
<1>10. /\ \A v \in Users, q \in Rooms : v \in db.zset[q] /\ v # u => v \in db'.zset[q]
       /\ \A v \in Users, q \in Rooms : v # u /\ v \in roomMap'[q] => v \in roomMap[q]
  BY <1>6
<1> QED
  BY <1>1, <1>7, <1>8, <1>9, <1>10, ServeInv

\* GameOver: its sender is a member of the room already, so zadd adds nobody.
LEMMA HandleGameOverInv ==
  ASSUME IInv, NEW u \in Users, HandleGameOver(u)
  PROVE  IInv'
<1> DEFINE r == Head(req[u]).room
           s == Head(req[u]).score
<1>1. /\ TypeOK /\ ServerInv /\ ClientInv
      /\ Receive(u, "GameOver")
      /\ db' = UpdatePlayerScore(db, r, u, s)
      /\ score' = [score EXCEPT ![u] = s]
      /\ roomMap' = roomMap /\ dangling' = dangling /\ crashed' = crashed
      /\ online' = online /\ phase' = phase /\ croom' = croom
  BY DEF HandleGameOver, IInv
<1>2. /\ r \in Rooms /\ s \in Scores
      /\ Head(req[u]) = req[u][1] /\ req[u][1].op = "GameOver"
      /\ Len(req[u]) \in Nat /\ Len(req[u]) >= 1
      /\ req' \in [Users -> Seq(Requests)] /\ mode' = mode
  BY <1>1, ReceiveFacts DEF Requests, Named
<1>3. u \in db.zset[r]
  BY <1>1, <1>2 DEF ClientInv, SeatedRequests
<1>4. StoreInv(db) /\ db \in Stores
  BY <1>1 DEF ServerInv, StoreInv
<1> HIDE DEF r, s
<1>5. StoreInv(db') /\ db'.zset = db.zset
  BY <1>1, <1>2, <1>3, <1>4, UpdateScoreInv
<1>6. /\ db'.one = db.one /\ db'.two = db.two
      /\ \A q \in Rooms, v \in Users :
           db'.zscore[q][v] = IF q = r /\ v = u THEN s ELSE db.zscore[q][v]
      /\ \A v \in Users : score'[v] = IF v = u THEN s ELSE score[v]
      /\ score' \in [Users -> Scores]
  BY <1>1, <1>2, <1>4 DEF UpdatePlayerScore, Stores, TypeOK
<1>7. TypeOK'
  BY <1>1, <1>2, <1>5, <1>6 DEF TypeOK, StoreInv
<1>8. ServerInv'
  <2>1. \A q \in Rooms : u \in db.zset[q] => q = r
    BY <1>2, <1>3, <1>4 DEF StoreInv, MembersFound
  <2>2. ScoresAgree'
    BY <1>1, <1>5, <1>6, <2>1 DEF ServerInv, ScoresAgree
  <2>3. ListedAreMembers' /\ WaitingRoomsAgree'
    BY <1>1, <1>5, <1>6 DEF ServerInv, ListedAreMembers, WaitingRoomsAgree
  <2> QED
    BY <1>5, <2>2, <2>3 DEF ServerInv
<1>9. KnowsRoom'
  BY <1>1 DEF ClientInv, KnowsRoom
<1> QED
  BY <1>1, <1>5, <1>7, <1>8, <1>9, ServeInv


\* Continue: a room still open to players is never the one restarted, and the
\* player registered again is a member of the room.
LEMMA HandleContinueInv ==
  ASSUME IInv, NEW u \in Users, HandleContinue(u)
  PROVE  IInv'
<1> DEFINE r == Head(req[u]).room
           cleared == IF Cardinality(roomMap[r]) = 3
                      THEN RemoveRoom(roomMap, r) ELSE roomMap
<1>1. /\ TypeOK /\ ServerInv /\ ClientInv
      /\ Receive(u, "Continue")
      /\ roomMap' = AddUser(cleared, r, u)
      /\ dangling' = IF u \in cleared[r] THEN dangling ELSE dangling \ {u}
      /\ db' = db /\ score' = score /\ online' = online /\ croom' = croom
  BY DEF HandleContinue, IInv
<1>2. /\ r \in Rooms
      /\ Head(req[u]) = req[u][1] /\ req[u][1].op = "Continue"
      /\ Len(req[u]) \in Nat /\ Len(req[u]) >= 1
      /\ req' \in [Users -> Seq(Requests)] /\ mode' = mode
  BY <1>1, ReceiveFacts DEF Requests, Named
<1>3. crashed' \in BOOLEAN /\ (StartGame(roomMap'[r]) \/ UNCHANGED phase)
  <2>1. crashed \in BOOLEAN
    BY <1>1 DEF TypeOK
  <2>2. \/ Deliver(roomMap'[r]) /\ StartGame(roomMap'[r])
        \/ UNCHANGED crashed /\ UNCHANGED phase
    BY DEF HandleContinue
  <2>3. Deliver(roomMap'[r]) => crashed' \in BOOLEAN
    BY Zenon DEF Deliver
  <2> QED
    BY <2>1, <2>2, <2>3
<1>4. u \in db.zset[r] /\ (phase[u] # "gone" => croom[u] = r)
  BY <1>1, <1>2 DEF ClientInv, SeatedRequests
<1>5. StoreInv(db) /\ db \in Stores
  BY <1>1 DEF ServerInv, StoreInv
<1>6. /\ roomMap' \in [Rooms -> SUBSET Users]
      /\ \A q \in Rooms : q # r => roomMap'[q] = roomMap[q]
      /\ roomMap'[r] \subseteq roomMap[r] \cup {u}
      /\ Cardinality(roomMap[r]) # 3 => roomMap'[r] = roomMap[r] \cup {u}
  <2> HIDE DEF r
  <2> QED
    BY <1>1, <1>2 DEF AddUser, RemoveRoom, TypeOK
<1>7. dangling' \subseteq dangling /\ dangling \ {u} \subseteq dangling'
  <2> HIDE DEF cleared
  <2> QED
    BY <1>1
<1> HIDE DEF r, cleared
<1>8. /\ phase' \in [Users -> Phases]
      /\ \A v \in Users :
           \/ phase'[v] = phase[v]
           \/ /\ phase[v] \in Panel \cup {"menu"} /\ phase'[v] = "play"
              /\ v \in roomMap'[r] /\ v \notin dangling'
  BY <1>1, <1>2, <1>3, <1>6, StartFacts
<1>9. TypeOK'
  BY <1>1, <1>2, <1>3, <1>6, <1>7, <1>8 DEF TypeOK
<1>10. ServerInv'
  <2>1. ListedAreMembers'
    BY <1>1, <1>4, <1>6 DEF ServerInv, ListedAreMembers
  <2>2. WaitingRoomsAgree'
    <3> SUFFICES ASSUME r \in db.one \cup db.two PROVE roomMap'[r] = db.zset[r]
      BY <1>1, <1>5, <1>6 DEF ServerInv, WaitingRoomsAgree, Stores
    <3>1. roomMap[r] = db.zset[r]
      BY <1>1 DEF ServerInv, WaitingRoomsAgree
    <3>2. Cardinality(db.zset[r]) <= 2
      <4>1. db.zset[r] \in SUBSET Users
        BY <1>2, <1>5 DEF Stores
      <4>2. Cardinality(db.zset[r]) \in Nat
        BY <4>1, RoomStoreAssumption, FS_Subset, FS_CardinalityType
      <4> QED
        BY <1>2, <1>5, <4>2 DEF StoreInv, ClassBounds
    <3>3. Cardinality(roomMap[r]) # 3
      BY <3>1, <3>2
    <3> QED
      BY <1>4, <1>6, <3>1, <3>3
  <2> QED
    BY <1>1, <1>5, <2>1, <2>2 DEF ServerInv, ScoresAgree
<1>11. \A q \in Rooms : roomMap'[q] \subseteq db.zset[q] /\ roomMap'[q] \subseteq Users
  BY <1>1, <1>6, <1>10 DEF ServerInv, ListedAreMembers
<1>12. \A v \in Users : phase'[v] # "gone" => phase[v] # "gone"
  BY <1>8 DEF Panel
<1>13. KnowsRoom'
  <2> SUFFICES ASSUME NEW q \in Rooms, NEW v \in roomMap'[q] \ dangling', phase'[v] # "gone"
               PROVE  croom[v] = q
    BY <1>1 DEF KnowsRoom
  <2>1. v \in Users /\ phase[v] # "gone"
    BY <1>11, <1>12
  <2>2. CASE v = u
    <3>1. q = r
      BY <1>2, <1>4, <1>5, <1>11, <2>1, <2>2 DEF StoreInv, MembersFound
    <3> QED
      BY <1>4, <2>1, <2>2, <3>1
  <2>3. CASE v # u
    <3>1. v \in roomMap[q] /\ v \notin dangling
      BY <1>6, <1>7, <2>3
    <3> QED
      BY <1>1, <2>1, <3>1 DEF ClientInv, KnowsRoom
  <2> QED
    BY <2>2, <2>3
<1>14. \A v \in Users :
         \/ phase'[v] = phase[v]
         \/ /\ phase[v] \in Panel \cup {"menu"} /\ phase'[v] = "play"
            /\ v \notin dangling' /\ croom'[v] # NoRoom
  <2> SUFFICES ASSUME NEW v \in Users, phase'[v] # phase[v]
               PROVE  /\ phase[v] \in Panel \cup {"menu"} /\ phase'[v] = "play"
                      /\ v \notin dangling' /\ croom'[v] # NoRoom
    OBVIOUS
  <2>1. /\ phase[v] \in Panel \cup {"menu"} /\ phase'[v] = "play"
        /\ v \in roomMap'[r] /\ v \notin dangling'
    BY <1>8
  <2>2. croom'[v] = r /\ r # NoRoom
    <3>1. r # NoRoom
      BY <1>5, <1>11, <1>2, <2>1 DEF StoreInv, Nameless, Exists
    <3> QED
      BY <1>2, <1>13, <2>1, <3>1 DEF KnowsRoom
  <2> QED
    BY <1>2, <2>1, <2>2
<1>15. /\ \A v \in Users, q \in Rooms : v \in db.zset[q] => v \in db'.zset[q]
       /\ \A v \in Users, q \in Rooms : v # u /\ v \in roomMap'[q] => v \in roomMap[q]
       /\ \A v \in Users : croom'[v] = croom[v]
       /\ \A v \in dangling' : v \in dangling
       /\ \A v \in dangling : v # u => v \in dangling'
  BY <1>1, <1>6, <1>7
<1> QED
  BY <1>1, <1>9, <1>10, <1>13, <1>14, <1>15, ServeInv

\* Goodbye: it is the last request of a client that is gone already.
LEMMA HandleGoodByeInv ==
  ASSUME IInv, NEW u \in Users, HandleGoodBye(u)
  PROVE  IInv'
<1>1. /\ TypeOK /\ ServerInv /\ ClientInv
      /\ Receive(u, "Goodbye")
      /\ dangling' = IF \E r \in Rooms : u \in roomMap[r]
                     THEN dangling \cup {u} ELSE dangling
      /\ db' = db /\ roomMap' = roomMap /\ score' = score /\ crashed' = crashed
      /\ online' = [online EXCEPT ![u] = FALSE]
      /\ phase' = phase /\ croom' = croom
  BY DEF HandleGoodBye, IInv
<1>2. req' \in [Users -> Seq(Requests)] /\ mode' = mode
  BY <1>1, ReceiveFacts
<1>3. TypeOK'
  BY <1>1, <1>2 DEF TypeOK
<1>4. ServerInv'
  BY <1>1 DEF ServerInv, ScoresAgree, ListedAreMembers, WaitingRoomsAgree
<1>5. dangling \subseteq dangling'
  BY <1>1
<1>6. KnowsRoom'
  BY <1>1, <1>5 DEF ClientInv, KnowsRoom
<1>7. /\ \A v \in dangling' : v \in dangling \/ (v = u /\ "Goodbye" = "Goodbye")
      /\ \A q \in Rooms : u \in roomMap'[q] => u \in dangling'
  BY <1>1
<1> QED
  BY <1>1, <1>3, <1>4, <1>5, <1>6, <1>7, ServeInv

\* Restart: nothing is left but MySQL.
LEMMA RestartInv ==
  ASSUME IInv, Restart
  PROVE  IInv'
<1>1. TypeOK'
  <2>1. db' \in Stores /\ score' \in [Users -> Scores] /\ online' \in [Users -> BOOLEAN]
    BY EmptyStoreInv DEF Restart, StoreInv, IInv, TypeOK
  <2>2. req' \in [Users -> Seq(Requests)]
    BY EmptySeq DEF Restart
  <2> QED
    BY <2>1, <2>2, RoomStoreAssumption DEF Restart, TypeOK, Phases
<1>2. ServerInv'
  BY EmptyStoreInv DEF Restart, ServerInv, ScoresAgree, ListedAreMembers,
     WaitingRoomsAgree, EmptyStore
<1>3. ClientInv'
  BY DEF Restart, ClientInv, KnowsRoom, SeatedRequests, SeatedPanels,
     DanglingIsIdle, GoneIsGone, Panel
<1> QED
  BY <1>1, <1>2, <1>3 DEF IInv

-----------------------------------------------------------------------------
(* The theorems *)

\* Every step keeps IInv in ordinary use.
LEMMA NextIInv ==
  ASSUME OrdinaryUse, IInv, [Next]_vars
  PROVE  IInv'
<1>1. ASSUME NEW u \in Users, ClientStep(u) PROVE IInv'
  <2>1. ~SoloPlay(u)
    BY DEF SoloPlay, OrdinaryUse
  <2> QED
    BY <1>1, <2>1, AskRoomInv, ReportScoreInv, PressContinueInv, ClosePanelInv, QuitInv,
       LoginInv DEF ClientStep
<1>2. ASSUME NEW u \in Users, ServerStep(u) PROVE IInv'
  BY <1>2, HandleAutoRoomInv, HandleManualRoomInv, HandleLeaveRoomInv, HandleGameOverInv,
     HandleContinueInv, HandleGoodByeInv DEF ServerStep, OrdinaryUse
<1>3. ASSUME NEW r \in Rooms, HandDecided(r) PROVE IInv'
  BY <1>3, HandDecidedInv
<1>4. ASSUME UNCHANGED vars PROVE IInv'
  BY <1>4 DEF vars, IInv, TypeOK, ServerInv, ClientInv, ScoresAgree, ListedAreMembers,
     WaitingRoomsAgree, KnowsRoom, SeatedRequests, SeatedPanels, DanglingIsIdle, GoneIsGone
<1> QED
  BY <1>1, <1>2, <1>3, <1>4, RestartInv DEF Next

\* The lobby keeps its invariant in ordinary use, that is if nobody types the empty name,
\* no name in use is drawn and clients play online only: redis, RoomList, MySQL, the
\* clients' windows and the requests in flight fit together.
THEOREM LobbyInvariant ==
  ASSUME OrdinaryUse
  PROVE  Spec => []IInv
<1>1. IInv /\ [Next]_vars => IInv'
  BY NextIInv
<1> QED
  BY InitIInv, <1>1, PTL DEF Spec

\* In ordinary use no room is ever filed under a class smaller than its membership and none
\* holds more than three (Room.cpp joinRoom, leaveRoom): a room the automatic join hands
\* out always has a seat, although what joinRoom(user, room) returns is ignored.
THEOREM RoomsKeepTheirClass ==
  ASSUME OrdinaryUse
  PROVE  Spec => []RoomClasses
<1>1. IInv => RoomClasses
  BY DEF IInv, ServerInv, StoreInv, RoomClasses
<1> QED
  BY LobbyInvariant, <1>1, PTL

\* If nobody types the empty name, no name in use is drawn and clients play online only
\* (OrdinaryUse), a full or a broken room is not offered to players, and every player is a
\* member of one room at most, the one the hash Players names (Room.cpp joinRoom). The empty
\* name would make the player a member of two: handleAddRoom takes it for no room.
THEOREM MembershipIsUnique ==
  ASSUME OrdinaryUse
  PROVE  Spec => [](ClassesDisjoint /\ OneRoomPerPlayer)
<1>1. IInv => ClassesDisjoint /\ OneRoomPerPlayer
  BY DEF IInv, ServerInv, StoreInv, ClassesDisjoint, OneRoomPerPlayer
<1> QED
  BY LobbyInvariant, <1>1, PTL

\* In ordinary use RoomList and redis agree on every room still open to players
\* (Communication.cpp handleAddRoom, handleLeaveRoom, restartGame).
THEOREM RegistrationsAgree ==
  ASSUME OrdinaryUse
  PROVE  Spec => []WaitingRoomsAgree
<1>1. IInv => WaitingRoomsAgree
  BY DEF IInv, ServerInv
<1> QED
  BY LobbyInvariant, <1>1, PTL

\* In ordinary use RoomList never lists a player for a room in which redis does not know
\* the player (Communication.cpp handleAddRoom, handleLeaveRoom):
\* nobody is relayed the moves of a room whose score table they are not in.
THEOREM RegisteredAreMembers ==
  ASSUME OrdinaryUse
  PROVE  Spec => []ListedAreMembers
<1>1. IInv => ListedAreMembers
  BY DEF IInv, ServerInv
<1> QED
  BY LobbyInvariant, <1>1, PTL

\* In ordinary use redis and MySQL agree on the score of every member, over every change of
\* room (Communication.cpp handleAddRoom, handleGameOver).
THEOREM ScoresStayEqual ==
  ASSUME OrdinaryUse
  PROVE  Spec => []ScoresAgree
<1>1. IInv => ScoresAgree
  BY DEF IInv, ServerInv
<1> QED
  BY LobbyInvariant, <1>1, PTL

\* In ordinary use a client that gets a message through RoomList knows the room it is about
\* (communication.cpp, JoinRoomOK).
THEOREM ClientsKnowTheirRoom ==
  ASSUME OrdinaryUse
  PROVE  Spec => []KnowsRoom
<1>1. IInv => KnowsRoom
  BY DEF IInv, ClientInv
<1> QED
  BY LobbyInvariant, <1>1, PTL

-----------------------------------------------------------------------------
(* Action properties *)

\* Three members of a room that seats three are all of them.
LEMMA ThreeAreAll ==
  ASSUME NEW all \in SUBSET Users, NEW some \in SUBSET all,
         Cardinality(some) = 3, Cardinality(all) <= 3
  PROVE  some = all
<1>1. IsFiniteSet(all)
  BY RoomStoreAssumption, FS_Subset
<1>2. Cardinality(all) \in Nat /\ (some # all => Cardinality(some) < Cardinality(all))
  BY <1>1, FS_Subset, FS_CardinalityType
<1> QED
  BY <1>2

\* No client opens a hand of its own accord.
LEMMA ClientStartsNothing ==
  ASSUME TypeOK, NEW v \in Users, ClientStep(v), NEW u \in Users, phase'[u] = "play"
  PROVE  phase[u] = "play"
<1>1. \/ phase' = phase
      \/ \E p \in {"over", "wait", "menu", "solo", "gone"} : phase' = [phase EXCEPT ![v] = p]
  BY DEF ClientStep, AskRoom, ReportScore, PressContinue, ClosePanel, SoloPlay, Quit, Login
<1> QED
  BY <1>1 DEF TypeOK

\* A hand starts in the step that registers the third player of its room.
LEMMA StartsAreSeats ==
  ASSUME TypeOK, NEW v \in Users, ServerStep(v), IInv', IInv,
         NEW u \in Users, phase[u] # "play", phase'[u] = "play"
  PROVE  \E r \in Rooms : u \in roomMap'[r] \ dangling' /\ Cardinality(roomMap'[r]) = 3
<1>1. roomMap' \in [Rooms -> SUBSET Users]
  BY DEF IInv, TypeOK
<1>2. ASSUME NEW r \in Rooms, Cardinality(roomMap'[r]) = 3, StartGame(roomMap'[r])
      PROVE  \E q \in Rooms : u \in roomMap'[q] \ dangling' /\ Cardinality(roomMap'[q]) = 3
  <2>1. u \in roomMap'[r] \ dangling'
    BY <1>1, <1>2, StartFacts
  <2> QED
    BY <1>2, <2>1
<1>3. phase' # phase
  OBVIOUS
<1>4. ASSUME NEW r \in Rooms, NEW joined, Seat(v, r, joined)
      PROVE  Cardinality(roomMap'[r]) = 3 /\ StartGame(roomMap'[r])
  BY <1>3, <1>4 DEF Seat, StartGameIfThree
<1>5. CASE HandleAutoRoom(v)
  <2>1. PICK r \in AutoChoices(LeftStore(v)) : Seat(v, r, JoinRoom(LeftStore(v), r, v))
    BY <1>3, <1>5 DEF HandleAutoRoom, AbortInJoin
  <2>2. LeftStore(v) \in Stores
    BY LeftFacts DEF IInv, StoreInv
  <2>3. r \in Rooms
    BY <2>2, AutoChoiceRoom
  <2> QED
    BY <1>2, <1>4, <2>1, <2>3
<1>6. CASE HandleManualRoom(v)
  <2> DEFINE r == Head(req[v]).room
  <2>1. r \in Rooms
    <3>1. Receive(v, "ManualRoom")
      BY <1>6 DEF HandleManualRoom
    <3> QED
      BY <3>1, ReceiveFacts, RequestFacts
  <2>2. CASE Refuse(v, LeftStore(v))
    BY <1>2, <1>3, <2>2, RoomStoreAssumption DEF Refuse, StartGameIfThree
  <2>3. CASE Seat(v, r, JoinRoom(LeftStore(v), r, v))
    BY <1>2, <1>4, <2>1, <2>3
  <2> QED
    BY <1>3, <1>6, <2>2, <2>3 DEF HandleManualRoom, AbortInJoin
<1>7. CASE HandleContinue(v)
  <2> DEFINE r == Head(req[v]).room
  <2>1. r \in Rooms
    <3>1. Receive(v, "Continue")
      BY <1>7 DEF HandleContinue
    <3> QED
      BY <3>1, ReceiveFacts, RequestFacts
  <2>2. Cardinality(roomMap'[r]) = 3 /\ StartGame(roomMap'[r])
    BY <1>3, <1>7 DEF HandleContinue
  <2> QED
    BY <1>2, <2>1, <2>2
<1>8. CASE HandleLeaveRoom(v) \/ HandleGameOver(v) \/ HandleGoodBye(v)
  BY <1>3, <1>8 DEF HandleLeaveRoom, HandleGameOver, HandleGoodBye
<1> QED
  BY <1>5, <1>6, <1>7, <1>8 DEF ServerStep

\* In ordinary use a hand is only ever dealt to three players, and they are the members of
\* the room the client knows (Communication.cpp startGame): the StartGame ranks exactly the
\* players it is sent to.
THEOREM HandsAreForThree ==
  ASSUME OrdinaryUse
  PROVE  Spec => HandsNeedThree
<1> DEFINE Dealt(u) == LET r == croom'[u]
                       IN  /\ u \in roomMap'[r]
                           /\ roomMap'[r] = db'.zset[r]
                           /\ Cardinality(roomMap'[r]) = 3
           Step == \A u \in Users : phase[u] # "play" /\ phase'[u] = "play" => Dealt(u)
<1>1. IInv /\ IInv' /\ [Next]_vars => [Step]_vars
  <2> SUFFICES ASSUME IInv, IInv', Next,
                      NEW u \in Users, phase[u] # "play", phase'[u] = "play"
               PROVE  Dealt(u)
    BY DEF vars
  <2>1. TypeOK /\ TypeOK'
    BY DEF IInv
  <2>2. PICK v \in Users : ServerStep(v)
    <3>1. ~ \E r \in Rooms : HandDecided(r)
      BY <2>1 DEF HandDecided
    <3>2. ~Restart
      BY DEF Restart
    <3>3. ~ \E v \in Users : ClientStep(v)
      BY <2>1, ClientStartsNothing
    <3> QED
      BY <3>1, <3>2, <3>3 DEF Next
  <2>3. PICK r \in Rooms : u \in roomMap'[r] \ dangling' /\ Cardinality(roomMap'[r]) = 3
    BY <2>1, <2>2, StartsAreSeats
  <2>4. croom'[u] = r
    BY <2>3 DEF IInv, ClientInv, KnowsRoom
  <2>5. roomMap'[r] = db'.zset[r]
    <3>1. /\ db'.zset[r] \in SUBSET Users
          /\ roomMap'[r] \in SUBSET db'.zset[r]
          /\ Cardinality(db'.zset[r]) <= 3
      BY <2>1 DEF IInv, TypeOK, Stores, ServerInv, StoreInv, ClassBounds, ListedAreMembers
    <3> QED
      BY <2>3, <3>1, ThreeAreAll
  <2> QED
    BY <2>3, <2>4, <2>5
<1>2. IInv /\ [Next]_vars => IInv'
  BY NextIInv
<1> QED
  BY InitIInv, <1>1, <1>2, PTL DEF Spec, HandsNeedThree

-----------------------------------------------------------------------------
(* What takes the server down, and who is logged in: LobbyInv adds to the       *)
(* invariant above that every room with members is filed under a class and that *)
(* every client at work is logged in.                                           *)

\* leaveRoom moves a full room to the broken ones and leaves the other classes alone.
LEMMA LeaveRoomFiled ==
  ASSUME NEW d \in Stores, Filed(d), NEW r \in Rooms, NEW u \in Users
  PROVE  Filed(LeaveRoom(d, r, u))
<1> DEFINE e == LeaveRoom(d, r, u)
<1> SUFFICES ASSUME NEW q \in Rooms, Exists(e, q)
             PROVE  q \in e.one \cup e.two \cup e.three \cup e.invalid
  BY DEF Filed
<1>1. /\ e.one = d.one /\ e.two = d.two /\ e.three = d.three \ {r}
      /\ e.zset[q] = IF q = r THEN d.zset[q] \ {u} ELSE d.zset[q]
      /\ q # r /\ q \in d.invalid => q \in e.invalid
      /\ q = r /\ e.zset[q] # {} /\ q \in d.three \cup d.invalid => q \in e.invalid
  BY DEF LeaveRoom, Stores
<1>2. e.zset[q] # {} /\ Exists(d, q)
  BY <1>1 DEF Exists
<1>3. q \in d.one \cup d.two \cup d.three \cup d.invalid
  BY <1>2 DEF Filed
<1> HIDE DEF e
<1> QED
  BY <1>1, <1>2, <1>3

\* A player that takes a seat moves the room up a class.
LEMMA JoinRoomFiled ==
  ASSUME NEW d \in Stores, Filed(d), NEW r \in Rooms, NEW u \in Users
  PROVE  JoinRoom(d, r, u) \in Stores /\ Filed(JoinRoom(d, r, u))
<1>1. CASE ~HasSeat(d, r)
  BY <1>1 DEF JoinRoom
<1>2. CASE HasSeat(d, r)
  <2> DEFINE e == TakeSeat(d, r, u)
  <2>1. e \in Stores
    BY RoomStoreAssumption DEF TakeSeat, Stores
  <2>2. \A q \in Rooms : Exists(e, q) => q \in e.one \cup e.two \cup e.three \cup e.invalid
    BY DEF TakeSeat, Stores, Filed, Exists
  <2>3. JoinRoom(d, r, u) = e
    BY <1>2 DEF JoinRoom
  <2> HIDE DEF e
  <2> QED
    BY <2>1, <2>2, <2>3 DEF Filed
<1> QED
  BY <1>1, <1>2

\* A score for a member brings no room into being.
LEMMA UpdateScoreFiled ==
  ASSUME NEW d \in Stores, Filed(d), NEW r \in Rooms, NEW u \in Users, NEW s,
         d.zset[r] # {}
  PROVE  Filed(UpdatePlayerScore(d, r, u, s))
BY DEF UpdatePlayerScore, Stores, Filed, Exists

\* Nor does what handleAddRoom gives up before it joins.
LEMMA LeftFiled ==
  ASSUME IInv, Filed(db), NEW u \in Users
  PROVE  /\ LeftStore(u) \in Stores /\ Filed(LeftStore(u))
<1> DEFINE d == LeftStore(u)
           old == WhereAmI(db, u)
<1>1. db \in Stores /\ old \in Rooms
  BY DEF IInv, TypeOK, Stores, WhereAmI
<1>2. d \in Stores /\ d.one = db.one /\ d.two = db.two
  BY LeftFacts DEF IInv, StoreInv
<1>3. Filed(d)
  <2>1. CASE old = NoRoom
    BY <2>1 DEF LeftStore
  <2>2. CASE old # NoRoom
    BY <1>1, <2>2, LeaveRoomFiled DEF LeftStore
  <2> QED
    BY <2>1, <2>2
<1> QED
  BY <1>2, <1>3

-----------------------------------------------------------------------------
(* Rooms stay filed *)

\* Every step but those of the server leaves redis alone or empties it.
LEMMA ClientStepFiled ==
  ASSUME Filed(db), NEW u \in Users, ClientStep(u)
  PROVE  Filed(db')
<1>1. db' = db
  BY DEF ClientStep, AskRoom, ReportScore, PressContinue, ClosePanel, SoloPlay, Quit, Login,
     serverVars
<1> QED
  BY <1>1

\* No handler takes a room with members out of all classes.
LEMMA ServerStepFiled ==
  ASSUME ~Redraws, IInv, Filed(db), NEW u \in Users, ServerStep(u)
  PROVE  Filed(db')
<1>1. TypeOK /\ ServerInv /\ ClientInv /\ db \in Stores
  BY DEF IInv, TypeOK
<1>2. LeftStore(u) \in Stores /\ Filed(LeftStore(u))
  BY LeftFiled
<1>3. ASSUME NEW r \in Rooms, HasSeat(LeftStore(u), r), Seat(u, r, JoinRoom(LeftStore(u), r, u))
      PROVE  Filed(db')
  <2> DEFINE left == LeftStore(u)
             joined == JoinRoom(left, r, u)
  <2>1. joined \in Stores /\ Filed(joined)
    BY <1>2, JoinRoomFiled
  <2>2. joined.zset[r] # {}
    BY <1>2, <1>3 DEF JoinRoom, TakeSeat, Stores
  <2>3. db' = UpdatePlayerScore(joined, r, u, CarriedScore(u))
    BY <1>3 DEF Seat
  <2> HIDE DEF joined
  <2> QED
    BY <2>1, <2>2, <2>3, UpdateScoreFiled
<1>4. CASE HandleAutoRoom(u)
  <2>1. StoreInv(LeftStore(u))
    BY LeftFacts DEF IInv
  <2>2. PICK r \in AutoChoices(LeftStore(u)) : Seat(u, r, JoinRoom(LeftStore(u), r, u))
    BY <1>4, <2>1, AutoChoiceJoinable DEF HandleAutoRoom
  <2> QED
    BY <1>3, <2>1, <2>2, AutoChoiceJoinable
<1>5. CASE HandleManualRoom(u)
  <2> DEFINE r == Head(req[u]).room
  <2>1. r \in Rooms
    BY <1>1, <1>5, ReceiveFacts, RequestFacts DEF HandleManualRoom
  <2>2. \/ db' = LeftStore(u)
        \/ HasSeat(LeftStore(u), r) /\ Seat(u, r, JoinRoom(LeftStore(u), r, u))
    BY <1>5 DEF HandleManualRoom, AbortInJoin, Refuse
  <2> QED
    BY <1>2, <1>3, <2>1, <2>2
<1>6. CASE HandleLeaveRoom(u)
  <2> DEFINE r == Head(req[u]).room
  <2>1. r \in Rooms /\ db' = LeaveRoom(db, r, u)
    BY <1>1, <1>6, ReceiveFacts, RequestFacts DEF HandleLeaveRoom
  <2> HIDE DEF r
  <2> QED
    BY <1>1, <2>1, LeaveRoomFiled
<1>7. CASE HandleGameOver(u)
  <2> DEFINE r == Head(req[u]).room
             s == Head(req[u]).score
  <2>1. Receive(u, "GameOver") /\ db' = UpdatePlayerScore(db, r, u, s)
    BY <1>7 DEF HandleGameOver
  <2>2. r \in Rooms /\ req[u][1] = Head(req[u]) /\ req[u][1].op = "GameOver"
        /\ Len(req[u]) \in Nat /\ Len(req[u]) >= 1
    BY <1>1, <2>1, ReceiveFacts, RequestFacts
  <2>3. u \in db.zset[r]
    BY <1>1, <2>2 DEF ClientInv, SeatedRequests
  <2> HIDE DEF r, s
  <2> QED
    BY <1>1, <2>1, <2>2, <2>3, UpdateScoreFiled
<1>8. CASE HandleContinue(u) \/ HandleGoodBye(u)
  BY <1>8 DEF HandleContinue, HandleGoodBye
<1> QED
  BY <1>4, <1>5, <1>6, <1>7, <1>8 DEF ServerStep

-----------------------------------------------------------------------------
(* Clients stay logged in *)

\* A step that opens no program and logs nobody out.
LEMMA StillLoggedIn ==
  ASSUME LoggedIn, UNCHANGED online,
         \A v \in Users : phase'[v] # "gone" \/ req'[v] # <<>>
                            => phase[v] # "gone" \/ req[v] # <<>>
  PROVE  LoggedIn'
BY DEF LoggedIn

\* A client that does anything but log in is logged in already.
LEMMA ClientStepLoggedIn ==
  ASSUME TypeOK, LoggedIn, NEW u \in Users, ClientStep(u)
  PROVE  LoggedIn'
<1>1. CASE Login(u)
  BY <1>1 DEF Login, LoggedIn, TypeOK
<1>2. CASE ~Login(u)
  <2>1. UNCHANGED online /\ phase[u] # "gone"
    BY <1>2 DEF ClientStep, AskRoom, ReportScore, PressContinue, ClosePanel, SoloPlay, Quit,
       serverVars, Panel
  <2>2. \A v \in Users : v # u => phase'[v] = phase[v] /\ req'[v] = req[v]
    BY <1>2 DEF ClientStep, AskRoom, ReportScore, PressContinue, ClosePanel, SoloPlay, Quit,
       Send, TypeOK
  <2> QED
    BY <2>1, <2>2, StillLoggedIn
<1> QED
  BY <1>1, <1>2

\* A program that is closed stays closed while the server works.
LEMMA ServerOpensNothing ==
  ASSUME ~Redraws, IInv, IInv', NEW u \in Users, ServerStep(u),
         NEW v \in Users, phase'[v] # "gone"
  PROVE  phase[v] # "gone"
<1>1. TypeOK /\ roomMap' \in [Rooms -> SUBSET Users]
  BY DEF IInv, TypeOK
<1>2. ASSUME NEW r \in Rooms, StartGame(roomMap'[r]) \/ UNCHANGED phase
      PROVE  phase[v] # "gone"
  BY <1>1, <1>2, StartFacts DEF Panel
<1>3. ASSUME NEW r \in Rooms, NEW joined, Seat(u, r, joined)
      PROVE  phase[v] # "gone"
  BY <1>2, <1>3 DEF Seat, StartGameIfThree
<1>4. CASE HandleAutoRoom(u)
  <2>1. StoreInv(LeftStore(u))
    BY LeftFacts DEF IInv
  <2>2. PICK r \in AutoChoices(LeftStore(u)) : Seat(u, r, JoinRoom(LeftStore(u), r, u))
    BY <1>4, <2>1, AutoChoiceJoinable DEF HandleAutoRoom
  <2> QED
    BY <1>3, <2>1, <2>2, AutoChoiceJoinable
<1>5. CASE HandleManualRoom(u) \/ HandleContinue(u)
  <2> DEFINE r == Head(req[u]).room
  <2>1. r \in Rooms
    BY <1>1, <1>5, ReceiveFacts, RequestFacts DEF HandleManualRoom, HandleContinue
  <2>2. \/ UNCHANGED phase
        \/ Seat(u, r, JoinRoom(LeftStore(u), r, u))
        \/ StartGame(roomMap'[r])
        \/ StartGame(roomMap'[NoRoom])
    BY <1>5 DEF HandleManualRoom, HandleContinue, AbortInJoin, Refuse, StartGameIfThree
  <2> QED
    BY <1>2, <1>3, <2>1, <2>2, RoomStoreAssumption
<1>6. CASE HandleLeaveRoom(u) \/ HandleGameOver(u) \/ HandleGoodBye(u)
  BY <1>6 DEF HandleLeaveRoom, HandleGameOver, HandleGoodBye
<1> QED
  BY <1>4, <1>5, <1>6 DEF ServerStep

\* Only Goodbye logs out, and it is the last request of a program that is closed.
LEMMA ServerStepLoggedIn ==
  ASSUME ~Redraws, IInv, IInv', LoggedIn, NEW u \in Users, ServerStep(u)
  PROVE  LoggedIn'
<1>1. TypeOK /\ ClientInv
  BY DEF IInv
<1>2. PICK op : Receive(u, op)
  BY DEF ServerStep, HandleAutoRoom, HandleManualRoom, HandleLeaveRoom, HandleGameOver,
     HandleContinue, HandleGoodBye
<1>3. \A v \in Users : req'[v] # <<>> => req[v] # <<>>
  BY <1>1, <1>2, ReceiveFacts DEF Receive
<1>4. CASE UNCHANGED online
  BY <1>3, <1>4, ServerOpensNothing, StillLoggedIn
<1>5. CASE HandleGoodBye(u)
  <2>1. Receive(u, "Goodbye") /\ online' = [online EXCEPT ![u] = FALSE] /\ phase' = phase
    BY <1>5 DEF HandleGoodBye
  <2>2. phase[u] = "gone" /\ Len(req[u]) = 1
    BY <1>1, <2>1, ReceiveFacts DEF ClientInv, GoneIsGone
  <2>3. req'[u] = <<>>
    BY <1>1, <2>1, <2>2, ReceiveFacts
  <2> QED
    BY <1>1, <1>3, <2>1, <2>2, <2>3 DEF LoggedIn, TypeOK
<1>6. CASE ~HandleGoodBye(u)
  <2>1. UNCHANGED online
    <3>1. \A r, joined : Seat(u, r, joined) => UNCHANGED online
      BY DEF Seat
    <3>2. CASE HandleAutoRoom(u) \/ HandleManualRoom(u)
      BY <3>1, <3>2 DEF HandleAutoRoom, HandleManualRoom, AbortInJoin, Refuse
    <3> QED
      BY <1>6, <3>2 DEF ServerStep, HandleLeaveRoom, HandleGameOver, HandleContinue
  <2> QED
    BY <1>4, <2>1
<1> QED
  BY <1>5, <1>6

-----------------------------------------------------------------------------
(* The theorems *)

\* LobbyInv holds initially and is kept by every step.
LEMMA InitLobbyInv == Init => LobbyInv
<1> SUFFICES ASSUME Init PROVE Filed(db) /\ LoggedIn
  BY InitIInv DEF LobbyInv
<1> QED
  BY DEF Init, Filed, EmptyStore, Exists, LoggedIn

\* Every step keeps the inductive invariant of the lobby in ordinary use.
LEMMA NextLobbyInv ==
  ASSUME OrdinaryUse, LobbyInv, [Next]_vars
  PROVE  LobbyInv'
<1>1. IInv /\ Filed(db) /\ LoggedIn /\ TypeOK
  BY DEF LobbyInv, IInv
<1>2. IInv'
  BY <1>1, NextIInv
<1>3. CASE \E u \in Users : ClientStep(u)
  BY <1>1, <1>2, <1>3, ClientStepFiled, ClientStepLoggedIn DEF LobbyInv
<1>4. CASE \E u \in Users : ServerStep(u)
  BY <1>1, <1>2, <1>4, ServerStepFiled, ServerStepLoggedIn DEF LobbyInv, OrdinaryUse
<1>5. CASE \E r \in Rooms : HandDecided(r)
  <2>1. db' = db /\ online' = online /\ req' = req
    BY <1>5 DEF HandDecided, serverVars
  <2>2. \A v \in Users : phase'[v] # "gone" => phase[v] # "gone"
    BY <1>5 DEF HandDecided
  <2> QED
    BY <1>1, <1>2, <2>1, <2>2, StillLoggedIn DEF LobbyInv
<1>6. CASE Restart
  <2>1. Filed(db') /\ LoggedIn'
    BY <1>6 DEF Restart, Filed, EmptyStore, Exists, LoggedIn
  <2> QED
    BY <1>2, <2>1 DEF LobbyInv
<1>7. CASE UNCHANGED vars
  BY <1>1, <1>2, <1>7 DEF LobbyInv, LoggedIn, vars
<1> QED
  BY <1>3, <1>4, <1>5, <1>6, <1>7 DEF Next

\* In ordinary use every room with members is filed under a class, and a player with a program running, or a request on the way, is logged in:
\* handleLogin (Communication.cpp), which refuses players whose status is set, keeps
\* every name to one program.
THEOREM FiledAndLoggedIn ==
  ASSUME OrdinaryUse
  PROVE  Spec => []LobbyInv
<1>1. LobbyInv /\ [Next]_vars => LobbyInv'
  BY NextLobbyInv
<1> QED
  BY InitLobbyInv, <1>1, PTL DEF Spec

-----------------------------------------------------------------------------
(* What holds in any use, also of the empty name, of names in use, of names of other *)
(* keys and offline: the types, who changes a seat and what takes the server down.   *)

\* No key of another type is ever filed among the rooms on offer.
ReservedApart == Reserved \cap (db.one \cup db.two) = {}

\* What is known in any use, and what besides in ordinary use.
AnyInv ==
  /\ TypeOK
  /\ ReservedApart
  /\ OrdinaryUse => LobbyInv

\* What handleAddRoom gives up is a membership of u alone, and it opens no room.
LEMMA LeftTypes ==
  ASSUME TypeOK, NEW u \in Users
  PROVE  /\ LeftStore(u) \in Stores
         /\ LeftStore(u).one = db.one /\ LeftStore(u).two = db.two
         /\ \A q \in Rooms, v \in Users : v # u =>
              (v \in LeftStore(u).zset[q] <=> v \in db.zset[q])
         /\ \A q \in Rooms : LeftStore(u).zset[q] \subseteq db.zset[q]
         /\ LeftMap(u) \in [Rooms -> SUBSET Users]
         /\ CarriedScore(u) \in Scores
<1> DEFINE w == db.players[u]
<1>1. db \in Stores /\ w \in Rooms
  BY DEF TypeOK, Stores
<1>2. CarriedScore(u) \in Scores
  BY <1>1 DEF CarriedScore, PlayerScore, WhereAmI, Stores, TypeOK
<1>3. CASE w = NoRoom
  <2>1. LeftStore(u) = db /\ LeftMap(u) = roomMap
    BY <1>3 DEF LeftStore, LeftMap, WhereAmI
  <2> QED
    BY <1>1, <1>2, <2>1 DEF TypeOK
<1>4. CASE w # NoRoom
  <2>1. LeftStore(u) = LeaveRoom(db, w, u) /\ LeftMap(u) = RemovePlayer(roomMap, w, u)
    BY <1>4 DEF LeftStore, LeftMap, WhereAmI
  <2>2. LeftStore(u) \in Stores
    BY <1>1, <2>1, LeaveRoomType
  <2>3. LeftMap(u) \in [Rooms -> SUBSET Users]
    BY <1>1, <2>1 DEF RemovePlayer, TypeOK
  <2>4. /\ LeftStore(u).one = db.one /\ LeftStore(u).two = db.two
        /\ \A q \in Rooms : LeftStore(u).zset[q] \in {db.zset[q], db.zset[q] \ {u}}
    BY <1>1, <2>1, LeaveRoomFacts
  <2> QED
    BY <1>2, <2>2, <2>3, <2>4
<1> QED
  BY <1>3, <1>4

\* A join gives a seat to u alone, and opens no room but the one joined.
LEMMA JoinTypes ==
  ASSUME NEW d \in Stores, NEW r \in Rooms, NEW u \in Users, NEW s \in Scores
  PROVE  LET e == UpdatePlayerScore(JoinRoom(d, r, u), r, u, s)
         IN  /\ e \in Stores
             /\ e.one \cup e.two \subseteq d.one \cup d.two \cup {r}
             /\ \A q \in Rooms, v \in Users : v # u =>
                  (v \in e.zset[q] <=> v \in d.zset[q])
<1> DEFINE j == JoinRoom(d, r, u)
           e == UpdatePlayerScore(j, r, u, s)
<1>1. /\ j \in Stores
      /\ j.one \cup j.two \subseteq d.one \cup d.two \cup {r}
      /\ \A q \in Rooms, v \in Users : v # u => (v \in j.zset[q] <=> v \in d.zset[q])
  <2>1. CASE ~HasSeat(d, r)
    BY <2>1 DEF JoinRoom
  <2>2. CASE HasSeat(d, r)
    <3>1. j = TakeSeat(d, r, u)
      BY <2>2 DEF JoinRoom
    <3> HIDE DEF j
    <3> QED
      BY <3>1, RoomStoreAssumption DEF TakeSeat, Stores
  <2> QED
    BY <2>1, <2>2
<1> HIDE DEF j
<1>2. /\ e \in Stores /\ e.one = j.one /\ e.two = j.two
      /\ \A q \in Rooms, v \in Users : v # u => (v \in e.zset[q] <=> v \in j.zset[q])
  BY <1>1 DEF UpdatePlayerScore, Stores
<1> QED
  BY <1>1, <1>2 DEF j

\* What a step of the server leaves of redis and of the windows.
LEMMA ServerStepTypes ==
  ASSUME TypeOK, ReservedApart, NEW u \in Users, ServerStep(u)
  PROVE  /\ TypeOK' /\ ReservedApart'
         /\ req'[u] # req[u]
         /\ \A v \in Users, q \in Rooms :
              v # u => (v \in db.zset[q] <=> v \in db'.zset[q])
<1> DEFINE m == Head(req[u])
           Others == \A v \in Users, q \in Rooms :
                       v # u => (v \in db.zset[q] <=> v \in db'.zset[q])
<1>1. PICK op : Receive(u, op)
  BY DEF ServerStep, HandleAutoRoom, HandleManualRoom, HandleLeaveRoom, HandleGameOver,
     HandleContinue, HandleGoodBye
<1>2. /\ req' \in [Users -> Seq(Requests)] /\ mode' = mode
      /\ m \in Requests /\ m.room \in Rooms /\ m.score \in Scores
      /\ req'[u] # req[u]
  <2>1. /\ req' \in [Users -> Seq(Requests)] /\ mode' = mode /\ m \in Requests
        /\ Len(req'[u]) = Len(req[u]) - 1 /\ Len(req[u]) \in Nat
    BY <1>1, ReceiveFacts
  <2> QED
    BY <2>1, RequestFacts
<1>3. /\ db \in Stores /\ LeftStore(u) \in Stores
      /\ LeftStore(u).one = db.one /\ LeftStore(u).two = db.two
      /\ \A q \in Rooms, v \in Users : v # u =>
           (v \in LeftStore(u).zset[q] <=> v \in db.zset[q])
      /\ LeftMap(u) \in [Rooms -> SUBSET Users]
      /\ CarriedScore(u) \in Scores
  BY LeftTypes DEF TypeOK
<1> HIDE DEF m
<1>4. ASSUME NEW to, Deliver(to) PROVE crashed' \in BOOLEAN
  BY <1>4, Zenon DEF Deliver
<1>5. ASSUME NEW r \in Rooms, roomMap' \in [Rooms -> SUBSET Users],
             StartGame(roomMap'[r]) \/ UNCHANGED phase
      PROVE  phase' \in [Users -> Phases]
  BY <1>5, StartFacts
<1>6. ASSUME AbortInJoin(u)
      PROVE  TypeOK' /\ ReservedApart' /\ Others
  <2>1. /\ crashed' = TRUE /\ db' = LeftStore(u) /\ roomMap' = LeftMap(u)
        /\ UNCHANGED <<dangling, score, online, phase, croom>>
    BY <1>6 DEF AbortInJoin
  <2> QED
    BY <1>2, <1>3, <2>1 DEF TypeOK, ReservedApart
<1>7. ASSUME NEW r \in Rooms \ Reserved, Seat(u, r, JoinRoom(LeftStore(u), r, u))
      PROVE  TypeOK' /\ ReservedApart' /\ Others
  <2>1. /\ roomMap' = AddUser(LeftMap(u), r, u)
        /\ dangling' = dangling \ {u}
        /\ Deliver(roomMap'[r]) /\ StartGameIfThree(roomMap'[r])
        /\ croom' = [ v \in Users |->
                        IF v \in roomMap'[r] \ dangling' /\ phase[v] # "gone"
                        THEN r ELSE croom[v] ]
        /\ UNCHANGED <<score, online>>
        /\ db' = UpdatePlayerScore(JoinRoom(LeftStore(u), r, u), r, u, CarriedScore(u))
    BY <1>7 DEF Seat
  <2>2. /\ db' \in Stores
        /\ db'.one \cup db'.two \subseteq db.one \cup db.two \cup {r}
        /\ Others
    <3> DEFINE d == LeftStore(u)
    <3>1. /\ db' \in Stores
          /\ db'.one \cup db'.two \subseteq d.one \cup d.two \cup {r}
          /\ \A q \in Rooms, v \in Users : v # u => (v \in db'.zset[q] <=> v \in d.zset[q])
      BY <1>3, <2>1, JoinTypes
    <3> HIDE DEF d
    <3> QED
      BY <1>3, <3>1 DEF d
  <2>3. roomMap' \in [Rooms -> SUBSET Users]
    BY <1>3, <2>1 DEF AddUser
  <2>4. phase' \in [Users -> Phases] /\ crashed' \in BOOLEAN
    BY <1>4, <1>5, <2>1, <2>3 DEF StartGameIfThree
  <2>5. croom' \in [Users -> Rooms]
    BY <2>1 DEF TypeOK
  <2> QED
    BY <1>2, <2>1, <2>2, <2>3, <2>4, <2>5 DEF TypeOK, ReservedApart
<1>8. ASSUME Refuse(u, LeftStore(u))
      PROVE  TypeOK' /\ ReservedApart' /\ Others
  <2>1. /\ db' = LeftStore(u) /\ roomMap' = LeftMap(u)
        /\ UNCHANGED <<dangling, score, online, croom>>
        /\ Deliver(roomMap'[NoRoom]) /\ StartGameIfThree(roomMap'[NoRoom])
    BY <1>8 DEF Refuse
  <2>2. phase' \in [Users -> Phases] /\ crashed' \in BOOLEAN
    BY <1>3, <1>4, <1>5, <2>1, RoomStoreAssumption DEF StartGameIfThree
  <2> QED
    BY <1>2, <1>3, <2>1, <2>2 DEF TypeOK, ReservedApart
<1>9. CASE HandleAutoRoom(u)
  <2>1. PICK r \in AutoChoices(LeftStore(u)) :
          IF JoinAborts(LeftStore(u), r)
          THEN AbortInJoin(u)
          ELSE Seat(u, r, JoinRoom(LeftStore(u), r, u))
    BY <1>9 DEF HandleAutoRoom
  <2>2. r \in Rooms
    BY <1>3, AutoChoiceRoom
  <2> QED
    BY <1>2, <1>6, <1>7, <2>1, <2>2 DEF JoinAborts
<1>10. CASE HandleManualRoom(u)
  <2>1. \/ AbortInJoin(u)
        \/ ~JoinAborts(LeftStore(u), m.room) /\ Seat(u, m.room, JoinRoom(LeftStore(u), m.room, u))
        \/ Refuse(u, LeftStore(u))
    BY <1>10 DEF HandleManualRoom, m
  <2> QED
    BY <1>2, <1>6, <1>7, <1>8, <2>1 DEF JoinAborts
<1>11. CASE HandleLeaveRoom(u)
  <2>1. /\ db' = LeaveRoom(db, m.room, u)
        /\ roomMap' = RemovePlayer(roomMap, m.room, u)
        /\ Deliver(roomMap'[m.room])
        /\ UNCHANGED <<dangling, score, online, phase, croom>>
    BY <1>11 DEF HandleLeaveRoom, m
  <2>2. db' \in Stores
    BY <1>2, <1>3, <2>1, LeaveRoomType
  <2>3. Others /\ ReservedApart'
    BY <1>2, <1>3, <2>1 DEF LeaveRoom, Stores, ReservedApart
  <2>4. roomMap' \in [Rooms -> SUBSET Users] /\ crashed' \in BOOLEAN
    BY <1>2, <1>4, <2>1 DEF RemovePlayer, TypeOK
  <2> QED
    BY <1>2, <2>1, <2>2, <2>3, <2>4 DEF TypeOK
<1>12. CASE HandleGameOver(u)
  <2>1. /\ db' = UpdatePlayerScore(db, m.room, u, m.score)
        /\ score' = [score EXCEPT ![u] = m.score]
        /\ UNCHANGED <<roomMap, dangling, online, crashed, phase, croom>>
    BY <1>12 DEF HandleGameOver, m
  <2>2. db' \in Stores /\ Others /\ ReservedApart'
    BY <1>2, <1>3, <2>1 DEF UpdatePlayerScore, Stores, ReservedApart
  <2> QED
    BY <1>2, <2>1, <2>2 DEF TypeOK
<1>13. CASE HandleContinue(u)
  <2> DEFINE cleared == IF Cardinality(roomMap[m.room]) = 3
                        THEN RemoveRoom(roomMap, m.room) ELSE roomMap
  <2>1. /\ roomMap' = AddUser(cleared, m.room, u)
        /\ dangling' = IF u \in cleared[m.room] THEN dangling ELSE dangling \ {u}
        /\ \/ Deliver(roomMap'[m.room]) /\ StartGame(roomMap'[m.room])
           \/ UNCHANGED <<crashed, phase>>
        /\ UNCHANGED <<db, score, online, croom>>
    BY <1>13 DEF HandleContinue, m
  <2>2. roomMap' \in [Rooms -> SUBSET Users]
    BY <1>2, <2>1 DEF AddUser, RemoveRoom, TypeOK
  <2>3. phase' \in [Users -> Phases] /\ crashed' \in BOOLEAN
    BY <1>2, <1>4, <1>5, <2>1, <2>2 DEF TypeOK
  <2>4. dangling' \in SUBSET Users
    BY <2>1 DEF TypeOK
  <2>5. Others /\ ReservedApart'
    BY <2>1 DEF ReservedApart
  <2> QED
    BY <1>2, <2>1, <2>2, <2>3, <2>4, <2>5 DEF TypeOK
<1>14. CASE HandleGoodBye(u)
  BY <1>2, <1>14 DEF HandleGoodBye, TypeOK, ReservedApart
<1> QED
  BY <1>2, <1>9, <1>10, <1>11, <1>12, <1>13, <1>14 DEF ServerStep

\* Clients do not touch what the server keeps, and send well-typed requests.
LEMMA ClientStepTypes ==
  ASSUME TypeOK, NEW u \in Users, ClientStep(u)
  PROVE  TypeOK' /\ db' = db /\ (crashed' => crashed)
<1>1. CASE Login(u)
  BY <1>1, RoomStoreAssumption DEF Login, TypeOK, Phases
<1>2. CASE ~Login(u)
  <2>1. UNCHANGED <<serverVars, croom>>
    BY <1>2 DEF ClientStep, AskRoom, ReportScore, PressContinue, ClosePanel, SoloPlay, Quit
  <2>2. phase' \in [Users -> Phases] /\ mode' \in [Users -> {"Auto", "Manual"}]
    BY <1>2 DEF ClientStep, AskRoom, ReportScore, PressContinue, ClosePanel, SoloPlay, Quit,
       TypeOK, Phases
  <2>3. req' \in [Users -> Seq(Requests)]
    <3>1. \/ req' = req
          \/ \E op \in (Named \ {"ManualRoom"}) \cup {"AutoRoom", "Goodbye"}, r \in Rooms,
                s \in Scores : Send(u, op, r, s)
          \/ \E r \in TypedRooms : Send(u, "ManualRoom", r, 0)
      BY <1>2, RoomStoreAssumption DEF ClientStep, AskRoom, ReportScore, PressContinue,
         ClosePanel, SoloPlay, Quit, TypeOK, Named
    <3>2. ASSUME NEW op \in Named \cup {"AutoRoom", "Goodbye"}, NEW r \in Rooms,
                 NEW s \in Scores, op = "ManualRoom" => r \in TypedRooms, Send(u, op, r, s)
          PROVE  req' \in [Users -> Seq(Requests)]
      BY <3>2, SendFacts
    <3> QED
      BY <3>1, <3>2, LobbyAssumption, RoomStoreAssumption DEF Named, TypeOK
  <2> QED
    BY <2>1, <2>2, <2>3 DEF serverVars, TypeOK
<1> QED
  BY <1>1, <1>2

\* AnyInv holds initially.
LEMMA InitAnyInv == Init => AnyInv
<1> SUFFICES ASSUME Init PROVE AnyInv
  OBVIOUS
<1>1. TypeOK /\ LobbyInv
  BY InitIInv, InitLobbyInv DEF IInv
<1> QED
  BY <1>1 DEF AnyInv, ReservedApart, Init, EmptyStore

\* Every step keeps AnyInv.
LEMMA NextAnyInv ==
  ASSUME AnyInv, [Next]_vars
  PROVE  AnyInv'
<1>1. TypeOK /\ ReservedApart
  BY DEF AnyInv
<1>2. OrdinaryUse => LobbyInv'
  BY NextLobbyInv DEF AnyInv
<1>3. CASE \E u \in Users : ClientStep(u)
  BY <1>1, <1>2, <1>3, ClientStepTypes DEF AnyInv, ReservedApart
<1>4. CASE \E u \in Users : ServerStep(u)
  BY <1>1, <1>2, <1>4, ServerStepTypes DEF AnyInv
<1>5. CASE \E r \in Rooms : HandDecided(r)
  BY <1>1, <1>2, <1>5 DEF AnyInv, HandDecided, serverVars, TypeOK, Phases, ReservedApart
<1>6. CASE Restart
  <2>1. db' \in Stores /\ score' \in [Users -> Scores] /\ online' \in [Users -> BOOLEAN]
    BY <1>1, <1>6, EmptyStoreInv DEF Restart, StoreInv, TypeOK
  <2>2. req' \in [Users -> Seq(Requests)]
    BY <1>6, EmptySeq DEF Restart
  <2>3. TypeOK'
    BY <1>6, <2>1, <2>2, RoomStoreAssumption DEF Restart, TypeOK, Phases
  <2>4. ReservedApart'
    BY <1>6 DEF Restart, EmptyStore, ReservedApart
  <2> QED
    BY <1>2, <2>3, <2>4 DEF AnyInv
<1>7. CASE UNCHANGED vars
  BY <1>1, <1>2, <1>7 DEF AnyInv, vars, TypeOK, ReservedApart
<1> QED
  BY <1>3, <1>4, <1>5, <1>6, <1>7 DEF Next

\* Type correctness of the lobby, in any use.
THEOREM LobbyTypes == Spec => []TypeOK
<1>1. AnyInv /\ [Next]_vars => AnyInv'
  BY NextAnyInv
<1>2. AnyInv => TypeOK
  BY DEF AnyInv
<1> QED
  BY InitAnyInv, <1>1, <1>2, PTL DEF Spec

\* In any use, handling the requests of one player never gives or takes the seat of
\* another (Communication.cpp handleAddRoom, handleLeaveRoom, handleGameOver).
THEOREM SeatsBelongToTheirOwners == Spec => SeatsAreOnesOwn
<1> DEFINE Step == \A u \in Users, r \in Rooms :
             (u \in db.zset[r]) # (u \in db'.zset[r]) => crashed \/ req'[u] # req[u]
<1>1. AnyInv /\ [Next]_vars => [Step]_vars
  <2> SUFFICES ASSUME AnyInv, Next,
                      NEW u \in Users, NEW r \in Rooms,
                      (u \in db.zset[r]) # (u \in db'.zset[r]), ~crashed
               PROVE  req'[u] # req[u]
    BY DEF vars
  <2>1. TypeOK /\ ReservedApart
    BY DEF AnyInv
  <2>2. db' # db
    OBVIOUS
  <2>3. PICK v \in Users : ServerStep(v)
    BY <2>1, <2>2, ClientStepTypes DEF Next, HandDecided, Restart, serverVars
  <2> QED
    BY <2>1, <2>3, ServerStepTypes
<1>2. AnyInv /\ [Next]_vars => AnyInv'
  BY NextAnyInv
<1> QED
  BY InitAnyInv, <1>1, <1>2, PTL DEF Spec, SeatsAreOnesOwn

\* A message goes to a deleted connection only where its callback is still registered.
LEMMA DeliveryAborts ==
  ASSUME NEW to, Deliver(to), crashed', dangling' \subseteq dangling
  PROVE  dangling # {}
<1>1. to \cap dangling' # {}
  BY Zenon DEF Deliver
<1> QED
  BY <1>1

\* joinRoom can only end the process for a name that is not that of an open room.
LEMMA AbortedNames ==
  ASSUME AnyInv, NEW u \in Users, NEW r \in Rooms, JoinAborts(LeftStore(u), r)
  PROVE  r \in Reserved \/ Closed(r)
<1> SUFFICES ASSUME r \notin Reserved PROVE Closed(r)
  OBVIOUS
<1>1. TypeOK
  BY DEF AnyInv
<1>2. Exists(LeftStore(u), r) /\ r \notin LeftStore(u).one \cup LeftStore(u).two
  BY DEF JoinAborts
<1>3. Exists(db, r) /\ r \notin db.one \cup db.two
  BY <1>1, <1>2, LeftTypes DEF Exists
<1>4. OrdinaryUse => r \in db.three \cup db.invalid
  BY <1>3 DEF AnyInv, LobbyInv, Filed
<1> QED
  BY <1>3, <1>4 DEF Closed

\* In any use, the process ends in joinRoom (Room.cpp) only for a typed name of another
\* key or of a room closed to players, or where an automatic join that found no open room
\* draws the name of a closed one; no other step takes the server down but a message to a
\* deleted connection (Communication.cpp). In ordinary use the closed rooms are those that
\* have been full, and the automatic join never does it.
THEOREM ServerFallsByNameOnly == Spec => AbortsByNameOnly
<1> DEFINE ByName(u) == /\ req'[u] # req[u]
                        /\ NameAborts(Head(req[u]))
           Step == crashed' /\ ~crashed => \/ dangling # {}
                                          \/ \E u \in Users : ByName(u)
<1>1. AnyInv /\ [Next]_vars => [Step]_vars
  <2> SUFFICES ASSUME AnyInv, Next, crashed', ~crashed, dangling = {}
               PROVE  \E u \in Users : ByName(u)
    BY DEF vars
  <2>1. TypeOK /\ ReservedApart /\ db \in Stores
    BY DEF AnyInv, TypeOK
  <2>2. PICK u \in Users : ServerStep(u)
    BY <2>1, ClientStepTypes DEF Next, HandDecided, Restart, serverVars
  <2>3. req'[u] # req[u]
    BY <2>1, <2>2, ServerStepTypes
  <2>4. ASSUME NEW r, NEW joined, Seat(u, r, joined) PROVE FALSE
    BY <2>4, DeliveryAborts DEF Seat
  <2>5. ~Refuse(u, LeftStore(u))
    BY DeliveryAborts DEF Refuse
  <2>6. ~HandleLeaveRoom(u)
    BY DeliveryAborts DEF HandleLeaveRoom
  <2>7. ~HandleContinue(u)
    <3>1. HandleContinue(u) => dangling' \subseteq dangling
      BY DEF HandleContinue
    <3>2. HandleContinue(u) => Deliver(roomMap'[Head(req[u]).room])
      BY DEF HandleContinue
    <3> QED
      BY <3>1, <3>2, DeliveryAborts
  <2>8. CASE HandleManualRoom(u)
    <3>1. JoinAborts(LeftStore(u), Head(req[u]).room) /\ Receive(u, "ManualRoom")
      BY <2>4, <2>5, <2>8 DEF HandleManualRoom
    <3>2. Head(req[u]).room \in Rooms /\ Head(req[u]).op = "ManualRoom"
      <4>1. Head(req[u]) \in Requests
        BY <2>1, <3>1, ReceiveFacts
      <4> QED
        BY <3>1, <4>1, RequestFacts DEF Receive
    <3> QED
      BY <2>3, <3>1, <3>2, AbortedNames DEF NameAborts
  <2>9. CASE HandleAutoRoom(u)
    <3> DEFINE left == LeftStore(u)
    <3>1. PICK r \in AutoChoices(left) : JoinAborts(left, r)
      BY <2>4, <2>9 DEF HandleAutoRoom
    <3>2. left \in Stores /\ left.one = db.one /\ left.two = db.two
      BY <2>1, LeftTypes
    <3> HIDE DEF left
    <3>3. r \in Rooms
      BY <3>2, AutoChoiceRoom
    <3>4. r \notin left.one \cup left.two
      BY <2>1, <3>1, <3>2 DEF ReservedApart, JoinAborts
    <3>5. db.one \cup db.two = {} /\ r \in NewRoomNames(left)
      BY <3>2, <3>4 DEF AutoChoices
    <3>6. r \in DrawnRooms /\ r \notin Reserved
      BY <3>5, RoomStoreAssumption DEF NewRoomNames
    <3>7. Redraws
      BY <3>1, <3>5, <3>6 DEF NewRoomNames, JoinAborts
    <3>8. Closed(r)
      BY <3>1, <3>3, <3>6, AbortedNames DEF left
    <3>9. Head(req[u]).op = "AutoRoom"
      BY <2>9 DEF HandleAutoRoom, Receive
    <3> QED
      BY <2>3, <3>5, <3>6, <3>7, <3>8, <3>9 DEF NameAborts
  <2> QED
    BY <2>2, <2>6, <2>7, <2>8, <2>9 DEF ServerStep, HandleGameOver, HandleGoodBye
<1>2. AnyInv /\ [Next]_vars => AnyInv'
  BY NextAnyInv
<1> QED
  BY InitAnyInv, <1>1, <1>2, PTL DEF Spec, AbortsByNameOnly
=============================================================================

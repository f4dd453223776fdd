---------------------------- MODULE ReactorProofs ----------------------------
(***************************************************************************)
(* The event loop sleeps over no task, and no change of the events of a    *)
(* channel is lost, for any number of workers that relay, and any number   *)
(* of relays and requests.                                                 *)
(***************************************************************************)
EXTENDS Reactor, SequenceTheorems, TLAPS

-----------------------------------------------------------------------------
(* The task queue *)

\* What Push leaves in the queue.
LEMMA PushFacts ==
  ASSUME NEW S, NEW q \in Seq(S), NEW e \in S
  PROVE  /\ Append(q, e) \in Seq(S)
         /\ Append(q, e) # <<>>
         /\ DOMAIN Append(q, e) = DOMAIN q \cup {Len(q) + 1}
         /\ DOMAIN q = 1..Len(q)
         /\ Len(q) \in Nat
         /\ Append(q, e)[Len(q) + 1] = e
         /\ \A i \in DOMAIN q : Append(q, e)[i] = q[i]
<1>1. Append(q, e) # <<>>
  BY LenProperties, EmptySeq
<1>2. DOMAIN q = 1..Len(q) /\ Len(q) \in Nat
  BY LenProperties
<1>3. Append(q, e) \in Seq(S) /\ Len(Append(q, e)) = Len(q) + 1
  BY AppendProperties
<1>4. DOMAIN Append(q, e) = 1..(Len(q) + 1)
  BY <1>3, LenProperties
<1>5. DOMAIN Append(q, e) = DOMAIN q \cup {Len(q) + 1}
  BY <1>2, <1>4
<1> QED
  BY <1>1, <1>2, <1>3, <1>5, AppendProperties

\* What processTaskQ takes from the queue and leaves in it.
LEMMA PopFacts ==
  ASSUME NEW S, NEW q \in Seq(S), q # <<>>
  PROVE  /\ Tail(q) \in Seq(S)
         /\ Head(q) \in S
         /\ Head(q) = q[1]
         /\ 1 \in DOMAIN q
         /\ \A i \in DOMAIN Tail(q) : i + 1 \in DOMAIN q /\ Tail(q)[i] = q[i + 1]
         /\ \A i \in DOMAIN q : i # 1 => i - 1 \in DOMAIN Tail(q) /\ Tail(q)[i - 1] = q[i]
<1>1. DOMAIN q = 1..Len(q) /\ Len(q) \in Nat /\ Len(q) >= 1
  BY LenProperties, EmptySeq
<1>2. Tail(q) \in Seq(S) /\ Len(Tail(q)) = Len(q) - 1
  BY HeadTailProperties
<1>3. DOMAIN Tail(q) = 1..(Len(q) - 1)
  BY <1>2, LenProperties
<1>4. \A i \in 1..(Len(q) - 1) : Tail(q)[i] = q[i + 1]
  BY <1>1, HeadTailProperties
<1>5. Head(q) = q[1] /\ Head(q) \in S
  BY HeadTailProperties
<1> QED
  BY <1>1, <1>2, <1>3, <1>4, <1>5

-----------------------------------------------------------------------------
(* Types *)

\* Goto moves a thread and no other.
LEMMA GotoFacts ==
  ASSUME TypeOK, NEW t \in Threads, NEW place \in Places, Goto(t, place)
  PROVE  /\ at' \in [Threads -> Places]
         /\ at'[t] = place
         /\ \A u \in Threads : u # t => at'[u] = at[u]
BY DEF TypeOK, Goto

\* The names of the threads differ.
LEMMA ThreadFacts ==
  /\ "main" \in Threads /\ "loop" \in Threads /\ "main" # "loop"
  /\ \A t \in Partners : t \in Threads /\ t # "main" /\ t # "loop"
BY ReactorAssumption DEF Threads

LEMMA InitTypes == Init => TypeOK
<1> SUFFICES ASSUME Init PROVE TypeOK
  OBVIOUS
<1>1. at \in [Threads -> Places]
  BY DEF Init, Places, TaskTypes
<1>2. queue \in Seq(TaskTypes) /\ inbox \in Seq(Kinds) /\ readBuf \in Seq(Kinds)
  BY DEF Init
<1> QED
  BY <1>1, <1>2 DEF Init, TypeOK

\* Adding a task, waking the loop and changing the events keep the types.
LEMMA TaskStepTypes ==
  ASSUME TypeOK, NEW t \in Threads, AddTask(t) \/ TaskWakeup(t) \/ MarkWrite(t)
  PROVE  TypeOK'
<1>1. CASE AddTask(t)
  <2>1. at[t] \in TaskTypes /\ queue \in Seq(TaskTypes)
    BY <1>1 DEF AddTask, TypeOK
  <2>2. queue' \in Seq(TaskTypes)
    BY <1>1, <2>1, PushFacts DEF AddTask, Push
  <2>3. at' \in [Threads -> Places]
    BY <1>1, GotoFacts DEF AddTask, Push, Places
  <2> QED
    BY <1>1, <2>2, <2>3 DEF AddTask, TypeOK, loops, client
<1>2. CASE TaskWakeup(t)
  <2>1. at' \in [Threads -> Places]
    BY <1>2, GotoFacts DEF TaskWakeup, Places
  <2> QED
    BY <1>2, <2>1 DEF TaskWakeup, TypeOK, loops, client
<1>3. CASE MarkWrite(t)
  <2>1. at' \in [Threads -> Places]
    BY <1>3, GotoFacts DEF MarkWrite, SetCurrentEvent, Places, TaskTypes
  <2> QED
    BY <1>3, <2>1 DEF MarkWrite, SetCurrentEvent, TypeOK, loops, client
<1> QED
  BY <1>1, <1>2, <1>3

\* So do the other workers.
LEMMA PartnerTypes ==
  ASSUME TypeOK, NEW t \in Partners, PartnerStep(t)
  PROVE  TypeOK'
<1>0. t \in Threads
  BY ThreadFacts
<1>1. CASE Relay(t)
  <2>1. at' \in [Threads -> Places]
    BY <1>0, <1>1, GotoFacts DEF Relay, Places
  <2> QED
    BY <1>1, <2>1 DEF Relay, TypeOK, shared, loops, client
<1>2. CASE UseDeleted(t)
  <2>1. at' \in [Threads -> Places]
    BY <1>0, <1>2, GotoFacts DEF UseDeleted, Places
  <2> QED
    BY <1>2, <2>1 DEF UseDeleted, TypeOK, shared, loops, client
<1> QED
  BY <1>0, <1>1, <1>2, TaskStepTypes DEF PartnerStep

\* And the client, which sends requests and leaves.
LEMMA ClientTypes ==
  ASSUME TypeOK, Request \/ Disconnect
  PROVE  TypeOK'
<1>1. CASE Request
  <2>1. PICK k \in Kinds :
          /\ inbox' = Append(inbox, k)
          /\ waiting' = IF k = "Ask" THEN waiting + 1 ELSE waiting
          /\ asked' = IF k = "Bye" THEN MaxRequests ELSE asked + 1
    BY <1>1 DEF Request
  <2>2. inbox' \in Seq(Kinds)
    BY <2>1, AppendProperties DEF TypeOK
  <2>3. waiting' \in Nat /\ asked' \in Nat
    BY <2>1, ReactorAssumption DEF TypeOK
  <2> QED
    BY <1>1, <2>2, <2>3 DEF Request, TypeOK, shared, loops
<1>2. CASE Disconnect
  <2>1. (inbox' = inbox \/ inbox' = <<>>) /\ peer' \in {"open", "closed", "reset"}
    BY <1>2 DEF Disconnect
  <2>2. inbox \in Seq(Kinds) /\ <<>> \in Seq(Kinds)
    BY DEF TypeOK
  <2>3. inbox' \in Seq(Kinds)
    BY <2>1, <2>2, Zenon
  <2> QED
    BY <1>2, <2>1, <2>3 DEF Disconnect, TypeOK, shared, loops
<1> QED
  BY <1>1, <1>2

\* What parseRequest looks at is a request.
LEMMA RequestRead ==
  ASSUME TypeOK, inbox # <<>>
  PROVE  /\ readBuf \o inbox \in Seq(Kinds)
         /\ readBuf \o inbox # <<>>
         /\ Head(readBuf \o inbox) \in Kinds
<1>1. readBuf \in Seq(Kinds) /\ inbox \in Seq(Kinds)
  BY DEF TypeOK
<1> DEFINE data == readBuf \o inbox
<1>2. data \in Seq(Kinds) /\ Len(data) = Len(readBuf) + Len(inbox)
  BY <1>1, ConcatProperties
<1>3. Len(readBuf) \in Nat /\ Len(inbox) \in Nat /\ Len(inbox) # 0
  BY <1>1, EmptySeq, LenProperties
<1>4. Len(data) # 0
  BY <1>2, <1>3
<1>5. data # <<>>
  BY <1>2, <1>4, EmptySeq
<1> HIDE DEF data
<1>6. Head(data) \in Kinds
  BY <1>2, <1>5, PopFacts
<1> QED
  BY <1>2, <1>5, <1>6 DEF data

\* Reading parses one request and keeps the rest.
LEMMA ReadTypes ==
  ASSUME TypeOK, ProcessRead
  PROVE  TypeOK'
<1> DEFINE data == readBuf \o inbox
<1>1. readBuf \in Seq(Kinds) /\ inbox \in Seq(Kinds) /\ writeBuf \in Nat /\ listed \in BOOLEAN
  BY DEF TypeOK
<1>2. ready' \subseteq {"wake", "Read", "Write"} /\ UNCHANGED <<watch, mapped, alive>>
  BY DEF ProcessRead, Activate, TypeOK
<1>3. UNCHANGED <<queue, wake, events, waiting, asked, relays, peer, server>>
  BY DEF ProcessRead, shared
<1>4. "loop" \in Threads /\ {"mark", "DELETE"} \subseteq Places
  BY ThreadFacts DEF Places, TaskTypes
<1>5. CASE /\ inbox # <<>>
           /\ inbox' = <<>>
           /\ readBuf' = Tail(data)
           /\ Parse(Head(data))
  <2>1. data \in Seq(Kinds) /\ data # <<>>
    BY <1>5, RequestRead
  <2> HIDE DEF data
  <2>2. readBuf' \in Seq(Kinds) /\ Head(data) \in Kinds
    BY <1>5, <2>1, PopFacts
  <2>3. at' \in [Threads -> Places] /\ writeBuf' \in Nat /\ listed' \in BOOLEAN
    <3>1. CASE Head(data) = "Ask"
      <4>1. writeBuf' = writeBuf + 1 /\ listed' = TRUE /\ Goto("loop", "mark")
        BY <1>5, <3>1 DEF Parse
      <4>2. at' \in [Threads -> Places]
        BY <1>4, <4>1, GotoFacts
      <4> QED
        BY <1>1, <4>1, <4>2
    <3>2. CASE Head(data) = "Tell"
      BY <1>1, <1>5, <3>2 DEF Parse, TypeOK
    <3>3. CASE Head(data) = "Bye"
      BY <1>1, <1>4, <1>5, <3>3, GotoFacts DEF Parse
    <3> QED
      BY <2>2, <3>1, <3>2, <3>3 DEF Kinds
  <2>4. inbox' \in Seq(Kinds)
    BY <1>5
  <2> QED
    BY <1>2, <1>3, <2>2, <2>3, <2>4 DEF TypeOK
<1>6. CASE UNCHANGED <<at, inbox, readBuf, writeBuf, listed>>
  BY <1>2, <1>3, <1>6 DEF TypeOK
<1>7. CASE Goto("loop", "DELETE") /\ UNCHANGED <<inbox, readBuf, writeBuf, listed>>
  <2>1. at' \in [Threads -> Places]
    BY <1>4, <1>7, GotoFacts
  <2> QED
    BY <1>2, <1>3, <1>7, <2>1 DEF TypeOK
<1> QED
  BY <1>5, <1>6, <1>7 DEF ProcessRead

\* Writing sends no more than there is.
LEMMA WriteTypes ==
  ASSUME TypeOK, ProcessWrite
  PROVE  TypeOK'
<1>1. ready' \subseteq {"wake", "Read", "Write"} /\ UNCHANGED <<watch, mapped, alive>>
  BY DEF ProcessWrite, Activate, TypeOK
<1>2. at' \in [Threads -> Places] /\ writeBuf' \in Nat /\ waiting' \in Nat
  <2>1. CASE \E n \in SendData :
               /\ writeBuf' = writeBuf - n
               /\ waiting' = IF writeBuf' = 0 THEN 0 ELSE waiting
               /\ Goto("loop", "sent")
    <3>1. at' \in [Threads -> Places]
      BY <2>1, ThreadFacts, GotoFacts DEF Places
    <3>2. writeBuf' \in Nat /\ waiting' \in Nat
      BY <2>1 DEF SendData, TypeOK
    <3> QED
      BY <3>1, <3>2
  <2>2. CASE UNCHANGED <<at, writeBuf, waiting>>
    BY <2>2 DEF TypeOK
  <2> QED
    BY <2>1, <2>2 DEF ProcessWrite
<1> QED
  BY <1>1, <1>2 DEF ProcessWrite, shared, TypeOK

\* A task changes what is watched and mapped, and may end the server.
LEMMA TaskFacts ==
  ASSUME TypeOK, ProcessTask
  PROVE  /\ queue # <<>> /\ queue' = Tail(queue)
         /\ \/ Head(queue) = "ADD" /\ Add
            \/ Head(queue) = "MODIFY" /\ Modify
            \/ Head(queue) = "DELETE" /\ Remove
         /\ UNCHANGED <<at, wake, events, ready, readBuf, client, writeBuf, listed, relays>>
<1>1. Head(queue) \in TaskTypes
  BY PopFacts DEF ProcessTask, TypeOK
<1> QED
  BY <1>1 DEF ProcessTask, TaskTypes

LEMMA TaskTypesKept ==
  ASSUME TypeOK, ProcessTask
  PROVE  TypeOK'
<1>1. queue' \in Seq(TaskTypes)
  BY PopFacts DEF ProcessTask, TypeOK
<1>2. /\ watch' \in {"None", "Read", "Write"}
      /\ mapped' \in BOOLEAN /\ alive' \in BOOLEAN /\ server' \in {"up", "down"}
  BY TaskFacts DEF Add, Modify, Remove, Destroy, TypeOK
<1> QED
  BY <1>1, <1>2, TaskFacts DEF TypeOK, client

LEMMA LoopTypes ==
  ASSUME TypeOK, LoopStep
  PROVE  TypeOK'
<1>0. "loop" \in Threads
  BY ThreadFacts
<1>1. CASE Wait
  <2>1. ready' \subseteq {"wake", "Read", "Write"}
    BY <1>1 DEF Wait, Reported
  <2>2. at' \in [Threads -> Places]
    BY <1>0, <1>1, GotoFacts DEF Wait, Places
  <2> QED
    BY <1>1, <2>1, <2>2 DEF Wait, TypeOK, shared, client
<1>2. CASE ReadMessage
  BY <1>2 DEF ReadMessage, Activate, TypeOK, client
<1>3. CASE CheckSent
  <2>1. at' \in [Threads -> Places]
    BY <1>0, <1>3, GotoFacts DEF CheckSent, Places
  <2> QED
    BY <1>3, <2>1 DEF CheckSent, TypeOK, shared, loops, client
<1>4. CASE StopWriting
  <2>1. at' \in [Threads -> Places]
    BY <1>0, <1>4, GotoFacts DEF StopWriting, SetCurrentEvent, Places, TaskTypes
  <2> QED
    BY <1>4, <2>1 DEF StopWriting, SetCurrentEvent, TypeOK, loops, client
<1>5. CASE TasksDone \/ Dispatched
  <2>1. at' \in [Threads -> Places]
    BY <1>0, <1>5, GotoFacts DEF TasksDone, Dispatched, Places
  <2> QED
    BY <1>5, <2>1 DEF TasksDone, Dispatched, TypeOK, shared, loops, client
<1> QED
  BY <1>0, <1>1, <1>2, <1>3, <1>4, <1>5, TaskStepTypes, ReadTypes, WriteTypes, TaskTypesKept
  DEF LoopStep

\* Every state of a connection is well typed.
THEOREM ReactorTypes == Spec => []TypeOK
<1>1. TypeOK /\ [Next]_vars => TypeOK'
  <2> SUFFICES ASSUME TypeOK, [Next]_vars PROVE TypeOK'
    OBVIOUS
  <2>1. CASE UNCHANGED vars
    BY <2>1 DEF vars, shared, loops, client, TypeOK
  <2>2. CASE Next
    BY <2>2, ThreadFacts, ClientTypes, LoopTypes, PartnerTypes, TaskStepTypes DEF Next, MainStep
  <2> QED
    BY <2>1, <2>2
<1> QED
  BY InitTypes, <1>1, PTL DEF Spec

-----------------------------------------------------------------------------
(* The loop sleeps over no task *)

\* The loop goes to sleep only with nothing to do.
LEMMA LoopSleeps ==
  ASSUME TypeOK, LoopStep
  PROVE  at'["loop"] = "wait" => queue' = <<>>
<1>0. "loop" \in Threads /\ at \in [Threads -> Places]
  BY ThreadFacts DEF TypeOK
<1>1. CASE Wait \/ CheckSent \/ StopWriting \/ MarkWrite("loop") \/ Dispatched
  BY <1>0, <1>1
  DEF Wait, CheckSent, StopWriting, MarkWrite, SetCurrentEvent, Dispatched, Goto
<1>2. CASE ReadMessage \/ ProcessWrite
  BY <1>0, <1>2 DEF ReadMessage, ProcessWrite, Activate, Goto
<1>3. CASE ProcessRead
  <2>1. at["loop"] = "dispatch"
    BY <1>3 DEF ProcessRead, Activate
  <2>2. at' = at \/ (\E place \in Places \ {"wait"} : Goto("loop", place))
    <3>1. \A k \in Kinds : Parse(k) =>
            at' = at \/ (\E place \in Places \ {"wait"} : Goto("loop", place))
      BY DEF Parse, Kinds, Places, TaskTypes
    <3>2. inbox # <<>> => Head(readBuf \o inbox) \in Kinds
      BY RequestRead
    <3> QED
      BY <1>3, <3>1, <3>2 DEF ProcessRead, Places, TaskTypes
  <2> QED
    BY <1>0, <2>1, <2>2 DEF Goto
<1>4. CASE AddTask("loop")
  BY <1>0, <1>4 DEF AddTask, Push, Goto
<1>5. CASE ProcessTask
  BY <1>5 DEF ProcessTask
<1>6. CASE TasksDone
  BY <1>6 DEF TasksDone, shared
<1> QED
  BY <1>1, <1>2, <1>3, <1>4, <1>5, <1>6 DEF LoopStep

\* A thread that adds a task wakes the loop afterwards, whatever else the others do.
LEMMA OthersWake ==
  ASSUME TypeOK, TasksNoticed, NEW t \in Threads, t # "loop",
         \/ AddTask(t) \/ TaskWakeup(t) \/ MarkWrite(t)
         \/ t \in Partners /\ (Relay(t) \/ UseDeleted(t))
  PROVE  TasksNoticed'
<1>0. "loop" \in Threads /\ at \in [Threads -> Places]
  BY ThreadFacts DEF TypeOK
<1>1. CASE AddTask(t)
  BY <1>0, <1>1 DEF AddTask, Push, Goto, TasksNoticed
<1>2. CASE TaskWakeup(t)
  BY <1>2 DEF TaskWakeup, TasksNoticed
<1>3. CASE MarkWrite(t) \/ Relay(t) \/ UseDeleted(t)
  <2>1. UNCHANGED <<queue, wake>> /\ at[t] # "wake"
    BY <1>3 DEF MarkWrite, SetCurrentEvent, Relay, UseDeleted, shared
  <2>2. \A u \in Threads : u # t => at'[u] = at[u]
    BY <1>0, <1>3 DEF MarkWrite, SetCurrentEvent, Relay, UseDeleted, Goto
  <2> QED
    BY <1>0, <2>1, <2>2 DEF TasksNoticed
<1> QED
  BY <1>1, <1>2, <1>3

\* No task waits while the loop sleeps, unless a wakeup is on its way: whoever adds
\* tasks, and whenever.
THEOREM NoTaskOverslept == Spec => []TasksNoticed
<1>1. Init => TasksNoticed
  BY DEF Init, TasksNoticed
<1>2. TypeOK /\ TasksNoticed /\ [Next]_vars => TasksNoticed'
  <2> SUFFICES ASSUME TypeOK, TasksNoticed, [Next]_vars PROVE TasksNoticed'
    OBVIOUS
  <2>1. CASE UNCHANGED vars \/ Request \/ Disconnect
    BY <2>1 DEF vars, shared, Request, Disconnect, TasksNoticed
  <2>2. CASE LoopStep
    BY <2>2, LoopSleeps DEF TasksNoticed
  <2>3. CASE MainStep
    BY <2>3, ThreadFacts, OthersWake DEF MainStep
  <2>4. CASE \E t \in Partners : PartnerStep(t)
    BY <2>4, ThreadFacts, OthersWake DEF PartnerStep
  <2> QED
    BY <2>1, <2>2, <2>3, <2>4 DEF Next
<1> QED
  BY ReactorTypes, <1>1, <1>2, PTL DEF Spec

-----------------------------------------------------------------------------
(* No change of the events is lost *)

\* The connection is handed to the loop once, before anything else is done about it.
AddPending ==
  at["main"] = "ADD" \/ \E i \in DOMAIN queue : queue[i] = "ADD"

\* What makes WatchFollows inductive: a MODIFY finds the connection watched and in
\* the map, or it is not watched at all.
AddedOnce ==
  /\ \A t \in Threads : at[t] = "ADD" =>
       t = "main" /\ \A i \in DOMAIN queue : queue[i] # "ADD"
  /\ \A i, j \in DOMAIN queue : queue[i] = "ADD" /\ queue[j] = "ADD" => i = j
  /\ AddPending => alive /\ ~mapped /\ watch = "None"
  /\ watch # "None" => mapped /\ alive

WatchInv == AddedOnce /\ WatchFollows

\* Steps that change nothing of this.
Aside ==
  /\ UNCHANGED <<queue, events, watch, mapped, alive>>
  /\ \A u \in Threads : /\ at'[u] = "ADD" <=> at[u] = "ADD"
                        /\ at[u] = "MODIFY" => at'[u] = "MODIFY"

LEMMA AsideKeeps ==
  ASSUME WatchInv, Aside
  PROVE  WatchInv'
<1>1. AddPending' <=> AddPending
  BY ThreadFacts DEF AddPending, Aside
<1>2. AddedOnce'
  BY <1>1 DEF WatchInv, AddedOnce, Aside
<1>3. WatchFollows'
  BY DEF WatchInv, WatchFollows, Aside
<1> QED
  BY <1>2, <1>3 DEF WatchInv

\* setCurrentEvent: its thread goes on to add a MODIFY.
LEMMA EventKeeps ==
  ASSUME TypeOK, WatchInv, NEW t \in Threads, NEW ev \in {"Read", "Write"},
         at[t] \in {"mark", "empty"}, SetCurrentEvent(t, ev)
  PROVE  WatchInv'
<1>1. /\ at'[t] = "MODIFY"
      /\ \A u \in Threads : u # t => at'[u] = at[u]
      /\ UNCHANGED <<queue, watch, mapped, alive>>
  BY DEF SetCurrentEvent, Goto, loops, TypeOK
<1>2. \A u \in Threads : at'[u] = "ADD" <=> at[u] = "ADD"
  BY <1>1
<1>3. AddPending' <=> AddPending
  BY <1>1, <1>2, ThreadFacts DEF AddPending
<1>4. AddedOnce'
  BY <1>1, <1>2, <1>3 DEF WatchInv, AddedOnce
<1>5. WatchFollows'
  BY <1>1 DEF WatchFollows
<1> QED
  BY <1>4, <1>5 DEF WatchInv

\* addTask: what its thread was about to add is now in the queue.
LEMMA AddTaskKeeps ==
  ASSUME TypeOK, WatchInv, NEW t \in Threads, AddTask(t)
  PROVE  WatchInv'
<1> DEFINE task == at[t]
<1>1. task \in TaskTypes /\ queue \in Seq(TaskTypes) /\ queue' = Append(queue, task)
  BY DEF AddTask, Push, TypeOK
<1>2. /\ at'[t] \in {"nested", "wake"}
      /\ \A u \in Threads : u # t => at'[u] = at[u]
      /\ UNCHANGED <<events, watch, mapped, alive>>
  BY DEF AddTask, Push, Goto, loops, TypeOK
<1> HIDE DEF task
<1>3. /\ DOMAIN queue' = DOMAIN queue \cup {Len(queue) + 1}
      /\ DOMAIN queue = 1..Len(queue)
      /\ Len(queue) \in Nat
      /\ queue'[Len(queue) + 1] = task
      /\ \A i \in DOMAIN queue : queue'[i] = queue[i]
  BY <1>1, PushFacts
<1>4. task = "ADD" => t = "main" /\ \A i \in DOMAIN queue : queue[i] # "ADD"
  BY DEF WatchInv, AddedOnce, task
<1>5. AddedOnce'
  <2>1. AddPending' => AddPending
    BY <1>2, <1>3, <1>4, ThreadFacts DEF AddPending, task
  <2>2. \A u \in Threads : at'[u] = "ADD" =>
          u = "main" /\ task # "ADD" /\ \A i \in DOMAIN queue : queue[i] # "ADD"
    BY <1>2, <1>4 DEF WatchInv, AddedOnce
  <2>3. \A u \in Threads : at'[u] = "ADD" =>
          u = "main" /\ \A i \in DOMAIN queue' : queue'[i] # "ADD"
    BY <1>3, <2>2
  <2>4. \A i, j \in DOMAIN queue' : queue'[i] = "ADD" /\ queue'[j] = "ADD" => i = j
    BY <1>3, <1>4 DEF WatchInv, AddedOnce
  <2> QED
    BY <1>2, <2>1, <2>3, <2>4 DEF WatchInv, AddedOnce
<1>6. WatchFollows'
  <2> SUFFICES ASSUME watch # events, watch # "None"
               PROVE  \/ \E u \in Threads : at'[u] = "MODIFY"
                      \/ \E i \in DOMAIN queue' : queue'[i] = "MODIFY"
    BY <1>2 DEF WatchFollows
  <2>1. CASE task = "MODIFY"
    BY <1>3, <2>1
  <2>2. CASE \E u \in Threads : u # t /\ at[u] = "MODIFY"
    BY <1>2, <2>2
  <2>3. CASE \E i \in DOMAIN queue : queue[i] = "MODIFY"
    BY <1>3, <2>3
  <2> QED
    BY <2>1, <2>2, <2>3 DEF WatchInv, WatchFollows, task
<1> QED
  BY <1>5, <1>6 DEF WatchInv

\* processTaskQ: the task that leaves the queue has done its work.
LEMMA TaskKeeps ==
  ASSUME TypeOK, WatchInv, ProcessTask
  PROVE  WatchInv'
<1>1. /\ queue # <<>> /\ queue' = Tail(queue)
      /\ UNCHANGED <<at, events>>
      /\ \/ Head(queue) = "ADD" /\ Add
         \/ Head(queue) = "MODIFY" /\ Modify
         \/ Head(queue) = "DELETE" /\ Remove
  BY TaskFacts
<1>2. queue \in Seq(TaskTypes)
  BY DEF TypeOK
<1>3. /\ Head(queue) = queue[1] /\ 1 \in DOMAIN queue
      /\ \A i \in DOMAIN queue' : i \in Int /\ i >= 1 /\ i + 1 \in DOMAIN queue
                                 /\ queue'[i] = queue[i + 1]
      /\ \A i \in DOMAIN queue : i # 1 => \E j \in DOMAIN queue' : queue'[j] = queue[i]
  <2>1. \A i \in DOMAIN Tail(queue) : i \in Int /\ i >= 1
    BY <1>1, <1>2, PopFacts, LenProperties
  <2> QED
    BY <1>1, <1>2, <2>1, PopFacts
<1>4. AddPending' => AddPending
  BY <1>1, <1>3 DEF AddPending
<1>5. queue[1] = "ADD" => ~AddPending'
  BY <1>1, <1>3, ThreadFacts DEF WatchInv, AddedOnce, AddPending
<1>6. /\ \A t \in Threads : at'[t] = "ADD" =>
           t = "main" /\ \A i \in DOMAIN queue' : queue'[i] # "ADD"
      /\ \A i, j \in DOMAIN queue' : queue'[i] = "ADD" /\ queue'[j] = "ADD" => i = j
  BY <1>1, <1>3 DEF WatchInv, AddedOnce
<1>7. /\ AddPending' => alive' /\ ~mapped' /\ watch' = "None"
      /\ watch' # "None" => mapped' /\ alive'
  <2>1. CASE Head(queue) = "ADD" /\ Add
    <3>1. alive /\ ~mapped /\ watch = "None"
      BY <1>3, <2>1 DEF WatchInv, AddedOnce, AddPending
    <3> QED
      BY <1>3, <1>5, <2>1, <3>1 DEF Add
  <2>2. CASE Modify
    BY <1>4, <2>2 DEF Modify, WatchInv, AddedOnce
  <2>3. CASE Remove
    BY <1>4, <2>3 DEF Remove, Destroy, WatchInv, AddedOnce
  <2> QED
    BY <1>1, <2>1, <2>2, <2>3
<1>8. WatchFollows'
  <2>1. CASE Head(queue) = "ADD" /\ Add
    <3>1. ~mapped
      BY <1>3, <2>1 DEF WatchInv, AddedOnce, AddPending
    <3> QED
      BY <1>1, <2>1, <3>1 DEF Add, WatchFollows
  <2>2. CASE Modify
    <3>1. watch' = events \/ watch' = "None"
      BY <2>2 DEF Modify, WatchInv, AddedOnce
    <3> QED
      BY <1>1, <3>1 DEF WatchFollows
  <2>3. CASE Head(queue) = "DELETE" /\ Remove
    <3>1. watch' \in {watch, "None"}
      BY <2>3 DEF Remove
    <3>2. \A i \in DOMAIN queue : queue[i] = "MODIFY" =>
            \E j \in DOMAIN queue' : queue'[j] = "MODIFY"
      BY <1>3, <2>3
    <3> QED
      BY <1>1, <3>1, <3>2 DEF WatchInv, WatchFollows
  <2> QED
    BY <1>1, <2>1, <2>2, <2>3
<1> QED
  BY <1>6, <1>7, <1>8 DEF WatchInv, AddedOnce

\* UseDeleted: a change that nobody tells epoll of concerns a connection that is not
\* watched.
LEMMA DeletedKeeps ==
  ASSUME TypeOK, WatchInv, NEW t \in Partners, UseDeleted(t)
  PROVE  WatchInv'
<1>1. /\ at'[t] = "idle"
      /\ \A u \in Threads : u # t => at'[u] = at[u]
      /\ UNCHANGED <<queue, events, watch, mapped, alive>>
      /\ ~alive
  BY ThreadFacts DEF UseDeleted, Goto, shared, loops, TypeOK
<1>2. t \in Threads /\ at[t] # "ADD"
  BY ThreadFacts DEF UseDeleted
<1>3. AddPending' <=> AddPending
  BY <1>1, ThreadFacts DEF AddPending
<1>4. AddedOnce'
  BY <1>1, <1>2, <1>3 DEF WatchInv, AddedOnce
<1>5. watch = "None"
  BY <1>1 DEF WatchInv, AddedOnce
<1>6. WatchFollows'
  BY <1>1, <1>5 DEF WatchFollows
<1> QED
  BY <1>4, <1>6 DEF WatchInv

\* The other steps of the loop.
LEMMA LoopAside ==
  ASSUME TypeOK, \/ Wait \/ ReadMessage \/ ProcessRead \/ ProcessWrite
                 \/ CheckSent \/ TasksDone \/ Dispatched
  PROVE  Aside
<1>0. "loop" \in Threads /\ at \in [Threads -> Places]
  BY ThreadFacts DEF TypeOK
<1>1. UNCHANGED <<queue, events, watch, mapped, alive>>
  BY DEF Wait, ReadMessage, ProcessRead, ProcessWrite, CheckSent, TasksDone, Dispatched,
         Activate, shared, loops
<1>2. at["loop"] \in {"wait", "dispatch", "sent", "nested", "tasks"}
  BY DEF Wait, ReadMessage, ProcessRead, ProcessWrite, CheckSent, TasksDone, Dispatched,
         Activate
<1>3. at' = at \/ \E place \in Places \ {"ADD"} : Goto("loop", place)
  <2>1. CASE ProcessRead
    <3>1. \A k \in Kinds : Parse(k) =>
            at' = at \/ \E place \in Places \ {"ADD"} : Goto("loop", place)
      BY DEF Parse, Kinds, Places, TaskTypes
    <3> QED
      BY <2>1, <3>1, RequestRead DEF ProcessRead, Places, TaskTypes
  <2>2. CASE \/ Wait \/ ReadMessage \/ ProcessWrite
             \/ CheckSent \/ TasksDone \/ Dispatched
    BY <2>2 DEF Wait, ReadMessage, ProcessWrite, CheckSent, TasksDone, Dispatched, Places
  <2> QED
    BY <2>1, <2>2
<1> QED
  BY <1>0, <1>1, <1>2, <1>3 DEF Aside, Goto

LEMMA InitWatch == Init => WatchInv
BY ThreadFacts DEF Init, WatchInv, AddedOnce, AddPending, WatchFollows

LEMMA NextWatch == TypeOK /\ WatchInv /\ [Next]_vars => WatchInv'
<1> SUFFICES ASSUME TypeOK, WatchInv, [Next]_vars PROVE WatchInv'
  OBVIOUS
<1>0. at \in [Threads -> Places]
  BY DEF TypeOK
<1>1. CASE UNCHANGED vars \/ Request \/ Disconnect
  <2>1. Aside
    BY <1>1 DEF vars, shared, loops, Request, Disconnect, Aside
  <2> QED
    BY <2>1, AsideKeeps
<1>2. ASSUME NEW t \in Threads, AddTask(t) \/ TaskWakeup(t) \/ MarkWrite(t)
      PROVE  WatchInv'
  <2>1. CASE TaskWakeup(t)
    <3>1. Aside
      BY <1>0, <2>1 DEF TaskWakeup, Goto, loops, Aside
    <3> QED
      BY <3>1, AsideKeeps
  <2> QED
    BY <1>2, <2>1, AddTaskKeeps, EventKeeps DEF MarkWrite
<1>3. CASE LoopStep
  BY <1>2, <1>3, ThreadFacts, LoopAside, AsideKeeps, EventKeeps, TaskKeeps
  DEF LoopStep, StopWriting
<1>4. CASE MainStep
  BY <1>2, <1>4, ThreadFacts DEF MainStep
<1>5. ASSUME NEW t \in Partners, PartnerStep(t)
      PROVE  WatchInv'
  <2>1. CASE Relay(t)
    <3>1. Aside
      BY <1>0, <2>1, ThreadFacts DEF Relay, Goto, shared, loops, Aside
    <3> QED
      BY <3>1, AsideKeeps
  <2> QED
    BY <1>2, <1>5, <2>1, ThreadFacts, DeletedKeeps DEF PartnerStep
<1> QED
  BY <1>1, <1>3, <1>4, <1>5 DEF Next

\* Whichever threads change the events of the connection, in whatever order their
\* tasks run: epoll watches what the channel says, or will be told.
THEOREM NoChangeLost == Spec => []WatchFollows
<1>1. WatchInv => WatchFollows
  BY DEF WatchInv
<1> QED
  BY ReactorTypes, InitWatch, NextWatch, <1>1, PTL DEF Spec

=============================================================================

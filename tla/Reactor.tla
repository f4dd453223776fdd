-------------------------------- MODULE Reactor --------------------------------
(***************************************************************************)
(* One connection of the server (tcp/tcpConnection.cpp) and the event loop *)
(* of the worker thread that owns it (reactor/eventLoop.cpp and the epoll  *)
(* dispatcher), with the threads that reach into it: the main thread that  *)
(* accepted the connection, and the workers of other players, which relay  *)
(* through the callback registered in RoomList (addWriteTask).             *)
(*                                                                         *)
(* Threads interleave between the steps that change what another can see:  *)
(* the buffer, the channel's events, the locked task queue, the socket     *)
(* pair.  Requests and replies are whole packages.                         *)
(***************************************************************************)
EXTENDS Naturals, Sequences

CONSTANTS
  Partners,     \* the workers that relay to this connection
  MaxRelays,    \* bounds: what they relay,
  MaxRequests   \* and what the client sends

ASSUME ReactorAssumption ==
  /\ Partners \cap {"main", "loop"} = {}
  /\ MaxRelays \in Nat
  /\ MaxRequests \in Nat

Threads == Partners \cup {"main", "loop"}

VARIABLES
  at,        \* what each thread does next
  queue,     \* EventLoop::m_taskQ
  wake,      \* bytes wait in the socket pair
  ready,     \* events epoll_wait has returned and the loop has not handled
  events,    \* Channel::m_events
  watch,     \* what epoll watches the connection for
  mapped,    \* its descriptor is in EventLoop::m_channelMap
  alive,     \* its TcpConnection exists
  inbox,     \* requests in the kernel's receive buffer
  readBuf,   \* TcpConnection::m_readBuf
  writeBuf,  \* TcpConnection::m_writeBuf, packages not yet sent
  waiting,   \* replies the client waits for
  listed,    \* the callback is registered, and others may relay to it
  relays,    \* packages relayed so far
  asked,     \* requests sent so far
  peer,      \* the client's side of the connection
  server     \* the process

shared == <<queue, wake, events>>
loops  == <<ready, watch, mapped, alive, readBuf>>
client == <<inbox, waiting, asked, peer>>
vars == <<at, shared, loops, client, writeBuf, listed, relays, server>>

TaskTypes == {"ADD", "DELETE", "MODIFY"}

\* Ask stands for the requests that are answered on the connection they come
\* from, and may list its callback, Tell for those that are not (bids and hands,
\* GameOver, Continue, LeaveRoom), Bye for Goodbye.
Kinds == {"Ask", "Tell", "Bye"}

\* idle: in another connection's business; mark: has appended a package; a task
\* type: is about to add that task; wake: has added it. The loop's own: in
\* epoll_wait, at the next ready event, after send, after sending all, in
\* processTaskQ called by addTask or by run.
Places == {"idle", "mark", "wake"} \cup TaskTypes
          \cup {"wait", "dispatch", "sent", "empty", "nested", "tasks"}

TypeOK ==
  /\ at \in [Threads -> Places]
  /\ queue \in Seq(TaskTypes)
  /\ wake \in BOOLEAN
  /\ ready \subseteq {"wake", "Read", "Write"}
  /\ events \in {"Read", "Write"}
  /\ watch \in {"None", "Read", "Write"}
  /\ mapped \in BOOLEAN
  /\ alive \in BOOLEAN
  /\ inbox \in Seq(Kinds)
  /\ readBuf \in Seq(Kinds)
  /\ writeBuf \in Nat
  /\ waiting \in Nat
  /\ listed \in BOOLEAN
  /\ relays \in Nat
  /\ asked \in Nat
  /\ peer \in {"open", "closed", "reset"}
  /\ server \in {"up", "down"}

\* acceptConnection has constructed the connection, with the public key to send,
\* and is about to hand it to the worker.
Init ==
  /\ at = [t \in Threads |-> CASE t = "main" -> "ADD"
                               [] t = "loop" -> "wait"
                               [] OTHER -> "idle"]
  /\ queue = <<>>
  /\ wake = FALSE
  /\ ready = {}
  /\ events = "Write"
  /\ watch = "None"
  /\ mapped = FALSE
  /\ alive = TRUE
  /\ inbox = <<>>
  /\ readBuf = <<>>
  /\ writeBuf = 1
  /\ waiting = 0
  /\ listed = FALSE
  /\ relays = 0
  /\ asked = 0
  /\ peer = "open"
  /\ server = "up"

Goto(t, place) == at' = [at EXCEPT ![t] = place]

-----------------------------------------------------------------------------
(* The client *)

\* Any request may follow any other without an answer to it; none follows Goodbye.
Request ==
  /\ peer = "open"
  /\ asked < MaxRequests
  /\ \E k \in Kinds :
       /\ inbox' = Append(inbox, k)
       /\ waiting' = IF k = "Ask" THEN waiting + 1 ELSE waiting
       /\ asked' = IF k = "Bye" THEN MaxRequests ELSE asked + 1
  /\ UNCHANGED <<at, shared, loops, writeBuf, listed, relays, peer, server>>

\* The program ends, or the connection is reset, by the network or because data
\* is sent to a program that has ended.
Disconnect ==
  /\ \/ peer = "open" /\ peer' = "closed" /\ UNCHANGED inbox
     \/ peer # "reset" /\ peer' = "reset" /\ inbox' = <<>>
  /\ UNCHANGED <<at, shared, loops, writeBuf, listed, relays, waiting, asked, server>>

-----------------------------------------------------------------------------
(* addWriteTask and addTask, in any thread *)

\* Mistake: the loop is not woken.
PushQuietly(t, task) ==
  /\ queue' = Append(queue, task)
  /\ Goto(t, IF t = "loop" THEN "nested" ELSE "idle")

\* Under the lock. The loop's own thread then runs the tasks, others wake it.
Push(t, task) ==
  /\ queue' = Append(queue, task)
  /\ Goto(t, IF t = "loop" THEN "nested" ELSE "wake")

AddTask(t) ==
  /\ at[t] \in TaskTypes
  /\ t \in Partners => alive
  /\ Push(t, at[t])
  /\ UNCHANGED <<wake, events, loops, client, writeBuf, listed, relays, server>>

TaskWakeup(t) ==
  /\ at[t] = "wake"
  /\ wake' = TRUE
  /\ Goto(t, "idle")
  /\ UNCHANGED <<queue, events, loops, client, writeBuf, listed, relays, server>>

SetCurrentEvent(t, ev) ==
  /\ events' = ev
  /\ Goto(t, "MODIFY")
  /\ UNCHANGED <<queue, wake, loops, client, writeBuf, listed, relays, server>>

MarkWrite(t) ==
  /\ at[t] = "mark"
  /\ t \in Partners => alive
  /\ SetCurrentEvent(t, "Write")

\* A handler in another worker takes the callback from RoomList and calls it, long
\* after RoomList's lock is free again.
Relay(t) ==
  /\ at[t] = "idle"
  /\ alive
  /\ listed
  /\ relays < MaxRelays
  /\ writeBuf' = writeBuf + 1
  /\ relays' = relays + 1
  /\ Goto(t, "mark")
  /\ UNCHANGED <<shared, loops, client, listed, server>>

\* The callback is used after its connection was deleted: undefined, so the process
\* dies or nothing comes of it.
UseDeleted(t) ==
  /\ ~alive
  /\ \/ at[t] = "idle" /\ listed /\ relays < MaxRelays /\ relays' = relays + 1
     \/ at[t] \in {"mark", "MODIFY"} /\ UNCHANGED relays
  /\ server' \in {"up", "down"}
  /\ Goto(t, "idle")
  /\ UNCHANGED <<shared, loops, client, writeBuf, listed>>

PartnerStep(t) ==
  /\ server = "up"
  /\ Relay(t) \/ MarkWrite(t) \/ AddTask(t) \/ TaskWakeup(t) \/ UseDeleted(t)

MainStep ==
  /\ server = "up"
  /\ AddTask("main") \/ TaskWakeup("main")

-----------------------------------------------------------------------------
(* The loop *)

\* What epoll reports: the connection is watched for one kind of event at a time,
\* and an error on it is skipped (EPOLLERR, EPOLLHUP).
Reported ==
  { e \in {"wake", "Read", "Write"} :
      CASE e = "wake"  -> wake
        [] e = "Read"  -> watch = "Read" /\ peer # "reset" /\ (inbox # <<>> \/ peer = "closed")
        [] e = "Write" -> watch = "Write" /\ peer # "reset" }

\* epoll_wait returns, after two seconds with nothing.
Wait ==
  /\ at["loop"] = "wait"
  /\ ready' = Reported
  /\ Goto("loop", "dispatch")
  /\ UNCHANGED <<shared, watch, mapped, alive, readBuf, client, writeBuf, listed, relays, server>>

\* eventActivate takes the next event that is ready.
Activate(e) ==
  /\ at["loop"] = "dispatch"
  /\ e \in ready
  /\ ready' = ready \ {e}
  /\ UNCHANGED <<watch, mapped, alive>>

\* Bound: at most seven wakeups wait, which one read takes together.
ReadMessage ==
  /\ Activate("wake")
  /\ wake' = FALSE
  /\ UNCHANGED <<at, queue, events, readBuf, client, writeBuf, listed, relays, server>>

\* parseRequest: one request, whatever there is in the buffer; the answer is
\* appended, and sent by way of the task queue.
Parse(request) ==
  CASE request = "Ask" ->
         /\ writeBuf' = writeBuf + 1
         /\ listed' = TRUE
         /\ Goto("loop", "mark")
    [] request = "Tell" -> UNCHANGED <<at, writeBuf, listed>>
    [] request = "Bye" -> Goto("loop", "DELETE") /\ UNCHANGED <<writeBuf, listed>>

\* processRead: data, the end of the stream (nothing is done about it), or an
\* error.
ProcessRead ==
  /\ Activate("Read")
  /\ \/ /\ inbox # <<>>
        /\ inbox' = <<>>
        /\ readBuf' = Tail(readBuf \o inbox)
        /\ Parse(Head(readBuf \o inbox))
     \/ /\ inbox = <<>> /\ peer # "reset"
        /\ UNCHANGED <<at, inbox, readBuf, writeBuf, listed>>
     \/ /\ peer = "reset"
        /\ Goto("loop", "DELETE")
        /\ UNCHANGED <<inbox, readBuf, writeBuf, listed>>
  /\ UNCHANGED <<shared, waiting, asked, relays, peer, server>>

\* Mistake: more than there is to read.
SendDataAndMore == 1..(writeBuf + 1)

\* How many packages send may take; SIGPIPE is ignored (main.cpp).
SendData == 1..writeBuf

\* processWrite up to send, which takes some of the packages or fails; they reach
\* the client at once.
ProcessWrite ==
  /\ Activate("Write")
  /\ \/ \E n \in SendData :
          /\ peer # "reset"
          /\ writeBuf' = writeBuf - n
          /\ waiting' = IF writeBuf' = 0 THEN 0 ELSE waiting
          /\ Goto("loop", "sent")
     \/ /\ writeBuf = 0 \/ peer = "reset"
        /\ UNCHANGED <<at, writeBuf, waiting>>
  /\ UNCHANGED <<shared, readBuf, inbox, asked, peer, listed, relays, server>>

\* The rest of processWrite: was everything sent? Then no longer watch for writing.
CheckSent ==
  /\ at["loop"] = "sent"
  /\ Goto("loop", IF writeBuf = 0 THEN "empty" ELSE "dispatch")
  /\ UNCHANGED <<shared, loops, client, writeBuf, listed, relays, server>>

\* Mistake: no task follows, so epoll is not told.
StopWritingQuietly ==
  /\ at["loop"] = "empty"
  /\ events' = "Read"
  /\ Goto("loop", "dispatch")
  /\ UNCHANGED <<queue, wake, loops, client, writeBuf, listed, relays, server>>

StopWriting ==
  /\ at["loop"] = "empty"
  /\ SetCurrentEvent("loop", "Read")

\* The next round of processTaskQ, or its end.
Add ==
  /\ mapped' = TRUE
  /\ watch' = IF mapped THEN watch ELSE events
  /\ UNCHANGED <<alive, server>>

\* epoll_ctl fails for a descriptor that is in the map and no longer watched (it
\* was left there with unread or unsent data): the server exits. A descriptor
\* that is not in the map belongs to a channel that was freed.
Modify ==
  \/ /\ mapped /\ watch # "None"
     /\ watch' = events
     /\ UNCHANGED <<mapped, alive, server>>
  \/ /\ mapped /\ watch = "None"
     /\ server' = "down"
     /\ UNCHANGED <<watch, mapped, alive>>
  \/ /\ ~mapped
     /\ server' \in (IF alive THEN {"up"} ELSE {"up", "down"})
     /\ UNCHANGED <<watch, mapped, alive>>

\* The connection frees its channel only if both buffers are empty.
Destroy ==
  /\ alive' = FALSE
  /\ mapped' = (readBuf # <<>> \/ writeBuf > 0)

\* The dispatcher removes the descriptor and destroys the connection.
Remove ==
  \/ /\ mapped /\ watch # "None"
     /\ watch' = "None"
     /\ Destroy
     /\ UNCHANGED server
  \/ /\ ~(mapped /\ watch # "None")
     /\ server' \in (IF alive THEN {"up"} ELSE {"up", "down"})
     /\ UNCHANGED <<watch, mapped, alive>>

ProcessTask ==
  /\ at["loop"] \in {"nested", "tasks"}
  /\ queue # <<>>
  /\ queue' = Tail(queue)
  /\ CASE Head(queue) = "ADD" -> Add
       [] Head(queue) = "MODIFY" -> Modify
       [] Head(queue) = "DELETE" -> Remove
  /\ UNCHANGED <<at, wake, events, ready, readBuf, client, writeBuf, listed, relays>>

TasksDone ==
  /\ at["loop"] \in {"nested", "tasks"}
  /\ queue = <<>>
  /\ Goto("loop", IF at["loop"] = "nested" THEN "dispatch" ELSE "wait")
  /\ UNCHANGED <<shared, loops, client, writeBuf, listed, relays, server>>

\* Mistake: tasks are only run by the thread that adds them.
DispatchedAndNoMore ==
  /\ at["loop"] = "dispatch"
  /\ ready = {}
  /\ Goto("loop", "wait")
  /\ UNCHANGED <<shared, loops, client, writeBuf, listed, relays, server>>

Dispatched ==
  /\ at["loop"] = "dispatch"
  /\ ready = {}
  /\ Goto("loop", "tasks")
  /\ UNCHANGED <<shared, loops, client, writeBuf, listed, relays, server>>

LoopStep ==
  /\ server = "up"
  /\ \/ Wait \/ ReadMessage \/ ProcessRead \/ ProcessWrite
     \/ CheckSent \/ StopWriting \/ MarkWrite("loop") \/ AddTask("loop")
     \/ ProcessTask \/ TasksDone \/ Dispatched

Next ==
  \/ Request
  \/ Disconnect
  \/ MainStep
  \/ LoopStep
  \/ \E t \in Partners : PartnerStep(t)

Spec == Init /\ [][Next]_vars

\* Threads go on running; a worker goes on with a relay it has begun.
FairSpec ==
  /\ Spec
  /\ WF_vars(LoopStep)
  /\ WF_vars(MainStep)
  /\ \A t \in Partners : WF_vars(at[t] # "idle" /\ PartnerStep(t))

-----------------------------------------------------------------------------
(* Properties *)

\* The loop never sleeps over a task: one that was added while it is in epoll_wait
\* has left bytes in the socket pair or its thread is about to (addTask,
\* taskWakeup, readMessage).
TasksNoticed ==
  at["loop"] = "wait" /\ queue # <<>> => (wake \/ \E t \in Threads : at[t] = "wake")

\* What epoll watches differs from what the channel says only while a thread that
\* changed it is on the way to tell: no change of the events is lost, whichever
\* threads change them and in whatever order their tasks run (setCurrentEvent,
\* addTask, modify).
WatchFollows ==
  watch # events /\ watch # "None" =>
    \/ \E t \in Threads : at[t] = "MODIFY"
    \/ \E i \in DOMAIN queue : queue[i] = "MODIFY"

\* Every task is run in the end (run, processTaskQ).
TasksRun == queue # <<>> ~> queue = <<>> \/ server = "down"

\* Nobody relays, and the client sends one request at a time.
Undisturbed ==
  relays = 0 /\ Len(inbox) + Len(readBuf) <= 1 /\ peer = "open" /\ server = "up"

\* Left alone, the client gets its answers: the connection goes back and forth
\* between reading and writing (processRead, addWriteTask, processWrite).
Answered == []Undisturbed => (waiting > 0 ~> waiting = 0)

-----------------------------------------------------------------------------
(* What the repository says of the code and the code does not do *)

\* Nothing is on its way.
Quiet ==
  /\ at["loop"] = "wait" /\ queue = <<>>
  /\ \A t \in Partners \cup {"main"} : at[t] = "idle"

\* tcpConnection.cpp:68, "judge whether all the data has been sent", and then stop
\* watching for writing: a connection at rest is watched for writing if and only
\* if it has something to send.
WatchFitsBuffer ==
  Quiet /\ watch # "None" /\ server = "up" => (watch = "Write" <=> writeBuf > 0)
=============================================================================

--------------------------------- MODULE Moves ---------------------------------
(* What the clients of a room promise each other: one sequence of moves, which  *)
(* every client sees in its order and, while the room is intact, to its end.    *)
(* Who moves has seen every move before.                                        *)
EXTENDS Integers, Sequences

CONSTANTS Clients, Move

VARIABLES
  log,    \* the moves made
  seen,   \* the moves each client has seen
  broken  \* moves need not arrive any more

vars == << log, seen, broken >>

Init ==
  /\ log = << >>
  /\ seen = [c \in Clients |-> << >>]
  /\ broken = FALSE

Make(c) ==
  /\ seen[c] = log
  /\ log' \in Seq(Move)
  /\ Len(log') = Len(log) + 1
  /\ SubSeq(log', 1, Len(log)) = log
  /\ log'[Len(log')].by = c
  /\ seen' = [seen EXCEPT ![c] = log']
  /\ UNCHANGED broken

See(c) ==
  /\ Len(seen[c]) < Len(log)
  /\ seen' = [seen EXCEPT ![c] = Append(@, log[Len(@) + 1])]
  /\ UNCHANGED << log, broken >>

Break == broken' = TRUE /\ UNCHANGED << log, seen >>

Next == Break \/ \E c \in Clients : Make(c) \/ See(c)

Safety == Init /\ [][Next]_vars

Spec == Safety /\ \A c \in Clients : WF_vars(~broken /\ See(c))
=============================================================================

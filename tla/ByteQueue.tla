------------------------------- MODULE ByteQueue -------------------------------
(* What one direction of a connection promises, byte by byte: bytes are put at  *)
(* the end, read from the front, and the reader uses what it has read.          *)
EXTENDS Integers, Sequences

CONSTANT Byte

VARIABLES
  queue,  \* the bytes on the way
  held    \* the bytes read and not used yet

Init == queue \in Seq(Byte) /\ held = << >>

\* What was in the queue stays in front.
Put ==
  /\ queue' \in Seq(Byte)
  /\ Len(queue) <= Len(queue')
  /\ SubSeq(queue', 1, Len(queue)) = queue
  /\ UNCHANGED held

Take ==
  \E n \in 1..Len(queue) :
     /\ held' = held \o SubSeq(queue, 1, n)
     /\ queue' = SubSeq(queue, n + 1, Len(queue))

Use == held' = << >> /\ UNCHANGED queue

Next == Put \/ Take \/ Use

Spec == Init /\ [][Next]_<<queue, held>>
=============================================================================

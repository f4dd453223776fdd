--------------------------------- MODULE Link ---------------------------------
(* What one direction of a connection promises, package by package: packages    *)
(* are received whole and in the order they were sent, and all of them are      *)
(* received in the end, unless the connection is cut, which loses the last.     *)
EXTENDS Integers, Sequences

CONSTANT Packages

VARIABLES
  sent,      \* the packages on the way
  received,  \* the packages received
  open       \* the connection is not cut

vars == << sent, received, open >>

Init == sent \in Seq(Packages) /\ received = << >> /\ open = TRUE

Send ==
  /\ open
  /\ \E p \in Packages : sent' = Append(sent, p)
  /\ UNCHANGED << received, open >>

Receive ==
  /\ sent # << >>
  /\ received' = Append(received, Head(sent))
  /\ sent' = Tail(sent)
  /\ UNCHANGED open

Cut ==
  /\ open
  /\ open' = FALSE
  /\ \E n \in 0..Len(sent) : sent' = SubSeq(sent, 1, n)
  /\ UNCHANGED received

Next == Send \/ Receive \/ Cut

Safety == Init /\ [][Next]_vars

Spec == Safety /\ WF_vars(Receive)
=============================================================================

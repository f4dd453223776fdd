------------------------------- MODULE MCNetGame -------------------------------
(* NetGame for TLC: the smallest deck, one card a player and three for the     *)
(* lord; all clients have the same worker.                                     *)
EXTENDS NetGame

MCDeck == [point : {1}, suit : 1..4] \cup [point : Jokers, suit : {0}]

Threes == [i \in 1..4 |-> [point |-> 1, suit |-> i]]

\* A joker and two threes are dealt; a joker and two threes are the lord's.
MCDealt == << [point |-> Card_SJ, suit |-> 0], Threes[1], Threes[2],
              [point |-> Card_BJ, suit |-> 0], Threes[3], Threes[4] >>

\* Every set of cards has a judgement (TLC tabulates Judge while checking this).
ASSUME EverySetIsJudged ==
  Judge \in [SUBSET Deck -> [type : Types, point : 0..15, extra : 0..12]]

\* DealtOut is one DealOne after the other, whoever comes first.
ASSUME DealtOneByOne ==
  \A p \in Seats :
    LET t == Dispatch(NewTable(p))
    IN  DealtOut(t) = Seqs!FoldLeft(DealOne, t, SubSeq(Dealt, 1, Len(Dealt) - Surplus))

MCWorkerOf == << 1, 1, 1 >>
MCByName == << 2, 1, 3 >>
=============================================================================

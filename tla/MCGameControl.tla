----------------------------- MODULE MCGameControl -----------------------------
(* GameControl for TLC: a deck of the smallest size, one card a player and    *)
(* three for the lord, with a bomb and both jokers; the suits of the threes   *)
(* are interchangeable.                                                       *)
EXTENDS GameControl, TLC

CONSTANTS Suits, NoSuit

MCDeck ==
  [point : {1}, suit : Suits] \cup [point : Jokers, suit : {NoSuit}]

\* Every set of cards has a judgement (TLC tabulates Judge while checking this).
ASSUME EverySetIsJudged ==
  Judge \in [SUBSET Deck -> [type : Types, point : 0..15, extra : 0..12]]

Symmetry == Permutations(Suits)
=============================================================================

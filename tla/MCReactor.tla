------------------------------ MODULE MCReactor ------------------------------
(* Reactor for TLC: the workers that relay are interchangeable.               *)
EXTENDS Reactor, TLC

Symmetry == Permutations(Partners)
=============================================================================

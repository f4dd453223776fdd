------------------------------ MODULE MCWorkers ------------------------------
(* Workers for TLC: four players who only ask for any room, over two workers. *)
EXTENDS Workers, TLC

CONSTANTS u1, u2, u3, u4

MCWorkerOf == (u1 :> 1) @@ (u2 :> 1) @@ (u3 :> 1) @@ (u4 :> 2)

Symmetry == Permutations(DrawnRooms)
=============================================================================

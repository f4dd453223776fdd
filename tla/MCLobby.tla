------------------------------- MODULE MCLobby -------------------------------
(* Lobby for TLC: players are interchangeable, and so are the names drawn that *)
(* players type, and those they do not.                                        *)
EXTENDS Lobby, TLC

Symmetry == Permutations(Users) \cup Permutations(DrawnRooms \ TypedRooms)
                                \cup Permutations(DrawnRooms \cap TypedRooms)
=============================================================================

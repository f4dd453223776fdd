-------------------------------- MODULE MCWire --------------------------------
(* Wire for TLC: packages of two sizes, and memory for less than two of them.  *)
EXTENDS Wire

MCRequests == { <<1>>, <<2, 2>> }
MCAnswers  == { <<2>>, <<0, 1>> }
MCKey      == <<2>>
=============================================================================

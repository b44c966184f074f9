----------------------------- MODULE MCPairing ------------------------------
(* Three latitudes, of which the lowest is the nearest to where the mean   *)
(* of an empty cluster goes.                                               *)
EXTENDS Pairing

MCLatitudes  == {60, 180, 420}
MCWrongLoads == {-1, 0, 1}
=============================================================================

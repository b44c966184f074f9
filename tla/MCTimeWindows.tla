--------------------------- MODULE MCTimeWindows ----------------------------
(* Two requests that may be exchanged: nothing tells them apart.           *)
EXTENDS TimeWindows, TLC

Perms == Permutations(Request)
=============================================================================

-------------------------- MODULE MCTriangleRepair --------------------------
(* Two lengths of which one detour is shorter and a long one is not, none  *)
(* of them whole minutes, and two pairs that may be answered with less     *)
(* than nothing.                                                           *)
EXTENDS TriangleRepair

MCSeconds ==
  [p \in Pairs |-> {61, 481} \cup (IF p \in {<<0, 1>>, <<3, 2>>} THEN {-60} ELSE {})]
=============================================================================

---------------------------- MODULE MCOrderNodes ----------------------------
(***************************************************************************)
(* order_nodes on small instances, with a matrix whose entries off the     *)
(* diagonal are all different: a travel time names the two locations it    *)
(* was measured between.                                                   *)
(***************************************************************************)
EXTENDS OrderNodes

MCSize   == 2 * Requests + 1
MCRouted ==
  [i \in 0 .. MCSize - 1 |-> [j \in 0 .. MCSize - 1 |-> IF i = j THEN 0 ELSE i * MCSize + j]]
=============================================================================

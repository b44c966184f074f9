------------------------------ MODULE Matching ------------------------------
(***************************************************************************)
(* What pairing the nodes of an instance promises: couples of two          *)
(* different nodes are formed one after the other, no node is in two of    *)
(* them, and no couple is ever dissolved.  How the partners are chosen is  *)
(* left open.                                                              *)
(***************************************************************************)
CONSTANT Everyone

VARIABLE couples

Single == Everyone \ UNION couples

Init == couples = {}

Match(a, b) ==
  /\ a # b
  /\ couples' = couples \cup {{a, b}}

Next == \E a, b \in Single : Match(a, b)

Spec == Init /\ [][Next]_couples
=============================================================================

---------------------------- MODULE Renumbering ----------------------------
(***************************************************************************)
(* What OVIG promises of order_nodes, without saying how: the nodes of a   *)
(* PDPTW instance are renumbered once, so that the pickup of request i is  *)
(* node i and its delivery is node Requests + i, and the travel time       *)
(* between two locations does not depend on the numbers they are given.    *)
(*                                                                         *)
(* A location is named by the index its node had before the renumbering.   *)
(***************************************************************************)
EXTENDS Integers

CONSTANTS
  Requests,   \* number of pickup-delivery requests
  Routed      \* travel times between locations, as the router computed them

Size      == 2 * Requests + 1
Node      == 0 .. Size - 1
Customers == 1 .. Size - 1

VARIABLES
  at,       \* at[i] is the location that node i of the instance stands for
  times,    \* times[i][j] is the travel time from node i to node j
  mate,     \* mate[a] is the other end of the request that visits location a
  loaded,   \* the locations where something is picked up
  status    \* "given", "ordered" or "fault"

vars == <<at, times, mate, loaded, status>>

Init ==
  /\ status = "given"
  /\ at = [i \in Node |-> i]
  /\ times = Routed
  /\ loaded \subseteq Customers
  /\ mate \in [Customers -> Customers]
  /\ \A a \in Customers : mate[mate[a]] = a /\ mate[a] # a

(***************************************************************************)
(* The pickups take the numbers 1 .. Requests in the order in which they   *)
(* stood, and every delivery the number of its pickup plus Requests.       *)
(***************************************************************************)
Renumbered(new) ==
  /\ new \in [Node -> Node]
  /\ new[0] = 0
  /\ \A i, j \in Node : new[i] = new[j] => i = j
  /\ \A i \in 1 .. Requests : new[i] \in loaded /\ new[Requests + i] = mate[new[i]]
  /\ \A i, j \in 1 .. Requests : i < j => new[i] < new[j]

Renumber ==
  /\ status = "given"
  /\ Renumbered(at')
  /\ times' = [i \in Node |-> [j \in Node |-> Routed[at'[i]][at'[j]]]]
  /\ status' = "ordered"
  /\ UNCHANGED <<mate, loaded>>

(* There is nothing to number, or some request does not say which of its   *)
(* ends is the pickup.                                                     *)
Fail ==
  /\ status = "given"
  /\ Requests = 0 \/ \E a \in Customers : a \in loaded <=> mate[a] \in loaded
  /\ status' = "fault"
  /\ UNCHANGED <<at, times, mate, loaded>>

Next == Renumber \/ Fail

Spec == Init /\ [][Next]_vars
=============================================================================

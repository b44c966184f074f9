--------------------------- MODULE CompleteNodes ----------------------------
(***************************************************************************)
(* Instances of complete nodes from the selection to the file:             *)
(* Distributer::select_nodes (SelectNodes), the travel times of the        *)
(* router, and PDPTW::build (FullTimeWindows), as InstanceCreator::create  *)
(* calls them (src/src/instance_creator.cpp).  SelectNodes reckons with    *)
(* distances at a fixed speed and in half minutes, the builder with the    *)
(* times of the road, in tenths of a minute.                               *)
(***************************************************************************)
EXTENDS SelectNodes

CONSTANTS
  Roads,     \* what the router may measure for a request: its trip and the direct way
  Services   \* values of con.service_time

VARIABLES stage, req, tw, stw, trip, direct, win   \* of FullTimeWindows

building == <<stage, req, tw, stw, trip, direct, win>>
all      == <<vars, building>>

HalfMinute == 5

B == INSTANCE FullTimeWindows WITH
       pc <- stage, Horizon <- HalfMinute * Horizon, Requests <- Requests,
       Legs <- {}, Center <- {}, TimeWindow <- {}, ServiceTime <- Services

(* The router rounds to whole minutes (src/src/router.cpp:72); ROUTE-TIME  *)
(* and SERVICE-TIME are whole minutes, in configurations.hpp.              *)
ASSUME MinutesAssumption ==
  /\ (HalfMinute * Horizon) % B!Minute = 0
  /\ Roads \subseteq [out : Nat, ride : Nat, back : Nat, direct : Nat]
  /\ \A w \in Roads : \A leg \in DOMAIN w : w[leg] % B!Minute = 0
  /\ \A s \in Services : s \in Nat /\ s % B!Minute = 0

CompleteInit ==
  /\ Init
  /\ stage = "none" /\ req = 1
  /\ tw = 0 /\ stw = 0
  /\ trip = << >> /\ direct = << >> /\ win = << >>

(***************************************************************************)
(* The locations are routed and the nodes handed to the builder, request r *)
(* at the indices 2r - 1 and 2r of the vector.  The times of the road are  *)
(* any: they need neither agree with the estimates nor with one another.   *)
(* With no request at all order_nodes reads past its vectors, whatever     *)
(* comes of it (src/src/pdptw_builder.cpp:432-434).                        *)
(***************************************************************************)
HandOver ==
  /\ pc = "done" /\ stage = "none"
  /\ LET request == 1 .. Len(selected) \div 2
         p(r) == selected[2 * r - 1].node
         d(r) == selected[2 * r].node IN
     /\ \E road \in [request -> Roads] :
          /\ trip' = [r \in request |->
                       [out |-> road[r].out, ride |-> road[r].ride, back |-> road[r].back]]
          /\ direct' = [r \in request |-> road[r].direct]
     /\ win' = [r \in request |->
                 LET c == HalfMinute * etw[p(r)]
                     e == HalfMinute * etw[d(r)]
                 IN [pe |-> c, pl |-> c, de |-> e, dl |-> e]]
     /\ stage' \in IF request = {} THEN {"check", "fault"} ELSE {"pickup"}
  /\ req' = 1
  /\ tw' = 2 * HalfWindow * HalfMinute
  /\ stw' \in Services
  /\ UNCHANGED vars

CompleteNext ==
  \/ Next /\ UNCHANGED building
  \/ HandOver
  \/ B!Next /\ UNCHANGED vars

CompleteSpec == CompleteInit /\ [][CompleteNext]_all /\ WF_all(CompleteNext)

-----------------------------------------------------------------------------
(* The pickup of request r of the vector, and whether the file's centers   *)
(* leave time for its ride.                                                *)
PickupOf(r) == selected[2 * r - 1].node

Consistent(r) ==
  LET p == PickupOf(r) IN etw[Pair(p)] - etw[p] >= Dist(spot[p], spot[Pair(p)])

(* Whatever is estimated is estimated too long rather than too short       *)
(* ("highly conservative", src/src/distributer.cpp:292).                   *)
Conservative(r) ==
  LET p == spot[PickupOf(r)]
      d == spot[Pair(PickupOf(r))]
      o == spot[depot]
      Bounds(time, a, b) == time <= HalfMinute * Dist(a, b) IN
  /\ Bounds(trip[r].out, o, p) /\ Bounds(trip[r].ride, p, d) /\ Bounds(trip[r].back, d, o)
  /\ Bounds(direct[r], o, d)

(***************************************************************************)
(* What select_nodes lets through the builder accepts: the two tests were  *)
(* written apart, the first one ignores that the vehicle waits at the      *)
(* pickup, the second one sees windows that were moved a second time, for  *)
(* the way to the delivery.  It holds if nothing takes time at the stops   *)
(* (select_nodes runs before the service times are set), the estimates     *)
(* hold and the direct way to a delivery is the shortest, but for the half *)
(* minute that line 373 of distributer.cpp rounds down and lines 116-117   *)
(* of pdptw_builder.cpp do not.                                            *)
(***************************************************************************)
SelectedIsAccepted ==
  stage = "rejected" /\ stw = 0 /\ B!DirectIsShortest
      /\ (\A r \in B!Request : Consistent(r) /\ Conservative(r)) =>
    \E r \in B!Request : BackAtDepot(spot[depot], PickupOf(r)) = Horizon + 1
=============================================================================

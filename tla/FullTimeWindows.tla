-------------------------- MODULE FullTimeWindows ---------------------------
(***************************************************************************)
(* time_window_full_nodes and the rest of PDPTW::build for complete nodes  *)
(* (src/src/pdptw_builder.cpp): every node comes with the center of its    *)
(* window.  A window that would start before the vehicle can be there is   *)
(* moved to when it can, and the center of the partner by as much.         *)
(*                                                                         *)
(* The nodes are visited once, a pickup right before its delivery          *)
(* (select_nodes puts them side by side).  Moving the window of a delivery *)
(* thus moves the start of a window that was finished one step earlier,    *)
(* and not its end.                                                        *)
(*                                                                         *)
(* Times as in Feasibility; half a window may be half a minute.            *)
(***************************************************************************)
EXTENDS Feasibility, FiniteSets

CONSTANTS
  Requests,      \* how many requests
  Legs,          \* travel times
  Center,        \* centers of windows in the node file
  TimeWindow,    \* values of con.time_window
  ServiceTime    \* values of con.service_time

ASSUME TimesAssumption ==
  /\ Requests \in Nat
  /\ \A t \in Legs \cup Center \cup TimeWindow \cup ServiceTime : t \in Nat /\ t % Minute = 0

VARIABLES
  pc,        \* "pickup", "delivery", "check", "accepted", "rejected" or "written"
  req,       \* the request whose nodes are visited
  tw, stw,   \* con.time_window, con.service_time
  trip,      \* the travel times of every request
  direct,    \* matrix[0][d]: the depot to the delivery, without the pickup
  win        \* the windows; pe and de hold the centers until they are visited

input == <<tw, stw, trip, direct>>
vars  == <<pc, req, input, win>>

(* The requests, named by their position in the vector.                    *)
Request == DOMAIN trip

Half == tw \div 2       \* con.time_window / 2.0: exact in tenths of a minute

(* What select_nodes lets through (src/src/distributer.cpp:309).           *)
Selected(w) == w.pe + Half < Horizon /\ w.de + Half <= Horizon

Init ==
  /\ pc = IF Requests = 0 THEN "check" ELSE "pickup"
  /\ req = 1
  /\ tw \in TimeWindow
  /\ stw \in ServiceTime
  /\ trip \in [1 .. Requests -> [out : Legs, ride : Legs, back : Legs]]
  /\ direct \in [Request -> Legs]
  /\ \E p, d \in [Request -> Center] :
        win = [r \in Request |-> [pe |-> p[r], pl |-> p[r], de |-> d[r], dl |-> d[r]]]
  /\ \A r \in Request : Selected(win[r])

-----------------------------------------------------------------------------
(* Where a center moves that is reached after t at the earliest.           *)
Moved_Slip(center, t) == IF t > center THEN t + Half ELSE center
Moved(center, t) == IF t > center - Half THEN t + Half ELSE center

Opens(c)  == Later(0, c - Half)
Closes_Slip(c) == c + Half
Closes(c) == Earlier(Horizon, c + Half)

VisitPickup ==
  /\ pc = "pickup"
  /\ LET w == win[req]
         c == Moved(w.pe, trip[req].out)
     IN win' = [win EXCEPT ![req] =
                 [w EXCEPT !.pe = Opens(c), !.pl = Closes(c), !.de = @ + (c - w.pe)]]
  /\ pc' = "delivery"
  /\ UNCHANGED <<req, input>>

VisitDelivery ==
  /\ pc = "delivery"
  /\ LET w == win[req]
         c == Moved(w.de, direct[req])
     IN win' = [win EXCEPT ![req] =
                 [w EXCEPT !.de = Opens(c), !.dl = Closes(c), !.pe = @ + (c - w.de)]]
  /\ IF req + 1 \in Request
     THEN pc' = "pickup" /\ req' = req + 1
     ELSE pc' = "check"  /\ req' = req
  /\ UNCHANGED input

Check ==
  /\ pc = "check"
  /\ pc' = IF \A r \in Request : CheckRequest(trip[r], win[r], stw)
           THEN "accepted" ELSE "rejected"
  /\ UNCHANGED <<req, input, win>>

Write ==
  /\ pc = "accepted"
  /\ win' = [r \in Request |-> Floored(win[r])]
  /\ pc' = "written"
  /\ UNCHANGED <<req, input>>

Next == VisitPickup \/ VisitDelivery \/ Check \/ Write

Spec == Init /\ [][Next]_vars

-----------------------------------------------------------------------------
(* Every window, finished or not, is a pair of times of day.               *)
TypeOK ==
  /\ pc \in {"pickup", "delivery", "check", "accepted", "rejected", "written"}
  /\ Request = 1 .. Requests
  /\ pc \in {"pickup", "delivery"} => req \in Request
  /\ tw \in TimeWindow /\ stw \in ServiceTime
  /\ trip \in [Request -> Trip] /\ direct \in [Request -> Nat]
  /\ \A r \in Request :
       /\ win[r] \in Windows
       /\ win[r].pe \in Nat /\ win[r].de \in Nat
       /\ win[r].pl <= Horizon /\ win[r].dl <= Horizon

(***************************************************************************)
(* If no delivery is farther from the depot than the way by its pickup,    *)
(* every request of an accepted instance can be served, although the start *)
(* of its first window may have moved past the end: the test rejects those *)
(* instances.  The proviso is the triangular inequality of the matrix.     *)
(***************************************************************************)
DirectIsShortest == \A r \in Request : direct[r] <= trip[r].out + trip[r].ride

(* Accepted and written instances can be served, under the proviso.        *)
AcceptedServable ==
  pc \in {"accepted", "written"} /\ DirectIsShortest =>
    \A r \in Request : Servable(trip[r], win[r], stw)

(***************************************************************************)
(* No window opens before the vehicle can be there (but for the rounding   *)
(* in the file): neither visit undoes what the other one arranged.         *)
(***************************************************************************)
OpensWhenReachable ==
  pc \in {"check", "accepted", "rejected"} =>
    \A r \in Request : trip[r].out <= win[r].pe /\ direct[r] <= win[r].de

(***************************************************************************)
(* "Instance is feasible" (lines 92-93), without any proviso: refuted.  If *)
(* the matrix breaks the triangular inequality, the program announces and  *)
(* writes an instance with a window that ends before it starts.            *)
(***************************************************************************)
FeasibleIsServable ==
  pc = "accepted" => \A r \in Request : Servable(trip[r], win[r], stw)
=============================================================================

---------------------------- MODULE TimeWindows -----------------------------
(***************************************************************************)
(* time_window_random_nodes and the rest of PDPTW::build for locations     *)
(* (src/src/pdptw_builder.cpp): windows are drawn for 85 to 95% of the     *)
(* requests, the others stay open all day, the instance is tested and, if  *)
(* it passes, written.                                                     *)
(*                                                                         *)
(* Requests do not influence one another but for the first one that fails. *)
(* The model follows a few requests of a larger instance; any of them may  *)
(* be among those with a window.  The travel times of a request move with  *)
(* its nodes through order_nodes (module OrderNodes, MatrixFollowsNodes),  *)
(* so that they are part of the request here.  Times as in Feasibility.    *)
(***************************************************************************)
EXTENDS Feasibility, FiniteSets

CONSTANTS
  Request,       \* the requests that are followed
  Legs,          \* travel times
  TimeWindow,    \* values of con.time_window
  ServiceTime,   \* values of con.service_time
  Tenths         \* values of radd, in tenths, from 0 on: -0.4 .. 0.4 exclusive

ASSUME TimesAssumption ==
  /\ \A t \in Legs \cup TimeWindow \cup ServiceTime : t \in Nat /\ t % Minute = 0
  /\ Tenths \subseteq 0 .. 3

VARIABLES
  pc,        \* "draw", "check", "accepted", "rejected", "exit" or "written"
  tw, stw,   \* con.time_window, con.service_time
  trip,      \* the travel times of every request
  timed,     \* the requests that get a window
  todo,      \* the requests without windows so far
  offset,    \* how far radd moved the window of the delivery
  win        \* the windows (after writing: those of the file)

vars == <<pc, tw, stw, trip, timed, todo, offset, win>>

Width == ((tw \div Minute) \div 2) * Minute     \* size_t width = con.time_window/2

NoWindows == [pe |-> 0, pl |-> 0, de |-> 0, dl |-> 0]

Init ==
  /\ pc = "draw"
  /\ tw \in TimeWindow
  /\ stw \in ServiceTime
  /\ trip \in [Request -> [out : Legs, ride : Legs, back : Legs]]
  /\ timed \in SUBSET Request
  /\ todo = Request
  /\ offset = [r \in Request |-> 0]
  /\ win = [r \in Request |-> NoWindows]

-----------------------------------------------------------------------------
(* The last moment at which the pickup can be served.                      *)
Latest_Slip(t) == Horizon - t.ride - t.back - stw
Latest(t) == Horizon - t.ride - t.back - 2 * stw

(* The window of the pickup, around a whole minute.                        *)
Centers(t) == {c \in t.out .. Latest(t) : c % Minute = 0}

Opens_Slip(c) == c - Width
Opens(c)  == Later(0, c - Width)
Closes(c) == Earlier(c + Width, Horizon)

(* The window of the delivery when it opens at e.                          *)
DrawnWindows(t, c, e) ==
  [pe |-> Opens(c), pl |-> Closes(c), de |-> e, dl |-> Earlier(e + tw, Horizon - t.back)]

(* One time in ten the two windows do not overlap, if there is room.       *)
Apart(t, c) == Closes(c) < Latest(t) - tw

DrawWindows(r) ==
  LET t == trip[r] IN
  /\ pc = "draw"
  /\ r \in timed \cap todo
  /\ \E c \in Centers(t) :
       \/ /\ Apart(t, c)
          /\ win' = [win EXCEPT ![r] = DrawnWindows(t, c, Closes(c) + t.ride + stw)]
          /\ UNCHANGED offset
       \/ \E x \in Tenths :
            LET o == (t.ride \div Minute) * x IN
            /\ win' = [win EXCEPT ![r] = DrawnWindows(t, c, Opens(c) + t.ride + stw + o)]
            /\ offset' = [offset EXCEPT ![r] = o]
  /\ todo' = todo \ {r}
  /\ UNCHANGED <<pc, tw, stw, trip, timed>>

(* "Bad time window center generator": the program exits.                  *)
NoCenter(r) ==
  /\ pc = "draw"
  /\ r \in timed \cap todo
  /\ trip[r].out > Latest(trip[r])
  /\ pc' = "exit"
  /\ UNCHANGED <<tw, stw, trip, timed, todo, offset, win>>

(* The remaining requests: open all day, at both ends.                     *)
OpenAllDay ==
  /\ pc = "draw"
  /\ timed \cap todo = {}
  /\ win' = [r \in Request |->
               IF r \in todo THEN [pe |-> 0, pl |-> Horizon, de |-> 0, dl |-> Horizon]
                             ELSE win[r]]
  /\ todo' = {}
  /\ pc' = "check"
  /\ UNCHANGED <<tw, stw, trip, timed, offset>>

Check ==
  /\ pc = "check"
  /\ pc' = IF \A r \in Request : CheckRequest(trip[r], win[r], stw)
           THEN "accepted" ELSE "rejected"
  /\ UNCHANGED <<tw, stw, trip, timed, todo, offset, win>>

Write ==
  /\ pc = "accepted"
  /\ win' = [r \in Request |-> Floored(win[r])]
  /\ pc' = "written"
  /\ UNCHANGED <<tw, stw, trip, timed, todo, offset>>

Next ==
  \/ \E r \in Request : DrawWindows(r) \/ NoCenter(r)
  \/ OpenAllDay \/ Check \/ Write

Spec == Init /\ [][Next]_vars

-----------------------------------------------------------------------------
(* No window starts before the day or ends after it, whatever is drawn.    *)
TypeOK ==
  /\ pc \in {"draw", "check", "accepted", "rejected", "exit", "written"}
  /\ tw \in TimeWindow /\ stw \in ServiceTime
  /\ trip \in [Request -> Trip]
  /\ todo \subseteq Request /\ timed \subseteq Request
  /\ \A r \in Request :
       /\ offset[r] \in Nat
       /\ win[r] \in Windows
       /\ win[r].pe \in Nat /\ win[r].de \in Nat
       /\ win[r].pl <= Horizon /\ win[r].dl <= Horizon

(***************************************************************************)
(* "Instance is feasible" (line 60) is true: every request of an accepted  *)
(* instance can be served within its windows and the day.  The windows     *)
(* themselves need not be sound before the test: with a service time that  *)
(* is short and a large radd the window of the delivery starts after it    *)
(* ends (lines 213-214), and only the way home gives it away.              *)
(***************************************************************************)
AcceptedServable ==
  pc = "accepted" => \A r \in Request : Servable(trip[r], win[r], stw)

(* So can every request of the file, where the windows are rounded down.   *)
WrittenServable ==
  pc = "written" => \A r \in Request : Servable(trip[r], win[r], stw)

(* What the program announces and what it leaves behind (lines 56-65).     *)
InstanceServable == AcceptedServable /\ WrittenServable

(***************************************************************************)
(* The center of a window is drawn so that the request fits into the day   *)
(* (line 191): a request with windows fails the test only if radd moved    *)
(* the window of the delivery, and never for reaching a stop too late.     *)
(***************************************************************************)
TimedFitsUnlessMoved ==
  pc = "check" =>
    \A r \in timed :
       /\ AtPickup(trip[r]) <= win[r].pl
       /\ AtDelivery(trip[r], win[r], stw) <= win[r].dl
       /\ offset[r] = 0 => CheckRequest(trip[r], win[r], stw)
=============================================================================

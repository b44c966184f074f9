---------------------------- MODULE Feasibility -----------------------------
(***************************************************************************)
(* What it means that a request can be served, and the test that           *)
(* check_tw_feasibility (src/src/pdptw_builder.cpp) makes of it: the route *)
(* depot, pickup, delivery, depot, every stop as early as possible.        *)
(*                                                                         *)
(* Times are in tenths of a minute: travel and service times are whole     *)
(* minutes, the windows the builder computes are not.                      *)
(***************************************************************************)
EXTENDS Integers

CONSTANT Horizon          \* nodes[0].ltw, the maximum route time

Minute == 10

ASSUME HorizonAssumption == Horizon \in Nat /\ Horizon % Minute = 0

Time == Int

(* The travel times of a request that matter: to the pickup, from there to *)
(* the delivery, and back.                                                 *)
Trip == [out : Nat, ride : Nat, back : Nat]

(* The windows of a request: [pe, pl] of the pickup, [de, dl] of the       *)
(* delivery.                                                               *)
Windows == [pe : Time, pl : Time, de : Time, dl : Time]

Later(a, b)   == IF a > b THEN a ELSE b
Earlier(a, b) == IF a < b THEN a ELSE b

AtPickup(t)         == t.out
AtDelivery(t, w, s) == Later(w.pe, AtPickup(t)) + s + t.ride
AtHome(t, w, s)     == Later(w.de, AtDelivery(t, w, s)) + s + t.back

CheckRequest_Slip(t, w, s) ==
  /\ AtPickup(t) <= w.pl
  /\ AtDelivery(t, w, s) <= w.dl
CheckRequest(t, w, s) ==
  /\ AtPickup(t) <= w.pl
  /\ AtDelivery(t, w, s) <= w.dl
  /\ AtHome(t, w, s) <= Horizon

(* write_pdptw_instance writes floor(etw) and floor(ltw).                  *)
Floor(x) == x - (x % Minute)

Floored_Slip(w) ==
  [pe |-> Floor(w.pe + Minute - 1), pl |-> Floor(w.pl),
   de |-> Floor(w.de + Minute - 1), dl |-> Floor(w.dl)]
Floored(w) ==
  [pe |-> Floor(w.pe), pl |-> Floor(w.pl), de |-> Floor(w.de), dl |-> Floor(w.dl)]

-----------------------------------------------------------------------------
(* The definition the test is measured against: there are times to start   *)
(* serving the pickup and the delivery.                                    *)
Servable(t, w, s) ==
  \E sp \in w.pe .. w.pl, sd \in w.de .. w.dl :
     /\ t.out <= sp
     /\ sp + s + t.ride <= sd
     /\ sd + s + t.back <= Horizon

Open(w) == w.pe <= w.pl /\ w.de <= w.dl

WholeMinutes(t, s) ==
  t.out % Minute = 0 /\ t.ride % Minute = 0 /\ t.back % Minute = 0 /\ s % Minute = 0
=============================================================================

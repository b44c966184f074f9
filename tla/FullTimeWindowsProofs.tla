----------------------- MODULE FullTimeWindowsProofs ------------------------
(***************************************************************************)
(* PDPTW::build for complete nodes, for any number of requests and any     *)
(* times: windows open when the vehicle can be there, and an instance that *)
(* is accepted can be served if the direct way to a delivery is never the  *)
(* longer one.                                                             *)
(*                                                                         *)
(* The visit of a delivery may raise the start of its pickup's window by   *)
(* some x after the end of that window was computed.  Nothing bounds x     *)
(* when that happens.  But then the delivery's window opens exactly when   *)
(* the vehicle can be there by the direct way, and the test of the way to  *)
(* the delivery, together with the triangular inequality, leaves x no more *)
(* than the width of a window.  Visited says so much of a request.         *)
(***************************************************************************)
EXTENDS FullTimeWindows, TLAPS

-----------------------------------------------------------------------------
(* The test of check_tw_feasibility and the rounding of the windows, for   *)
(* all times: the facts of TimeWindowsProofs that are needed here, too.    *)

(***************************************************************************)
(* A request that passes the test can be served, provided that no window   *)
(* ends before it starts.  The proviso is needed: the test looks at the    *)
(* end of a window before it waits for the start.                          *)
(***************************************************************************)
LEMMA CheckSound ==
  ASSUME NEW t \in Trip, NEW w \in Windows, NEW s \in Nat,
         Open(w), CheckRequest(t, w, s)
  PROVE  Servable(t, w, s)
<1>. DEFINE sp == Later(w.pe, AtPickup(t))
            sd == Later(w.de, AtDelivery(t, w, s))
<1>1. /\ t.out \in Nat /\ t.ride \in Nat /\ t.back \in Nat
      /\ w.pe \in Int /\ w.pl \in Int /\ w.de \in Int /\ w.dl \in Int
  BY DEF Trip, Windows, Time
<1>2. sp \in w.pe .. w.pl /\ t.out <= sp
  BY <1>1 DEF Open, CheckRequest, AtPickup, Later
<1>3. AtDelivery(t, w, s) = sp + s + t.ride
  BY DEF AtDelivery
<1>4. sd \in w.de .. w.dl /\ sp + s + t.ride <= sd
  BY <1>1, <1>2, <1>3 DEF Open, CheckRequest, Later
<1>5. sd + s + t.back <= Horizon
  BY DEF CheckRequest, AtHome
<1>. HIDE DEF sp, sd
<1>. QED  BY <1>2, <1>4, <1>5 DEF Servable

(* Rounding down by itself.                                                *)
LEMMA FloorFacts ==
  ASSUME NEW x \in Int, NEW y \in Int
  PROVE  /\ Floor(x) \in Int /\ Floor(x) <= x
         /\ x <= y => Floor(x) <= Floor(y)
         /\ y % Minute = 0 /\ y <= x => y <= Floor(x)
         /\ y % Minute = 0 => Floor(y) = y
         /\ Floor(x) % Minute = 0
<1>1. Floor(x) \in Int /\ Floor(x) <= x /\ Floor(x) % Minute = 0
  BY DEF Floor, Minute
<1>2. y % Minute = 0 => Floor(y) = y
  BY DEF Floor, Minute
<1>3. x <= y => Floor(x) <= Floor(y)
  BY DEF Floor, Minute
<1>4. y % Minute = 0 /\ y <= x => y <= Floor(x)
  BY DEF Floor, Minute
<1>. QED  BY <1>1, <1>2, <1>3, <1>4

(***************************************************************************)
(* The windows are rounded down when the instance is written, travel and   *)
(* service times are whole minutes: a request that can be served can be    *)
(* served in the file, too, and at whole minutes.                          *)
(***************************************************************************)
LEMMA FloorKeepsServable ==
  ASSUME NEW t \in Trip, NEW w \in Windows, NEW s \in Nat,
         WholeMinutes(t, s), Servable(t, w, s)
  PROVE  Servable(t, Floored(w), s)
<1>1. PICK sp \in w.pe .. w.pl : \E sd \in w.de .. w.dl :
           t.out <= sp /\ sp + s + t.ride <= sd /\ sd + s + t.back <= Horizon
  BY DEF Servable
<1>2. PICK sd \in w.de .. w.dl :
           t.out <= sp /\ sp + s + t.ride <= sd /\ sd + s + t.back <= Horizon
  BY <1>1
<1>3. /\ t.out \in Nat /\ t.ride \in Nat /\ t.back \in Nat /\ Horizon \in Nat
      /\ w.pe \in Int /\ w.pl \in Int /\ w.de \in Int /\ w.dl \in Int
      /\ sp \in Int /\ sd \in Int
  BY HorizonAssumption DEF Trip, Windows, Time
<1>. DEFINE f == Floored(w)
<1>4. /\ f.pe = Floor(w.pe) /\ f.pl = Floor(w.pl)
      /\ f.de = Floor(w.de) /\ f.dl = Floor(w.dl)
  BY DEF Floored
<1>5. Floor(sp) \in f.pe .. f.pl
  BY <1>3, <1>4, FloorFacts
<1>6. Floor(sd) \in f.de .. f.dl
  BY <1>3, <1>4, FloorFacts
<1>7. t.out <= Floor(sp)
  BY <1>2, <1>3, FloorFacts DEF WholeMinutes
<1>8. Floor(sp) + s + t.ride <= Floor(sd)
  <2>1. (Floor(sp) + s + t.ride) % Minute = 0
    <3>1. Floor(sp) \in Int /\ Floor(sp) % Minute = 0
      BY <1>3, FloorFacts
    <3>. QED  BY <3>1, <1>3 DEF WholeMinutes, Minute
  <2>2. Floor(sp) + s + t.ride \in Int /\ Floor(sp) + s + t.ride <= sd
    BY <1>2, <1>3, FloorFacts
  <2>. QED  BY <2>1, <2>2, <1>3, FloorFacts
<1>9. Floor(sd) + s + t.back <= Horizon
  <2>1. Floor(sd) \in Int /\ Floor(sd) <= sd
    BY <1>3, FloorFacts
  <2>. QED  BY <2>1, <1>2, <1>3
<1>. HIDE DEF f
<1>10. Servable(t, f, s)
  BY <1>5, <1>6, <1>7, <1>8, <1>9 DEF Servable
<1>. QED  BY <1>10 DEF f

-----------------------------------------------------------------------------
(* A center that was not visited yet.                                      *)
Centered(w) ==
  /\ w.pe \in Nat /\ w.de \in Nat /\ w.pl = w.pe /\ w.dl = w.de
  /\ w.pl <= Horizon /\ w.dl <= Horizon

(* The pickup's window is made, the delivery's center has moved with it.   *)
HalfWay(t, w) ==
  /\ w.pe \in Nat /\ w.de \in Nat
  /\ t.out <= w.pe
  /\ w.pl = Earlier(Horizon, w.pe + 2 * Half)
  /\ w.dl \in Int /\ w.dl <= Horizon

(* Both are made, and the first one was moved by x afterwards.             *)
VisitedBy(t, d, w, x) ==
  /\ w.pe \in Nat /\ w.de \in Nat
  /\ t.out <= w.pe - x /\ d <= w.de
  /\ w.pl = Earlier(Horizon, w.pe - x + 2 * Half)
  /\ w.dl = Earlier(Horizon, w.de + 2 * Half)
  /\ x = 0 \/ w.de = d

Visited(t, d, w) == \E x \in Nat : VisitedBy(t, d, w, x)

(* Nothing here depends on where a run starts: another specification that  *)
(* hands nodes over may, too.                                              *)
Typed ==
  /\ pc \in {"pickup", "delivery", "check", "accepted", "rejected", "written"}
  /\ \E n \in Nat : Request = 1 .. n
  /\ pc \in {"pickup", "delivery"} => req \in Request
  /\ tw \in Nat /\ stw \in Nat
  /\ trip \in [Request -> Trip] /\ direct \in [Request -> Nat]
  /\ win \in [Request -> Windows]
  /\ \A r \in Request : WholeMinutes(trip[r], stw)

(* The request of which only the pickup was visited.                       *)
Between(r) == pc = "delivery" /\ r = req

Behind(r) == pc \in {"check", "accepted", "rejected"} \/ r < req

IndInv ==
  /\ Typed
  /\ pc # "written" =>
       \A r \in Request :
         IF Between(r) THEN HalfWay(trip[r], win[r])
         ELSE IF Behind(r) THEN Visited(trip[r], direct[r], win[r])
         ELSE Centered(win[r])
  /\ pc = "accepted" => \A r \in Request : CheckRequest(trip[r], win[r], stw)
  /\ pc = "written" =>
       /\ \A r \in Request : win[r].pe \in Nat /\ win[r].de \in Nat
                              /\ win[r].pl <= Horizon /\ win[r].dl <= Horizon
       /\ DirectIsShortest => \A r \in Request : Servable(trip[r], win[r], stw)

-----------------------------------------------------------------------------
(* The constants are times in tenths of a minute, half a window is one.    *)
LEMMA Constants ==
  /\ Horizon \in Nat /\ Requests \in Nat
  /\ tw \in Nat => Half \in Nat
  /\ \A t \in ServiceTime \cup TimeWindow \cup Legs \cup Center : t \in Nat /\ t % Minute = 0
<1>1. tw \in Nat => Half \in Nat
  BY DEF Half
<1>. QED  BY <1>1, HorizonAssumption, TimesAssumption

(* A center that was moved, or need not be, leaves half a window.          *)
LEMMA MovedFacts ==
  ASSUME NEW c \in Nat, NEW t \in Nat, Half \in Nat
  PROVE  /\ Moved(c, t) \in Nat /\ t <= Moved(c, t) - Half /\ c <= Moved(c, t)
         /\ Moved(c, t) # c => Moved(c, t) = t + Half
         /\ Opens(Moved(c, t)) = Moved(c, t) - Half
<1>1. /\ Moved(c, t) \in Nat /\ t <= Moved(c, t) - Half /\ c <= Moved(c, t)
      /\ Moved(c, t) # c => Moved(c, t) = t + Half
  BY DEF Moved
<1>. QED  BY <1>1 DEF Opens, Later

(* What the visit of a pickup makes of its request.                        *)
LEMMA PickupVisited ==
  ASSUME NEW t \in Trip, NEW w \in Windows, NEW c, Half \in Nat,
         Centered(w), c = Moved(w.pe, t.out),
         NEW v, v = [w EXCEPT !.pe = Opens(c), !.pl = Closes(c), !.de = @ + (c - w.pe)]
  PROVE  HalfWay(t, v) /\ v \in Windows
<1>1. w.pe \in Nat /\ w.de \in Nat /\ w.dl \in Int /\ w.dl <= Horizon /\ t.out \in Nat /\ Horizon \in Nat
  BY HorizonAssumption DEF Centered, Trip
<1>2. c \in Nat /\ t.out <= c - Half /\ w.pe <= c /\ Opens(c) = c - Half
  BY <1>1, MovedFacts
<1>3. v.pe = c - Half /\ v.pl = Earlier(Horizon, c + Half) /\ v.de = w.de + (c - w.pe) /\ v.dl = w.dl
  BY <1>2 DEF Closes, Windows
<1>4. v = [pe |-> v.pe, pl |-> v.pl, de |-> v.de, dl |-> v.dl]
  BY DEF Windows
<1>5. HalfWay(t, v)
  BY <1>1, <1>2, <1>3 DEF HalfWay
<1>6. v.pl \in Int
  BY <1>1, <1>2, <1>3 DEF Earlier
<1>7. v \in Windows
  BY <1>1, <1>3, <1>4, <1>5, <1>6 DEF HalfWay, Windows, Time
<1>. QED  BY <1>5, <1>7

(* What the visit of a delivery makes of its request.                      *)
LEMMA DeliveryVisited ==
  ASSUME NEW t \in Trip, NEW d \in Nat, NEW w \in Windows, NEW c, Half \in Nat,
         HalfWay(t, w), c = Moved(w.de, d),
         NEW v, v = [w EXCEPT !.de = Opens(c), !.dl = Closes(c), !.pe = @ + (c - w.de)]
  PROVE  Visited(t, d, v) /\ v \in Windows
<1>. DEFINE x == c - w.de
<1>1. /\ w.pe \in Nat /\ w.de \in Nat /\ t.out \in Nat /\ t.out <= w.pe /\ Horizon \in Nat
      /\ w.pl = Earlier(Horizon, w.pe + 2 * Half)
  BY HorizonAssumption DEF HalfWay, Trip
<1>2. /\ c \in Nat /\ d <= c - Half /\ w.de <= c /\ Opens(c) = c - Half
      /\ c # w.de => c = d + Half
  BY <1>1, MovedFacts
<1>3. v.de = c - Half /\ v.dl = Earlier(Horizon, c + Half) /\ v.pe = w.pe + x /\ v.pl = w.pl
  BY <1>2 DEF Closes, Windows
<1>4. v = [pe |-> v.pe, pl |-> v.pl, de |-> v.de, dl |-> v.dl]
  BY DEF Windows
<1>5. VisitedBy(t, d, v, x) /\ x \in Nat
  BY <1>1, <1>2, <1>3 DEF VisitedBy
<1>6. v.pl \in Int /\ v.dl \in Int
  BY <1>1, <1>2, <1>3 DEF Earlier
<1>7. v \in Windows
  BY <1>4, <1>5, <1>6 DEF VisitedBy, Windows, Time
<1>8. Visited(t, d, v)
  BY <1>5 DEF Visited
<1>. QED  BY <1>7, <1>8

(* The argument of this module: a visited request that passes the test has *)
(* open windows, if the way by the pickup is not the shorter one.          *)
LEMMA CheckedIsOpen ==
  ASSUME NEW t \in Trip, NEW d \in Nat, NEW w \in Windows, NEW s \in Nat, Half \in Nat,
         Visited(t, d, w), CheckRequest(t, w, s), d <= t.out + t.ride
  PROVE  Open(w)
<1>1. PICK x \in Nat : VisitedBy(t, d, w, x)
  BY DEF Visited
<1>2. /\ t.out \in Nat /\ t.ride \in Nat /\ t.back \in Nat /\ Horizon \in Nat
      /\ w.pe \in Nat /\ w.de \in Nat
  BY <1>1, HorizonAssumption DEF Trip, VisitedBy
<1>3. AtDelivery(t, w, s) = w.pe + s + t.ride
  BY <1>1, <1>2 DEF VisitedBy, AtDelivery, AtPickup, Later
<1>4. w.pe + s + t.ride <= w.dl
  BY <1>3 DEF CheckRequest
<1>5. w.dl <= Horizon /\ w.dl <= w.de + 2 * Half
  BY <1>1, <1>2 DEF VisitedBy, Earlier
<1>6. w.dl \in Int
  BY DEF Windows, Time
<1>7. w.pe <= Horizon
  BY <1>2, <1>4, <1>5, <1>6
<1>8. x <= 2 * Half
  BY <1>1, <1>2, <1>4, <1>5, <1>6 DEF VisitedBy
<1>9. w.pe <= w.pl
  BY <1>1, <1>2, <1>7, <1>8 DEF VisitedBy, Earlier
<1>10. w.de <= Horizon
  <2>1. Later(w.de, AtDelivery(t, w, s)) + s + t.back <= Horizon
    BY DEF CheckRequest, AtHome
  <2>. QED  BY <2>1, <1>2, <1>3 DEF Later
<1>11. w.de <= w.dl
  BY <1>1, <1>2, <1>10 DEF VisitedBy, Earlier
<1>. QED  BY <1>9, <1>11 DEF Open

-----------------------------------------------------------------------------
(* The nodes as select_nodes hands them over.                              *)
LEMMA InitInv == Init => IndInv
<1>. SUFFICES ASSUME Init PROVE IndInv
  OBVIOUS
<1>1. /\ pc = (IF Requests = 0 THEN "check" ELSE "pickup") /\ req = 1
      /\ tw \in TimeWindow /\ stw \in ServiceTime
      /\ trip \in [1 .. Requests -> [out : Legs, ride : Legs, back : Legs]]
      /\ direct \in [Request -> Legs]
      /\ \A r \in Request : Selected(win[r])
  BY DEF Init
<1>2. PICK p \in [Request -> Center], d \in [Request -> Center] :
        win = [r \in Request |-> [pe |-> p[r], pl |-> p[r], de |-> d[r], dl |-> d[r]]]
  BY DEF Init
<1>3. Request = 1 .. Requests /\ Requests \in Nat
  BY <1>1, Constants DEF Request
<1>0. tw \in Nat /\ stw \in Nat
  BY <1>1, Constants
<1>4. \A r \in Request : /\ trip[r].out \in Legs /\ trip[r].ride \in Legs /\ trip[r].back \in Legs
                         /\ trip[r] = [out |-> trip[r].out, ride |-> trip[r].ride, back |-> trip[r].back]
  BY <1>1, <1>3
<1>5. \A r \in Request : trip[r] \in Trip /\ WholeMinutes(trip[r], stw)
  <2>. SUFFICES ASSUME NEW r \in Request PROVE trip[r] \in Trip /\ WholeMinutes(trip[r], stw)
    OBVIOUS
  <2>0. \A t \in Legs \cup ServiceTime : t \in Nat /\ t % Minute = 0
    BY Constants
  <2>1. /\ trip[r].out \in Nat /\ trip[r].out % Minute = 0
        /\ trip[r].ride \in Nat /\ trip[r].ride % Minute = 0
        /\ trip[r].back \in Nat /\ trip[r].back % Minute = 0
        /\ stw % Minute = 0
    <3>1. /\ trip[r].out \in Legs /\ trip[r].ride \in Legs /\ trip[r].back \in Legs
          /\ stw \in ServiceTime
      BY <1>1, <1>4
    <3>. QED  BY <3>1, <2>0
  <2>2. trip[r] \in Trip
    <3>1. trip[r] = [out |-> trip[r].out, ride |-> trip[r].ride, back |-> trip[r].back]
      BY <1>4
    <3>. QED  BY <2>1, <3>1 DEF Trip
  <2>. QED  BY <2>1, <2>2 DEF WholeMinutes
<1>6. \A r \in Request :
        /\ p[r] \in Nat /\ d[r] \in Nat
        /\ win[r] = [pe |-> p[r], pl |-> p[r], de |-> d[r], dl |-> d[r]]
  BY <1>2, Constants
<1>7. \A r \in Request : Centered(win[r]) /\ win[r] \in Windows
  <2>. SUFFICES ASSUME NEW r \in Request PROVE Centered(win[r]) /\ win[r] \in Windows
    OBVIOUS
  <2>0. /\ win[r] = [pe |-> p[r], pl |-> p[r], de |-> d[r], dl |-> d[r]]
        /\ p[r] \in Nat /\ d[r] \in Nat
    BY <1>6
  <2>1. /\ win[r].pe = p[r] /\ win[r].pl = p[r] /\ win[r].de = d[r] /\ win[r].dl = d[r]
        /\ p[r] \in Nat /\ d[r] \in Nat /\ Half \in Nat /\ Horizon \in Nat
    <3>1. Half \in Nat /\ Horizon \in Nat
      BY <1>0, Constants
    <3>. QED  BY <2>0, <3>1
  <2>2. p[r] + Half < Horizon /\ d[r] + Half <= Horizon
    BY <2>1, <1>1 DEF Selected
  <2>3. Centered(win[r])
    BY <2>1, <2>2 DEF Centered
  <2>4. win[r] \in Windows
    BY <2>0 DEF Windows, Time
  <2>. QED  BY <2>3, <2>4
<1>8. Typed
  <2>1. trip \in [Request -> Trip]
    BY <1>1, <1>3, <1>5
  <2>2. direct \in [Request -> Nat]
    BY <1>1, Constants
  <2>3. win \in [Request -> Windows]
    BY <1>2, <1>7
  <2>4. pc \in {"pickup", "delivery"} => req \in Request
    BY <1>1, <1>3, Constants
  <2>. QED  BY <2>1, <2>2, <2>3, <2>4, <1>0, <1>1, <1>3, <1>5 DEF Typed
<1>9. \A r \in Request : ~ Between(r) /\ ~ Behind(r)
  BY <1>1, <1>3, Constants DEF Between, Behind
<1>. QED  BY <1>1, <1>7, <1>8, <1>9 DEF IndInv

(* Every visit, the test and the rounding preserve it.                     *)
LEMMA NextInv == IndInv /\ [Next]_vars => IndInv'
<1>. SUFFICES ASSUME IndInv, [Next]_vars PROVE IndInv'
  OBVIOUS
<1>0. Typed /\ Half \in Nat /\ stw \in Nat /\ Horizon \in Nat
  BY Constants DEF IndInv, Typed
<1>. PICK n \in Nat : Request = 1 .. n
  BY <1>0 DEF Typed
<1>1. CASE VisitPickup
  <2>. DEFINE c == Moved(win[req].pe, trip[req].out)
              v == [win[req] EXCEPT !.pe = Opens(c), !.pl = Closes(c), !.de = @ + (c - win[req].pe)]
  <2>1. /\ pc = "pickup" /\ pc' = "delivery" /\ UNCHANGED <<req, tw, stw, trip, direct>>
        /\ win' = [win EXCEPT ![req] = v]
    BY <1>1 DEF VisitPickup, input
  <2>2. req \in Request /\ Request = 1 .. n /\ Request' = Request /\ Half' = Half
    BY <2>1, <1>0 DEF Typed, Request, Half
  <2>3. Centered(win[req]) /\ win[req] \in Windows /\ trip[req] \in Trip
    BY <2>1, <2>2, <1>0 DEF IndInv, Typed, Between, Behind
  <2>4. HalfWay(trip[req], v) /\ v \in Windows
    BY <2>3, <1>0, PickupVisited
  <2>. HIDE DEF v
  <2>5. Typed'
    BY <2>1, <2>2, <2>4, <1>0 DEF Typed, WholeMinutes
  <2>6. ASSUME NEW r \in Request
        PROVE  IF r = req THEN HalfWay(trip[r], win'[r])
               ELSE IF r < req THEN Visited(trip[r], direct[r], win'[r])
               ELSE Centered(win'[r])
    <3>1. CASE r = req
      BY <3>1, <2>1, <2>2, <2>4, <1>0 DEF Typed
    <3>2. CASE r # req
      <4>1. win'[r] = win[r] /\ (r < req <=> Behind(r)) /\ ~ Between(r)
        BY <3>2, <2>1, <2>2, <1>0 DEF Typed, Behind, Between
      <4>. QED  BY <4>1, <3>2, <2>1 DEF IndInv
    <3>. QED  BY <3>1, <3>2
  <2>7. (\A r \in Request :
          IF Between(r) THEN HalfWay(trip[r], win[r])
          ELSE IF Behind(r) THEN Visited(trip[r], direct[r], win[r])
          ELSE Centered(win[r]))'
    BY <2>1, <2>2, <2>6 DEF Between, Behind, HalfWay, Visited, VisitedBy
  <2>. QED  BY <2>1, <2>5, <2>7 DEF IndInv
<1>2. CASE VisitDelivery
  <2>. DEFINE c == Moved(win[req].de, direct[req])
              v == [win[req] EXCEPT !.de = Opens(c), !.dl = Closes(c), !.pe = @ + (c - win[req].de)]
  <2>1. /\ pc = "delivery" /\ UNCHANGED <<tw, stw, trip, direct>>
        /\ win' = [win EXCEPT ![req] = v]
        /\ IF req + 1 \in Request
           THEN pc' = "pickup" /\ req' = req + 1
           ELSE pc' = "check"  /\ req' = req
    BY <1>2 DEF VisitDelivery, input
  <2>2. req \in Request /\ Request = 1 .. n /\ Request' = Request /\ Half' = Half
    BY <2>1, <1>0 DEF Typed, Request, Half
  <2>3. /\ HalfWay(trip[req], win[req]) /\ win[req] \in Windows
        /\ trip[req] \in Trip /\ direct[req] \in Nat
    BY <2>1, <2>2, <1>0 DEF IndInv, Typed, Between
  <2>4. Visited(trip[req], direct[req], v) /\ v \in Windows
    BY <2>3, <1>0, DeliveryVisited
  <2>. HIDE DEF v
  <2>5. Typed'
    BY <2>1, <2>2, <2>4, <1>0 DEF Typed, WholeMinutes
  <2>6. ASSUME NEW r \in Request
        PROVE  IF r <= req THEN Visited(trip[r], direct[r], win'[r])
               ELSE Centered(win'[r])
    <3>1. CASE r = req
      BY <3>1, <2>1, <2>2, <2>4, <1>0 DEF Typed
    <3>2. CASE r # req
      <4>1. win'[r] = win[r] /\ (r <= req <=> Behind(r)) /\ ~ Between(r)
        BY <3>2, <2>1, <2>2, <1>0 DEF Typed, Behind, Between
      <4>. QED  BY <4>1, <3>2, <2>1 DEF IndInv
    <3>. QED  BY <3>1, <3>2
  <2>7. ASSUME NEW r \in Request
        PROVE  ~ Between(r)' /\ (Behind(r)' <=> r <= req)
    BY <2>1, <2>2, <1>0 DEF Between, Behind
  <2>8. (\A r \in Request :
          IF Between(r) THEN HalfWay(trip[r], win[r])
          ELSE IF Behind(r) THEN Visited(trip[r], direct[r], win[r])
          ELSE Centered(win[r]))'
    BY <2>1, <2>2, <2>6, <2>7 DEF Visited, VisitedBy
  <2>. QED  BY <2>1, <2>5, <2>8 DEF IndInv
<1>3. CASE Check
  <2>1. /\ pc = "check" /\ pc' \in {"accepted", "rejected"}
        /\ pc' = "accepted" => \A r \in Request : CheckRequest(trip[r], win[r], stw)
        /\ UNCHANGED <<req, tw, stw, trip, direct, win>>
    BY <1>3 DEF Check, input
  <2>2. Typed' /\ Request' = Request /\ Half' = Half
    BY <2>1, <1>0 DEF Typed, Request, Half
  <2>3. \A r \in Request : Visited(trip[r], direct[r], win[r])
    BY <2>1 DEF IndInv, Between, Behind
  <2>4. \A r \in Request : ~ Between(r)' /\ Behind(r)'
    BY <2>1 DEF Between, Behind
  <2>5. (\A r \in Request : Visited(trip[r], direct[r], win[r]))'
    BY <2>1, <2>2, <2>3 DEF Visited, VisitedBy
  <2>. QED  BY <2>1, <2>2, <2>4, <2>5 DEF IndInv
<1>4. CASE Write
  <2>1. /\ pc = "accepted" /\ pc' = "written"
        /\ win' = [r \in Request |-> Floored(win[r])]
        /\ UNCHANGED <<req, tw, stw, trip, direct>>
    BY <1>4 DEF Write, input
  <2>2. Request' = Request
    BY <2>1 DEF Request
  <2>3. ASSUME NEW r \in Request
        PROVE  /\ win'[r] \in Windows /\ win'[r].pe \in Nat /\ win'[r].de \in Nat
               /\ win'[r].pl <= Horizon /\ win'[r].dl <= Horizon
               /\ DirectIsShortest => Servable(trip[r], win'[r], stw)
    <3>1. /\ trip[r] \in Trip /\ win[r] \in Windows /\ direct[r] \in Nat
          /\ WholeMinutes(trip[r], stw)
      BY <2>2, <1>0 DEF Typed
    <3>2. Visited(trip[r], direct[r], win[r]) /\ CheckRequest(trip[r], win[r], stw)
      BY <2>1 DEF IndInv, Between, Behind
    <3>3. win'[r] = Floored(win[r])
      BY <2>1
    <3>4. PICK x \in Nat : VisitedBy(trip[r], direct[r], win[r], x)
      BY <3>2 DEF Visited
    <3>5. /\ win[r].pe \in Nat /\ win[r].de \in Nat
          /\ win[r].pl \in Int /\ win[r].dl \in Int
          /\ win[r].pl <= Horizon /\ win[r].dl <= Horizon
      BY <3>1, <3>4, <1>0 DEF VisitedBy, Earlier, Windows, Time
    <3>6. /\ win'[r] \in Windows /\ win'[r].pe \in Nat /\ win'[r].de \in Nat
          /\ win'[r].pl <= Horizon /\ win'[r].dl <= Horizon
      <4>1. \A y \in Nat : Floor(y) \in Nat
        BY DEF Floor, Minute
      <4>2. \A y \in Int : y <= Horizon => Floor(y) \in Int /\ Floor(y) <= Horizon
        BY <1>0 DEF Floor, Minute
      <4>3. win'[r] = [pe |-> Floor(win[r].pe), pl |-> Floor(win[r].pl),
                       de |-> Floor(win[r].de), dl |-> Floor(win[r].dl)]
        BY <3>3 DEF Floored
      <4>4. /\ Floor(win[r].pe) \in Nat /\ Floor(win[r].de) \in Nat
            /\ Floor(win[r].pl) \in Int /\ Floor(win[r].pl) <= Horizon
            /\ Floor(win[r].dl) \in Int /\ Floor(win[r].dl) <= Horizon
        BY <4>1, <4>2, <3>5
      <4>. QED  BY <4>3, <4>4 DEF Windows, Time
    <3>7. ASSUME DirectIsShortest PROVE Servable(trip[r], Floored(win[r]), stw)
      <4>1. Open(win[r])
        BY <3>1, <3>2, <3>7, <1>0, CheckedIsOpen DEF DirectIsShortest
      <4>2. Servable(trip[r], win[r], stw)
        BY <4>1, <3>1, <3>2, <1>0, CheckSound
      <4>. QED  BY <4>2, <3>1, <1>0, FloorKeepsServable
    <3>. QED  BY <3>3, <3>6, <3>7
  <2>4. Typed'
    BY <2>1, <2>2, <2>3, <1>0 DEF Typed, WholeMinutes
  <2>5. DirectIsShortest' = DirectIsShortest
    BY <2>1, <2>2 DEF DirectIsShortest
  <2>. QED  BY <2>1, <2>2, <2>3, <2>4, <2>5 DEF IndInv
<1>5. CASE UNCHANGED vars
  BY <1>5 DEF vars, input, IndInv, Typed, Request, Between, Behind, Half, HalfWay, Visited,
     VisitedBy, Centered, DirectIsShortest
<1>. QED  BY <1>1, <1>2, <1>3, <1>4, <1>5 DEF Next

(* The invariant holds throughout.                                         *)
THEOREM Invariance == Spec => []IndInv
BY InitInv, NextInv, PTL DEF Spec

(* What the builder was given does not change.                             *)
Given == Request = 1 .. Requests /\ tw \in TimeWindow /\ stw \in ServiceTime

LEMMA GivenInvariance == Spec => []Given
<1>1. Init => Given
  BY DEF Init, Given, Request
<1>2. Given /\ [Next]_vars => Given'
  BY DEF Given, Request, Next, vars, input, VisitPickup, VisitDelivery, Check, Write
<1>. QED  BY <1>1, <1>2, PTL DEF Spec

(* Windows are pairs of times of day at every step.                        *)
THEOREM TypeCorrect == Spec => []TypeOK
<1>1. IndInv /\ Given => TypeOK
  <2>. SUFFICES ASSUME IndInv, Given PROVE TypeOK
    OBVIOUS
  <2>1. Typed /\ Half \in Nat /\ Horizon \in Nat
    BY Constants DEF IndInv, Typed
  <2>2. ASSUME NEW r \in Request
        PROVE  /\ win[r] \in Windows
               /\ win[r].pe \in Nat /\ win[r].de \in Nat
               /\ win[r].pl <= Horizon /\ win[r].dl <= Horizon
    <3>1. win[r] \in Windows
      BY <2>1 DEF Typed
    <3>2. CASE pc = "written"
      BY <3>1, <3>2 DEF IndInv
    <3>3. CASE pc # "written"
      <4>1. \/ HalfWay(trip[r], win[r]) \/ Centered(win[r])
            \/ \E x \in Nat : VisitedBy(trip[r], direct[r], win[r], x)
        BY <3>3 DEF IndInv, Visited
      <4>2. trip[r] \in Trip
        BY <2>1 DEF Typed
      <4>. QED  BY <4>1, <4>2, <3>1, <2>1 DEF HalfWay, Centered, VisitedBy, Earlier, Trip
    <3>. QED  BY <3>2, <3>3
  <2>3. trip \in [Request -> Trip] /\ direct \in [Request -> Nat]
    BY <2>1 DEF Typed
  <2>. QED  BY <2>1, <2>2, <2>3 DEF TypeOK, Typed, Given
<1>. QED  BY <1>1, Invariance, GivenInvariance, PTL

(* What the invariant promises of the windows.                             *)
LEMMA OpensThen == IndInv => OpensWhenReachable
<1>. SUFFICES ASSUME IndInv, pc \in {"check", "accepted", "rejected"}, NEW r \in Request
              PROVE  trip[r].out <= win[r].pe /\ direct[r] <= win[r].de
  BY DEF OpensWhenReachable
<1>1. PICK x \in Nat : VisitedBy(trip[r], direct[r], win[r], x)
  BY DEF IndInv, Between, Behind, Visited
<1>2. trip[r].out \in Nat
  BY DEF IndInv, Typed, Trip
<1>. QED  BY <1>1, <1>2 DEF VisitedBy

LEMMA ServableThen == IndInv => AcceptedServable
<1>. SUFFICES ASSUME IndInv, pc \in {"accepted", "written"}, DirectIsShortest, NEW r \in Request
              PROVE  Servable(trip[r], win[r], stw)
  BY DEF AcceptedServable
<1>1. CASE pc = "written"
  BY <1>1 DEF IndInv
<1>2. CASE pc = "accepted"
  <2>1. Visited(trip[r], direct[r], win[r]) /\ CheckRequest(trip[r], win[r], stw)
    BY <1>2 DEF IndInv, Between, Behind
  <2>2. /\ trip[r] \in Trip /\ win[r] \in Windows /\ direct[r] \in Nat
        /\ Half \in Nat /\ stw \in Nat
    BY Constants DEF IndInv, Typed
  <2>3. Open(win[r])
    BY <2>1, <2>2, CheckedIsOpen DEF DirectIsShortest
  <2>. QED  BY <2>1, <2>2, <2>3, CheckSound
<1>. QED  BY <1>1, <1>2

(***************************************************************************)
(* No window opens before the vehicle can be there, whatever the centers   *)
(* and whatever windows pushed one another.                                *)
(***************************************************************************)
THEOREM OpensCorrect == Spec => []OpensWhenReachable
BY OpensThen, Invariance, PTL

(***************************************************************************)
(* An accepted instance can be served, and so can the file, if no delivery *)
(* is farther from the depot than the way by its pickup.                   *)
(***************************************************************************)
THEOREM AcceptedCorrect == Spec => []AcceptedServable
BY ServableThen, Invariance, PTL
=============================================================================

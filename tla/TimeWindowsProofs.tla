------------------------- MODULE TimeWindowsProofs --------------------------
(***************************************************************************)
(* Instances that PDPTW::build accepts can be served, for any number of    *)
(* requests and any times.                                                 *)
(*                                                                         *)
(* The windows that are drawn need not be sound.  What holds of them is    *)
(* Bent: the window of the pickup is sound, and if that of the delivery is *)
(* not, it was cut off where the way home starts.  Then the vehicle that   *)
(* waits for it comes home too late, and the test rejects.  Otherwise      *)
(* CheckSound applies, and FloorKeepsServable to what is written.          *)
(***************************************************************************)
EXTENDS TimeWindows, TLAPS

-----------------------------------------------------------------------------
(* The test of check_tw_feasibility against the definition of a request    *)
(* that can be served, for all times.                                      *)

(* A request that can be served passes the test: serving every stop as     *)
(* early as possible is never worse.                                       *)
THEOREM CheckComplete ==
  ASSUME NEW t \in Trip, NEW w \in Windows, NEW s \in Nat, Servable(t, w, s)
  PROVE  CheckRequest(t, w, s) /\ Open(w)
<1>1. PICK sp \in w.pe .. w.pl : \E sd \in w.de .. w.dl :
           t.out <= sp /\ sp + s + t.ride <= sd /\ sd + s + t.back <= Horizon
  BY DEF Servable
<1>2. PICK sd \in w.de .. w.dl :
           t.out <= sp /\ sp + s + t.ride <= sd /\ sd + s + t.back <= Horizon
  BY <1>1
<1>3. /\ t.out \in Nat /\ t.ride \in Nat /\ t.back \in Nat
      /\ w.pe \in Int /\ w.pl \in Int /\ w.de \in Int /\ w.dl \in Int
  BY DEF Trip, Windows, Time
<1>4. Horizon \in Nat
  BY HorizonAssumption
<1>5. AtDelivery(t, w, s) <= sd /\ AtDelivery(t, w, s) \in Int
  BY <1>2, <1>3 DEF AtDelivery, AtPickup, Later
<1>6. AtHome(t, w, s) <= Horizon
  BY <1>2, <1>3, <1>4, <1>5 DEF AtHome, Later
<1>. QED  BY <1>2, <1>3, <1>5, <1>6 DEF CheckRequest, Open, AtPickup

(***************************************************************************)
(* A request that passes the test can be served, provided that no window   *)
(* ends before it starts.  The proviso is needed: the test looks at the    *)
(* end of a window before it waits for the start.                          *)
(***************************************************************************)
THEOREM CheckSound ==
  ASSUME NEW t \in Trip, NEW w \in Windows, NEW s \in Nat,
         Open(w), CheckRequest(t, w, s)
  PROVE  Servable(t, w, s)
<1>. DEFINE sp == Later(w.pe, AtPickup(t))
            sd == Later(w.de, AtDelivery(t, w, s))
<1>1. /\ t.out \in Nat /\ t.ride \in Nat /\ t.back \in Nat
      /\ w.pe \in Int /\ w.pl \in Int /\ w.de \in Int /\ w.dl \in Int
  BY DEF Trip, Windows, Time
<1>2. sp \in w.pe .. w.pl /\ t.out <= sp
  BY <1>1 DEF Open, CheckRequest, AtPickup, Later
<1>3. AtDelivery(t, w, s) = sp + s + t.ride
  BY DEF AtDelivery
<1>4. sd \in w.de .. w.dl /\ sp + s + t.ride <= sd
  BY <1>1, <1>2, <1>3 DEF Open, CheckRequest, Later
<1>5. sd + s + t.back <= Horizon
  BY DEF CheckRequest, AtHome
<1>. HIDE DEF sp, sd
<1>. QED  BY <1>2, <1>4, <1>5 DEF Servable

(* Rounding down by itself.                                                *)
LEMMA FloorFacts ==
  ASSUME NEW x \in Int, NEW y \in Int
  PROVE  /\ Floor(x) \in Int /\ Floor(x) <= x
         /\ x <= y => Floor(x) <= Floor(y)
         /\ y % Minute = 0 /\ y <= x => y <= Floor(x)
         /\ y % Minute = 0 => Floor(y) = y
         /\ Floor(x) % Minute = 0
<1>1. Floor(x) \in Int /\ Floor(x) <= x /\ Floor(x) % Minute = 0
  BY DEF Floor, Minute
<1>2. y % Minute = 0 => Floor(y) = y
  BY DEF Floor, Minute
<1>3. x <= y => Floor(x) <= Floor(y)
  BY DEF Floor, Minute
<1>4. y % Minute = 0 /\ y <= x => y <= Floor(x)
  BY DEF Floor, Minute
<1>. QED  BY <1>1, <1>2, <1>3, <1>4

(***************************************************************************)
(* The windows are rounded down when the instance is written, travel and   *)
(* service times are whole minutes: a request that can be served can be    *)
(* served in the file, too, and at whole minutes.                          *)
(***************************************************************************)
THEOREM FloorKeepsServable ==
  ASSUME NEW t \in Trip, NEW w \in Windows, NEW s \in Nat,
         WholeMinutes(t, s), Servable(t, w, s)
  PROVE  Servable(t, Floored(w), s)
<1>1. PICK sp \in w.pe .. w.pl : \E sd \in w.de .. w.dl :
           t.out <= sp /\ sp + s + t.ride <= sd /\ sd + s + t.back <= Horizon
  BY DEF Servable
<1>2. PICK sd \in w.de .. w.dl :
           t.out <= sp /\ sp + s + t.ride <= sd /\ sd + s + t.back <= Horizon
  BY <1>1
<1>3. /\ t.out \in Nat /\ t.ride \in Nat /\ t.back \in Nat /\ Horizon \in Nat
      /\ w.pe \in Int /\ w.pl \in Int /\ w.de \in Int /\ w.dl \in Int
      /\ sp \in Int /\ sd \in Int
  BY HorizonAssumption DEF Trip, Windows, Time
<1>. DEFINE f == Floored(w)
<1>4. /\ f.pe = Floor(w.pe) /\ f.pl = Floor(w.pl)
      /\ f.de = Floor(w.de) /\ f.dl = Floor(w.dl)
  BY DEF Floored
<1>5. Floor(sp) \in f.pe .. f.pl
  BY <1>3, <1>4, FloorFacts
<1>6. Floor(sd) \in f.de .. f.dl
  BY <1>3, <1>4, FloorFacts
<1>7. t.out <= Floor(sp)
  BY <1>2, <1>3, FloorFacts DEF WholeMinutes
<1>8. Floor(sp) + s + t.ride <= Floor(sd)
  <2>1. (Floor(sp) + s + t.ride) % Minute = 0
    <3>1. Floor(sp) \in Int /\ Floor(sp) % Minute = 0
      BY <1>3, FloorFacts
    <3>. QED  BY <3>1, <1>3 DEF WholeMinutes, Minute
  <2>2. Floor(sp) + s + t.ride \in Int /\ Floor(sp) + s + t.ride <= sd
    BY <1>2, <1>3, FloorFacts
  <2>. QED  BY <2>1, <2>2, <1>3, FloorFacts
<1>9. Floor(sd) + s + t.back <= Horizon
  <2>1. Floor(sd) \in Int /\ Floor(sd) <= sd
    BY <1>3, FloorFacts
  <2>. QED  BY <2>1, <1>2, <1>3
<1>. HIDE DEF f
<1>10. Servable(t, f, s)
  BY <1>5, <1>6, <1>7, <1>8, <1>9 DEF Servable
<1>. QED  BY <1>10 DEF f

-----------------------------------------------------------------------------
Bent(t, w) ==
  /\ w \in Windows
  /\ w.pe <= w.pl
  /\ w.de <= w.dl \/ (w.dl = Horizon - t.back /\ w.dl < w.de)

Typed ==
  /\ tw \in Nat /\ stw \in Nat /\ stw % Minute = 0
  /\ trip \in [Request -> Trip]
  /\ \A r \in Request : WholeMinutes(trip[r], stw)
  /\ todo \subseteq Request
  /\ offset \in [Request -> Nat]
  /\ win \in [Request -> Windows]

IndInv ==
  /\ Typed
  /\ pc # "written" => \A r \in Request \ todo : Bent(trip[r], win[r])
  /\ pc \in {"check", "accepted"} => todo = {}
  /\ pc = "accepted" => \A r \in Request : CheckRequest(trip[r], win[r], stw)
  /\ pc = "written" => \A r \in Request : Servable(trip[r], win[r], stw)

-----------------------------------------------------------------------------
(* Whatever center is drawn and whenever the delivery opens.               *)
LEMMA DrawnIsBent ==
  ASSUME NEW t \in Trip, NEW c \in Centers(t), NEW e \in Nat, tw \in Nat, stw \in Nat
  PROVE  Bent(t, DrawnWindows(t, c, e))
<1>1. /\ t.out \in Nat /\ t.ride \in Nat /\ t.back \in Nat /\ Horizon \in Nat
  BY HorizonAssumption DEF Trip
<1>2. Width \in Nat
  BY DEF Width, Minute
<1>3. c \in Nat /\ c <= Horizon
  BY <1>1 DEF Centers, Latest
<1>4. Opens(c) \in Int /\ Closes(c) \in Int /\ Opens(c) <= Closes(c)
  BY <1>1, <1>2, <1>3 DEF Opens, Closes, Later, Earlier
<1>. DEFINE w == DrawnWindows(t, c, e)
<1>5. /\ w.pe = Opens(c) /\ w.pl = Closes(c) /\ w.de = e
      /\ w.dl = Earlier(e + tw, Horizon - t.back)
      /\ w = [pe |-> w.pe, pl |-> w.pl, de |-> w.de, dl |-> w.dl]
  BY DEF DrawnWindows
<1>6. w.dl \in Int /\ (w.de <= w.dl \/ (w.dl = Horizon - t.back /\ w.dl < w.de))
  BY <1>1, <1>5 DEF Earlier
<1>7. w \in Windows
  <2>1. w.pe \in Int /\ w.pl \in Int /\ w.de \in Int /\ w.dl \in Int
    BY <1>4, <1>5, <1>6
  <2>. HIDE DEF w
  <2>. QED  BY <2>1, <1>5 DEF Windows, Time
<1>. QED  BY <1>4, <1>5, <1>6, <1>7 DEF Bent

(* Windows that are open all day are Bent, too.                            *)
LEMMA OpenWindowsBent ==
  ASSUME NEW t \in Trip
  PROVE  Bent(t, [pe |-> 0, pl |-> Horizon, de |-> 0, dl |-> Horizon])
BY HorizonAssumption DEF Bent, Windows, Time, Trip

(* A cut-off window makes the way home too long.                           *)
LEMMA CheckedIsServable ==
  ASSUME NEW t \in Trip, NEW w, Bent(t, w), NEW s \in Nat, CheckRequest(t, w, s)
  PROVE  Servable(t, w, s)
<1>1. /\ w \in Windows
      /\ t.out \in Nat /\ t.ride \in Nat /\ t.back \in Nat /\ Horizon \in Nat
      /\ w.pe \in Int /\ w.pl \in Int /\ w.de \in Int /\ w.dl \in Int
  BY HorizonAssumption DEF Trip, Bent, Windows, Time
<1>2. AtDelivery(t, w, s) \in Int
  BY <1>1 DEF AtDelivery, AtPickup, Later
<1>3. w.de <= Later(w.de, AtDelivery(t, w, s))
  BY <1>1, <1>2 DEF Later
<1>4. Later(w.de, AtDelivery(t, w, s)) + s + t.back <= Horizon
  BY DEF CheckRequest, AtHome
<1>5. Later(w.de, AtDelivery(t, w, s)) \in Int
  BY <1>1, <1>2 DEF Later
<1>6. ~(w.dl = Horizon - t.back /\ w.dl < w.de)
  BY <1>1, <1>3, <1>4, <1>5
<1>7. Open(w)
  BY <1>6 DEF Bent, Open
<1>. QED  BY <1>1, <1>7, CheckSound

-----------------------------------------------------------------------------
(* Before the first draw there is nothing to show but types.               *)
LEMMA InitInv == Init => IndInv
<1>. SUFFICES ASSUME Init PROVE IndInv
  OBVIOUS
<1>1. /\ pc = "draw" /\ todo = Request
      /\ tw \in TimeWindow /\ stw \in ServiceTime
      /\ trip \in [Request -> [out : Legs, ride : Legs, back : Legs]]
      /\ offset = [r \in Request |-> 0]
      /\ win = [r \in Request |-> NoWindows]
  BY DEF Init
<1>2. tw \in Nat /\ stw \in Nat /\ stw % Minute = 0
  BY <1>1, TimesAssumption
<1>3. \A t \in [out : Legs, ride : Legs, back : Legs] : t \in Trip /\ WholeMinutes(t, stw)
  <2>. TAKE t \in [out : Legs, ride : Legs, back : Legs]
  <2>1. t.out \in Legs /\ t.ride \in Legs /\ t.back \in Legs
    OBVIOUS
  <2>2. \A x \in Legs : x \in Nat /\ x % Minute = 0
    BY TimesAssumption
  <2>3. t = [out |-> t.out, ride |-> t.ride, back |-> t.back]
    OBVIOUS
  <2>4. t \in Trip
    BY <2>1, <2>2, <2>3 DEF Trip
  <2>. QED  BY <2>1, <2>2, <2>4, <1>2 DEF WholeMinutes
<1>4. NoWindows \in Windows
  BY DEF NoWindows, Windows, Time
<1>5. Typed
  <2>1. /\ trip \in [Request -> Trip]
        /\ \A r \in Request : WholeMinutes(trip[r], stw)
    BY <1>1, <1>3
  <2>. QED  BY <2>1, <1>1, <1>2, <1>4 DEF Typed
<1>. QED  BY <1>1, <1>5 DEF IndInv

(* Every step keeps the invariant; the draws are the ones that need care.  *)
LEMMA NextInv == IndInv /\ [Next]_vars => IndInv'
<1>. SUFFICES ASSUME IndInv, [Next]_vars PROVE IndInv'
  OBVIOUS
<1>0. Typed
  BY DEF IndInv
<1>1. ASSUME NEW r \in Request, DrawWindows(r) PROVE IndInv'
  <2>1. PICK c \in Centers(trip[r]) :
          \/ /\ win' = [win EXCEPT ![r] =
                  DrawnWindows(trip[r], c, Closes(c) + trip[r].ride + stw)]
             /\ UNCHANGED offset
          \/ \E x \in Tenths :
               LET o == (trip[r].ride \div Minute) * x IN
               /\ win' = [win EXCEPT ![r] =
                    DrawnWindows(trip[r], c, Opens(c) + trip[r].ride + stw + o)]
               /\ offset' = [offset EXCEPT ![r] = o]
    BY <1>1 DEF DrawWindows
  <2>2. /\ pc = "draw" /\ pc' = "draw" /\ todo' = todo \ {r}
        /\ UNCHANGED <<tw, stw, trip, timed>>
    BY <1>1 DEF DrawWindows
  <2>3. /\ trip[r] \in Trip /\ trip[r].ride \in Nat /\ trip[r].back \in Nat
        /\ trip[r].out \in Nat
        /\ tw \in Nat /\ stw \in Nat /\ Horizon \in Nat
    BY <1>0, HorizonAssumption DEF Typed, Trip
  <2>4. Opens(c) \in Nat /\ Closes(c) \in Nat
    <3>1. Width \in Nat
      BY <2>3 DEF Width, Minute
    <3>2. c \in Nat
      BY <2>3 DEF Centers, Latest
    <3>. QED  BY <3>1, <3>2, <2>3 DEF Opens, Closes, Later, Earlier
  <2>5. PICK e \in Nat, o \in Nat :
          /\ win' = [win EXCEPT ![r] = DrawnWindows(trip[r], c, e)]
          /\ offset' = [offset EXCEPT ![r] = o] \/ offset' = offset
    <3>1. CASE /\ win' = [win EXCEPT ![r] =
                    DrawnWindows(trip[r], c, Closes(c) + trip[r].ride + stw)]
               /\ UNCHANGED offset
      <4>1. Closes(c) + trip[r].ride + stw \in Nat
        BY <2>3, <2>4
      <4>. QED  BY <3>1, <4>1
    <3>2. ASSUME NEW x \in Tenths,
                 win' = [win EXCEPT ![r] = DrawnWindows(trip[r], c,
                   Opens(c) + trip[r].ride + stw + (trip[r].ride \div Minute) * x)],
                 offset' = [offset EXCEPT ![r] = (trip[r].ride \div Minute) * x]
          PROVE  \E e \in Nat, o \in Nat :
                   /\ win' = [win EXCEPT ![r] = DrawnWindows(trip[r], c, e)]
                   /\ offset' = [offset EXCEPT ![r] = o] \/ offset' = offset
      <4>1. x \in {0, 1, 2, 3}
        BY TimesAssumption
      <4>2. (trip[r].ride \div Minute) \in Nat
        BY <2>3 DEF Minute
      <4>3. (trip[r].ride \div Minute) * x \in Nat
        BY <4>1, <4>2
      <4>4. Opens(c) + trip[r].ride + stw + (trip[r].ride \div Minute) * x \in Nat
        BY <2>3, <2>4, <4>3
      <4>. QED  BY <3>2, <4>3, <4>4
    <3>. QED  BY <2>1, <3>1, <3>2
  <2>. DEFINE d == DrawnWindows(trip[r], c, e)
  <2>6. Bent(trip[r], d)
    BY <2>3, DrawnIsBent
  <2>7. d \in Windows
    BY <2>6 DEF Bent
  <2>. HIDE DEF d
  <2>8. win' = [win EXCEPT ![r] = d]
    BY <2>5 DEF d
  <2>9. Typed'
    <3>1. win' \in [Request -> Windows]
      BY <1>0, <2>7, <2>8 DEF Typed
    <3>2. offset' \in [Request -> Nat]
      BY <1>0, <2>5 DEF Typed
    <3>3. todo' \subseteq Request
      BY <1>0, <2>2 DEF Typed
    <3>. QED  BY <1>0, <2>2, <3>1, <3>2, <3>3 DEF Typed
  <2>10. \A q \in Request \ todo' : Bent(trip'[q], win'[q])
    <3>. SUFFICES ASSUME NEW q \in Request \ todo' PROVE Bent(trip[q], win'[q])
      BY <2>2
    <3>1. CASE q = r
      <4>1. win'[q] = d
        BY <3>1, <2>8, <1>0 DEF Typed
      <4>. QED  BY <3>1, <4>1, <2>6
    <3>2. CASE q # r
      <4>1. win'[q] = win[q] /\ q \in Request \ todo
        BY <3>2, <2>2, <2>8, <1>0 DEF Typed
      <4>. QED  BY <4>1, <2>2 DEF IndInv
    <3>. QED  BY <3>1, <3>2
  <2>11. (\A q \in Request \ todo : Bent(trip[q], win[q]))'
    BY <2>10
  <2>. QED  BY <2>2, <2>9, <2>11 DEF IndInv
<1>2. ASSUME NEW r \in Request, NoCenter(r) PROVE IndInv'
  BY <1>2 DEF NoCenter, IndInv, Typed
<1>3. CASE OpenAllDay
  <2>. DEFINE all == [pe |-> 0, pl |-> Horizon, de |-> 0, dl |-> Horizon]
  <2>1. /\ pc = "draw" /\ pc' = "check" /\ todo' = {}
        /\ win' = [r \in Request |-> IF r \in todo THEN all ELSE win[r]]
        /\ UNCHANGED <<tw, stw, trip, timed, offset>>
    BY <1>3 DEF OpenAllDay
  <2>2. \A r \in Request : Bent(trip[r], all)
    BY <1>0, OpenWindowsBent DEF Typed
  <2>3. all \in Windows
    BY HorizonAssumption DEF Windows, Time
  <2>. HIDE DEF all
  <2>4. \A r \in Request : Bent(trip[r], win'[r])
    BY <2>1, <2>2 DEF IndInv
  <2>5. Typed'
    BY <2>1, <2>3, <1>0 DEF Typed
  <2>6. (\A r \in Request : Bent(trip[r], win[r]))'
    BY <2>1, <2>4
  <2>. QED  BY <2>1, <2>5, <2>6 DEF IndInv
<1>4. CASE Check
  <2>1. /\ pc = "check" /\ pc' \in {"accepted", "rejected"}
        /\ pc' = "accepted" => \A r \in Request : CheckRequest(trip[r], win[r], stw)
        /\ UNCHANGED <<tw, stw, trip, timed, todo, offset, win>>
    BY <1>4 DEF Check
  <2>2. Typed'
    BY <2>1, <1>0 DEF Typed
  <2>3. (pc = "accepted" => \A r \in Request : CheckRequest(trip[r], win[r], stw))'
    BY <2>1
  <2>4. (\A r \in Request \ todo : Bent(trip[r], win[r]))'
    BY <2>1 DEF IndInv
  <2>5. todo' = {}
    BY <2>1 DEF IndInv
  <2>. QED  BY <2>1, <2>2, <2>3, <2>4, <2>5 DEF IndInv
<1>5. CASE Write
  <2>1. /\ pc = "accepted" /\ pc' = "written"
        /\ win' = [r \in Request |-> Floored(win[r])]
        /\ UNCHANGED <<tw, stw, trip, timed, todo, offset>>
    BY <1>5 DEF Write
  <2>2. \A r \in Request : Servable(trip[r], win'[r], stw) /\ win'[r] \in Windows
    <3>. SUFFICES ASSUME NEW r \in Request
                  PROVE  Servable(trip[r], Floored(win[r]), stw) /\ Floored(win[r]) \in Windows
      BY <2>1
    <3>1. trip[r] \in Trip /\ win[r] \in Windows /\ stw \in Nat /\ WholeMinutes(trip[r], stw)
      BY <1>0 DEF Typed
    <3>2. Bent(trip[r], win[r]) /\ CheckRequest(trip[r], win[r], stw)
      BY <2>1 DEF IndInv
    <3>3. Servable(trip[r], win[r], stw)
      BY <3>1, <3>2, CheckedIsServable
    <3>4. Servable(trip[r], Floored(win[r]), stw)
      BY <3>1, <3>3, FloorKeepsServable
    <3>5. Floored(win[r]) \in Windows
      BY <3>1, FloorFacts DEF Floored, Windows, Time
    <3>. QED  BY <3>4, <3>5
  <2>3. Typed'
    BY <2>1, <2>2, <1>0 DEF Typed
  <2>4. (\A r \in Request : Servable(trip[r], win[r], stw))'
    BY <2>1, <2>2
  <2>. QED  BY <2>1, <2>3, <2>4 DEF IndInv
<1>6. CASE UNCHANGED vars
  BY <1>6 DEF vars, IndInv, Typed
<1>. QED  BY <1>1, <1>2, <1>3, <1>4, <1>5, <1>6 DEF Next

(* The invariant holds throughout.                                         *)
THEOREM Invariance == Spec => []IndInv
BY InitInv, NextInv, PTL DEF Spec

(***************************************************************************)
(* Every request of an instance that check_tw_feasibility accepts can be   *)
(* served within its windows and the day.                                  *)
(***************************************************************************)
THEOREM AcceptedCorrect == Spec => []AcceptedServable
<1>1. IndInv => AcceptedServable
  <2>. SUFFICES ASSUME IndInv, pc = "accepted", NEW r \in Request
                PROVE  Servable(trip[r], win[r], stw)
    BY DEF AcceptedServable
  <2>1. /\ trip[r] \in Trip /\ stw \in Nat
        /\ Bent(trip[r], win[r]) /\ CheckRequest(trip[r], win[r], stw)
    BY DEF IndInv, Typed
  <2>. QED  BY <2>1, CheckedIsServable
<1>. QED  BY <1>1, Invariance, PTL

(***************************************************************************)
(* And so can every request of the file, whose windows are rounded down.   *)
(***************************************************************************)
THEOREM WrittenCorrect == Spec => []WrittenServable
<1>1. IndInv => WrittenServable
  BY DEF IndInv, WrittenServable
<1>. QED  BY <1>1, Invariance, PTL

(* "Instance is feasible", from its announcement to its file.              *)
THEOREM ServableCorrect == Spec => []InstanceServable
<1>1. AcceptedServable /\ WrittenServable => InstanceServable
  BY DEF InstanceServable
<1>. QED  BY <1>1, AcceptedCorrect, WrittenCorrect, PTL

-----------------------------------------------------------------------------
(***************************************************************************)
(* The windows stay within the day, and what is drawn for a request lets   *)
(* the vehicle reach both stops in time; if radd left the window of the    *)
(* delivery alone it also comes home in time.                              *)
(***************************************************************************)
InDay(w) == w.pe \in Nat /\ w.de \in Nat /\ w.pl <= Horizon /\ w.dl <= Horizon

Fits(t, w, o) ==
  /\ AtPickup(t) <= w.pl
  /\ AtDelivery(t, w, stw) <= w.dl
  /\ o = 0 => CheckRequest(t, w, stw)

DrawnInv ==
  /\ pc \in {"draw", "check", "accepted", "rejected", "exit", "written"}
  /\ tw \in TimeWindow /\ stw \in ServiceTime /\ timed \subseteq Request
  /\ \A r \in Request : InDay(win[r])
  /\ pc \in {"draw", "check"} =>
       \A r \in timed \ todo : Fits(trip[r], win[r], offset[r])

(* The delivery opens when the vehicle that leaves the pickup at its       *)
(* opening, or at its closing, can be there, or o later.                   *)
LEMMA DrawnFits ==
  ASSUME NEW t \in Trip, NEW c \in Centers(t), NEW o \in Nat, NEW e \in Nat,
         tw \in Nat, stw \in Nat,
         \/ Apart(t, c) /\ e = Closes(c) + t.ride + stw
         \/ e = Opens(c) + t.ride + stw + o
  PROVE  /\ InDay(DrawnWindows(t, c, e))
         /\ Fits(t, DrawnWindows(t, c, e), o)
<1>1. /\ t.out \in Nat /\ t.ride \in Nat /\ t.back \in Nat /\ Horizon \in Nat
      /\ tw \in Nat /\ stw \in Nat
  BY HorizonAssumption DEF Trip
<1>2. Width \in Nat /\ Width <= tw
  BY <1>1 DEF Width, Minute
<1>3. c \in Nat /\ t.out <= c /\ c + t.ride + t.back + 2 * stw <= Horizon
  BY <1>1 DEF Centers, Latest
<1>4. /\ Opens(c) \in Nat /\ Opens(c) <= c /\ c <= Opens(c) + tw
      /\ Closes(c) \in Nat /\ c <= Closes(c) /\ Closes(c) <= Horizon
  BY <1>1, <1>2, <1>3 DEF Opens, Closes, Later, Earlier
<1>5. Apart(t, c) => Closes(c) + t.ride + t.back + 2 * stw <= Horizon
  BY <1>1, <1>4 DEF Apart, Latest
<1>. DEFINE w == DrawnWindows(t, c, e)  a == Later(w.pe, t.out)
<1>6. /\ w.pe = Opens(c) /\ w.pl = Closes(c) /\ w.de = e
      /\ w.dl = Earlier(e + tw, Horizon - t.back)
  BY DEF DrawnWindows
<1>7. w.dl \in Int /\ w.dl <= Horizon
  BY <1>1, <1>6 DEF Earlier
<1>8. a \in Nat /\ a <= c
  BY <1>1, <1>3, <1>4, <1>6 DEF Later
<1>9. AtDelivery(t, w, stw) = a + stw + t.ride
  BY DEF AtDelivery, AtPickup
<1>. HIDE DEF a, w
<1>10. a + stw + t.ride <= w.dl
  <2>1. a + stw + t.ride <= e + tw
    BY <1>1, <1>3, <1>4, <1>8
  <2>2. a + stw + t.ride <= Horizon - t.back
    BY <1>1, <1>3, <1>8
  <2>. QED  BY <1>1, <1>6, <2>1, <2>2 DEF Earlier
<1>11. o = 0 => Later(e, a + stw + t.ride) + stw + t.back <= Horizon
  BY <1>1, <1>3, <1>4, <1>5, <1>8 DEF Later
<1>12. InDay(w)
  BY <1>4, <1>6, <1>7 DEF InDay
<1>13. Fits(t, w, o)
  BY <1>3, <1>4, <1>6, <1>9, <1>10, <1>11, <1>1
  DEF Fits, CheckRequest, AtPickup, AtHome
<1>. QED  BY <1>12, <1>13 DEF w

(* A draw, for the request that it is for.                                 *)
LEMMA DrawFacts ==
  ASSUME Typed, NEW r \in Request, DrawWindows(r)
  PROVE  /\ win' = [win EXCEPT ![r] = win'[r]]
         /\ offset' = [offset EXCEPT ![r] = offset'[r]]
         /\ offset'[r] \in Nat /\ InDay(win'[r])
         /\ Fits(trip[r], win'[r], offset'[r])
<1>1. /\ trip[r] \in Trip /\ trip[r].ride \in Nat /\ tw \in Nat /\ stw \in Nat
      /\ offset \in [Request -> Nat] /\ offset[r] \in Nat
      /\ win \in [Request -> Windows]
      /\ \A e : [win EXCEPT ![r] = e][r] = e
  BY DEF Typed, Trip
<1>2. PICK c \in Centers(trip[r]) :
        \/ /\ Apart(trip[r], c)
           /\ win' = [win EXCEPT ![r] =
                DrawnWindows(trip[r], c, Closes(c) + trip[r].ride + stw)]
           /\ UNCHANGED offset
        \/ \E x \in Tenths :
             LET o == (trip[r].ride \div Minute) * x IN
             /\ win' = [win EXCEPT ![r] =
                  DrawnWindows(trip[r], c, Opens(c) + trip[r].ride + stw + o)]
             /\ offset' = [offset EXCEPT ![r] = o]
  BY DEF DrawWindows
<1>3. Opens(c) \in Nat /\ Closes(c) \in Nat
  <2>1. Width \in Nat /\ c \in Nat /\ Horizon \in Nat
    BY <1>1, HorizonAssumption DEF Width, Minute, Centers, Latest, Trip
  <2>. QED  BY <2>1 DEF Opens, Closes, Later, Earlier
<1>4. PICK e \in Nat, o \in Nat :
        /\ \/ Apart(trip[r], c) /\ e = Closes(c) + trip[r].ride + stw
           \/ e = Opens(c) + trip[r].ride + stw + o
        /\ win' = [win EXCEPT ![r] = DrawnWindows(trip[r], c, e)]
        /\ offset' = [offset EXCEPT ![r] = o]
  <2>1. CASE /\ Apart(trip[r], c)
             /\ win' = [win EXCEPT ![r] =
                  DrawnWindows(trip[r], c, Closes(c) + trip[r].ride + stw)]
             /\ UNCHANGED offset
    <3>1. Closes(c) + trip[r].ride + stw \in Nat
      BY <1>1, <1>3
    <3>2. offset' = [offset EXCEPT ![r] = offset[r]]
      BY <1>1, <2>1
    <3>. QED  BY <1>1, <2>1, <3>1, <3>2
  <2>2. ASSUME NEW x \in Tenths,
               win' = [win EXCEPT ![r] = DrawnWindows(trip[r], c,
                 Opens(c) + trip[r].ride + stw + (trip[r].ride \div Minute) * x)],
               offset' = [offset EXCEPT ![r] = (trip[r].ride \div Minute) * x]
        PROVE  \E e \in Nat, o \in Nat :
                 /\ \/ Apart(trip[r], c) /\ e = Closes(c) + trip[r].ride + stw
                    \/ e = Opens(c) + trip[r].ride + stw + o
                 /\ win' = [win EXCEPT ![r] = DrawnWindows(trip[r], c, e)]
                 /\ offset' = [offset EXCEPT ![r] = o]
    <3>1. x \in {0, 1, 2, 3}
      BY TimesAssumption
    <3>2. (trip[r].ride \div Minute) \in Nat
      BY <1>1 DEF Minute
    <3>3. (trip[r].ride \div Minute) * x \in Nat
      BY <3>1, <3>2
    <3>4. Opens(c) + trip[r].ride + stw + (trip[r].ride \div Minute) * x \in Nat
      BY <1>1, <1>3, <3>3
    <3>. QED  BY <2>2, <3>3, <3>4
  <2>. QED  BY <1>2, <2>1, <2>2
<1>. DEFINE d == DrawnWindows(trip[r], c, e)
<1>5. InDay(d) /\ Fits(trip[r], d, o)
  BY <1>1, <1>4, DrawnFits
<1>. HIDE DEF d
<1>6. win' = [win EXCEPT ![r] = d] /\ offset' = [offset EXCEPT ![r] = o]
  BY <1>4 DEF d
<1>7. win'[r] = d /\ offset'[r] = o
  BY <1>1, <1>6
<1>. QED  BY <1>4, <1>5, <1>6, <1>7

(* Nothing is drawn at first: the windows are zero, and nobody has any.    *)
LEMMA DrawnInit == Init => DrawnInv
<1>. SUFFICES ASSUME Init PROVE DrawnInv
  OBVIOUS
<1>1. \A r \in Request : InDay(win[r])
  BY HorizonAssumption DEF Init, InDay, NoWindows
<1>. QED  BY <1>1 DEF Init, DrawnInv

(* A draw concerns one request, opening all day those that are not timed;  *)
(* what is written is rounded down and stays in the day.                   *)
LEMMA DrawnNext == IndInv /\ DrawnInv /\ [Next]_vars => DrawnInv'
<1>. SUFFICES ASSUME IndInv, DrawnInv, [Next]_vars PROVE DrawnInv'
  OBVIOUS
<1>0. Typed
  BY DEF IndInv
<1>1. ASSUME NEW r \in Request, DrawWindows(r) PROVE DrawnInv'
  <2>1. /\ pc = "draw" /\ pc' = "draw" /\ todo' = todo \ {r}
        /\ UNCHANGED <<tw, stw, trip, timed>>
    BY <1>1 DEF DrawWindows
  <2>2. /\ win' = [win EXCEPT ![r] = win'[r]]
        /\ offset' = [offset EXCEPT ![r] = offset'[r]]
        /\ InDay(win'[r]) /\ Fits(trip[r], win'[r], offset'[r])
    BY <1>0, <1>1, DrawFacts
  <2>3. \A q \in Request : q # r => win'[q] = win[q] /\ offset'[q] = offset[q]
    BY <2>2, <1>0 DEF Typed
  <2>4. \A q \in Request : InDay(win'[q])
    BY <2>2, <2>3 DEF DrawnInv
  <2>5. \A q \in timed \ todo' : Fits(trip[q], win'[q], offset'[q])
    <3>. SUFFICES ASSUME NEW q \in timed \ todo' PROVE Fits(trip[q], win'[q], offset'[q])
      OBVIOUS
    <3>1. CASE q = r
      BY <3>1, <2>2
    <3>2. CASE q # r
      <4>1. q \in Request /\ q \in timed \ todo
        BY <3>2, <2>1 DEF DrawnInv
      <4>2. Fits(trip[q], win[q], offset[q])
        BY <4>1, <2>1 DEF DrawnInv
      <4>. QED  BY <3>2, <4>1, <4>2, <2>3
    <3>. QED  BY <3>1, <3>2
  <2>6. (\A q \in Request : InDay(win[q]))'
    BY <2>4 DEF InDay
  <2>7. (\A q \in timed \ todo : Fits(trip[q], win[q], offset[q]))'
    BY <2>1, <2>5 DEF Fits
  <2>. QED  BY <2>1, <2>6, <2>7 DEF DrawnInv
<1>2. ASSUME NEW r \in Request, NoCenter(r) PROVE DrawnInv'
  BY <1>2 DEF NoCenter, DrawnInv, InDay
<1>3. CASE OpenAllDay
  <2>. DEFINE all == [pe |-> 0, pl |-> Horizon, de |-> 0, dl |-> Horizon]
  <2>1. /\ pc = "draw" /\ pc' = "check" /\ todo' = {} /\ timed \cap todo = {}
        /\ win' = [r \in Request |-> IF r \in todo THEN all ELSE win[r]]
        /\ UNCHANGED <<tw, stw, trip, timed, offset>>
    BY <1>3 DEF OpenAllDay
  <2>2. InDay(all)
    BY HorizonAssumption DEF InDay
  <2>. HIDE DEF all
  <2>3. \A r \in Request : InDay(win'[r])
    BY <2>1, <2>2 DEF DrawnInv
  <2>4. \A r \in timed : Fits(trip[r], win'[r], offset[r])
    <3>. SUFFICES ASSUME NEW r \in timed PROVE Fits(trip[r], win'[r], offset[r])
      OBVIOUS
    <3>1. r \in Request /\ r \notin todo /\ win'[r] = win[r]
      BY <2>1 DEF DrawnInv
    <3>. QED  BY <3>1, <2>1 DEF DrawnInv
  <2>5. (\A r \in Request : InDay(win[r]))'
    BY <2>3 DEF InDay
  <2>6. (\A r \in timed \ todo : Fits(trip[r], win[r], offset[r]))'
    BY <2>1, <2>4 DEF Fits
  <2>. QED  BY <2>1, <2>5, <2>6 DEF DrawnInv
<1>4. CASE Check
  BY <1>4 DEF Check, DrawnInv, InDay
<1>5. CASE Write
  <2>1. /\ pc' = "written" /\ win' = [r \in Request |-> Floored(win[r])]
        /\ UNCHANGED <<tw, stw, trip, timed>>
    BY <1>5 DEF Write
  <2>2. \A r \in Request : InDay(win'[r])
    <3>. SUFFICES ASSUME NEW r \in Request PROVE InDay(Floored(win[r]))
      BY <2>1
    <3>1. win[r] \in Windows /\ InDay(win[r])
      BY <1>0 DEF Typed, DrawnInv
    <3>2. /\ win[r].pe \in Nat /\ win[r].de \in Nat
          /\ win[r].pl \in Int /\ win[r].dl \in Int /\ Horizon \in Nat
          /\ win[r].pl <= Horizon /\ win[r].dl <= Horizon
      BY <3>1, HorizonAssumption DEF Windows, Time, InDay
    <3>3. /\ Floor(win[r].pl) \in Int /\ Floor(win[r].pl) <= win[r].pl
          /\ Floor(win[r].dl) \in Int /\ Floor(win[r].dl) <= win[r].dl
      BY <3>2, FloorFacts
    <3>4. Floor(win[r].pe) \in Nat /\ Floor(win[r].de) \in Nat
      BY <3>2 DEF Floor, Minute
    <3>. QED  BY <3>2, <3>3, <3>4 DEF Floored, InDay
  <2>3. (\A r \in Request : InDay(win[r]))'
    BY <2>2 DEF InDay
  <2>. QED  BY <2>1, <2>3 DEF DrawnInv
<1>6. CASE UNCHANGED vars
  BY <1>6 DEF vars, DrawnInv, InDay, Fits, CheckRequest, AtPickup, AtDelivery, AtHome
<1>. QED  BY <1>1, <1>2, <1>3, <1>4, <1>5, <1>6 DEF Next

(* The invariant holds throughout.                                         *)
THEOREM DrawnInvariance == Spec => []DrawnInv
BY DrawnInit, DrawnNext, Invariance, PTL DEF Spec

(***************************************************************************)
(* No window starts before the day or ends after it, neither when it is    *)
(* drawn, nor when it stays open, nor in the file.                         *)
(***************************************************************************)
THEOREM TypeCorrect == Spec => []TypeOK
<1>1. IndInv /\ DrawnInv => TypeOK
  BY DEF IndInv, Typed, DrawnInv, InDay, TypeOK
<1>. QED  BY <1>1, Invariance, DrawnInvariance, PTL

(***************************************************************************)
(* A request with windows is never late at a stop, and fails the test only *)
(* if radd moved the window of its delivery.                               *)
(***************************************************************************)
THEOREM TimedFitsCorrect == Spec => []TimedFitsUnlessMoved
<1>1. IndInv /\ DrawnInv => TimedFitsUnlessMoved
  BY DEF IndInv, DrawnInv, Fits, TimedFitsUnlessMoved
<1>. QED  BY <1>1, Invariance, DrawnInvariance, PTL
=============================================================================

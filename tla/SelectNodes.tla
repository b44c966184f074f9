---------------------------- MODULE SelectNodes -----------------------------
(***************************************************************************)
(* Distributer::select_nodes (src/src/distributer.cpp): requests are drawn *)
(* from a file of complete nodes around an attractor, itself a node of the *)
(* file, and then a depot is looked for from which all of them fit into    *)
(* the day.                                                                *)
(*                                                                         *)
(* The world is a line, a travel time the distance on it; half a minute is *)
(* the unit of time.  Draws of a node that is used already change nothing  *)
(* and are not steps.  The nodes of the file have no service time          *)
(* (src/src/configurations.cpp:112).                                       *)
(***************************************************************************)
EXTENDS Integers, Sequences, FiniteSets, FiniteSetsExt

CONSTANTS
  Requests,      \* pickups of the node file: nodes 2r and 2r + 1 are a pair
  Spot,          \* where a node may be
  Centers,       \* centers of windows: <<of the pickup, of the delivery>>
  NumPoints,     \* values of num_points
  Wrap,          \* 2^64: num_points is unsigned
  Horizon, HalfWindow, \* max_route_time; half the width of a window
  CentralTries,  \* 100 and
  RandomTries    \* 10000 in the code: after so many tries the attractor is taken

Size   == 2 * Requests
Index  == 0 .. Size - 1

ASSUME SelectAssumption ==
  /\ Requests \in Nat \ {0} /\ Wrap \in Nat /\ Wrap - 1 > Size
  /\ Horizon \in Nat /\ HalfWindow \in Nat
  /\ NumPoints \subseteq 0 .. Wrap - 1 /\ CentralTries \in Nat /\ RandomTries \in Nat
  /\ Spot \subseteq Int /\ Centers \subseteq Nat \X Nat

VARIABLES
  pc,        \* "attractor", "select", "depot", "done"
  num,       \* num_points
  dptt,      \* the type of the depot
  spot, etw, \* the nodes: position and center of the window
  ai,        \* the attractor's index
  used,      \* the nodes that are used
  selected,  \* the vector of selected nodes
  depot,     \* the index of the node at whose location the depot is
  tries

file == <<num, dptt, spot, etw>>
vars == <<pc, file, ai, used, selected, depot, tries>>

(* num_points - 1, which wraps around for SIZE 0.                          *)
Wanted == IF num = 0 THEN Wrap - 1 ELSE num - 1

(* "while(selected.size() < num_points-1)"                                 *)
StillShort_Slip(chosen) == Len(chosen) <= Wanted
StillShort(chosen) == Len(chosen) < Wanted

IsPickup(i) == i % 2 = 0
Pair(i) == IF IsPickup(i) THEN i + 1 ELSE i - 1

Init ==
  /\ pc = "attractor"
  /\ num \in NumPoints
  /\ dptt \in {"Central", "Random"}
  /\ spot \in [Index -> Spot]
  /\ \E c \in [0 .. Requests - 1 -> Centers] :
        etw = [i \in Index |-> IF IsPickup(i) THEN c[i \div 2][1] ELSE c[i \div 2][2]]
  /\ ai = 0
  /\ used = {}
  /\ selected = << >>
  /\ depot = 0
  /\ tries = 0

-----------------------------------------------------------------------------
PickAttractor ==
  /\ pc = "attractor"
  /\ ai' \in Index
  /\ used' = {ai', Pair(ai')}
  /\ pc' = IF StillShort(selected) THEN "select" ELSE "depot"
  /\ UNCHANGED <<file, selected, depot, tries>>

Dist(a, b)  == IF a < b THEN b - a ELSE a - b
Later(a, b) == IF a < b THEN b ELSE a

(* The centers of the windows of request p, seen from a place that is      *)
(* `away' from the pickup.                                                 *)
PickupCenter(p, away) == IF away > etw[p] - HalfWindow THEN away + HalfWindow ELSE etw[p]
DeliveryCenter(p, away) == etw[Pair(p)] + PickupCenter(p, away) - etw[p]

(* Back at the place after serving p: what selecting a request reckons ... *)
BackAtAttractor_Slip(place, p) ==
  LET tas == Dist(place, spot[p])
      tsd == Dist(spot[p], spot[Pair(p)])
  IN Later(tas + tsd, etw[Pair(p)] - HalfWindow) + Dist(spot[Pair(p)], place)
BackAtAttractor(place, p) ==
  LET tas == Dist(place, spot[p])
      tsd == Dist(spot[p], spot[Pair(p)])
  IN Later(Later(tas, PickupCenter(p, tas)) + tsd, DeliveryCenter(p, tas) - HalfWindow)
       + Dist(spot[Pair(p)], place)

(* ... and what trying a depot reckons.                                    *)
BackAtDepot_Slip(place, p) ==
  LET t0p == Dist(place, spot[p])
      tpd == Dist(spot[p], spot[Pair(p)])
  IN Later(t0p + tpd, DeliveryCenter(p, t0p) - HalfWindow)
BackAtDepot(place, p) ==
  LET t0p == Dist(place, spot[p])
      tpd == Dist(spot[p], spot[Pair(p)])
  IN Later(t0p + tpd, DeliveryCenter(p, t0p) - HalfWindow) + Dist(spot[Pair(p)], place)

Fits(p) ==
  /\ etw[p] + HalfWindow < Horizon
  /\ etw[Pair(p)] + HalfWindow <= Horizon
  /\ BackAtAttractor(spot[ai], p) < Horizon

(* The numbers allow for the depot that will be put in front.              *)
Numbered_Slip(p) ==
  LET sp == Len(selected) IN
  << [node |-> p, id |-> sp + 1, pair |-> sp + 1],
     [node |-> Pair(p), id |-> sp + 2, pair |-> sp] >>
Numbered(p) ==
  LET sp == Len(selected) IN
  << [node |-> p, id |-> sp + 1, pair |-> sp + 2],
     [node |-> Pair(p), id |-> sp + 2, pair |-> sp + 1] >>

Marked_Slip(p) == used \cup {p}
Marked(p) == used \cup {p, Pair(p)}

(* One draw; the last node of the file is never drawn itself.              *)
Select ==
  /\ pc = "select"
  /\ \E s \in (0 .. Size - 2) \ used :
       LET p == IF IsPickup(s) THEN s ELSE Pair(s) IN
       /\ selected' = IF Fits(p) THEN selected \o Numbered(p) ELSE selected
       /\ used' = Marked(p)
  /\ pc' = IF StillShort(selected') THEN "select" ELSE "depot"
  /\ UNCHANGED <<file, ai, depot, tries>>

-----------------------------------------------------------------------------
(* select_central_depot: the unused node nearest to the middle of the used *)
(* ones, the first of several; the loop starts at 1, and 0 is the answer   *)
(* if it finds nothing.                                                    *)
OffCenter(u, i) ==
  LET there == {spot[x] : x \in u} IN Dist(2 * spot[i], Max(there) + Min(there))

CentralDepot(u, i) ==
  LET free == (1 .. Size - 1) \ u IN
  \/ free = {} /\ i = 0
  \/ /\ i \in free
     /\ \A x \in free : \/ OffCenter(u, i) < OffCenter(u, x)
                        \/ OffCenter(u, i) = OffCenter(u, x) /\ i <= x

(* Which node is tried.  In the first try the attractor is free again.     *)
Free_Slip == used
Free == IF tries = 0 THEN used \ {ai} ELSE used

Candidate(i) ==
  IF dptt = "Central"
  THEN IF tries > CentralTries THEN i = ai ELSE CentralDepot(Free, i)
  ELSE IF tries > RandomTries THEN i = ai ELSE i \in Index \ Free

ValidDepot(i) ==
  \A x \in DOMAIN selected :
     x % 2 = 1 => LET back == BackAtDepot(spot[i], selected[x].node)
                  IN back - (back % 2) <= Horizon       \* floor, in minutes

(* Bound: beyond both limits the count of the tries makes no difference.   *)
TriesBound == CentralTries + RandomTries + 1

TryDepot ==
  /\ pc = "depot"
  /\ \E i \in Index :
        /\ Candidate(i)
        /\ depot' = i
        /\ used' = Free \cup {i}
        /\ pc' = IF ValidDepot(i) THEN "done" ELSE "depot"
  /\ tries' = IF tries < TriesBound THEN tries + 1 ELSE tries
  /\ UNCHANGED <<file, ai, selected>>

Next == PickAttractor \/ Select \/ TryDepot

(* One thread; a draw that is repeated finds every unused node some time.  *)
Spec == Init /\ [][Next]_vars /\ WF_vars(Next)

-----------------------------------------------------------------------------
(* While requests are selected both ends of a pair are used or none, so    *)
(* that a pickup that is reached by its delivery is not a used one.        *)
TypeOK ==
  /\ pc \in {"attractor", "select", "depot", "done"}
  /\ ai \in Index /\ depot \in Index /\ tries \in Nat
  /\ used \subseteq Index
  /\ pc = "select" => \A i \in used : Pair(i) \in used
  /\ selected \in Seq([node : Index, id : Nat, pair : Nat])

(***************************************************************************)
(* "just take the attractor" (line 348), or draw on until it comes up:     *)
(* either ends the search, as the attractor's place is always a valid      *)
(* depot.  The two times are reckoned differently in the two loops.        *)
(***************************************************************************)
AttractorIsValid == pc = "depot" => ValidDepot(ai)

(***************************************************************************)
(* The search is short: "if(tries > 100)" the attractor is tried (line     *)
(* 348; for a random depot line 353), and that try is the last one.        *)
(***************************************************************************)
FewTries ==
  pc = "depot" => tries <= 1 + (IF dptt = "Central" THEN CentralTries ELSE RandomTries)

(***************************************************************************)
(* select_nodes returns if enough requests of the file fit around the      *)
(* attractor: those that do not are drawn at most once, and the search for *)
(* a depot ends although select_random_depot itself would draw for ever    *)
(* if every node were used ("avoid "infinite" loop").                      *)
(***************************************************************************)
EnoughFit ==
  2 * Cardinality({p \in Index : IsPickup(p) /\ ai \notin {p, Pair(p)} /\ Fits(p)}) >= Wanted

(***************************************************************************)
(* Why the draws end: the requests drawn so far include too few that fit,  *)
(* so that one that fits is unused, and its pickup is not the last node    *)
(* of the file, which line 304 never draws.                                *)
(***************************************************************************)
OneStillFits == pc = "select" /\ EnoughFit => (0 .. Size - 2) \ used # {}

(***************************************************************************)
(* Neither of the two loops without a bound ever turns in vain: one more   *)
(* request can be drawn, or the try at the attractor is at hand (lines     *)
(* 303, 345).                                                              *)
(***************************************************************************)
NeverInVain == AttractorIsValid /\ FewTries /\ OneStillFits

(* Fewer of them, and it draws for ever (line 303).                        *)
Returns == pc = "depot" \/ (pc = "select" /\ EnoughFit) ~> pc = "done"

(***************************************************************************)
(* The result is made of whole requests: pickup and delivery of one pair   *)
(* side by side, each request once, numbered so that indices, ids and      *)
(* pairs agree once the depot is in front.  There is one node more than    *)
(* asked for if num_points is even.  The depot is at none of them, not     *)
(* even if select_central_depot runs out of nodes and answers 0.           *)
(***************************************************************************)
WholeRequests ==
  /\ \A x \in DOMAIN selected :
       LET nd == selected[x] IN
       /\ nd.id = x
       /\ nd.pair \in DOMAIN selected
       /\ selected[nd.pair].node = Pair(nd.node)
       /\ IsPickup(nd.node) <=> x % 2 = 1
       /\ \A y \in DOMAIN selected : selected[y].node = nd.node => y = x
       /\ pc = "done" => nd.node # depot
  /\ pc \in {"depot", "done"} => num > 0 /\ Len(selected) = 2 * (num \div 2)
=============================================================================

----------------------------- MODULE Locations ------------------------------
(***************************************************************************)
(* Distributer::select_locations and generate_locations                    *)
(* (src/src/distributer.cpp): the locations of an instance, selected from  *)
(* a node file or generated within the limits, clustered or not, and the   *)
(* depot in front of them.                                                 *)
(*                                                                         *)
(* A draw may take any unused location of the file, a clustered draw one   *)
(* that is not too far from all seeds, and the central depot is any        *)
(* candidate.  A generated location is its longitude, a number of which    *)
(* nothing says whether it is degrees or radians: 6 are pi, and there are  *)
(* Radian degrees to a radian.  Draws that are rejected change nothing and *)
(* are not steps.                                                          *)
(***************************************************************************)
EXTENDS Integers, Sequences, FiniteSets

CONSTANTS
  Files,       \* node files: where each location is
  Places,      \* where a location of a file may be
  Km,          \* how far places are from each other
  NumPoints,   \* values of num_points
  NumClusters, \* values of nclusters
  Densities,   \* values of density, in tenths
  Limits,      \* <<west, east>>, in steps of 30 degrees
  Radian,      \* degrees of a radian, 180 / pi
  Wrap,        \* 2^64: SIZE is unsigned
  Memory       \* a vector gets no longer

ASSUME LocationsAssumption ==
  /\ Km \in [Places -> [Places -> Nat]]
  /\ \A f \in Files : f \in Seq(Places) /\ Len(f) > 0
  /\ NumPoints \subseteq 0 .. Wrap - 1
  /\ NumClusters \subseteq Nat /\ Densities \subseteq Nat
  /\ Memory \in Nat /\ Wrap \in Nat /\ Wrap - 1 > Memory /\ \A n \in NumPoints : n <= Memory
  /\ \A l \in Limits : l \in (-6 .. 6) \X (-6 .. 6)
  /\ Radian \in Nat \ {0}

VARIABLES
  pc,        \* "start", "seeds", "near", "anywhere", "depot", "done" or "thrown"
  source,    \* "file" or "limits": select_ or generate_locations
  file,      \* locs
  num, dist, dptt, nclusters, density, limits,
  used,      \* the locations of the file that are used
  selected,  \* the vector that is returned
  near,      \* how long the vector is after the clustered draws
  goal       \* how long it is when the depot is chosen

con  == <<source, file, num, dist, dptt, nclusters, density, limits>>
vars == <<pc, con, used, selected, near, goal>>

Locs == 0 .. Len(file) - 1

(* num_points - 1, the locations besides the depot: of SIZE 0, the largest *)
(* number there is.                                                        *)
Others == IF num = 0 THEN Wrap - 1 ELSE num - 1

Init ==
  /\ pc = "start"
  /\ source \in {"file", "limits"}
  /\ file \in IF source = "file" THEN Files ELSE {<< >>}
  /\ num \in NumPoints
  /\ dist \in {"Cluster", "Random", "ClusterRandom"}
  /\ dptt \in {"Central", "Random"}
  /\ nclusters \in NumClusters
  /\ density \in Densities
  /\ \E l \in Limits : limits = [west |-> l[1] * Radian, east |-> l[2] * Radian]
  /\ used = {}
  /\ selected = << >>
  /\ near = 0
  /\ goal = 0

-----------------------------------------------------------------------------
(* How many seeds the clusters get.  generate_locations passes the density *)
(* where the number of clusters is expected (lines 274, 278): truncated,   *)
(* and for cluster-random passed on once more, as the default 1.0 (261).   *)
Seeds ==
  IF dist = "Random" THEN 0
  ELSE IF source = "file" THEN nclusters
  ELSE IF dist = "Cluster" THEN density \div 10
  ELSE 1

(* std::ceil(cp*num_points) for the cp of [0.4, 0.6).                      *)
Shares(n) == (4 * n + 9) \div 10 .. (6 * n + 9) \div 10

Start ==
  /\ pc = "start"
  /\ \/ dist = "Cluster" /\ near' = Others /\ goal' = Others /\ pc' = "seeds"
     \/ dist = "Random"  /\ near' = 0      /\ goal' = Others /\ pc' = "anywhere"
     \/ /\ dist = "ClusterRandom"
        /\ near' \in Shares(Others)
        /\ goal' = Others
        /\ pc' = "seeds"
  /\ UNCHANGED <<con, used, selected>>

(* random_location_rectangle, over a border of the map too.  It is for     *)
(* limits in radians, but takes any numbers: then the width may be         *)
(* negative even with a full turn, and one turn does not bring the result  *)
(* back.                                                                   *)
HalfTurn == 6
Circle   == 2 * HalfTurn

Wrapped_Slip(lon) == IF lon < -HalfTurn THEN lon + Circle ELSE lon
Wrapped(lon) ==
  IF lon < -HalfTurn THEN lon + Circle
  ELSE IF lon > HalfTurn THEN lon - Circle ELSE lon

Rectangle(l) ==
  LET width == IF l.east < l.west THEN l.east - l.west + Circle ELSE l.east - l.west IN
  {Wrapped(l.west + x) : x \in IF width < 0 THEN width .. 0 ELSE 0 .. width}

(* From degrees to radians and back.                                       *)
InRad(l)   == [west |-> l.west \div Radian, east |-> l.east \div Radian]
ToDeg(lon) == lon * Radian

(* cluster_prob: a location is taken with a probability that is the sum of *)
(* e^-(density * km) over the seeds, which stand first in the vector.  A   *)
(* double has no such power below e^-745.1: of a location that is so far   *)
(* from every seed the sum is 0, as it is without seeds.                   *)
Underflow == 7451  \* the density is in tenths

Near(p, q) == density * Km[p][q] <= Underflow
InReach(i) == \E x \in 1 .. Seeds : Near(file[i + 1], file[selected[x] + 1])

(* What the next draw may take.  With generated locations the density of   *)
(* cluster_prob is the default, and around a seed there is always room.    *)
Takable ==
  IF source = "file" THEN {i \in Locs \ used : pc = "near" => InReach(i)}
  ELSE {ToDeg(lon) : lon \in {l \in Rectangle(InRad(limits)) : pc = "near" => Seeds > 0}}

(* One location more.                                                      *)
Marked_Slip(i) == used
Marked(i) == IF source = "file" THEN used \cup {i} ELSE used

Draw ==
  /\ Len(selected) < Memory
  /\ \E it \in Takable :
       /\ selected' = Append(selected, it)
       /\ used' = Marked(it)

DrawSeed ==
  /\ pc = "seeds"
  /\ Len(selected) < Seeds
  /\ Draw
  /\ UNCHANGED <<pc, con, near, goal>>

DrawNear ==
  /\ pc = "near"
  /\ Len(selected) < near
  /\ Draw
  /\ UNCHANGED <<pc, con, near, goal>>

DrawAnywhere ==
  /\ pc = "anywhere"
  /\ Len(selected) < goal
  /\ Draw
  /\ UNCHANGED <<pc, con, near, goal>>

(* The clustered draws are over; what they drew beyond their share, as     *)
(* there were more seeds than that, does not count for the others.         *)
StillToDraw_Slip == Others + 1 - near
StillToDraw == Others - near

EndOfStage ==
  \/ /\ pc = "seeds" /\ Len(selected) >= Seeds
     /\ pc' = "near"
     /\ UNCHANGED <<con, used, selected, near, goal>>
  \/ /\ pc = "near" /\ Len(selected) >= near
     /\ goal' = Len(selected) + StillToDraw
     /\ pc' = "anywhere"
     /\ UNCHANGED <<con, used, selected, near>>
  \/ /\ pc = "anywhere" /\ Len(selected) >= goal
     /\ pc' = "depot"
     /\ UNCHANGED <<con, used, selected, near, goal>>

(* select_central_depot looks at the unused locations from the second one  *)
(* on, and takes the first one if there are none; select_random_depot      *)
(* draws until it meets an unused one.                                     *)
DepotFrom_Slip(u) == IF dptt = "Central" THEN {0} ELSE Locs \ u
DepotFrom(u) ==
  IF dptt = "Random" THEN Locs \ u
  ELSE IF (Locs \ {0}) \ u = {} THEN {0} ELSE (Locs \ {0}) \ u

(* generate_central_depot, which does not know of borders, and             *)
(* generate_random_depot, which hands on the limits as they are.           *)
GeneratedDepots ==
  IF dptt = "Central" THEN {(limits.west + limits.east) \div 2} ELSE Rectangle(limits)

ChooseDepot ==
  /\ pc = "depot"
  /\ \E it \in IF source = "file" THEN DepotFrom(used) ELSE GeneratedDepots :
       /\ selected' = <<it>> \o selected
       /\ used' = Marked(it)
  /\ pc' = "done"
  /\ UNCHANGED <<con, near, goal>>

(* So many locations that the memory does not suffice: std::bad_alloc.     *)
Exhaust ==
  /\ \/ pc = "seeds" /\ Len(selected) < Seeds
     \/ pc = "near" /\ Len(selected) < near
     \/ pc = "anywhere" /\ Len(selected) < goal
  /\ Len(selected) = Memory /\ Takable # {}
  /\ pc' = "thrown"
  /\ UNCHANGED <<con, used, selected, near, goal>>

Next ==
  \/ Start \/ DrawSeed \/ DrawNear \/ DrawAnywhere
  \/ EndOfStage \/ ChooseDepot \/ Exhaust

(* One thread; repeated draws meet every location that can be taken.       *)
Spec == Init /\ [][Next]_vars /\ WF_vars(Next)

-----------------------------------------------------------------------------
(* Only locations of the file are used, and those that are returned are.   *)
TypeOK ==
  /\ pc \in {"start", "seeds", "near", "anywhere", "depot", "done", "thrown"}
  /\ near \in Nat /\ goal \in Nat
  /\ used \subseteq Locs
  /\ source = "file" => used = {selected[x] : x \in DOMAIN selected}
  /\ source = "limits" => selected \in Seq(Int)

(***************************************************************************)
(* No location is selected twice, the depot included, unless the file has  *)
(* too few: then a central depot repeats the first location of the file    *)
(* (a random depot is looked for in vain).                                 *)
(***************************************************************************)
NoLocationTwice ==
  source = "file" =>
    \A x, y \in DOMAIN selected :
       selected[x] = selected[y] => x = y \/ (pc = "done" /\ Len(file) < Len(selected))

(***************************************************************************)
(* Generated locations are within the limits, also those of limits that    *)
(* lie across the border of the map (lines 44-57, 212-254).  The central   *)
(* depot is, if they do not: the middle of limits across the border is on  *)
(* the other side of the earth (line 71).  The random depot is the matter  *)
(* of RandomDepotWithinLimits.                                             *)
(***************************************************************************)
Within(lon) ==
  IF limits.west <= limits.east THEN lon \in limits.west .. limits.east
  ELSE lon \in limits.west .. HalfTurn * Radian \/ lon \in -(HalfTurn * Radian) .. limits.east

(* Where generated locations lie.                                          *)
WithinLimits ==
  source = "limits" =>
    \A x \in DOMAIN selected :
       \/ Within(selected[x])
       \/ pc = "done" /\ x = 1 /\ (dptt = "Random" \/ limits.east < limits.west)

(***************************************************************************)
(* The depot is one of the locations to be created within the limits       *)
(* (configurations.cpp:140), and "rectangle limits are in radians"         *)
(* (distributer.cpp:43).  Refuted: generate_random_depot hands on degrees, *)
(* and what it gets back is written as degrees.                            *)
(***************************************************************************)
RandomDepotWithinLimits ==
  source = "limits" /\ pc = "done" /\ dptt = "Random" => Within(selected[1])

(***************************************************************************)
(* The instance gets the number of locations of SIZE, and more only if     *)
(* there are more clusters than locations to be clustered (the lines that  *)
(* would limit the clusters, 175 and 216, are commented out).  With SIZE 0 *)
(* there is no instance.                                                   *)
(***************************************************************************)
SizeAsAsked ==
  pc = "done" =>
    num > 0 /\ Len(selected) = num + (IF Seeds > near THEN Seeds - near ELSE 0)

(***************************************************************************)
(* With enough locations in the file, a cluster where clusters are asked   *)
(* for (of generated locations a density of at least 1, whatever CLUSTERS  *)
(* says), and, whichever locations become the seeds, enough of them near a *)
(* seed, the draws end.                                                    *)
(***************************************************************************)
Around(j) == {i \in Locs : Near(file[i + 1], file[j + 1])}

Enough ==
  /\ num > 0 /\ num + Seeds <= Memory
  /\ source = "file" => Len(file) >= num + Seeds
  /\ dist # "Random" =>
       /\ Seeds > 0
       /\ source = "file" => \A j \in Locs : Cardinality(Around(j)) >= num - 1

(***************************************************************************)
(* Why they end: as long as locations are drawn there is one to be taken,  *)
(* for the clusters one that is unused and near a seed, also if the seeds  *)
(* are more than the share of the clusters (lines 159-231), one is left    *)
(* for the depot, and the vector never fills the memory.                   *)
(***************************************************************************)
NothingInVain ==
  Enough =>
    /\ pc # "thrown"
    /\ source = "file" /\ pc \in {"seeds", "anywhere", "depot"} => Locs \ used # {}
    /\ source = "file" /\ pc = "near" /\ Len(selected) < near => Takable # {}

(* The draws of such a configuration end (lines 156-287).                  *)
LocationsFound == (pc = "start" /\ Enough) ~> pc = "done"
=============================================================================

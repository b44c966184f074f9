-------------------------- MODULE LocationsProofs ---------------------------
(***************************************************************************)
(* The locations of an instance, for files, clusters and limits of any     *)
(* size: none is selected twice unless the file has too few, there are as  *)
(* many as SIZE asks for and the seeds that are too many, and generated    *)
(* ones lie within the limits.                                             *)
(*                                                                         *)
(* The vector and the marks must be known to agree, as the central depot   *)
(* goes by the marks alone; and of the seeds, how far they overshoot the   *)
(* share of the clusters.                                                  *)
(***************************************************************************)
EXTENDS Locations, FiniteSetTheorems, SequenceTheorems, TLAPS

Overshoot == IF Seeds > near THEN Seeds - near ELSE 0

Typed ==
  /\ pc \in {"start", "seeds", "near", "anywhere", "depot", "done", "thrown"}
  /\ source \in {"file", "limits"} /\ dptt \in {"Central", "Random"}
  /\ file \in Seq(Places) /\ (source = "file" => Len(file) > 0)
  /\ num \in 0 .. Wrap - 1 /\ num <= Memory
  /\ dist \in {"Cluster", "Random", "ClusterRandom"}
  /\ nclusters \in Nat /\ density \in Nat
  /\ \E l \in Limits : limits = [west |-> l[1] * Radian, east |-> l[2] * Radian]
  /\ near \in 0 .. Others /\ goal \in Nat

(* The file: marks and vector agree.                                       *)
Selection ==
  /\ selected \in Seq(Locs) /\ used \subseteq Locs
  /\ used = {selected[x] : x \in DOMAIN selected}
  /\ pc # "done" =>
       /\ \A x, y \in DOMAIN selected : selected[x] = selected[y] => x = y
       /\ Cardinality(used) = Len(selected)

(* The limits: nothing is marked.                                          *)
Generation ==
  /\ selected \in Seq(Int) /\ used = {}
  /\ pc # "done" => \A x \in DOMAIN selected : Within(selected[x])

(* How long the vector is.                                                 *)
Lengths ==
  /\ pc = "start" => selected = << >>
  /\ pc # "done" => Len(selected) <= Memory
  /\ pc = "seeds" => dist # "Random" /\ Len(selected) <= Seeds
  /\ pc = "near" => dist # "Random" /\ Seeds <= Len(selected) /\ (Len(selected) <= near \/ Len(selected) = Seeds)
  /\ pc = "anywhere" => Len(selected) <= goal
  /\ pc \in {"anywhere", "depot"} => goal = Others + Overshoot
  /\ pc = "depot" => Len(selected) = goal

IndInv ==
  /\ Typed
  /\ source = "file" => Selection
  /\ source = "limits" => Generation
  /\ Lengths
  /\ NoLocationTwice /\ WithinLimits /\ SizeAsAsked

-----------------------------------------------------------------------------
(* What is left of SIZE after the depot, and that SIZE 0 leaves more than  *)
(* there is room for; a share is no more than the whole.                   *)
LEMMA Sizes ==
  ASSUME Typed
  PROVE  /\ Others \in Nat /\ Seeds \in Nat /\ near \in Nat /\ near <= Others
         /\ num > 0 => Others = num - 1
         /\ num = 0 => Others > Memory
         /\ Memory \in Nat /\ num \in Nat /\ Overshoot \in Nat
<1>1. Memory \in Nat /\ Wrap - 1 > Memory /\ Wrap \in Int
  BY LocationsAssumption
<1>2. num \in 0 .. Wrap - 1
  BY DEF Typed
<1>3. /\ Others \in Nat
      /\ num > 0 => Others = num - 1
      /\ num = 0 => Others > Memory
  BY <1>1, <1>2 DEF Others
<1>4. Seeds \in Nat
  <2>1. density \in Nat /\ nclusters \in Nat
    BY DEF Typed
  <2>2. density \div 10 \in Nat
    BY <2>1
  <2>. QED  BY <2>1, <2>2 DEF Seeds
<1>5. near \in Nat /\ near <= Others
  BY <1>3 DEF Typed
<1>. QED  BY <1>1, <1>2, <1>3, <1>4, <1>5 DEF Overshoot

(* A share of n locations is no more than n of them.                       *)
LEMMA SharesFit == \A n \in Nat : Shares(n) \subseteq 0 .. n
BY DEF Shares

(* What depends on the configuration alone stays as it is.                 *)
LEMMA Configured ==
  ASSUME UNCHANGED con
  PROVE  /\ Seeds' = Seeds /\ Others' = Others /\ Locs' = Locs
         /\ \A place : Within(place)' <=> Within(place)
         /\ UNCHANGED <<source, file, num, dist, dptt, nclusters, density, limits>>
BY DEF con, Seeds, Others, Locs, Within

(* The draw of a longitude wraps around the border of the map.             *)
LEMMA WrappedWithin ==
  \A w, e \in -6 .. 6 : \A x \in 0 .. (IF e < w THEN e - w + 12 ELSE e - w) :
     /\ Wrapped(w + x) \in -6 .. 6
     /\ IF w <= e THEN Wrapped(w + x) \in w .. e
        ELSE Wrapped(w + x) \in w .. 6 \/ Wrapped(w + x) \in -6 .. e
BY DEF Wrapped, Circle, HalfTurn

(* Degrees are in the order of the radians they are.                       *)
LEMMA Degrees ==
  ASSUME NEW a \in Int, NEW b \in Int
  PROVE  a * Radian \in Int /\ (a <= b <=> a * Radian <= b * Radian)
<1>1. Radian \in Int /\ Radian > 0
  BY LocationsAssumption
<1>2. a <= b => a * Radian <= b * Radian
  BY <1>1
<1>3. b < a => b * Radian < a * Radian
  BY <1>1
<1>4. a * Radian \in Int /\ b * Radian \in Int
  BY <1>1
<1>. QED  BY <1>2, <1>3, <1>4

(* To radians and back.                                                    *)
LEMMA Radians ==
  ASSUME NEW a \in Int
  PROVE  (a * Radian) \div Radian = a
<1>1. Radian \in Int /\ Radian > 0
  BY LocationsAssumption
<1>. DEFINE n == a * Radian
            q == n \div Radian
<1>2. n \in Int
  BY <1>1
<1>3. q \in Int /\ Radian * q <= n /\ n < Radian * q + Radian
  <2>. HIDE DEF n
  <2>. QED  BY <1>1, <1>2
<1>4. a * Radian < (q + 1) * Radian /\ q * Radian <= a * Radian
  <2>1. (q + 1) * Radian = Radian * q + Radian /\ q * Radian = Radian * q
    <3>. HIDE DEF q
    <3>. QED  BY <1>1, <1>3
  <2>. HIDE DEF q
  <2>. QED  BY <1>3, <2>1
<1>5. q <= a
  <2>. HIDE DEF q
  <2>. QED  BY <1>3, <1>4, Degrees
<1>6. a < q + 1
  <2>1. ~ (q + 1 <= a)
    <3>1. q + 1 \in Int /\ a * Radian \in Int /\ (q + 1) * Radian \in Int
      <4>. HIDE DEF q
      <4>. QED  BY <1>1, <1>3
    <3>. HIDE DEF q
    <3>. QED  BY <1>4, <3>1, Degrees
  <2>. HIDE DEF q
  <2>. QED  BY <1>3, <2>1
<1>7. q = a
  <2>. HIDE DEF q
  <2>. QED  BY <1>3, <1>5, <1>6
<1>. QED  BY <1>7

(* A drawn place, turned back into degrees, is within the limits.          *)
LEMMA DrawnWithin ==
  ASSUME Typed, NEW lon \in Rectangle(InRad(limits))
  PROVE  ToDeg(lon) \in Int /\ Within(ToDeg(lon))
<1>1. PICK l \in Limits : limits = [west |-> l[1] * Radian, east |-> l[2] * Radian]
  BY DEF Typed
<1>2. l[1] \in -6 .. 6 /\ l[2] \in -6 .. 6
  BY LocationsAssumption
<1>3. limits.west = l[1] * Radian /\ limits.east = l[2] * Radian
  BY <1>1
<1>4. InRad(limits) = [west |-> l[1], east |-> l[2]]
  BY <1>2, <1>3, Radians DEF InRad
<1>5. PICK x \in 0 .. (IF l[2] < l[1] THEN l[2] - l[1] + 12 ELSE l[2] - l[1]) :
        lon = Wrapped(l[1] + x)
  BY <1>2, <1>4 DEF Rectangle, Circle, HalfTurn
<1>6. /\ lon \in -6 .. 6
      /\ IF l[1] <= l[2] THEN lon \in l[1] .. l[2] ELSE lon \in l[1] .. 6 \/ lon \in -6 .. l[2]
  BY <1>2, <1>5, WrappedWithin
<1>7. /\ lon \in Int /\ l[1] \in Int /\ l[2] \in Int /\ 6 \in Int /\ -6 \in Int
      /\ (-6) * Radian = -(6 * Radian)
  BY <1>2, <1>6, LocationsAssumption
<1>8. /\ lon * Radian \in Int /\ l[1] * Radian \in Int /\ l[2] * Radian \in Int
      /\ 6 * Radian \in Int /\ -(6 * Radian) \in Int
  BY <1>7, Degrees
<1>9. CASE l[1] <= l[2]
  <2>1. l[1] * Radian <= lon * Radian /\ lon * Radian <= l[2] * Radian /\ l[1] * Radian <= l[2] * Radian
    BY <1>6, <1>7, <1>9, Degrees
  <2>. QED  BY <1>3, <1>8, <2>1 DEF Within, ToDeg
<1>10. CASE ~ (l[1] <= l[2])
  <2>1. ~ (l[1] * Radian <= l[2] * Radian)
    BY <1>7, <1>10, Degrees
  <2>2. \/ l[1] * Radian <= lon * Radian /\ lon * Radian <= 6 * Radian
        \/ (-6) * Radian <= lon * Radian /\ lon * Radian <= l[2] * Radian
    BY <1>6, <1>7, <1>10, Degrees
  <2>. QED  BY <1>3, <1>7, <1>8, <2>1, <2>2 DEF Within, ToDeg, HalfTurn
<1>. QED  BY <1>9, <1>10

(* The central depot is, if the limits do not lie across the border: the   *)
(* middle of two numbers is between them.                                  *)
LEMMA DepotWithin ==
  ASSUME Typed, NEW lon \in GeneratedDepots
  PROVE  lon \in Int /\ (Within(lon) \/ dptt = "Random" \/ limits.east < limits.west)
<1>1. PICK l \in Limits : limits = [west |-> l[1] * Radian, east |-> l[2] * Radian]
  BY DEF Typed
<1>2. limits.west \in Int /\ limits.east \in Int
  BY <1>1, LocationsAssumption
<1>3. CASE dptt = "Central"
  BY <1>2, <1>3 DEF GeneratedDepots, Within
<1>4. CASE dptt = "Random"
  BY <1>2, <1>4 DEF GeneratedDepots, Rectangle, Wrapped, Circle, HalfTurn
<1>. QED  BY <1>3, <1>4 DEF Typed

-----------------------------------------------------------------------------
(* One location more at the end of a vector.                               *)
LEMMA OneMore ==
  ASSUME NEW S, NEW s \in Seq(S), NEW e \in S, NEW t, t = Append(s, e)
  PROVE  /\ t \in Seq(S) /\ Len(t) = Len(s) + 1 /\ Len(s) \in Nat
         /\ DOMAIN s = 1 .. Len(s) /\ DOMAIN t = 1 .. Len(s) + 1
         /\ \A x \in DOMAIN s : t[x] = s[x]
         /\ t[Len(s) + 1] = e
OBVIOUS

(* One in front of it.                                                     *)
LEMMA OneInFront ==
  ASSUME NEW S, NEW s \in Seq(S), NEW e \in S, NEW t, t = <<e>> \o s
  PROVE  /\ t \in Seq(S) /\ Len(t) = Len(s) + 1 /\ Len(s) \in Nat
         /\ DOMAIN s = 1 .. Len(s) /\ DOMAIN t = 1 .. Len(s) + 1
         /\ t[1] = e
         /\ \A x \in 2 .. Len(s) + 1 : t[x] = s[x - 1]
<1>1. <<e>> \in Seq(S) /\ Len(<<e>>) = 1 /\ <<e>>[1] = e
  OBVIOUS
<1>2. t \in Seq(S) /\ Len(t) = Len(<<e>>) + Len(s) /\ Len(s) \in Nat
  BY <1>1
<1>3. t[1] = e
  BY <1>1
<1>4. ASSUME NEW x \in 2 .. Len(s) + 1 PROVE t[x] = s[x - 1]
  BY <1>1, <1>2
<1>. QED  BY <1>1, <1>2, <1>3, <1>4

(* A draw from the file: an unused location is one that is not selected.   *)
LEMMA DrawFromFile ==
  ASSUME Typed, Selection, pc # "done",
         NEW i \in Locs \ used, selected' = Append(selected, i), used' = used \cup {i}
  PROVE  /\ selected' \in Seq(Locs) /\ used' \subseteq Locs /\ Len(selected') = Len(selected) + 1
         /\ used' = {selected'[x] : x \in DOMAIN selected'}
         /\ \A x, y \in DOMAIN selected' : selected'[x] = selected'[y] => x = y
         /\ Cardinality(used') = Len(selected')
<1>1. selected \in Seq(Locs) /\ used \subseteq Locs /\ i \in Locs
  BY DEF Selection
<1>2. /\ selected' \in Seq(Locs) /\ Len(selected') = Len(selected) + 1 /\ Len(selected) \in Nat
      /\ DOMAIN selected = 1 .. Len(selected) /\ DOMAIN selected' = 1 .. Len(selected) + 1
      /\ \A x \in DOMAIN selected : selected'[x] = selected[x]
      /\ selected'[Len(selected) + 1] = i
  BY <1>1, OneMore
<1>3. \A x \in DOMAIN selected' : x \in DOMAIN selected \/ x = Len(selected) + 1
  BY <1>2
<1>4. \A x \in DOMAIN selected : x \in DOMAIN selected' /\ selected[x] \in used
  BY <1>2 DEF Selection
<1>5. used' = {selected'[x] : x \in DOMAIN selected'}
  <2>1. Len(selected) + 1 \in DOMAIN selected'
    BY <1>2
  <2>2. \A e \in used : \E x \in DOMAIN selected : e = selected[x]
    BY DEF Selection
  <2>3. \A e \in used' : \E x \in DOMAIN selected' : e = selected'[x]
    BY <1>2, <1>4, <2>1, <2>2
  <2>4. \A x \in DOMAIN selected' : selected'[x] \in used'
    BY <1>2, <1>3, <1>4
  <2>. QED  BY <2>3, <2>4
<1>6. ASSUME NEW x \in DOMAIN selected', NEW y \in DOMAIN selected', selected'[x] = selected'[y] PROVE x = y
  <2>1. \A z \in DOMAIN selected : selected[z] # i
    BY <1>4
  <2>. QED  BY <1>2, <1>3, <1>6, <2>1 DEF Selection
<1>7. Cardinality(used') = Len(selected')
  <2>1. IsFiniteSet(used)
    <3>1. IsFiniteSet(Locs)
      BY FS_Interval DEF Locs, Typed
    <3>. QED  BY <1>1, <3>1, FS_Subset
  <2>2. Cardinality(used') = Cardinality(used) + 1
    BY <2>1, FS_AddElement
  <2>. QED  BY <1>2, <2>2 DEF Selection
<1>. QED  BY <1>1, <1>2, <1>5, <1>6, <1>7

(* A draw, whatever stage it belongs to, keeps all but the lengths.        *)
LEMMA DrawKeeps ==
  ASSUME IndInv, Draw, pc # "done", UNCHANGED <<pc, con, near, goal>>
  PROVE  /\ Typed' /\ (source = "file" => Selection)' /\ (source = "limits" => Generation)'
         /\ NoLocationTwice' /\ WithinLimits' /\ SizeAsAsked'
         /\ Len(selected') = Len(selected) + 1 /\ Len(selected) \in Nat
         /\ Len(selected') <= Memory
<1>1. /\ Seeds' = Seeds /\ Others' = Others /\ Locs' = Locs
      /\ \A place : Within(place)' <=> Within(place)
      /\ UNCHANGED <<pc, near, goal, source, file, num, dist, dptt, nclusters, density, limits>>
  BY Configured
<1>2. Typed /\ Len(selected) < Memory /\ Memory \in Nat
  BY LocationsAssumption DEF IndInv, Draw
<1>3. Typed'
  BY <1>1, <1>2 DEF Typed
<1>4. CASE source = "file"
  <2>1. Selection
    BY <1>4 DEF IndInv
  <2>2. PICK i \in Locs \ used : selected' = Append(selected, i) /\ used' = used \cup {i}
    BY <1>4 DEF Draw, Marked, Takable
  <2>3. /\ selected' \in Seq(Locs) /\ used' \subseteq Locs /\ Len(selected') = Len(selected) + 1
        /\ used' = {selected'[x] : x \in DOMAIN selected'}
        /\ \A x, y \in DOMAIN selected' : selected'[x] = selected'[y] => x = y
        /\ Cardinality(used') = Len(selected')
    BY <1>2, <2>1, <2>2, DrawFromFile
  <2>4. Selection'
    BY <1>1, <2>3 DEF Selection
  <2>5. Len(selected) \in Nat
    BY <2>1 DEF Selection
  <2>. QED  BY <1>1, <1>2, <1>3, <1>4, <2>3, <2>4, <2>5 DEF NoLocationTwice, WithinLimits, SizeAsAsked
<1>5. CASE source = "limits"
  <2>1. Generation /\ source # "file"
    BY <1>5 DEF IndInv
  <2>2. PICK lon \in Rectangle(InRad(limits)) : selected' = Append(selected, ToDeg(lon))
    BY <2>1 DEF Draw, Takable
  <2>3. used' = used
    BY <2>1 DEF Draw, Marked
  <2>4. ToDeg(lon) \in Int /\ Within(ToDeg(lon))
    BY <1>2, DrawnWithin
  <2>5. selected \in Seq(Int)
    BY <2>1 DEF Generation
  <2>6. /\ selected' \in Seq(Int) /\ Len(selected') = Len(selected) + 1 /\ Len(selected) \in Nat
        /\ DOMAIN selected = 1 .. Len(selected) /\ DOMAIN selected' = 1 .. Len(selected) + 1
        /\ \A x \in DOMAIN selected : selected'[x] = selected[x]
        /\ selected'[Len(selected) + 1] = ToDeg(lon)
    BY <2>2, <2>4, <2>5, OneMore
  <2>7. \A x \in DOMAIN selected' : x \in DOMAIN selected \/ x = Len(selected) + 1
    BY <2>6
  <2>8. \A x \in DOMAIN selected' : Within(selected'[x])
    BY <2>1, <2>4, <2>6, <2>7 DEF Generation
  <2>9. (\A x \in DOMAIN selected : Within(selected[x]))'
    BY <1>1, <2>8
  <2>10. Generation'
    BY <2>1, <2>3, <2>6, <2>9 DEF Generation
  <2>. QED  BY <1>1, <1>2, <1>3, <2>1, <2>6, <2>9, <2>10 DEF NoLocationTwice, WithinLimits, SizeAsAsked
<1>. QED  BY <1>4, <1>5, <1>2 DEF Typed


(* A step that draws nothing keeps vector and marks.                       *)
LEMMA NothingDrawn ==
  ASSUME IndInv, pc # "done", pc' # "done", UNCHANGED <<con, used, selected>>
  PROVE  /\ (source = "file" => Selection)' /\ (source = "limits" => Generation)'
         /\ NoLocationTwice' /\ WithinLimits' /\ SizeAsAsked'
<1>1. /\ Locs' = Locs /\ \A place : Within(place)' <=> Within(place)
      /\ UNCHANGED <<source, file, num, dist, dptt, nclusters, density, limits, used, selected>>
  BY Configured
<1>2. (source = "file" => Selection)'
  BY <1>1 DEF IndInv, Selection
<1>3. (\A x \in DOMAIN selected : Within(selected[x]))' <=> \A x \in DOMAIN selected : Within(selected[x])
  BY <1>1
<1>4. (source = "limits" => Generation)'
  BY <1>1, <1>3 DEF IndInv, Generation
<1>5. NoLocationTwice'
  BY <1>2 DEF Selection, NoLocationTwice
<1>6. WithinLimits'
  BY <1>4 DEF Generation, WithinLimits
<1>7. SizeAsAsked'
  BY DEF SizeAsAsked
<1>. QED  BY <1>2, <1>4, <1>5, <1>6, <1>7

-----------------------------------------------------------------------------
(* Before the first draw nothing is selected.                              *)
LEMMA InitInv == Init => IndInv
<1>. SUFFICES ASSUME Init PROVE IndInv
  OBVIOUS
<1>1. /\ pc = "start" /\ used = {} /\ selected = << >> /\ near = 0 /\ goal = 0
      /\ source \in {"file", "limits"} /\ dptt \in {"Central", "Random"}
      /\ dist \in {"Cluster", "Random", "ClusterRandom"}
  BY DEF Init
<1>2. /\ file \in Seq(Places) /\ (source = "file" => Len(file) > 0)
      /\ num \in 0 .. Wrap - 1 /\ num <= Memory /\ Memory \in Nat /\ Wrap - 1 > Memory
      /\ nclusters \in Nat /\ density \in Nat
  <2>1. file \in Seq(Places) /\ (source = "file" => Len(file) > 0)
    <3>1. CASE source = "file"
      <4>1. file \in Files
        BY <3>1 DEF Init
      <4>. QED  BY <4>1, LocationsAssumption
    <3>2. CASE source # "file"
      <4>1. file = << >>
        BY <3>2 DEF Init
      <4>. QED  BY <3>2, <4>1
    <3>. QED  BY <3>1, <3>2
  <2>2. num \in NumPoints /\ nclusters \in NumClusters /\ density \in Densities
    BY DEF Init
  <2>. QED  BY <2>1, <2>2, LocationsAssumption
<1>3. 0 \in 0 .. Others
  BY <1>2 DEF Others
<1>4. Typed
  BY <1>1, <1>2, <1>3 DEF Typed, Init
<1>5. /\ selected \in Seq(Locs) /\ selected \in Seq(Int)
      /\ DOMAIN selected = {} /\ Len(selected) = 0
  BY <1>1
<1>6. Selection
  BY <1>1, <1>5, FS_EmptySet DEF Selection
<1>7. Generation
  BY <1>1, <1>5 DEF Generation
<1>8. Lengths
  BY <1>1, <1>2, <1>5 DEF Lengths
<1>. QED  BY <1>1, <1>4, <1>5, <1>6, <1>7, <1>8 DEF IndInv, NoLocationTwice, WithinLimits, SizeAsAsked

(* The first step divides what is asked for between the two stages.        *)
LEMMA StartKeeps ==
  ASSUME IndInv, Start
  PROVE  IndInv'
<1>1. /\ pc = "start" /\ UNCHANGED <<con, used, selected>>
      /\ pc' \in {"seeds", "anywhere"}
      /\ pc' = "seeds" => dist # "Random" /\ near' \in {Others} \cup Shares(Others)
      /\ pc' = "anywhere" => dist = "Random" /\ near' = 0
      /\ goal' = Others
  BY DEF Start
<1>2. /\ Seeds' = Seeds /\ Others' = Others
      /\ UNCHANGED <<source, file, num, dist, dptt, nclusters, density, limits, selected>>
  BY <1>1, Configured
<1>3. Typed /\ Others \in Nat /\ Seeds \in Nat /\ Memory \in Nat
  BY Sizes DEF IndInv
<1>4. near' \in 0 .. Others
  BY <1>1, <1>3, SharesFit
<1>5. Typed'
  BY <1>1, <1>2, <1>3, <1>4 DEF Typed
<1>6. Len(selected) = 0
  BY <1>1 DEF IndInv, Lengths
<1>7. pc' = "anywhere" => Overshoot' = 0
  BY <1>1, <1>2 DEF Overshoot, Seeds
<1>8. Lengths'
  BY <1>1, <1>2, <1>3, <1>6, <1>7 DEF Lengths
<1>. QED  BY <1>1, <1>5, <1>8, NothingDrawn DEF IndInv

(* Each draw stays within its stage.                                       *)
LEMMA DrawsKeep ==
  ASSUME IndInv, DrawSeed \/ DrawNear \/ DrawAnywhere
  PROVE  IndInv'
<1>1. /\ Draw /\ UNCHANGED <<pc, con, near, goal>>
      /\ \/ pc = "seeds" /\ Len(selected) < Seeds
         \/ pc = "near" /\ Len(selected) < near
         \/ pc = "anywhere" /\ Len(selected) < goal
  BY DEF DrawSeed, DrawNear, DrawAnywhere
<1>2. /\ Typed' /\ (source = "file" => Selection)' /\ (source = "limits" => Generation)'
      /\ NoLocationTwice' /\ WithinLimits' /\ SizeAsAsked'
      /\ Len(selected') = Len(selected) + 1 /\ Len(selected) \in Nat
      /\ Len(selected') <= Memory
  BY <1>1, DrawKeeps
<1>3. /\ Seeds' = Seeds /\ Others' = Others /\ UNCHANGED <<dist, pc, near, goal>>
  BY <1>1, Configured
<1>4. Overshoot' = Overshoot
  BY <1>3 DEF Overshoot
<1>5. Seeds \in Nat /\ near \in Nat /\ goal \in Nat
  BY Sizes DEF IndInv, Typed
<1>6. Lengths'
  BY <1>1, <1>2, <1>3, <1>4, <1>5 DEF Lengths, IndInv
<1>. QED  BY <1>2, <1>6 DEF IndInv

(* Seeds beyond the share are no part of what is left to draw.             *)
LEMMA StagesKeep ==
  ASSUME IndInv, EndOfStage
  PROVE  IndInv'
<1>1. /\ UNCHANGED <<con, used, selected, near>> /\ pc # "done" /\ pc' # "done"
      /\ \/ /\ pc = "seeds" /\ pc' = "near" /\ Len(selected) >= Seeds /\ goal' = goal
         \/ /\ pc = "near" /\ pc' = "anywhere" /\ Len(selected) >= near
            /\ goal' = Len(selected) + (Others - near)
         \/ /\ pc = "anywhere" /\ pc' = "depot" /\ Len(selected) >= goal /\ goal' = goal
  BY DEF EndOfStage, StillToDraw
<1>2. /\ Seeds' = Seeds /\ Others' = Others
      /\ UNCHANGED <<source, file, num, dist, dptt, nclusters, density, limits, selected, near>>
  BY <1>1, Configured
<1>3. /\ Typed /\ Others \in Nat /\ Seeds \in Nat /\ near \in Nat /\ near <= Others
      /\ Memory \in Nat /\ goal \in Nat
  BY Sizes DEF IndInv, Typed
<1>4. Len(selected) \in Nat
  BY <1>3 DEF IndInv, Typed, Selection, Generation
<1>5. Overshoot' = Overshoot
  BY <1>2 DEF Overshoot
<1>6. Lengths'
  BY <1>1, <1>2, <1>3, <1>4, <1>5 DEF Lengths, IndInv, Overshoot
<1>7. goal' \in Nat
  BY <1>1, <1>3, <1>4
<1>8. Typed'
  BY <1>1, <1>2, <1>3, <1>7 DEF Typed
<1>. QED  BY <1>1, <1>6, <1>8, NothingDrawn DEF IndInv

(* Without memory nothing is returned.                                     *)
LEMMA ExhaustKeeps ==
  ASSUME IndInv, Exhaust
  PROVE  IndInv'
<1>1. /\ UNCHANGED <<con, used, selected, near, goal>> /\ pc # "done" /\ pc' = "thrown"
  BY DEF Exhaust
<1>2. /\ Others' = Others
      /\ UNCHANGED <<source, file, num, dist, dptt, nclusters, density, limits, selected, near, goal>>
  BY <1>1, Configured
<1>3. Typed'
  BY <1>1, <1>2 DEF IndInv, Typed
<1>4. Lengths'
  BY <1>1, <1>2 DEF IndInv, Lengths
<1>. QED  BY <1>1, <1>3, <1>4, NothingDrawn DEF IndInv

-----------------------------------------------------------------------------
(* The depot: an unused location, or the first one if all others are used, *)
(* of which there are then fewer than the vector is long.                  *)
LEMMA DepotFromFile ==
  ASSUME IndInv, source = "file", ChooseDepot
  PROVE  Selection' /\ NoLocationTwice' /\ Len(selected') = Len(selected) + 1 /\ Len(selected) \in Nat
<1>1. PICK i \in DepotFrom(used) : selected' = <<i>> \o selected /\ used' = used \cup {i}
  BY DEF ChooseDepot, Marked
<1>2. /\ pc = "depot" /\ pc' = "done" /\ Locs' = Locs /\ UNCHANGED <<source, file>>
  BY Configured DEF ChooseDepot
<1>3. /\ selected \in Seq(Locs) /\ used \subseteq Locs
      /\ used = {selected[x] : x \in DOMAIN selected}
      /\ \A x, y \in DOMAIN selected : selected[x] = selected[y] => x = y
      /\ Cardinality(used) = Len(selected)
  BY <1>2 DEF IndInv, Selection
<1>4. Len(file) \in Nat /\ Len(file) > 0 /\ Locs = 0 .. Len(file) - 1
  BY DEF IndInv, Typed, Locs
<1>5. i \in Locs /\ (i \in used => i = 0 /\ Locs \ {0} \subseteq used)
  BY <1>4 DEF DepotFrom
<1>6. /\ selected' \in Seq(Locs) /\ Len(selected') = Len(selected) + 1 /\ Len(selected) \in Nat
      /\ DOMAIN selected = 1 .. Len(selected) /\ DOMAIN selected' = 1 .. Len(selected) + 1
      /\ selected'[1] = i
      /\ \A x \in 2 .. Len(selected) + 1 : selected'[x] = selected[x - 1]
  BY <1>1, <1>3, <1>5, OneInFront
<1>7. \A x \in DOMAIN selected' : x = 1 \/ (x \in 2 .. Len(selected) + 1 /\ x - 1 \in DOMAIN selected)
  BY <1>6
<1>8. \A x \in DOMAIN selected : x + 1 \in 2 .. Len(selected) + 1 /\ x + 1 \in DOMAIN selected' /\ x + 1 - 1 = x
  BY <1>6
<1>9. used' = {selected'[x] : x \in DOMAIN selected'}
  <2>1. \A e \in used' : \E x \in DOMAIN selected' : e = selected'[x]
    <3>1. 1 \in DOMAIN selected'
      BY <1>6
    <3>2. ASSUME NEW e \in used PROVE \E x \in DOMAIN selected' : e = selected'[x]
      <4>1. PICK x \in DOMAIN selected : e = selected[x]
        BY <1>3
      <4>. QED  BY <4>1, <1>6, <1>8
    <3>. QED  BY <1>1, <1>6, <3>1, <3>2
  <2>2. \A x \in DOMAIN selected' : selected'[x] \in used'
    BY <1>1, <1>3, <1>6, <1>7
  <2>. QED  BY <2>1, <2>2
<1>10. Selection'
  BY <1>1, <1>2, <1>3, <1>5, <1>6, <1>9 DEF Selection
<1>11. ASSUME i \in used PROVE NoLocationTwice'
  <2>1. IsFiniteSet(Locs) /\ Cardinality(Locs) = Len(file) /\ IsFiniteSet(used) /\ Cardinality(used) \in Nat
    <3>1. IsFiniteSet(0 .. Len(file) - 1) /\ Cardinality(0 .. Len(file) - 1) = Len(file)
      BY <1>4, FS_Interval
    <3>. QED  BY <3>1, <1>3, <1>4, FS_Subset, FS_CardinalityType
  <2>2. Locs \subseteq used
    BY <1>5, <1>11
  <2>3. Cardinality(Locs) <= Cardinality(used)
    BY <2>1, <2>2, FS_Subset
  <2>4. Len(file) < Len(selected')
    BY <1>3, <1>4, <1>6, <2>1, <2>3
  <2>5. pc' = "done" /\ Len(file') < Len(selected')
    BY <1>2, <2>4
  <2>. QED  BY <2>5 DEF NoLocationTwice
<1>12. ASSUME i \notin used PROVE NoLocationTwice'
  <2>1. \A x \in 2 .. Len(selected) + 1 : selected'[x] # i
    BY <1>3, <1>6, <1>7, <1>12
  <2>2. ASSUME NEW x \in DOMAIN selected', NEW y \in DOMAIN selected', selected'[x] = selected'[y]
        PROVE  x = y
    <3>1. CASE x = 1 \/ y = 1
      BY <3>1, <2>1, <2>2, <1>6, <1>7
    <3>2. CASE x # 1 /\ y # 1
      <4>1. x - 1 \in DOMAIN selected /\ y - 1 \in DOMAIN selected /\ selected[x - 1] = selected[y - 1]
        BY <3>2, <2>2, <1>6, <1>7
      <4>2. x - 1 = y - 1
        BY <4>1, <1>3
      <4>. QED  BY <4>2, <1>6
    <3>. QED  BY <3>1, <3>2
  <2>. QED  BY <2>2 DEF NoLocationTwice
<1>. QED  BY <1>6, <1>10, <1>11, <1>12

(* A generated depot: the only place that may be outside the limits.       *)
LEMMA DepotOfLimits ==
  ASSUME IndInv, source = "limits", ChooseDepot
  PROVE  Generation' /\ WithinLimits' /\ Len(selected') = Len(selected) + 1 /\ Len(selected) \in Nat
<1>1. PICK place \in GeneratedDepots : selected' = <<place>> \o selected /\ used' = used
  BY DEF ChooseDepot, Marked
<1>2. /\ pc = "depot" /\ pc' = "done" /\ UNCHANGED <<source, dptt, limits>>
      /\ \A p : Within(p)' <=> Within(p)
  BY Configured DEF ChooseDepot
<1>3. /\ selected \in Seq(Int) /\ used = {}
      /\ \A x \in DOMAIN selected : Within(selected[x])
  BY <1>2 DEF IndInv, Generation
<1>4. place \in Int /\ (Within(place) \/ dptt = "Random" \/ limits.east < limits.west)
  BY DepotWithin DEF IndInv
<1>5. /\ selected' \in Seq(Int) /\ Len(selected') = Len(selected) + 1 /\ Len(selected) \in Nat
      /\ DOMAIN selected = 1 .. Len(selected) /\ DOMAIN selected' = 1 .. Len(selected) + 1
      /\ selected'[1] = place
      /\ \A x \in 2 .. Len(selected) + 1 : selected'[x] = selected[x - 1]
  BY <1>1, <1>3, <1>4, OneInFront
<1>6. \A x \in DOMAIN selected' : x # 1 => Within(selected'[x])
  <2>1. \A x \in DOMAIN selected' : x # 1 => x \in 2 .. Len(selected) + 1 /\ x - 1 \in DOMAIN selected
    BY <1>5
  <2>. QED  BY <2>1, <1>3, <1>5
<1>7. \A x \in DOMAIN selected' : Within(selected'[x]) \/
        (x = 1 /\ (dptt = "Random" \/ limits.east < limits.west))
  BY <1>4, <1>5, <1>6
<1>8. WithinLimits'
  BY <1>2, <1>7 DEF WithinLimits
<1>9. Generation'
  BY <1>1, <1>2, <1>3, <1>5 DEF Generation
<1>. QED  BY <1>5, <1>8, <1>9

(* With the depot the vector has the length of SIZE, and the seeds that    *)
(* were too many; of SIZE 0 it never gets as far as that.                  *)
LEMMA DepotKeeps ==
  ASSUME IndInv, ChooseDepot
  PROVE  IndInv'
<1>1. /\ pc = "depot" /\ pc' = "done" /\ UNCHANGED <<con, near, goal>>
  BY DEF ChooseDepot
<1>2. /\ Seeds' = Seeds /\ Others' = Others
      /\ UNCHANGED <<source, file, num, dist, dptt, nclusters, density, limits, near, goal>>
  BY <1>1, Configured
<1>3. /\ Typed /\ Others \in Nat /\ Seeds \in Nat /\ near \in Nat /\ Memory \in Nat /\ num \in Nat
      /\ num > 0 => Others = num - 1
      /\ num = 0 => Others > Memory
      /\ Overshoot \in Nat
  BY Sizes DEF IndInv
<1>4. Len(selected) = Others + Overshoot /\ Len(selected) <= Memory
  BY <1>1 DEF IndInv, Lengths
<1>5. num > 0
  BY <1>3, <1>4
<1>6. source \in {"file", "limits"}
  BY <1>3 DEF Typed
<1>7. Len(selected') = Len(selected) + 1
  BY <1>6, DepotFromFile, DepotOfLimits
<1>8. SizeAsAsked'
  <2>1. Len(selected') = num + Overshoot
    BY <1>3, <1>4, <1>5, <1>7
  <2>. QED  BY <2>1, <1>2, <1>5 DEF SizeAsAsked, Overshoot
<1>9. Typed'
  BY <1>1, <1>2, <1>3 DEF Typed
<1>10. Lengths'
  BY <1>1 DEF Lengths
<1>11. /\ (source = "file" => Selection)' /\ NoLocationTwice'
       /\ (source = "limits" => Generation)' /\ WithinLimits'
  BY <1>2, <1>6, DepotFromFile, DepotOfLimits DEF NoLocationTwice, WithinLimits
<1>. QED  BY <1>8, <1>9, <1>10, <1>11 DEF IndInv

(* Every step keeps the invariant.                                         *)
LEMMA NextInv == IndInv /\ [Next]_vars => IndInv'
<1>. SUFFICES ASSUME IndInv, [Next]_vars PROVE IndInv'
  OBVIOUS
<1>1. CASE UNCHANGED vars
  <2>1. UNCHANGED <<con, pc, used, selected, near, goal>>
    BY <1>1 DEF vars
  <2>2. /\ Seeds' = Seeds /\ Others' = Others /\ Locs' = Locs
        /\ \A place : Within(place)' <=> Within(place)
        /\ UNCHANGED <<source, file, num, dist, dptt, nclusters, density, limits>>
    BY <2>1, Configured
  <2>3. (\A x \in DOMAIN selected : Within(selected[x]))' <=> \A x \in DOMAIN selected : Within(selected[x])
    BY <2>1, <2>2
  <2>4. WithinLimits'
    BY <2>1, <2>2 DEF IndInv, WithinLimits
  <2>5. Typed' /\ Lengths'
    BY <2>1, <2>2 DEF IndInv, Typed, Lengths, Overshoot
  <2>6. (source = "file" => Selection)' /\ (source = "limits" => Generation)'
    BY <2>1, <2>2, <2>3 DEF IndInv, Selection, Generation
  <2>7. NoLocationTwice' /\ SizeAsAsked'
    BY <2>1, <2>2 DEF IndInv, NoLocationTwice, SizeAsAsked
  <2>. QED  BY <2>4, <2>5, <2>6, <2>7 DEF IndInv
<1>2. CASE Start
  BY <1>2, StartKeeps
<1>3. CASE DrawSeed \/ DrawNear \/ DrawAnywhere
  BY <1>3, DrawsKeep
<1>4. CASE EndOfStage
  BY <1>4, StagesKeep
<1>5. CASE ChooseDepot
  BY <1>5, DepotKeeps
<1>6. CASE Exhaust
  BY <1>6, ExhaustKeeps
<1>. QED  BY <1>1, <1>2, <1>3, <1>4, <1>5, <1>6 DEF Next

-----------------------------------------------------------------------------
(* Marks, vector and lengths are, at every step, as described above.       *)
THEOREM Invariance == Spec => []IndInv
BY InitInv, NextInv, PTL DEF Spec

(* Only locations of the file are selected, and those are marked.          *)
THEOREM TypeCorrect == Spec => []TypeOK
<1>1. IndInv => TypeOK
  <2>. SUFFICES ASSUME IndInv PROVE TypeOK
    OBVIOUS
  <2>1. near \in Nat /\ goal \in Nat /\ used \subseteq Locs
    BY Sizes DEF IndInv, Typed, Selection, Generation
  <2>. QED  BY <2>1 DEF IndInv, Typed, Selection, Generation, TypeOK
<1>. QED  BY <1>1, Invariance, PTL

(* No location of a file of any size is selected twice, unless there are   *)
(* too few and the depot is the central one.                               *)
THEOREM NoneTwice == Spec => []NoLocationTwice
<1>1. IndInv => NoLocationTwice
  BY DEF IndInv
<1>. QED  BY <1>1, Invariance, PTL

(* Generated locations lie within the limits, wherever these are, and the  *)
(* central depot of limits that do not lie across the border of the map.   *)
THEOREM WithinCorrect == Spec => []WithinLimits
<1>1. IndInv => WithinLimits
  BY DEF IndInv
<1>. QED  BY <1>1, Invariance, PTL

(* The number of locations is that of SIZE, but for seeds beyond the share *)
(* of the clusters, for any SIZE and any number of clusters.               *)
THEOREM SizeCorrect == Spec => []SizeAsAsked
<1>1. IndInv => SizeAsAsked
  BY DEF IndInv
<1>. QED  BY <1>1, Invariance, PTL

-----------------------------------------------------------------------------
(* While locations are drawn there are at most as many as SIZE leaves      *)
(* besides the depot, and a seed for every cluster.                        *)
LEMMA DrawnSoFar ==
  ASSUME IndInv, Enough, pc \in {"seeds", "near", "anywhere", "depot"}
  PROVE  Len(selected) \in Nat /\ Len(selected) < num + Seeds
<1>1. /\ Typed /\ num > 0 /\ Others \in Nat /\ Seeds \in Nat /\ near \in Nat /\ near <= Others
      /\ Others = num - 1 /\ num \in Nat /\ Overshoot \in Nat
  BY Sizes DEF IndInv, Enough
<1>2. Overshoot <= Seeds
  BY <1>1 DEF Overshoot
<1>3. Len(selected) \in Nat
  BY <1>1 DEF IndInv, Typed, Selection, Generation
<1>4. Lengths
  BY DEF IndInv
<1>5. CASE pc = "seeds"
  BY <1>1, <1>3, <1>4, <1>5 DEF Lengths
<1>6. CASE pc = "near"
  BY <1>1, <1>3, <1>4, <1>6 DEF Lengths
<1>7. CASE pc \in {"anywhere", "depot"}
  <2>1. Len(selected) <= Others + Overshoot
    BY <1>1, <1>3, <1>4, <1>7 DEF Lengths
  <2>. QED  BY <1>1, <1>2, <1>3, <2>1
<1>. QED  BY <1>3, <1>5, <1>6, <1>7

(* So one of the file is unused.                                           *)
LEMMA OneUnused ==
  ASSUME IndInv, Enough, source = "file", pc \in {"seeds", "near", "anywhere", "depot"}
  PROVE  Locs \ used # {}
<1>1. Len(selected) \in Nat /\ Len(selected) < num + Seeds
  BY DrawnSoFar
<1>2. Len(file) >= num + Seeds /\ Len(file) \in Nat /\ num \in Nat /\ Seeds \in Nat
  BY Sizes DEF Enough, IndInv, Typed
<1>3. used \subseteq Locs /\ Cardinality(used) = Len(selected)
  BY DEF IndInv, Selection
<1>4. Cardinality(Locs) = Len(file)
  <2>. DEFINE n == Len(file)
  <2>1. n \in Nat /\ n >= 0 /\ 0 \in Int /\ n - 1 \in Int
    BY <1>2
  <2>2. Cardinality(0 .. n - 1) = n
    <3>. HIDE DEF n
    <3>1. Cardinality(0 .. n - 1) = IF 0 > n - 1 THEN 0 ELSE n - 1 - 0 + 1
      BY <2>1, FS_Interval
    <3>. QED  BY <2>1, <3>1
  <2>. QED  BY <2>2 DEF Locs
<1>5. used # Locs
  BY <1>1, <1>2, <1>3, <1>4
<1>. QED  BY <1>3, <1>5

(* And, for the clusters, one that is unused and not too far from the      *)
(* first seed: of those around it fewer are used than there are.           *)
LEMMA OneInReach ==
  ASSUME IndInv, Enough, source = "file", pc = "near", Len(selected) < near
  PROVE  Takable # {}
<1>1. /\ Typed /\ Others = num - 1 /\ num \in Nat /\ Seeds \in Nat /\ near \in Nat /\ near <= Others
  BY Sizes DEF IndInv, Enough
<1>2. dist # "Random"
  BY <1>1 DEF IndInv, Lengths
<1>3. Seeds > 0 /\ \A j \in Locs : Cardinality(Around(j)) >= num - 1
  BY <1>2 DEF Enough
<1>4. selected \in Seq(Locs) /\ used \subseteq Locs /\ Cardinality(used) = Len(selected)
  BY DEF IndInv, Selection
<1>5. Seeds <= Len(selected)
  BY DEF IndInv, Lengths
<1>6. Len(selected) \in Nat /\ 1 \in 1 .. Seeds /\ selected[1] \in Locs
  BY <1>1, <1>3, <1>4, <1>5
<1>. DEFINE A == Around(selected[1])
<1>7. A \subseteq Locs /\ Cardinality(A) >= num - 1
  BY <1>3, <1>6 DEF Around
<1>8. IsFiniteSet(Locs)
  BY FS_Interval DEF Locs, Typed
<1>9. ~ (A \subseteq used)
  <2>. HIDE DEF A
  <2>1. SUFFICES ASSUME A \subseteq used PROVE FALSE
    OBVIOUS
  <2>2. IsFiniteSet(used)
    BY <1>4, <1>8, FS_Subset
  <2>3. Cardinality(A) <= Cardinality(used) /\ Cardinality(A) \in Nat
    BY <2>1, <2>2, FS_Subset, FS_CardinalityType
  <2>. QED  BY <1>1, <1>4, <1>6, <1>7, <2>3
<1>10. PICK i \in A : i \notin used
  BY <1>9
<1>11. i \in Locs \ used /\ InReach(i)
  BY <1>6, <1>7, <1>10 DEF Around, InReach
<1>. QED  BY <1>11 DEF Takable

(***************************************************************************)
(* With enough locations, or room for them, no draw is in vain: there is   *)
(* always one to be taken, for the clusters an unused one near a seed,     *)
(* whatever the shares of a cluster-random instance, however many seeds it *)
(* has and however far locations are apart, and the memory suffices.       *)
(***************************************************************************)
THEOREM DrawsCorrect == Spec => []NothingInVain
<1>. DEFINE Fits == Enough => pc # "thrown"
<1>1. Init => Fits
  BY DEF Init
<1>2. IndInv /\ Fits /\ [Next]_vars => Fits'
  <2>. SUFFICES ASSUME IndInv, Fits, [Next]_vars, Enough', pc' = "thrown" PROVE FALSE
    OBVIOUS
  <2>1. UNCHANGED con
    BY DEF Next, vars, Start, DrawSeed, DrawNear, DrawAnywhere, EndOfStage, ChooseDepot, Exhaust
  <2>2. Enough
    BY <2>1, Configured DEF Enough, Around, Near
  <2>3. Exhaust
    BY <2>2 DEF Next, vars, Start, DrawSeed, DrawNear, DrawAnywhere, EndOfStage, ChooseDepot
  <2>4. pc \in {"seeds", "near", "anywhere"} /\ Len(selected) = Memory
    BY <2>3 DEF Exhaust
  <2>5. num + Seeds <= Memory /\ Memory \in Nat /\ num \in Nat /\ Seeds \in Nat
    BY <2>2, Sizes DEF Enough, IndInv
  <2>. QED  BY <2>2, <2>4, <2>5, DrawnSoFar
<1>3. IndInv /\ Fits => NothingInVain
  BY OneUnused, OneInReach DEF NothingInVain
<1>. HIDE DEF Fits
<1>. QED  BY <1>1, <1>2, <1>3, Invariance, PTL DEF Spec
=============================================================================

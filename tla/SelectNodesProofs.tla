------------------------- MODULE SelectNodesProofs --------------------------
(***************************************************************************)
(* select_nodes for a file of any number of requests, anywhere on the      *)
(* line, and any windows: the attractor's place is a valid depot, which is *)
(* why the search for a depot ends, and the result is made of whole        *)
(* requests with the depot at none of them.                                *)
(*                                                                         *)
(* What is to be known of the search is that the attractor's node is free  *)
(* until it is tried, and is the last one that is: trying it ends the      *)
(* search before select_central_depot can run out of nodes.                *)
(*                                                                         *)
(* The second half is about CompleteNodes: what was selected, up to the    *)
(* test of the builder and the file.                                       *)
(***************************************************************************)
EXTENDS CompleteNodes, FiniteSetTheorems, SequenceTheorems, TLAPS

Entry == [node : Index, id : Nat, pair : Nat]

(* The requests of a vector: numbered, side by side, each of them once, and *)
(* not that of the attractor.                                              *)
Whole(sel, a) ==
  /\ sel \in Seq(Entry)
  /\ Len(sel) % 2 = 0
  /\ \A x \in DOMAIN sel :
       /\ sel[x].id = x
       /\ sel[x].pair = IF x % 2 = 1 THEN x + 1 ELSE x - 1
       /\ IsPickup(sel[x].node) <=> x % 2 = 1
       /\ sel[x].node \notin {a, Pair(a)}
  /\ \A x \in DOMAIN sel : x % 2 = 1 => sel[x + 1].node = Pair(sel[x].node)
  /\ \A x, y \in DOMAIN sel : sel[x].node = sel[y].node => x = y

Closed == \A i \in used : Pair(i) \in used

Typed ==
  /\ pc \in {"attractor", "select", "depot", "done"}
  /\ num \in 0 .. Wrap - 1
  /\ spot \in [Index -> Int] /\ etw \in [Index -> Nat]
  /\ ai \in Index /\ depot \in Index /\ tries \in Nat
  /\ used \subseteq Index

Selecting ==
  /\ Closed /\ ai \in used
  /\ \A x \in DOMAIN selected : selected[x].node \in used
  /\ Len(selected) < Wanted
  /\ tries = 0

(* The search: the attractor's node is free, the others that are selected  *)
(* are not.                                                                *)
Searching ==
  /\ ai \notin Free
  /\ \A x \in DOMAIN selected : selected[x].node \in used

Complete == num > 0 /\ Len(selected) = 2 * (num \div 2)

IndInv ==
  /\ Typed
  /\ Whole(selected, ai)
  /\ pc = "attractor" => selected = << >> /\ used = {} /\ tries = 0
  /\ pc = "select" => Selecting
  /\ pc = "depot" => Searching
  /\ pc \in {"depot", "done"} => Complete
  /\ pc # "attractor" => \A x \in DOMAIN selected : x % 2 = 1 => Fits(selected[x].node)
  /\ pc = "done" => \A x \in DOMAIN selected : selected[x].node # depot

-----------------------------------------------------------------------------
(* Nodes come in pairs, a pickup with the delivery behind it.              *)
LEMMA PairFacts ==
  /\ Size \in Nat /\ Size % 2 = 0 /\ Size > 0
  /\ \A i \in Index : /\ Pair(i) \in Index /\ Pair(i) # i /\ Pair(Pair(i)) = i
                      /\ IsPickup(Pair(i)) <=> ~ IsPickup(i)
  /\ Index \subseteq Nat
<1>1. Requests \in Nat /\ Requests > 0
  BY SelectAssumption
<1>. QED  BY <1>1 DEF Size, Index, Pair, IsPickup

(* The entries of such a vector are nodes of the file.                     *)
LEMMA Nodes ==
  ASSUME NEW sel, NEW a, Whole(sel, a)
  PROVE  /\ sel \in Seq(Entry) /\ Len(sel) \in Nat /\ DOMAIN sel = 1 .. Len(sel)
         /\ \A x \in DOMAIN sel : sel[x].node \in Index
<1>1. sel \in Seq(Entry)
  BY DEF Whole
<1>2. Len(sel) \in Nat /\ DOMAIN sel = 1 .. Len(sel)
  BY <1>1, LenProperties
<1>3. \A x \in DOMAIN sel : sel[x] \in Entry
  BY <1>1, <1>2, ElementOfSeq
<1>. QED  BY <1>1, <1>2, <1>3 DEF Entry

(* Trying a place as a depot reckons with no more time than selecting a    *)
(* request around it did.                                                  *)
LEMMA DepotIsCheaper ==
  ASSUME Typed, NEW i \in Index, NEW p \in Index, IsPickup(p),
         BackAtAttractor(spot[i], p) < Horizon
  PROVE  LET back == BackAtDepot(spot[i], p) IN back - (back % 2) <= Horizon
<1>. DEFINE place == spot[i]
            tas == Dist(place, spot[p])
            tsd == Dist(spot[p], spot[Pair(p)])
            tda == Dist(spot[Pair(p)], place)
<1>1. /\ Pair(p) \in Index /\ spot[i] \in Int /\ spot[p] \in Int /\ spot[Pair(p)] \in Int
      /\ etw[p] \in Nat /\ etw[Pair(p)] \in Nat /\ HalfWindow \in Nat /\ Horizon \in Nat
  BY PairFacts, SelectAssumption DEF Typed
<1>2. tas \in Nat /\ tsd \in Nat /\ tda \in Nat
  BY <1>1 DEF Dist
<1>3. PickupCenter(p, tas) \in Int /\ DeliveryCenter(p, tas) \in Int
  BY <1>1, <1>2 DEF PickupCenter, DeliveryCenter
<1>4. BackAtDepot(place, p) = Later(tas + tsd, DeliveryCenter(p, tas) - HalfWindow) + tda
  BY DEF BackAtDepot
<1>5. BackAtAttractor(place, p) =
        Later(Later(tas, PickupCenter(p, tas)) + tsd, DeliveryCenter(p, tas) - HalfWindow) + tda
  BY DEF BackAtAttractor
<1>. HIDE DEF tas, tsd, tda
<1>6. BackAtDepot(place, p) \in Int /\ BackAtDepot(place, p) <= BackAtAttractor(place, p)
  BY <1>1, <1>2, <1>3, <1>4, <1>5 DEF Later
<1>7. BackAtAttractor(place, p) \in Int
  BY <1>1, <1>2, <1>3, <1>5 DEF Later
<1>. QED  BY <1>1, <1>6, <1>7

(* So the attractor's place is a valid depot for what was selected.        *)
LEMMA AttractorServes ==
  ASSUME IndInv, pc # "attractor"
  PROVE  ValidDepot(ai)
<1>. SUFFICES ASSUME NEW x \in DOMAIN selected, x % 2 = 1
              PROVE  LET back == BackAtDepot(spot[ai], selected[x].node)
                     IN back - (back % 2) <= Horizon
  BY DEF ValidDepot
<1>1. selected[x].node \in Index /\ IsPickup(selected[x].node) /\ ai \in Index /\ Typed
  BY Nodes DEF IndInv, Whole, Typed
<1>2. Fits(selected[x].node)
  BY DEF IndInv
<1>. QED  BY <1>1, <1>2, DepotIsCheaper DEF Fits

(* No vector of different nodes is longer than the file.                   *)
LEMMA NotLonger ==
  ASSUME NEW sel, NEW a, Whole(sel, a)
  PROVE  Len(sel) <= Size
<1>. DEFINE f == [x \in DOMAIN sel |-> sel[x].node]
<1>1. /\ Len(sel) \in Nat /\ DOMAIN sel = 1 .. Len(sel)
      /\ \A x \in DOMAIN sel : sel[x].node \in Index
  BY Nodes
<1>2. f \in Injection(DOMAIN sel, Index)
  BY <1>1 DEF Whole, Injection, IsInjective
<1>3. IsFiniteSet(Index) /\ Cardinality(Index) = Size
  <2>1. 0 \in Int /\ Size \in Nat /\ Size - 1 \in Int /\ Size > 0
    BY PairFacts
  <2>2. IsFiniteSet(0 .. Size - 1) /\ Cardinality(0 .. Size - 1) = (Size - 1) - 0 + 1
    BY <2>1, FS_Interval
  <2>. QED  BY <2>1, <2>2 DEF Index
<1>4. Cardinality(DOMAIN sel) <= Cardinality(Index)
  <2>. HIDE DEF f
  <2>. QED  BY <1>2, <1>3, FS_Injection
<1>5. Cardinality(1 .. Len(sel)) = Len(sel)
  BY <1>1, FS_Interval
<1>. QED  BY <1>1, <1>3, <1>4, <1>5

(* A request more: still whole, if neither end was used.                   *)
LEMMA OneMore ==
  ASSUME NEW sel, NEW a \in Index, Whole(sel, a), NEW p \in Index, IsPickup(p),
         p \notin {a, Pair(a)}, Pair(p) \notin {a, Pair(a)},
         \A x \in DOMAIN sel : sel[x].node \notin {p, Pair(p)},
         NEW two, two = << [node |-> p, id |-> Len(sel) + 1, pair |-> Len(sel) + 2],
                           [node |-> Pair(p), id |-> Len(sel) + 2, pair |-> Len(sel) + 1] >>
  PROVE  /\ Whole(sel \o two, a) /\ Len(sel \o two) = Len(sel) + 2
         /\ \A x \in DOMAIN sel : (sel \o two)[x] = sel[x]
         /\ (sel \o two)[Len(sel) + 1].node = p /\ (sel \o two)[Len(sel) + 2].node = Pair(p)
<1>. DEFINE n == Len(sel)
            s == sel \o two
<1>1. sel \in Seq(Entry) /\ n \in Nat /\ DOMAIN sel = 1 .. n /\ n % 2 = 0
  BY DEF Whole
<1>2. /\ Pair(p) \in Index /\ Pair(p) # p /\ ~ IsPickup(Pair(p))
  BY PairFacts
<1>3. two \in Seq(Entry) /\ Len(two) = 2
  BY <1>1, <1>2 DEF Entry
<1>4. /\ s \in Seq(Entry) /\ Len(s) = n + 2
      /\ \A x \in 1 .. n + 2 : s[x] = IF x <= n THEN sel[x] ELSE two[x - n]
  BY <1>1, <1>3, ConcatProperties
<1>5. /\ \A x \in 1 .. n : s[x] = sel[x]
      /\ s[n + 1] = [node |-> p, id |-> n + 1, pair |-> n + 2]
      /\ s[n + 2] = [node |-> Pair(p), id |-> n + 2, pair |-> n + 1]
  <2>1. s[n + 1] = two[1] /\ s[n + 2] = two[2]
    BY <1>1, <1>4
  <2>. QED  BY <2>1, <1>1, <1>4
<1>6. DOMAIN s = 1 .. n + 2 /\ Len(s) % 2 = 0
  BY <1>1, <1>4
<1>. HIDE DEF n, s
<1>7. (n + 1) % 2 = 1 /\ (n + 2) % 2 = 0
  BY <1>1
<1>12. \A x \in 1 .. n : sel[x].node # p /\ sel[x].node # Pair(p)
  BY <1>1, Zenon
<1>13. \A x \in DOMAIN s : x \in 1 .. n \/ x = n + 1 \/ x = n + 2
  <2>1. n \in Nat /\ DOMAIN s = 1 .. n + 2
    BY <1>1, <1>6
  <2>. QED  BY <2>1
<1>14. \A x \in 1 .. n : x % 2 = 1 => x + 1 \in 1 .. n
  <2>1. n \in Nat /\ n % 2 = 0
    BY <1>1
  <2>. QED  BY <2>1
<1>8. ASSUME NEW x \in DOMAIN s
      PROVE  /\ s[x].id = x
             /\ s[x].pair = IF x % 2 = 1 THEN x + 1 ELSE x - 1
             /\ IsPickup(s[x].node) <=> x % 2 = 1
             /\ s[x].node \notin {a, Pair(a)}
  <2>1. CASE x \in 1 .. n
    BY <2>1, <1>1, <1>5 DEF Whole
  <2>2. CASE x = n + 1
    BY <2>2, <1>1, <1>5, <1>7
  <2>3. CASE x = n + 2
    BY <2>3, <1>1, <1>2, <1>5, <1>7
  <2>. QED  BY <2>1, <2>2, <2>3, <1>13
<1>9. ASSUME NEW x \in DOMAIN s, x % 2 = 1
      PROVE  s[x + 1].node = Pair(s[x].node)
  <2>1. CASE x \in 1 .. n
    <3>1. x + 1 \in 1 .. n
      BY <2>1, <1>9, <1>14
    <3>2. sel[x + 1].node = Pair(sel[x].node)
      BY <2>1, <1>1, <1>9 DEF Whole
    <3>. QED  BY <2>1, <3>1, <3>2, <1>5
  <2>2. CASE x = n + 1
    <3>1. x + 1 = n + 2
      BY <2>2, <1>1
    <3>. QED  BY <2>2, <3>1, <1>5
  <2>3. x \in 1 .. n \/ x = n + 1
    BY <1>7, <1>9, <1>13
  <2>. QED  BY <2>1, <2>2, <2>3
<1>10. ASSUME NEW x \in DOMAIN s, NEW y \in DOMAIN s, s[x].node = s[y].node
       PROVE  x = y
  <2>1. CASE x \in 1 .. n /\ y \in 1 .. n
    BY <2>1, <1>1, <1>5, <1>10 DEF Whole
  <2>2. \A z \in 1 .. n : s[z].node # p /\ s[z].node # Pair(p)
    BY <1>5, <1>12
  <2>3. s[n + 1].node = p /\ s[n + 2].node = Pair(p) /\ p # Pair(p)
    BY <1>2, <1>5
  <2>. QED  BY <2>1, <2>2, <2>3, <1>10, <1>13
<1>11. Whole(s, a)
  BY <1>4, <1>6, <1>8, <1>9, <1>10 DEF Whole
<1>. QED  BY <1>11, <1>4, <1>5, <1>1 DEF s, n
(* Whether a request fits depends on the file and the attractor only.      *)
LEMMA FitsStays ==
  ASSUME UNCHANGED <<spot, etw, ai>>
  PROVE  \A p : Fits(p)' <=> Fits(p)
BY DEF Fits, BackAtAttractor, PickupCenter, DeliveryCenter

-----------------------------------------------------------------------------
(* Nothing is selected at first.                                           *)
LEMMA InitInv == Init => IndInv
<1>. SUFFICES ASSUME Init PROVE IndInv
  OBVIOUS
<1>1. /\ pc = "attractor" /\ num \in NumPoints /\ spot \in [Index -> Spot] /\ ai = 0
      /\ used = {} /\ selected = << >> /\ depot = 0 /\ tries = 0
  BY DEF Init
<1>2. 0 \in Index
  BY PairFacts DEF Index
<1>3. spot \in [Index -> Int] /\ num \in 0 .. Wrap - 1
  BY <1>1, SelectAssumption
<1>4. etw \in [Index -> Nat]
  <2>1. PICK c \in [0 .. Requests - 1 -> Centers] :
          etw = [i \in Index |-> IF IsPickup(i) THEN c[i \div 2][1] ELSE c[i \div 2][2]]
    BY DEF Init
  <2>2. \A i \in Index : i \div 2 \in 0 .. Requests - 1
    BY SelectAssumption DEF Index, Size
  <2>3. \A i \in Index : c[i \div 2] \in Nat \X Nat
    BY <2>2, SelectAssumption
  <2>4. \A i \in Index : c[i \div 2][1] \in Nat /\ c[i \div 2][2] \in Nat
    BY <2>3
  <2>. QED  BY <2>1, <2>4
<1>5. Typed
  BY <1>1, <1>2, <1>3, <1>4 DEF Typed
<1>6. Whole(selected, ai)
  <2>1. << >> \in Seq(Entry) /\ Len(<< >>) = 0 /\ DOMAIN << >> = {}
    BY EmptySeq
  <2>. QED  BY <2>1, <1>1 DEF Whole
<1>. QED  BY <1>1, <1>5, <1>6 DEF IndInv

(* The attractor and its partner are used, nothing is selected yet.        *)
LEMMA PickKeeps ==
  ASSUME IndInv, PickAttractor
  PROVE  IndInv'
<1>1. /\ pc = "attractor" /\ ai' \in Index /\ used' = {ai', Pair(ai')}
      /\ pc' = (IF Wanted > 0 THEN "select" ELSE "depot")
      /\ UNCHANGED <<num, dptt, spot, etw, selected, depot, tries>>
      /\ selected = << >> /\ tries = 0 /\ Typed
  BY EmptySeq DEF PickAttractor, StillShort, file, IndInv
<1>2. Pair(ai') \in Index /\ Pair(Pair(ai')) = ai'
  BY <1>1, PairFacts
<1>3. Typed'
  BY <1>1, <1>2 DEF Typed
<1>4. << >> \in Seq(Entry) /\ Len(<< >>) = 0 /\ DOMAIN << >> = {}
  BY EmptySeq
<1>5. Whole(selected, ai)'
  BY <1>1, <1>4 DEF Whole
<1>6. ASSUME Wanted > 0 PROVE Selecting'
  <2>1. Wanted' = Wanted
    BY <1>1 DEF Wanted
  <2>. QED  BY <2>1, <1>1, <1>2, <1>4, <1>6 DEF Selecting, Closed
<1>7. ASSUME ~ (Wanted > 0) PROVE Searching' /\ Complete'
  <2>1. Searching'
    BY <1>1, <1>4 DEF Searching, Free
  <2>2. num \in Nat /\ Wrap - 1 > 0
    BY <1>1, SelectAssumption, PairFacts DEF Typed
  <2>3. num = 1
    BY <2>2, <1>7 DEF Wanted
  <2>. QED  BY <2>1, <2>3, <1>1, <1>4 DEF Complete
<1>. QED  BY <1>1, <1>3, <1>4, <1>5, <1>6, <1>7 DEF IndInv

(* A draw: a request that was not used is used up, and selected if it fits.*)
LEMMA SelectKeeps ==
  ASSUME IndInv, Select
  PROVE  IndInv'
<1>0. /\ pc = "select" /\ UNCHANGED <<num, dptt, spot, etw, ai, depot, tries>>
      /\ pc' = (IF Len(selected') < Wanted THEN "select" ELSE "depot")
      /\ Typed /\ Whole(selected, ai) /\ Selecting
  BY DEF Select, StillShort, file, IndInv
<1>1. PICK s \in (0 .. Size - 2) \ used :
        LET p == IF IsPickup(s) THEN s ELSE Pair(s) IN
        /\ selected' = IF Fits(p) THEN selected \o Numbered(p) ELSE selected
        /\ used' = Marked(p)
  BY DEF Select
<1>. DEFINE p == IF IsPickup(s) THEN s ELSE Pair(s)
<1>2. /\ selected' = IF Fits(p) THEN selected \o Numbered(p) ELSE selected
      /\ used' = used \cup {p, Pair(p)}
  BY <1>1 DEF Marked
<1>3. s \in Index
  BY PairFacts DEF Index
<1>4. p \in Index /\ IsPickup(p) /\ Pair(p) \in Index /\ Pair(Pair(p)) = p /\ s \in {p, Pair(p)}
  BY <1>3, PairFacts
<1>5. p \notin used /\ Pair(p) \notin used
  BY <1>0, <1>1, <1>4 DEF Selecting, Closed
<1>. HIDE DEF p
<1>6. ai \in Index /\ ai \in used /\ Pair(ai) \in used
  BY <1>0 DEF Typed, Selecting, Closed
<1>7. \A x \in DOMAIN selected : selected[x].node \notin {p, Pair(p)} /\ selected[x].node \in used
  BY <1>0, <1>5 DEF Selecting
<1>8. Len(selected) \in Nat /\ DOMAIN selected = 1 .. Len(selected) /\ Len(selected) % 2 = 0
  BY <1>0, Nodes DEF Whole
<1>9. /\ Whole(selected', ai)
      /\ Len(selected') = Len(selected) \/ Len(selected') = Len(selected) + 2
      /\ \A x \in DOMAIN selected' : selected'[x].node \in used'
      /\ \A x \in DOMAIN selected' : x % 2 = 1 => Fits(selected'[x].node)
  <2>1. CASE ~ Fits(p)
    <3>1. selected' = selected
      BY <2>1, <1>2
    <3>. QED  BY <3>1, <1>0, <1>2, <1>7 DEF IndInv
  <2>2. CASE Fits(p)
    <3>1. selected' = selected \o Numbered(p)
      BY <2>2, <1>2
    <3>2. /\ Whole(selected', ai) /\ Len(selected') = Len(selected) + 2
          /\ \A x \in DOMAIN selected : selected'[x] = selected[x]
          /\ selected'[Len(selected) + 1].node = p /\ selected'[Len(selected) + 2].node = Pair(p)
      BY <3>1, <1>0, <1>4, <1>5, <1>6, <1>7, OneMore DEF Numbered
    <3>3. DOMAIN selected' = 1 .. Len(selected) + 2
      BY <3>2, Nodes
    <3>4. \A x \in DOMAIN selected' :
            x \in DOMAIN selected \/ x = Len(selected) + 1 \/ x = Len(selected) + 2
      BY <3>3, <1>8
    <3>5. (Len(selected) + 2) % 2 = 0
      BY <1>8
    <3>6. \A x \in DOMAIN selected' : selected'[x].node \in used'
      BY <3>2, <3>4, <1>2, <1>7
    <3>7. \A x \in DOMAIN selected' : x % 2 = 1 => Fits(selected'[x].node)
      BY <3>2, <3>4, <3>5, <2>2, <1>0 DEF IndInv
    <3>. QED  BY <3>2, <3>6, <3>7
  <2>. QED  BY <2>1, <2>2
<1>10. Typed'
  BY <1>0, <1>2, <1>4 DEF Typed
<1>11. (\A x \in DOMAIN selected : x % 2 = 1 => Fits(selected[x].node))'
  <2>1. \A q : Fits(q)' <=> Fits(q)
    BY <1>0, FitsStays
  <2>. QED  BY <2>1, <1>9
<1>12. Wanted' = Wanted
  BY <1>0 DEF Wanted
<1>13. Whole(selected, ai)'
  BY <1>0, <1>9 DEF Whole
<1>14. ASSUME Len(selected') < Wanted PROVE Selecting'
  <2>1. Closed'
    BY <1>0, <1>2, <1>4 DEF Selecting, Closed
  <2>. QED  BY <2>1, <1>0, <1>2, <1>6, <1>9, <1>12, <1>14 DEF Selecting
<1>15. ASSUME ~ (Len(selected') < Wanted) PROVE Searching' /\ Complete'
  <2>1. Searching'
    BY <1>0, <1>9 DEF Selecting, Searching, Free
  <2>2. Len(selected') <= Size /\ Len(selected') \in Nat
    BY <1>9, NotLonger, Nodes
  <2>3. num \in Nat /\ Wrap \in Nat /\ Wrap - 1 > Size /\ Size \in Nat
    BY <1>0, SelectAssumption, PairFacts DEF Typed
  <2>4. num > 0 /\ Wanted = num - 1
    BY <2>2, <2>3, <1>15 DEF Wanted
  <2>5. Len(selected) < num - 1 /\ num - 1 <= Len(selected')
    BY <2>2, <2>3, <2>4, <1>0, <1>8, <1>15 DEF Selecting
  <2>6. Len(selected') = 2 * (num \div 2)
    BY <2>3, <2>5, <1>8, <1>9
  <2>. QED  BY <2>1, <2>4, <2>6, <1>0 DEF Complete
<1>. QED  BY <1>0, <1>10, <1>11, <1>13, <1>14, <1>15 DEF IndInv

(* A try: only the attractor's place can be the last one.                  *)
LEMMA TryKeeps ==
  ASSUME IndInv, TryDepot
  PROVE  IndInv'
<1>1. /\ pc = "depot" /\ UNCHANGED <<num, dptt, spot, etw, ai, selected>>
      /\ tries' = IF tries < TriesBound THEN tries + 1 ELSE tries
      /\ Typed /\ Whole(selected, ai) /\ Searching /\ Complete
  BY DEF TryDepot, file, IndInv
<1>2. PICK i \in Index :
        /\ Candidate(i) /\ depot' = i /\ used' = Free \cup {i}
        /\ pc' = IF ValidDepot(i) THEN "done" ELSE "depot"
  BY DEF TryDepot
<1>3. Free \subseteq Index
  BY <1>1 DEF Typed, Free
<1>4. \A x \in DOMAIN selected : selected[x].node \in Free
  BY <1>1 DEF Searching, Free, Whole
<1>5. i \notin Free
  <2>1. CASE i = ai
    BY <2>1, <1>1 DEF Searching
  <2>2. CASE CentralDepot(Free, i)
    <3>1. CASE (1 .. Size - 1) \ Free = {} /\ i = 0
      <4>1. ai = 0
        BY <3>1, <1>1, PairFacts DEF Searching, Typed, Index
      <4>. QED  BY <4>1, <3>1, <1>1 DEF Searching
    <3>. QED  BY <3>1, <2>2 DEF CentralDepot
  <2>. QED  BY <2>1, <2>2, <1>2 DEF Candidate
<1>6. tries' \in Nat /\ tries' # 0
  BY <1>1, SelectAssumption DEF TriesBound, Typed
<1>7. Typed'
  BY <1>1, <1>2, <1>3, <1>6 DEF Typed
<1>8. Whole(selected, ai)' /\ Complete'
  BY <1>1 DEF Whole, Complete
<1>9. \A x \in DOMAIN selected : x % 2 = 1 => Fits(selected[x].node)'
  BY <1>1, FitsStays DEF IndInv
<1>10. \A x \in DOMAIN selected : selected[x].node # i
  BY <1>4, <1>5
<1>11. ASSUME ~ ValidDepot(i) PROVE Searching'
  <2>1. i # ai
    BY <1>1, <1>11, AttractorServes
  <2>2. Free' = used'
    BY <1>6 DEF Free
  <2>. QED  BY <2>1, <2>2, <1>1, <1>2, <1>4 DEF Searching
<1>. QED  BY <1>1, <1>2, <1>7, <1>8, <1>9, <1>10, <1>11 DEF IndInv

(* Every step keeps the invariant.                                         *)
LEMMA NextInv == IndInv /\ [Next]_vars => IndInv'
<1>. SUFFICES ASSUME IndInv, [Next]_vars PROVE IndInv'
  OBVIOUS
<1>1. CASE UNCHANGED vars
  <2>1. UNCHANGED <<pc, num, dptt, spot, etw, ai, used, selected, depot, tries>>
    BY <1>1 DEF vars, file
  <2>2. \A p : Fits(p)' <=> Fits(p)
    BY <2>1, FitsStays
  <2>. QED  BY <2>1, <2>2 DEF IndInv, Typed, Whole, Selecting, Closed, Searching, Complete, Wanted, Free
<1>. QED  BY <1>1, PickKeeps, SelectKeeps, TryKeeps DEF Next

(* The invariant holds throughout.                                         *)
THEOREM Invariance == Spec => []IndInv
BY InitInv, NextInv, PTL DEF Spec

(* A try beyond the limit is one of the attractor, and it is the last.     *)
LEMMA TriesNext == IndInv /\ FewTries /\ [Next]_vars => FewTries'
<1>. SUFFICES ASSUME IndInv, FewTries, [Next]_vars PROVE FewTries'
  OBVIOUS
<1>. DEFINE limit == IF dptt = "Central" THEN CentralTries ELSE RandomTries
<1>1. limit \in Nat /\ tries \in Nat
  BY SelectAssumption DEF IndInv, Typed
<1>2. CASE PickAttractor \/ Select
  <2>1. dptt' = dptt /\ tries' = tries
    BY <1>2 DEF PickAttractor, Select, file
  <2>2. tries = 0
    BY <1>2 DEF PickAttractor, Select, IndInv, Selecting
  <2>. QED  BY <1>1, <2>1, <2>2 DEF FewTries
<1>3. CASE TryDepot
  <2>1. /\ dptt' = dptt /\ pc = "depot"
        /\ tries' = IF tries < TriesBound THEN tries + 1 ELSE tries
    BY <1>3 DEF TryDepot, file
  <2>2. PICK i \in Index : Candidate(i) /\ pc' = IF ValidDepot(i) THEN "done" ELSE "depot"
    BY <1>3 DEF TryDepot
  <2>3. CASE tries > limit
    <3>1. i = ai
      BY <2>2, <2>3 DEF Candidate
    <3>2. ValidDepot(ai)
      BY <2>1, AttractorServes
    <3>. QED  BY <2>2, <3>1, <3>2 DEF FewTries
  <2>4. CASE tries <= limit
    <3>1. tries' <= 1 + limit
      BY <1>1, <2>1, <2>4
    <3>. QED  BY <2>1, <3>1 DEF FewTries
  <2>. QED  BY <1>1, <2>3, <2>4
<1>4. CASE UNCHANGED vars
  BY <1>4 DEF vars, file, FewTries
<1>. QED  BY <1>2, <1>3, <1>4 DEF Next

(* What fits and is used has been selected, but for the attractor.         *)
FittingSelected ==
  pc = "select" =>
    \A p \in used : IsPickup(p) /\ ai \notin {p, Pair(p)} /\ Fits(p) =>
      \E x \in DOMAIN selected : x % 2 = 1 /\ selected[x].node = p

LEMMA FittingNext == IndInv /\ FittingSelected /\ [Next]_vars => FittingSelected'
<1>. SUFFICES ASSUME IndInv, FittingSelected, [Next]_vars, pc' = "select",
                     NEW q \in used', IsPickup(q), ai' \notin {q, Pair(q)}, Fits(q)'
              PROVE  \E x \in DOMAIN selected' : x % 2 = 1 /\ selected'[x].node = q
  BY DEF FittingSelected
<1>1. CASE PickAttractor
  <2>1. ai' \in Index /\ used' = {ai', Pair(ai')}
    BY <1>1 DEF PickAttractor
  <2>2. Pair(Pair(ai')) = ai'
    BY <2>1, PairFacts
  <2>. QED  BY <2>1, <2>2
<1>2. CASE Select
  <2>1. pc = "select" /\ UNCHANGED <<spot, etw, ai>> /\ Whole(selected, ai) /\ Selecting
    BY <1>2 DEF Select, file, IndInv
  <2>2. PICK s \in (0 .. Size - 2) \ used :
          LET p == IF IsPickup(s) THEN s ELSE Pair(s) IN
          /\ selected' = IF Fits(p) THEN selected \o Numbered(p) ELSE selected
          /\ used' = Marked(p)
    BY <1>2 DEF Select
  <2>. DEFINE p == IF IsPickup(s) THEN s ELSE Pair(s)
  <2>3. /\ selected' = IF Fits(p) THEN selected \o Numbered(p) ELSE selected
        /\ used' = used \cup {p, Pair(p)}
    BY <2>2 DEF Marked
  <2>4. s \in Index
    BY PairFacts DEF Index
  <2>5. p \in Index /\ IsPickup(p) /\ ~ IsPickup(Pair(p))
    BY <2>4, PairFacts
  <2>. HIDE DEF p
  <2>6. Fits(q)
    BY <2>1, FitsStays
  <2>7. Len(selected) \in Nat /\ DOMAIN selected = 1 .. Len(selected) /\ Len(selected) % 2 = 0
        /\ selected \in Seq(Entry)
    BY <2>1, Nodes DEF Whole
  <2>8. Numbered(p) \in Seq(Entry) /\ Len(Numbered(p)) = 2 /\ Numbered(p)[1].node = p
    <3>1. Pair(p) \in Index
      BY <2>5, PairFacts
    <3>. QED  BY <2>5, <2>7, <3>1 DEF Numbered, Entry
  <2>12. /\ Len(selected \o Numbered(p)) = Len(selected) + 2
         /\ \A x \in DOMAIN selected : (selected \o Numbered(p))[x] = selected[x]
         /\ (selected \o Numbered(p))[Len(selected) + 1].node = p
         /\ DOMAIN (selected \o Numbered(p)) = 1 .. Len(selected) + 2
    <3>. DEFINE t == Numbered(p)
    <3>1. t \in Seq(Entry) /\ Len(t) = 2 /\ t[1].node = p
      BY <2>8
    <3>. HIDE DEF t
    <3>2. /\ selected \o t \in Seq(Entry) /\ Len(selected \o t) = Len(selected) + 2
          /\ \A x \in 1 .. Len(selected) + 2 :
               (selected \o t)[x] = IF x <= Len(selected) THEN selected[x] ELSE t[x - Len(selected)]
      <4>1. /\ selected \o t \in Seq(Entry) /\ Len(selected \o t) = Len(selected) + Len(t)
            /\ \A x \in 1 .. Len(selected) + Len(t) :
                 (selected \o t)[x] = IF x <= Len(selected) THEN selected[x] ELSE t[x - Len(selected)]
        BY <2>7, <3>1, ConcatProperties, Zenon
      <4>. QED  BY <4>1, <3>1
    <3>3. \A x \in DOMAIN selected : (selected \o t)[x] = selected[x]
      BY <2>7, <3>2
    <3>4. (selected \o t)[Len(selected) + 1] = t[1]
      BY <2>7, <3>2
    <3>5. DOMAIN (selected \o t) = 1 .. Len(selected) + 2
      BY <3>2, LenProperties
    <3>. QED  BY <3>1, <3>2, <3>3, <3>4, <3>5 DEF t
  <2>9. q \in used \/ q = p
    BY <2>3, <2>5
  <2>10. CASE q \in used
    <3>1. PICK x \in DOMAIN selected : x % 2 = 1 /\ selected[x].node = q
      BY <2>1, <2>6, <2>10 DEF FittingSelected
    <3>2. x \in DOMAIN selected' /\ selected'[x] = selected[x]
      BY <2>3, <2>7, <2>12
    <3>. QED  BY <3>1, <3>2
  <2>11. CASE q = p
    <3>1. selected' = selected \o Numbered(p)
      BY <2>3, <2>6, <2>11
    <3>2. /\ Len(selected) + 1 \in DOMAIN selected'
          /\ selected'[Len(selected) + 1].node = q /\ (Len(selected) + 1) % 2 = 1
      BY <3>1, <2>7, <2>11, <2>12
    <3>. QED  BY <3>2
  <2>. QED  BY <2>9, <2>10, <2>11
<1>3. CASE TryDepot
  BY <1>3 DEF TryDepot
<1>4. CASE UNCHANGED vars
  <2>1. UNCHANGED <<pc, spot, etw, ai, used, selected>>
    BY <1>4 DEF vars, file
  <2>. QED  BY <2>1, FitsStays DEF FittingSelected
<1>. QED  BY <1>1, <1>2, <1>3, <1>4 DEF Next

(* Too few of them are selected: one is left to be drawn.                  *)
LEMMA OneIsLeft == IndInv /\ FittingSelected => OneStillFits
<1>. SUFFICES ASSUME IndInv, FittingSelected, pc = "select", EnoughFit,
                     (0 .. Size - 2) \ used = {}
              PROVE  FALSE
  BY DEF OneStillFits
<1>. DEFINE F == {p \in Index : IsPickup(p) /\ ai \notin {p, Pair(p)} /\ Fits(p)}
            n == Len(selected)
            half == 1 .. n \div 2
<1>1. Whole(selected, ai) /\ n < Wanted
  BY DEF IndInv, Selecting
<1>2. n \in Nat /\ DOMAIN selected = 1 .. n /\ n % 2 = 0 /\ n \div 2 \in Nat /\ 2 * (n \div 2) = n
  BY <1>1, Nodes DEF Whole
<1>3. \A p \in F : p \in used
  <2>1. \A p \in Index : IsPickup(p) => p \in 0 .. Size - 2
    BY PairFacts DEF Index, IsPickup
  <2>. QED  BY <2>1
<1>4. F \subseteq {selected[2 * k - 1].node : k \in half}
  <2>. SUFFICES ASSUME NEW p \in F PROVE \E k \in half : p = selected[2 * k - 1].node
    OBVIOUS
  <2>1. PICK x \in DOMAIN selected : x % 2 = 1 /\ selected[x].node = p
    BY <1>3 DEF FittingSelected
  <2>2. (x + 1) \div 2 \in half /\ 2 * ((x + 1) \div 2) - 1 = x
    BY <2>1, <1>2
  <2>. QED  BY <2>1, <2>2
<1>. HIDE DEF F
<1>5. IsFiniteSet(half) /\ Cardinality(half) = n \div 2
  BY <1>2, FS_Interval
<1>. DEFINE G == {selected[2 * k - 1].node : k \in half}
<1>6. IsFiniteSet(G) /\ Cardinality(G) <= Cardinality(half)
  <2>. HIDE DEF half, n
  <2>. DEFINE f == [k \in half |-> selected[2 * k - 1].node]
  <2>1. G = {f[k] : k \in half}
    OBVIOUS
  <2>2. f \in Surjection(half, G)
    BY <2>1 DEF Surjection
  <2>. HIDE DEF f, G
  <2>. QED  BY <2>2, <1>5, FS_Surjection
<1>7. IsFiniteSet(F) /\ Cardinality(F) <= Cardinality(G)
  <2>. HIDE DEF G
  <2>1. F \subseteq G
    BY <1>4 DEF G
  <2>. QED  BY <2>1, <1>6, FS_Subset
<1>8. Cardinality(F) \in Nat /\ Cardinality(G) \in Nat
  BY <1>6, <1>7, FS_CardinalityType
<1>9. 2 * Cardinality(F) >= Wanted
  BY DEF EnoughFit, F
<1>10. Wanted \in Int
  BY SelectAssumption DEF Wanted, IndInv, Typed
<1>. QED  BY <1>1, <1>2, <1>5, <1>6, <1>7, <1>8, <1>9, <1>10

(* What the invariant says of the selection.                               *)
LEMMA Promises == IndInv => TypeOK /\ AttractorIsValid /\ WholeRequests
<1>1. IndInv => TypeOK
  BY DEF IndInv, TypeOK, Typed, Selecting, Closed, Whole, Entry
<1>2. IndInv => AttractorIsValid
  BY AttractorServes DEF AttractorIsValid
<1>3. IndInv => WholeRequests
  <2>. SUFFICES ASSUME IndInv PROVE WholeRequests
    OBVIOUS
  <2>1. Whole(selected, ai)
    BY DEF IndInv
  <2>2. /\ Len(selected) \in Nat /\ DOMAIN selected = 1 .. Len(selected) /\ Len(selected) % 2 = 0
        /\ \A x \in DOMAIN selected : selected[x].node \in Index
    BY <2>1, Nodes DEF Whole
  <2>3. ASSUME NEW x \in DOMAIN selected
        PROVE  /\ selected[x].pair \in DOMAIN selected
               /\ selected[selected[x].pair].node = Pair(selected[x].node)
    <3>1. CASE x % 2 = 1
      <4>1. x + 1 \in 1 .. Len(selected)
        BY <2>2, <3>1
      <4>. QED  BY <4>1, <3>1, <2>1, <2>2 DEF Whole
    <3>2. CASE x % 2 # 1
      <4>1. x - 1 \in 1 .. Len(selected) /\ (x - 1) % 2 = 1 /\ (x - 1) + 1 = x
        BY <2>2, <3>2
      <4>2. selected[x].pair = x - 1 /\ selected[x].node = Pair(selected[x - 1].node)
        BY <4>1, <3>2, <2>1, <2>2 DEF Whole
      <4>. QED  BY <4>1, <4>2, <2>2, PairFacts
    <3>. QED  BY <3>1, <3>2
  <2>. QED  BY <2>1, <2>3 DEF WholeRequests, Whole, IndInv, Complete
<1>. QED  BY <1>1, <1>2, <1>3

(* Nodes, numbers and the marks stay in range, pairs are marked together.  *)
THEOREM TypeCorrect == Spec => []TypeOK
BY Promises, Invariance, PTL

(***************************************************************************)
(* The search for a depot may always take the attractor's place, wherever  *)
(* the nodes are and whatever their windows: selecting a request left time *)
(* enough for it.                                                          *)
(***************************************************************************)
THEOREM AttractorCorrect == Spec => []AttractorIsValid
BY Promises, Invariance, PTL

(* So the search for a depot ends after a bounded number of tries, for any *)
(* bounds, wherever the nodes are and whatever is drawn.                   *)
THEOREM TriesCorrect == Spec => []FewTries
<1>1. Init => FewTries
  BY DEF Init, FewTries
<1>. QED  BY <1>1, TriesNext, Invariance, PTL DEF Spec

(* And the draws of a file with enough requests that fit meet another one, *)
(* for any file: each of them is drawn once and then selected.             *)
THEOREM DrawsCorrect == Spec => []OneStillFits
<1>1. Init => FittingSelected
  BY DEF Init, FittingSelected
<1>. QED  BY <1>1, FittingNext, OneIsLeft, Invariance, PTL DEF Spec

(* Neither loop without a bound turns in vain.                             *)
THEOREM SearchCorrect == Spec => []NeverInVain
<1>1. AttractorIsValid /\ FewTries /\ OneStillFits => NeverInVain
  BY DEF NeverInVain
<1>. QED  BY <1>1, AttractorCorrect, TriesCorrect, DrawsCorrect, PTL

(***************************************************************************)
(* The result is made of whole requests, each of them once, numbered for   *)
(* the depot in front; there are as many as SIZE asks for, and the depot   *)
(* is at none of them.                                                     *)
(***************************************************************************)
THEOREM WholeCorrect == Spec => []WholeRequests
BY Promises, Invariance, PTL

-----------------------------------------------------------------------------
(***************************************************************************)
(* From the selection to the test: what is known of the windows of request *)
(* r while the builder visits its nodes.  Unvisited, they are the centers  *)
(* of the file; then both have moved with the pickup; and then, if the     *)
(* estimates hold, the delivery need not move again.                       *)
(***************************************************************************)
PickupCentered(r)   == HalfMinute * etw[PickupOf(r)]
DeliveryCentered(r) == HalfMinute * etw[Pair(PickupOf(r))]
PickupMoved(r)      == B!Moved(PickupCentered(r), trip[r].out)
DeliveryMoved(r)    == DeliveryCentered(r) + PickupMoved(r) - PickupCentered(r)

Estimated(r) ==
  direct[r] <= trip[r].out + trip[r].ride /\ Consistent(r) /\ Conservative(r)

Unvisited(r) == win[r].pe = PickupCentered(r) /\ win[r].de = DeliveryCentered(r)

HalfVisited(r) ==
  /\ win[r].pe = B!Opens(PickupMoved(r)) /\ win[r].pl = B!Closes(PickupMoved(r))
  /\ win[r].de = DeliveryMoved(r)

Arranged(r) ==
  Estimated(r) =>
    /\ win[r].pe = B!Opens(PickupMoved(r)) /\ win[r].pl = B!Closes(PickupMoved(r))
    /\ win[r].de = B!Opens(DeliveryMoved(r)) /\ win[r].dl = B!Closes(DeliveryMoved(r))

HandedOver ==
  /\ pc = "done"
  /\ B!Request = 1 .. Len(selected) \div 2
  /\ tw = 2 * HalfWindow * HalfMinute
  /\ trip \in [B!Request -> B!Trip] /\ direct \in [B!Request -> Nat]

Windowed ==
  /\ win \in [B!Request -> B!Windows]
  /\ stage \in {"pickup", "delivery"} =>
       /\ req \in B!Request
       /\ \A r \in B!Request : /\ r < req => Arranged(r)
                               /\ r > req => Unvisited(r)
  /\ stage = "pickup" => Unvisited(req)
  /\ stage = "delivery" => HalfVisited(req)
  /\ stage \in {"check", "rejected"} => \A r \in B!Request : Arranged(r)
  /\ stage = "rejected" => \E r \in B!Request : ~ B!CheckRequest(trip[r], win[r], stw)

CompleteInv ==
  /\ IndInv
  /\ pc = "done" => ValidDepot(depot)
  /\ stage \in {"none", "pickup", "delivery", "check", "accepted", "rejected", "written", "fault"}
  /\ stage # "none" => HandedOver
  /\ stage \notin {"none", "accepted", "written"} => Windowed

(* The ends of a request of the vector, and what the file says of them.    *)
LEMMA Ends ==
  ASSUME IndInv, NEW r \in 1 .. Len(selected) \div 2
  PROVE  /\ 2 * r - 1 \in DOMAIN selected /\ (2 * r - 1) % 2 = 1
         /\ PickupOf(r) \in Index /\ Pair(PickupOf(r)) \in Index
         /\ selected[2 * r].node = Pair(PickupOf(r))
         /\ etw[PickupOf(r)] \in Nat /\ etw[Pair(PickupOf(r))] \in Nat
         /\ spot[PickupOf(r)] \in Int /\ spot[Pair(PickupOf(r))] \in Int /\ spot[depot] \in Int
<1>1. /\ Whole(selected, ai) /\ Typed
      /\ Len(selected) \in Nat /\ DOMAIN selected = 1 .. Len(selected)
      /\ \A x \in DOMAIN selected : selected[x].node \in Index
  BY Nodes DEF IndInv
<1>2. 2 * r - 1 \in 1 .. Len(selected) /\ (2 * r - 1) % 2 = 1 /\ (2 * r - 1) + 1 = 2 * r
  BY <1>1
<1>3. selected[2 * r].node = Pair(selected[2 * r - 1].node)
  BY <1>1, <1>2 DEF Whole
<1>4. PickupOf(r) \in Index /\ Pair(PickupOf(r)) \in Index
  BY <1>1, <1>2, PairFacts DEF PickupOf
<1>. QED  BY <1>1, <1>2, <1>3, <1>4 DEF PickupOf, Typed

(***************************************************************************)
(* The arithmetic.  If the estimates hold, the delivery's window opens no  *)
(* earlier than the vehicle can be there with the way by the pickup.       *)
(***************************************************************************)
LEMMA NotMovedAgain ==
  ASSUME IndInv, HandedOver, NEW r \in B!Request, Estimated(r)
  PROVE  /\ B!Moved(DeliveryMoved(r), direct[r]) = DeliveryMoved(r)
         /\ PickupMoved(r) \in Nat /\ DeliveryMoved(r) \in Nat
         /\ trip[r].out <= PickupMoved(r) - 5 * HalfWindow
         /\ PickupMoved(r) + trip[r].ride <= DeliveryMoved(r)
<1>. DEFINE p == PickupOf(r)
            c == etw[p]
            e == etw[Pair(p)]
            o == trip[r].out
            q == trip[r].ride
            t == Dist(spot[p], spot[Pair(p)])
            m == PickupMoved(r)
            n == DeliveryMoved(r)
<1>1. c \in Nat /\ e \in Nat /\ t \in Nat /\ HalfWindow \in Nat
  BY Ends, SelectAssumption DEF HandedOver, Dist
<1>2. o \in Nat /\ q \in Nat /\ direct[r] \in Nat
  BY DEF HandedOver, B!Trip
<1>3. B!Half = 5 * HalfWindow
  BY <1>1 DEF HandedOver, B!Half, HalfMinute
<1>4. direct[r] <= o + q /\ e - c >= t /\ q <= 5 * t
  BY DEF Estimated, Consistent, Conservative, HalfMinute
<1>5. m = IF o > 5 * c - 5 * HalfWindow THEN o + 5 * HalfWindow ELSE 5 * c
  BY <1>3 DEF PickupMoved, PickupCentered, B!Moved, HalfMinute
<1>6. n = 5 * e + m - 5 * c
  BY DEF DeliveryMoved, DeliveryCentered, PickupCentered, HalfMinute
<1>7. B!Moved(n, direct[r]) = IF direct[r] > n - 5 * HalfWindow THEN direct[r] + 5 * HalfWindow ELSE n
  BY <1>3 DEF B!Moved
<1>. HIDE DEF p, c, e, o, q, t, m, n
<1>8. m \in Nat /\ o <= m - 5 * HalfWindow
  BY <1>1, <1>2, <1>5
<1>9. n \in Nat /\ m + q <= n
  BY <1>1, <1>2, <1>4, <1>6, <1>8
<1>10. ~ (direct[r] > n - 5 * HalfWindow)
  BY <1>1, <1>2, <1>4, <1>8, <1>9
<1>. QED  BY <1>7, <1>8, <1>9, <1>10 DEF o, q, m, n

(***************************************************************************)
(* And if such a request is rejected, the vehicle is back too late even if *)
(* it does not wait for the pickup.                                        *)
(***************************************************************************)
LEMMA RejectedIsLate ==
  ASSUME IndInv, HandedOver, NEW r \in B!Request, Estimated(r), Arranged(r), stw = 0,
         ~ B!CheckRequest(trip[r], win[r], stw)
  PROVE  BackAtDepot(spot[depot], PickupOf(r)) \in Int /\ BackAtDepot(spot[depot], PickupOf(r)) > Horizon
<1>. DEFINE p == PickupOf(r)
            c == etw[p]
            e == etw[Pair(p)]
            o == trip[r].out
            q == trip[r].ride
            b == trip[r].back
            t0p == Dist(spot[depot], spot[p])
            tpd == Dist(spot[p], spot[Pair(p)])
            td0 == Dist(spot[Pair(p)], spot[depot])
            m == PickupMoved(r)
            n == DeliveryMoved(r)
            C == PickupCenter(p, t0p)
            dc == DeliveryCenter(p, t0p)
            back == BackAtDepot(spot[depot], p)
<1>1. /\ c \in Nat /\ e \in Nat /\ t0p \in Nat /\ tpd \in Nat /\ td0 \in Nat
      /\ HalfWindow \in Nat /\ Horizon \in Nat
  <2>1. r \in 1 .. Len(selected) \div 2
    BY DEF HandedOver
  <2>2. /\ c \in Nat /\ e \in Nat
        /\ spot[p] \in Int /\ spot[Pair(p)] \in Int /\ spot[depot] \in Int
    BY <2>1, Ends
  <2>3. t0p \in Nat /\ tpd \in Nat /\ td0 \in Nat
    BY <2>2 DEF Dist
  <2>. QED  BY <2>2, <2>3, SelectAssumption
<1>2. o \in Nat /\ q \in Nat /\ b \in Nat
  BY DEF HandedOver, B!Trip
<1>3. B!Half = 5 * HalfWindow
  BY <1>1 DEF HandedOver, B!Half, HalfMinute
<1>4. o <= 5 * t0p /\ b <= 5 * td0
  BY DEF Estimated, Conservative, HalfMinute
<1>5. m = IF o > 5 * c - 5 * HalfWindow THEN o + 5 * HalfWindow ELSE 5 * c
  BY <1>3 DEF PickupMoved, PickupCentered, B!Moved, HalfMinute
<1>6. n = 5 * e + m - 5 * c
  BY DEF DeliveryMoved, DeliveryCentered, PickupCentered, HalfMinute
<1>7. /\ m \in Nat /\ n \in Nat /\ o <= m - 5 * HalfWindow /\ m + q <= n
  BY NotMovedAgain
<1>8. /\ win[r].pe = B!Later(0, m - 5 * HalfWindow)
      /\ win[r].pl = B!Earlier(5 * Horizon, m + 5 * HalfWindow)
      /\ win[r].de = B!Later(0, n - 5 * HalfWindow)
      /\ win[r].dl = B!Earlier(5 * Horizon, n + 5 * HalfWindow)
  BY <1>3 DEF Arranged, B!Opens, B!Closes, HalfMinute
<1>9. \/ o > win[r].pl
      \/ B!Later(win[r].pe, o) + 0 + q > win[r].dl
      \/ B!Later(win[r].de, B!Later(win[r].pe, o) + 0 + q) + 0 + b > 5 * Horizon
  <2>. DEFINE w == win[r]
              x == B!Later(w.pe, o) + 0 + q
              y == B!Later(w.de, x) + 0 + b
  <2>1. ~ (o <= w.pl /\ x <= w.dl /\ y <= 5 * Horizon)
    BY DEF B!CheckRequest, B!AtPickup, B!AtDelivery, B!AtHome, HalfMinute
  <2>2. w.pe \in Int /\ w.pl \in Int /\ w.de \in Int /\ w.dl \in Int
    BY <1>1, <1>7, <1>8 DEF B!Later, B!Earlier
  <2>3. x \in Int
    BY <1>2, <2>2 DEF B!Later
  <2>4. y \in Int
    BY <1>2, <2>2, <2>3 DEF B!Later
  <2>. HIDE DEF w, x, y
  <2>5. o > w.pl \/ x > w.dl \/ y > 5 * Horizon
    BY <1>1, <1>2, <2>1, <2>2, <2>3, <2>4
  <2>. QED  BY <2>5 DEF w, x, y
<1>10. C = IF t0p > c - HalfWindow THEN t0p + HalfWindow ELSE c
  BY DEF PickupCenter
<1>11. dc = e + C - c /\ back = Later(t0p + tpd, dc - HalfWindow) + td0
  BY DEF DeliveryCenter, BackAtDepot
<1>. HIDE DEF p, c, e, o, q, b, t0p, tpd, td0, m, n, C, dc, back
<1>12. C \in Nat /\ m <= 5 * C
  BY <1>1, <1>2, <1>4, <1>5, <1>10
<1>13. n <= 5 * (e + C - c)
  BY <1>1, <1>6, <1>7, <1>12
<1>14. back \in Int /\ back >= t0p /\ back >= e + C - c - HalfWindow + td0
  BY <1>1, <1>11, <1>12 DEF Later
<1>15. /\ win[r].pe = m - 5 * HalfWindow /\ win[r].de = n - 5 * HalfWindow
  BY <1>1, <1>2, <1>7, <1>8 DEF B!Later
<1>16. /\ B!Later(win[r].pe, o) + 0 + q = m - 5 * HalfWindow + q
       /\ B!Later(win[r].de, B!Later(win[r].pe, o) + 0 + q) + 0 + b = n - 5 * HalfWindow + b
  BY <1>1, <1>2, <1>7, <1>15 DEF B!Later
<1>17. o > 5 * Horizon \/ n - 5 * HalfWindow + b > 5 * Horizon
  BY <1>1, <1>2, <1>7, <1>8, <1>9, <1>16 DEF B!Earlier
<1>18. CASE o > 5 * Horizon
  BY <1>1, <1>2, <1>4, <1>14, <1>18 DEF back, p
<1>19. CASE n - 5 * HalfWindow + b > 5 * Horizon
  <2>1. 5 * back > 5 * Horizon
    BY <1>1, <1>2, <1>4, <1>7, <1>12, <1>13, <1>14, <1>19
  <2>. QED  BY <2>1, <1>1, <1>14 DEF back, p
<1>. QED  BY <1>17, <1>18, <1>19

-----------------------------------------------------------------------------
(* A request whose window a step leaves alone stays as it is.              *)
LEMMA WindowStays ==
  ASSUME UNCHANGED <<spot, etw, selected, depot, tw, trip, direct>>, NEW r, win'[r] = win[r]
  PROVE  (Unvisited(r)' <=> Unvisited(r)) /\ (Arranged(r)' <=> Arranged(r))
BY DEF Unvisited, Arranged, Estimated, Consistent, Conservative, PickupOf, PickupCentered,
       DeliveryCentered, PickupMoved, DeliveryMoved, B!Moved, B!Opens, B!Closes, B!Half

(* A request whose nodes have both been visited.                           *)
LEMMA ArrangedThen ==
  ASSUME UNCHANGED <<spot, etw, selected, depot, tw, trip, direct>>, NEW r,
         Estimated(r) =>
           /\ win'[r].pe = B!Opens(PickupMoved(r)) /\ win'[r].pl = B!Closes(PickupMoved(r))
           /\ win'[r].de = B!Opens(DeliveryMoved(r)) /\ win'[r].dl = B!Closes(DeliveryMoved(r))
  PROVE  Arranged(r)'
BY DEF Arranged, Estimated, Consistent, Conservative, PickupOf, PickupCentered,
       DeliveryCentered, PickupMoved, DeliveryMoved, B!Moved, B!Opens, B!Closes, B!Half

(* The node of a pickup is visited.                                        *)
LEMMA VisitPickupKeeps ==
  ASSUME CompleteInv, B!VisitPickup, UNCHANGED vars
  PROVE  HandedOver' /\ Windowed'
<1>. DEFINE w == win[req]
            c == B!Moved(w.pe, trip[req].out)
            v == [w EXCEPT !.pe = B!Opens(c), !.pl = B!Closes(c), !.de = @ + (c - w.pe)]
<1>1. /\ stage = "pickup" /\ stage' = "delivery" /\ win' = [win EXCEPT ![req] = v]
      /\ UNCHANGED <<req, tw, stw, trip, direct>>
  BY DEF B!VisitPickup, B!input
<1>2. UNCHANGED <<pc, num, dptt, spot, etw, ai, used, selected, depot, tries>>
  BY DEF vars, file
<1>3. /\ IndInv /\ HandedOver /\ Windowed /\ req \in B!Request /\ Unvisited(req)
      /\ win \in [B!Request -> B!Windows]
      /\ \A r \in B!Request : (r < req => Arranged(r)) /\ (r > req => Unvisited(r))
  <2>1. IndInv /\ HandedOver /\ Windowed
    BY <1>1 DEF CompleteInv
  <2>. QED  BY <2>1, <1>1, Zenon DEF Windowed
<1>4. B!Request' = B!Request
  BY <1>1 DEF B!Request
<1>5. HandedOver'
  BY <1>1, <1>2, <1>3, <1>4 DEF HandedOver
<1>6. w \in B!Windows /\ w.pe = PickupCentered(req) /\ w.de = DeliveryCentered(req)
  BY <1>3 DEF Unvisited
<1>7. c = PickupMoved(req)
  BY <1>6 DEF PickupMoved
<1>8. c \in Int /\ w.pe \in Int /\ w.de \in Int /\ B!Half \in Int
  <2>1. w.pe \in Int /\ w.de \in Int /\ trip[req].out \in Int
    BY <1>3, <1>6 DEF HandedOver, B!Windows, B!Trip, B!Time
  <2>2. tw = 2 * HalfWindow * 5 /\ HalfWindow \in Nat
    BY <1>3, SelectAssumption DEF HandedOver, HalfMinute
  <2>3. B!Half \in Int
    BY <2>2 DEF B!Half
  <2>. QED  BY <2>1, <2>3 DEF B!Moved
<1>9. B!Opens(c) \in Int /\ B!Closes(c) \in Int
  BY <1>8, SelectAssumption DEF B!Opens, B!Closes, B!Later, B!Earlier, HalfMinute
<1>10. /\ v \in B!Windows
       /\ v.pe = B!Opens(c) /\ v.pl = B!Closes(c) /\ v.de = w.de + (c - w.pe)
  <2>1. c - w.pe \in Int
    BY <1>8
  <2>. DEFINE a == B!Opens(c)
              b == B!Closes(c)
              x == c - w.pe
  <2>2. v = [w EXCEPT !.pe = a, !.pl = b, !.de = @ + x]
    OBVIOUS
  <2>3. a \in Int /\ b \in Int /\ x \in Int /\ w \in B!Windows
    BY <2>1, <1>6, <1>9
  <2>4. v \in B!Windows /\ v.pe = a /\ v.pl = b /\ v.de = w.de + x
    <3>. HIDE DEF w, a, b, x, v
    <3>1. v.pe = a /\ v.pl = b /\ v.de = w.de + x /\ v.dl = w.dl /\ w.de \in Int /\ w.dl \in Int
      BY <2>2, <2>3 DEF B!Windows, B!Time
    <3>2. v = [pe |-> v.pe, pl |-> v.pl, de |-> v.de, dl |-> v.dl]
      BY <2>2, <2>3 DEF B!Windows
    <3>3. v.de \in Int
      BY <2>3, <3>1
    <3>. QED  BY <2>3, <3>1, <3>2, <3>3 DEF B!Windows, B!Time
  <2>. QED  BY <2>4
<1>11. /\ win' \in [B!Request -> B!Windows] /\ win'[req] = v
       /\ \A r \in B!Request : r # req => win'[r] = win[r]
  <2>. HIDE DEF v
  <2>. QED  BY <1>1, <1>3, <1>10
<1>12. v.de = DeliveryMoved(req)
  <2>1. PickupCentered(req) \in Int /\ DeliveryCentered(req) \in Int /\ PickupMoved(req) \in Int
    BY <1>6, <1>7, <1>8
  <2>2. v.de = DeliveryCentered(req) + (PickupMoved(req) - PickupCentered(req))
    BY <1>6, <1>7, <1>10
  <2>. QED  BY <2>1, <2>2 DEF DeliveryMoved
<1>13. HalfVisited(req)'
  <2>1. DeliveryMoved(req)' = DeliveryMoved(req)
    BY <1>1, <1>2 DEF PickupMoved, DeliveryMoved, PickupCentered, DeliveryCentered, PickupOf,
       B!Moved, B!Half
  <2>2. /\ B!Opens(PickupMoved(req))' = B!Opens(PickupMoved(req))
        /\ B!Closes(PickupMoved(req))' = B!Closes(PickupMoved(req))
    BY <1>1, <1>2 DEF PickupMoved, PickupCentered, PickupOf, B!Moved, B!Half, B!Opens, B!Closes
  <2>. QED  BY <2>1, <2>2, <1>1, <1>7, <1>10, <1>11, <1>12 DEF HalfVisited
<1>14. \A r \in B!Request : (r < req => Arranged(r)') /\ (r > req => Unvisited(r)')
  <2>1. \A r \in B!Request : (r < req \/ r > req) => r # req
    BY <1>3 DEF HandedOver
  <2>. QED  BY <2>1, <1>1, <1>2, <1>3, <1>11, WindowStays
<1>. QED  BY <1>1, <1>3, <1>4, <1>5, <1>11, <1>13, <1>14 DEF Windowed

(* The node of a delivery is visited: nothing moves if the estimates hold. *)
LEMMA VisitDeliveryKeeps ==
  ASSUME CompleteInv, B!VisitDelivery, UNCHANGED vars
  PROVE  HandedOver' /\ Windowed'
<1>. DEFINE w == win[req]
            c == B!Moved(w.de, direct[req])
            v == [w EXCEPT !.de = B!Opens(c), !.dl = B!Closes(c), !.pe = @ + (c - w.de)]
<1>1. /\ stage = "delivery" /\ win' = [win EXCEPT ![req] = v]
      /\ IF req + 1 \in B!Request
         THEN stage' = "pickup" /\ req' = req + 1
         ELSE stage' = "check" /\ req' = req
      /\ UNCHANGED <<tw, stw, trip, direct>>
  BY DEF B!VisitDelivery, B!input
<1>2. UNCHANGED <<pc, num, dptt, spot, etw, ai, used, selected, depot, tries>>
  BY DEF vars, file
<1>3. /\ IndInv /\ HandedOver /\ Windowed /\ req \in B!Request /\ HalfVisited(req)
      /\ win \in [B!Request -> B!Windows]
      /\ \A r \in B!Request : (r < req => Arranged(r)) /\ (r > req => Unvisited(r))
  <2>1. IndInv /\ HandedOver /\ Windowed
    BY <1>1 DEF CompleteInv
  <2>. QED  BY <2>1, <1>1, Zenon DEF Windowed
<1>4. B!Request' = B!Request
  BY <1>1 DEF B!Request
<1>5. HandedOver'
  BY <1>1, <1>2, <1>3, <1>4 DEF HandedOver
<1>6. w \in B!Windows /\ w.pe \in Int /\ w.de \in Int
  BY <1>3 DEF B!Windows, B!Time
<1>7. c \in Int /\ B!Half \in Int
  <2>1. direct[req] \in Int
    BY <1>3 DEF HandedOver
  <2>2. tw = 2 * HalfWindow * 5 /\ HalfWindow \in Nat
    BY <1>3, SelectAssumption DEF HandedOver, HalfMinute
  <2>3. B!Half \in Int
    BY <2>2 DEF B!Half
  <2>. QED  BY <2>1, <2>3, <1>6 DEF B!Moved
<1>8. B!Opens(c) \in Int /\ B!Closes(c) \in Int
  BY <1>7, SelectAssumption DEF B!Opens, B!Closes, B!Later, B!Earlier, HalfMinute
<1>9. /\ v \in B!Windows
      /\ v.de = B!Opens(c) /\ v.dl = B!Closes(c) /\ v.pe = w.pe + (c - w.de) /\ v.pl = w.pl
  <2>1. c - w.de \in Int
    BY <1>6, <1>7
  <2>. DEFINE a == B!Opens(c)
              b == B!Closes(c)
              x == c - w.de
  <2>2. v = [w EXCEPT !.de = a, !.dl = b, !.pe = @ + x]
    OBVIOUS
  <2>3. a \in Int /\ b \in Int /\ x \in Int /\ w \in B!Windows
    BY <2>1, <1>6, <1>8
  <2>4. v \in B!Windows /\ v.de = a /\ v.dl = b /\ v.pe = w.pe + x /\ v.pl = w.pl
    <3>. HIDE DEF w, a, b, x, v
    <3>1. v.de = a /\ v.dl = b /\ v.pe = w.pe + x /\ v.pl = w.pl /\ w.pe \in Int /\ w.pl \in Int
      BY <2>2, <2>3 DEF B!Windows, B!Time
    <3>2. v = [pe |-> v.pe, pl |-> v.pl, de |-> v.de, dl |-> v.dl]
      BY <2>2, <2>3 DEF B!Windows
    <3>3. v.pe \in Int
      BY <2>3, <3>1
    <3>. QED  BY <2>3, <3>1, <3>2, <3>3 DEF B!Windows, B!Time
  <2>. QED  BY <2>4
<1>10. /\ win' \in [B!Request -> B!Windows] /\ win'[req] = v
       /\ \A r \in B!Request : r # req => win'[r] = win[r]
  <2>. HIDE DEF v
  <2>. QED  BY <1>1, <1>3, <1>9
<1>11. ASSUME Estimated(req)
       PROVE  /\ v.pe = B!Opens(PickupMoved(req)) /\ v.pl = B!Closes(PickupMoved(req))
              /\ v.de = B!Opens(DeliveryMoved(req)) /\ v.dl = B!Closes(DeliveryMoved(req))
  <2>1. /\ w.pe = B!Opens(PickupMoved(req)) /\ w.pl = B!Closes(PickupMoved(req))
        /\ w.de = DeliveryMoved(req)
    BY <1>3 DEF HalfVisited
  <2>2. B!Moved(DeliveryMoved(req), direct[req]) = DeliveryMoved(req)
    BY <1>3, <1>11, NotMovedAgain
  <2>3. c = w.de
    BY <2>1, <2>2
  <2>4. w.pe + (c - w.de) = w.pe
    BY <2>3, <1>6
  <2>. QED  BY <2>1, <2>3, <2>4, <1>9
<1>12. \A r \in B!Request : (r <= req => Arranged(r)') /\ (r > req => Unvisited(r)')
  <2>1. req \in Int /\ \A r \in B!Request : r \in Int
    BY <1>3 DEF HandedOver
  <2>2. ASSUME NEW r \in B!Request, r = req PROVE Arranged(r)'
    <3>1. Estimated(r) =>
            /\ win'[r].pe = B!Opens(PickupMoved(r)) /\ win'[r].pl = B!Closes(PickupMoved(r))
            /\ win'[r].de = B!Opens(DeliveryMoved(r)) /\ win'[r].dl = B!Closes(DeliveryMoved(r))
      <4>. HIDE DEF v
      <4>. QED  BY <1>10, <1>11, <2>2
    <3>. QED  BY <3>1, <1>1, <1>2, ArrangedThen
  <2>3. ASSUME NEW r \in B!Request, r # req
        PROVE  (r < req => Arranged(r)') /\ (r > req => Unvisited(r)')
    <3>1. (Unvisited(r)' <=> Unvisited(r)) /\ (Arranged(r)' <=> Arranged(r))
      BY <2>3, <1>1, <1>2, <1>10, WindowStays
    <3>. QED  BY <3>1, <1>3
  <2>. QED  BY <2>1, <2>2, <2>3
<1>13. CASE req + 1 \in B!Request
  <2>1. stage' = "pickup" /\ req' = req + 1
    BY <1>1, <1>13
  <2>2. req \in Int /\ \A r \in B!Request : r \in Int
    BY <1>3 DEF HandedOver
  <2>3. \A r \in B!Request : (r < req' => Arranged(r)') /\ (r > req' => Unvisited(r)')
    BY <2>1, <2>2, <1>12
  <2>4. \A r \in B!Request : r = req' => Unvisited(r)'
    BY <2>1, <2>2, <1>12
  <2>5. Unvisited(req)'
    BY <2>1, <2>4, <1>13 DEF Unvisited, PickupCentered, DeliveryCentered
  <2>. QED  BY <2>1, <2>3, <2>5, <1>4, <1>5, <1>10, <1>13 DEF Windowed
<1>14. CASE req + 1 \notin B!Request
  <2>1. stage' = "check"
    BY <1>1, <1>14
  <2>2. \A r \in B!Request : r <= req
    BY <1>3, <1>14 DEF HandedOver
  <2>3. \A r \in B!Request : Arranged(r)'
    BY <2>2, <1>12
  <2>. QED  BY <2>1, <2>3, <1>4, <1>5, <1>10 DEF Windowed
<1>. QED  BY <1>13, <1>14

(* The nodes are handed over, with the centers of the file as windows.     *)
LEMMA HandOverKeeps ==
  ASSUME CompleteInv, HandOver
  PROVE  HandedOver' /\ Windowed'
<1>. DEFINE request == 1 .. Len(selected) \div 2
            p(r) == selected[2 * r - 1].node
            d(r) == selected[2 * r].node
<1>1. /\ pc = "done" /\ stage = "none" /\ tw' = 2 * HalfWindow * HalfMinute /\ req' = 1
      /\ stage' \in IF request = {} THEN {"check", "fault"} ELSE {"pickup"}
      /\ win' = [r \in request |->
                   LET c == HalfMinute * etw[p(r)]
                       e == HalfMinute * etw[d(r)]
                   IN [pe |-> c, pl |-> c, de |-> e, dl |-> e]]
      /\ UNCHANGED vars /\ IndInv
  BY DEF HandOver, CompleteInv
<1>2. PICK road \in [request -> Roads] :
        /\ trip' = [r \in request |->
                     [out |-> road[r].out, ride |-> road[r].ride, back |-> road[r].back]]
        /\ direct' = [r \in request |-> road[r].direct]
  BY DEF HandOver
<1>3. UNCHANGED <<pc, num, dptt, spot, etw, ai, used, selected, depot, tries>>
  BY <1>1 DEF vars, file
<1>4. ASSUME NEW r \in request
      PROVE  /\ p(r) = PickupOf(r) /\ d(r) = Pair(PickupOf(r))
             /\ etw[p(r)] \in Nat /\ etw[d(r)] \in Nat
             /\ spot[p(r)] \in Int /\ spot[d(r)] \in Int /\ spot[depot] \in Int
  <2>1. p(r) = PickupOf(r) /\ d(r) = Pair(PickupOf(r))
    BY <1>1, Ends DEF PickupOf
  <2>2. /\ etw[PickupOf(r)] \in Nat /\ etw[Pair(PickupOf(r))] \in Nat
        /\ spot[PickupOf(r)] \in Int /\ spot[Pair(PickupOf(r))] \in Int /\ spot[depot] \in Int
    BY <1>1, Ends
  <2>. HIDE DEF p, d
  <2>. QED  BY <2>1, <2>2
<1>. HIDE DEF p, d, request
<1>5. B!Request' = request
  BY <1>2 DEF B!Request
<1>6. trip' \in [request -> B!Trip] /\ direct' \in [request -> Nat]
  <2>1. \A r \in request : /\ road[r].out \in Nat /\ road[r].ride \in Nat
                           /\ road[r].back \in Nat /\ road[r].direct \in Nat
    BY MinutesAssumption
  <2>. QED  BY <2>1, <1>2 DEF B!Trip
<1>7. HandedOver'
  BY <1>1, <1>3, <1>5, <1>6 DEF HandedOver, request
<1>8. win' \in [request -> B!Windows]
  <2>1. \A r \in request : HalfMinute * etw[p(r)] \in Int /\ HalfMinute * etw[d(r)] \in Int
    BY <1>4 DEF HalfMinute
  <2>. QED  BY <2>1, <1>1 DEF B!Windows, B!Time
<1>9. ASSUME NEW r \in request PROVE Unvisited(r)'
  <2>1. /\ win'[r].pe = HalfMinute * etw[p(r)] /\ win'[r].de = HalfMinute * etw[d(r)]
    BY <1>1
  <2>2. /\ PickupCentered(r)' = HalfMinute * etw[PickupOf(r)]
        /\ DeliveryCentered(r)' = HalfMinute * etw[Pair(PickupOf(r))]
    BY <1>3 DEF PickupCentered, DeliveryCentered, PickupOf
  <2>. QED  BY <2>1, <2>2, <1>4 DEF Unvisited
<1>10. CASE request = {}
  BY <1>1, <1>5, <1>7, <1>8, <1>10 DEF Windowed
<1>11. CASE request # {}
  <2>1. 1 \in request /\ \A r \in request : ~ (r < 1)
    BY <1>1, <1>11, Nodes DEF request, IndInv
  <2>2. \A r \in request : r = req' => Unvisited(r)'
    BY <1>9
  <2>3. Unvisited(req)'
    BY <2>1, <2>2, <1>1 DEF Unvisited, PickupCentered, DeliveryCentered
  <2>. QED  BY <2>1, <2>3, <1>1, <1>5, <1>7, <1>8, <1>9, <1>11 DEF Windowed
<1>. QED  BY <1>10, <1>11

(* The test, which changes no window.                                      *)
LEMMA CheckKeeps ==
  ASSUME CompleteInv, B!Check, UNCHANGED vars
  PROVE  HandedOver' /\ (stage' = "rejected" => Windowed') /\ stage' \in {"accepted", "rejected"}
<1>1. /\ stage = "check"
      /\ stage' = IF \A r \in B!Request : B!CheckRequest(trip[r], win[r], stw)
                  THEN "accepted" ELSE "rejected"
      /\ UNCHANGED <<req, tw, stw, trip, direct, win>>
  BY DEF B!Check, B!input
<1>2. UNCHANGED <<pc, num, dptt, spot, etw, ai, used, selected, depot, tries>>
  BY DEF vars, file
<1>3. HandedOver /\ Windowed
  BY <1>1 DEF CompleteInv
<1>4. B!Request' = B!Request
  BY <1>1 DEF B!Request
<1>5. HandedOver'
  BY <1>1, <1>2, <1>3, <1>4 DEF HandedOver
<1>6. \A r \in B!Request : Arranged(r)'
  <2>1. \A r \in B!Request : Arranged(r)
    BY <1>1, <1>3 DEF Windowed
  <2>. QED  BY <2>1, <1>1, <1>2, WindowStays
<1>7. ASSUME stage' = "rejected" PROVE Windowed'
  <2>1. PICK r \in B!Request : ~ B!CheckRequest(trip[r], win[r], stw)
    BY <1>1, <1>7
  <2>2. ~ B!CheckRequest(trip[r], win[r], stw)'
    BY <2>1, <1>1 DEF B!CheckRequest, B!AtPickup, B!AtDelivery, B!AtHome, B!Later
  <2>3. win \in [B!Request -> B!Windows]
    BY <1>3 DEF Windowed
  <2>. QED  BY <2>2, <2>3, <1>1, <1>4, <1>6, <1>7 DEF Windowed
<1>. QED  BY <1>1, <1>5, <1>7

(* Nothing is handed over at first.                                        *)
LEMMA CompleteInitInv == CompleteInit => CompleteInv
BY InitInv DEF CompleteInit, CompleteInv, Init

(* Every step keeps the invariant.                                         *)
LEMMA CompleteNextInv == CompleteInv /\ [CompleteNext]_all => CompleteInv'
<1>. SUFFICES ASSUME CompleteInv, [CompleteNext]_all PROVE CompleteInv'
  OBVIOUS
<1>1. IndInv'
  <2>1. [Next]_vars
    BY DEF CompleteNext, HandOver, all
  <2>. QED  BY <2>1, NextInv DEF CompleteInv
<1>2. ASSUME UNCHANGED vars PROVE (pc = "done" => ValidDepot(depot))'
  BY <1>2 DEF vars, file, CompleteInv, ValidDepot, BackAtDepot, DeliveryCenter, PickupCenter
<1>3. CASE Next /\ UNCHANGED building
  <2>1. UNCHANGED <<stage, req, tw, stw, trip, direct, win>>
    BY <1>3 DEF building
  <2>2. pc # "done"
    BY <1>3 DEF Next, PickAttractor, Select, TryDepot
  <2>3. stage = "none"
    BY <2>2 DEF CompleteInv, HandedOver
  <2>4. ASSUME pc' = "done" PROVE ValidDepot(depot)'
    <3>1. TryDepot
      BY <1>3, <2>4 DEF Next, PickAttractor, Select
    <3>2. PICK i \in Index : depot' = i /\ pc' = IF ValidDepot(i) THEN "done" ELSE "depot"
      BY <3>1 DEF TryDepot
    <3>3. ValidDepot(i)
      BY <3>2, <2>4
    <3>4. UNCHANGED <<spot, etw, selected>>
      BY <3>1 DEF TryDepot, file
    <3>. QED  BY <3>2, <3>3, <3>4 DEF ValidDepot, BackAtDepot, DeliveryCenter, PickupCenter
  <2>. QED  BY <1>1, <2>1, <2>3, <2>4 DEF CompleteInv
<1>4. CASE HandOver
  <2>1. UNCHANGED vars /\ stage' \in {"check", "pickup", "fault"}
    BY <1>4 DEF HandOver
  <2>. QED  BY <1>1, <1>2, <1>4, <2>1, HandOverKeeps DEF CompleteInv
<1>5. CASE B!VisitPickup /\ UNCHANGED vars
  <2>1. stage' = "delivery"
    BY <1>5 DEF B!VisitPickup
  <2>. QED  BY <1>1, <1>2, <1>5, <2>1, VisitPickupKeeps DEF CompleteInv
<1>6. CASE B!VisitDelivery /\ UNCHANGED vars
  <2>1. stage' \in {"pickup", "check"}
    BY <1>6 DEF B!VisitDelivery
  <2>. QED  BY <1>1, <1>2, <1>6, <2>1, VisitDeliveryKeeps DEF CompleteInv
<1>7. CASE B!Check /\ UNCHANGED vars
  BY <1>1, <1>2, <1>7, CheckKeeps DEF CompleteInv
<1>8. CASE B!Write /\ UNCHANGED vars
  <2>1. stage = "accepted" /\ stage' = "written" /\ UNCHANGED <<tw, trip, direct>>
    BY <1>8 DEF B!Write, B!input
  <2>2. HandedOver
    BY <2>1 DEF CompleteInv
  <2>3. HandedOver'
    BY <2>1, <2>2, <1>8 DEF HandedOver, B!Request, vars
  <2>. QED  BY <1>1, <1>2, <1>8, <2>1, <2>3 DEF CompleteInv
<1>9. CASE UNCHANGED all
  <2>1. UNCHANGED vars /\ UNCHANGED <<stage, req, tw, stw, trip, direct, win>>
    BY <1>9 DEF all, building
  <2>2. HandedOver' <=> HandedOver
    BY <2>1 DEF HandedOver, B!Request, vars
  <2>3. Windowed' <=> Windowed
    <3>1. UNCHANGED <<spot, etw, selected, depot>>
      BY <2>1 DEF vars, file
    <3>. QED  BY <2>1, <3>1 DEF Windowed, B!Request, Arranged, Unvisited, HalfVisited, Estimated,
           Consistent, Conservative, PickupOf, PickupCentered, DeliveryCentered, PickupMoved,
           DeliveryMoved, B!Moved, B!Opens, B!Closes, B!Half, B!CheckRequest, B!AtPickup,
           B!AtDelivery, B!AtHome, B!Later, B!Windows, B!Time
  <2>. QED  BY <1>1, <1>2, <2>1, <2>2, <2>3 DEF CompleteInv
<1>. QED  BY <1>3, <1>4, <1>5, <1>6, <1>7, <1>8, <1>9 DEF CompleteNext, B!Next

(***************************************************************************)
(* From the selection to the file, the selection keeps its invariant, and  *)
(* the windows are what the tests of select_nodes prepared them for.       *)
(***************************************************************************)
THEOREM CompleteInvariance == CompleteSpec => []CompleteInv
BY CompleteInitInv, CompleteNextInv, PTL DEF CompleteSpec

(* What create hands to the router and the builder is what select_nodes    *)
(* promises (src/src/instance_creator.cpp, lines 48-89).                   *)
THEOREM CompleteSelection == CompleteSpec => [](TypeOK /\ WholeRequests)
<1>1. CompleteInv => TypeOK /\ WholeRequests
  BY Promises DEF CompleteInv
<1>. QED  BY <1>1, CompleteInvariance, PTL

(* Routing and building leave selection and search as they ended.          *)
THEOREM CompleteSearch == CompleteSpec => []NeverInVain
<1>1. CompleteInit => FewTries /\ FittingSelected
  BY DEF CompleteInit, Init, FewTries, FittingSelected
<1>2. CompleteInv => IndInv
  BY DEF CompleteInv
<1>3. [CompleteNext]_all => [Next]_vars
  BY DEF CompleteNext, HandOver, all
<1>4. CompleteInv /\ FewTries /\ [CompleteNext]_all => FewTries'
  BY <1>2, <1>3, TriesNext
<1>5. CompleteInv /\ FittingSelected /\ [CompleteNext]_all => FittingSelected'
  BY <1>2, <1>3, FittingNext
<1>6. CompleteInv /\ FittingSelected => OneStillFits
  BY <1>2, OneIsLeft
<1>7. CompleteInv /\ FewTries /\ OneStillFits => NeverInVain
  BY Promises DEF CompleteInv, NeverInVain
<1>. QED  BY <1>1, <1>4, <1>5, <1>6, <1>7, CompleteInvariance, PTL DEF CompleteSpec

(***************************************************************************)
(* Whatever the file and however many requests are selected: if the        *)
(* estimates hold and no time is spent at the stops, the builder rejects   *)
(* nothing that select_nodes let through but for the half minute that only *)
(* select_nodes rounds down.                                               *)
(***************************************************************************)
THEOREM SelectedCorrect == CompleteSpec => []SelectedIsAccepted
<1>1. CompleteInv => SelectedIsAccepted
  <2>. SUFFICES ASSUME CompleteInv, stage = "rejected", stw = 0, B!DirectIsShortest,
                       \A r \in B!Request : Consistent(r) /\ Conservative(r)
                PROVE  \E r \in B!Request : BackAtDepot(spot[depot], PickupOf(r)) = Horizon + 1
    BY DEF SelectedIsAccepted
  <2>1. IndInv /\ HandedOver /\ Windowed /\ pc = "done" /\ ValidDepot(depot)
    BY DEF CompleteInv, HandedOver
  <2>2. PICK r \in B!Request : ~ B!CheckRequest(trip[r], win[r], stw)
    BY <2>1 DEF Windowed
  <2>3. Estimated(r)
    BY DEF B!DirectIsShortest, Estimated
  <2>4. Arranged(r)
    BY <2>1 DEF Windowed
  <2>. DEFINE back == BackAtDepot(spot[depot], PickupOf(r))
  <2>5. back > Horizon
    BY <2>1, <2>2, <2>3, <2>4, RejectedIsLate
  <2>6. back - (back % 2) <= Horizon
    <3>1. 2 * r - 1 \in DOMAIN selected /\ (2 * r - 1) % 2 = 1
      BY <2>1, Ends DEF HandedOver
    <3>. QED  BY <3>1, <2>1 DEF ValidDepot, PickupOf
  <2>7. back \in Int /\ Horizon \in Nat
    BY <2>1, <2>2, <2>3, <2>4, RejectedIsLate, SelectAssumption
  <2>. HIDE DEF back
  <2>8. back = Horizon + 1
    BY <2>5, <2>6, <2>7
  <2>. QED  BY <2>8 DEF back
<1>. QED  BY <1>1, CompleteInvariance, PTL
=============================================================================

--------------------------- MODULE PairingProofs ----------------------------
(***************************************************************************)
(* Pairing for any number of nodes and clusters, wherever k-means puts the *)
(* nodes: couples are formed one after the other, within the clusters, and *)
(* what is handed to order_nodes is made of couples only.                  *)
(*                                                                         *)
(* The repair counts in one array what it moves in another; from their     *)
(* agreement follows that the counts stay in range.  In the clusters that  *)
(* are behind everybody has a partner, and every node is in some cluster.  *)
(***************************************************************************)
EXTENDS Pairing, FiniteSetTheorems, WellFoundedInduction, TLAPS

Members(c) == {i \in Customers : clusters[i] = c}

(* A partner is somebody else, has him as a partner, is of the other type, *)
(* and in a clustered instance of the same cluster.                        *)
CoupledAt(i) ==
  /\ pair[i] \in Customers \ {i}
  /\ pair[pair[i]] = i
  /\ type[pair[i]] = IF type[i] = "Pickup" THEN "Delivery" ELSE "Pickup"
  /\ dist = "Cluster" => clusters[pair[i]] = clusters[i]

Coupled == \A i \in Customers : pair[i] # NO_NODE => CoupledAt(i)

Progress ==
  /\ pc \in {"start", "kmeans", "parity"} => \A i \in Customers : pair[i] = NO_NODE
  /\ pc = "random" => dist = "Random"
  /\ pc \in {"kmeans", "parity", "pair"} => dist = "Cluster"
  /\ pc = "parity" => cur = 0
  /\ pc = "pair" => \A i \in Customers : clusters[i] < cur => pair[i] # NO_NODE
  /\ pc \in {"demand", "done"} => \A i \in Customers : pair[i] # NO_NODE
  /\ pc \in {"start", "kmeans"} => cur = 0

IndInv ==
  /\ Typed
  /\ Coupled
  /\ Progress
  /\ SizesCountClusters
  /\ ReadyToOrder

-----------------------------------------------------------------------------
(* The bounds, and that NO_NODE is no node.                                *)
LEMMA Numbers ==
  ASSUME Typed
  PROVE  /\ n \in Nat /\ k \in Nat /\ Customers = 1 .. n /\ Cluster = 0 .. k - 1
         /\ Customers \subseteq 1 .. MaxNodes /\ NO_NODE \notin Customers
         /\ IsFiniteSet(Customers) /\ Cardinality(Customers) = n
<1>1. n \in Nat /\ k \in Nat /\ n <= MaxNodes /\ MaxNodes \in Nat
  BY BoundsAssumption DEF Typed
<1>2. IsFiniteSet(1 .. n) /\ Cardinality(1 .. n) = n
  BY <1>1, FS_Interval
<1>. QED  BY <1>1, <1>2 DEF Customers, Cluster, NO_NODE

(* The number of members of a cluster, whatever the assignment is.         *)
LEMMA Counts ==
  ASSUME Typed
  PROVE  \A a : Counted(a) \in [Cluster -> 0 .. n]
<1>. SUFFICES ASSUME NEW a PROVE Counted(a) \in [Cluster -> 0 .. n]
  OBVIOUS
<1>1. ASSUME NEW c \in Cluster PROVE Cardinality({i \in Customers : a[i] = c}) \in 0 .. n
  <2>. DEFINE M == {i \in Customers : a[i] = c}
  <2>1. M \subseteq Customers
    OBVIOUS
  <2>2. IsFiniteSet(M) /\ Cardinality(M) <= Cardinality(Customers)
    BY <2>1, Numbers, FS_Subset
  <2>3. Cardinality(M) \in Nat
    BY <2>2, FS_CardinalityType
  <2>. QED  BY <2>2, <2>3, Numbers
<1>. QED  BY <1>1 DEF Counted

(* One node that changes its cluster changes two counts by one.            *)
LEMMA OneMoves ==
  ASSUME Typed, NEW from \in Cluster, NEW to \in Cluster, from # to,
         NEW i \in Customers, clusters[i] = from, clusters \in [Customers -> Cluster],
         sizes = Counted(clusters), Moved(i, from, to), UNCHANGED <<n, k>>
  PROVE  /\ clusters' \in [Customers -> Cluster]
         /\ sizes' = Counted(clusters')
<1>1. /\ clusters' = [clusters EXCEPT ![i] = to]
      /\ sizes' = [sizes EXCEPT ![from] = @ - 1, ![to] = @ + 1]
  BY DEF Moved
<1>2. clusters' \in [Customers -> Cluster]
  BY <1>1
<1>3. \A j \in Customers : clusters'[j] = IF j = i THEN to ELSE clusters[j]
  BY <1>1
<1>. DEFINE Of(a, c) == {j \in Customers : a[j] = c}
<1>4. \A c \in Cluster : IsFiniteSet(Of(clusters, c))
  <2>1. \A c \in Cluster : Of(clusters, c) \subseteq Customers
    OBVIOUS
  <2>. QED  BY <2>1, Numbers, FS_Subset
<1>5. Cardinality(Of(clusters', from)) = Cardinality(Of(clusters, from)) - 1
  <2>1. Of(clusters', from) = Of(clusters, from) \ {i} /\ i \in Of(clusters, from)
    BY <1>3
  <2>. QED  BY <2>1, <1>4, FS_RemoveElement
<1>6. Cardinality(Of(clusters', to)) = Cardinality(Of(clusters, to)) + 1
  <2>1. Of(clusters', to) = Of(clusters, to) \cup {i} /\ i \notin Of(clusters, to)
    BY <1>3
  <2>. QED  BY <2>1, <1>4, FS_AddElement
<1>7. \A c \in Cluster \ {from, to} : Of(clusters', c) = Of(clusters, c)
  BY <1>3
<1>8. /\ Counted(clusters) = [c \in Cluster |-> Cardinality(Of(clusters, c))]
      /\ Counted(clusters') = [c \in Cluster |-> Cardinality(Of(clusters', c))]
  BY DEF Counted
<1>9. ASSUME NEW c \in Cluster PROVE sizes'[c] = Cardinality(Of(clusters', c))
  <2>. HIDE DEF Of
  <2>1. sizes = [x \in Cluster |-> Cardinality(Of(clusters, x))]
    BY <1>8
  <2>2. sizes'[c] = IF c = to THEN sizes[c] + 1 ELSE IF c = from THEN sizes[c] - 1 ELSE sizes[c]
    BY <1>1, <2>1
  <2>. QED  BY <2>1, <2>2, <1>5, <1>6, <1>7
<1>10. sizes' = [c \in Cluster |-> sizes'[c]]
  BY <1>1 DEF Typed
<1>. QED  BY <1>2, <1>8, <1>9, <1>10

-----------------------------------------------------------------------------
(* Nobody is paired at first.                                              *)
LEMMA InitInv == Init => IndInv
<1>. SUFFICES ASSUME Init PROVE IndInv
  OBVIOUS
<1>1. /\ pc = "start" /\ n \in 0 .. MaxNodes /\ k \in 0 .. MaxClusters /\ dist \in {"Cluster", "Random"}
      /\ clusters = [i \in Customers |-> IF i <= k THEN i - 1 ELSE k + 1]
      /\ sizes = [c \in Cluster |-> 0] /\ cur = 0
      /\ pair = [i \in Customers |-> NO_NODE]
      /\ type = [i \in Customers |-> "Pickup"]
      /\ demand = [i \in Customers |-> 0]
  BY DEF Init
<1>2. n \in Nat /\ k \in Nat
  BY <1>1, BoundsAssumption
<1>3. clusters \in [Customers -> Cluster \cup {k + 1}]
  BY <1>1, <1>2 DEF Customers, Cluster
<1>4. sizes \in [Cluster -> 0 .. n] /\ cur \in 0 .. k
  BY <1>1, <1>2
<1>5. Typed
  BY <1>1, <1>3, <1>4 DEF Typed
<1>. QED  BY <1>1, <1>5 DEF IndInv, Coupled, Progress, SizesCountClusters, ReadyToOrder

(* A step that pairs nobody and moves nobody keeps the couples.            *)
LEMMA StillCoupled ==
  ASSUME IndInv, UNCHANGED <<n, dist, pair, type, clusters>>
  PROVE  Coupled'
<1>1. Customers' = Customers
  BY DEF Customers
<1>2. ASSUME NEW i \in Customers PROVE CoupledAt(i)' <=> CoupledAt(i)
  BY <1>1 DEF CoupledAt
<1>. QED  BY <1>1, <1>2 DEF IndInv, Coupled

(* k-means and the repair: as nobody is paired yet, there is nothing to    *)
(* lose.                                                                   *)
LEMMA NobodyPaired ==
  ASSUME UNCHANGED <<n, pair>>, \A i \in Customers : pair[i] = NO_NODE
  PROVE  Coupled' /\ \A i \in Customers' : pair'[i] = NO_NODE
BY DEF Coupled, Customers

(* Which way of pairing is taken, or none.                                 *)
LEMMA StartKeeps ==
  ASSUME IndInv, Start
  PROVE  IndInv'
<1>1. /\ pc = "start" /\ pc' \in {"random", "kmeans", "fault"}
      /\ pc' = "random" => dist = "Random"
      /\ pc' = "kmeans" => dist = "Cluster"
      /\ UNCHANGED <<n, dist, k, clusters, sizes, cur, pair, type, demand>>
  BY DEF Start, input, IndInv, Typed
<1>2. Customers' = Customers /\ Cluster' = Cluster
  BY <1>1 DEF Customers, Cluster
<1>3. Typed'
  BY <1>1, <1>2 DEF IndInv, Typed
<1>4. Progress'
  BY <1>1, <1>2 DEF IndInv, Progress
<1>. QED  BY <1>1, <1>3, <1>4, StillCoupled DEF IndInv, SizesCountClusters, ReadyToOrder

(* A round of k-means, whatever it assigns.                                *)
LEMMA KMeansKeeps ==
  ASSUME IndInv, KMeansRound
  PROVE  IndInv'
<1>1. PICK a \in Assignments :
        clusters' = a /\ sizes' = Counted(a) /\ pc' = IF a = clusters THEN "parity" ELSE "kmeans"
  BY DEF KMeansRound
<1>2. pc = "kmeans" /\ UNCHANGED <<n, dist, k, cur, pair, type, demand>>
  BY DEF KMeansRound, input
<1>3. Customers' = Customers /\ Cluster' = Cluster
  BY <1>2 DEF Customers, Cluster
<1>4. clusters' \in [Customers -> Cluster]
  BY <1>1 DEF Assignments
<1>5. sizes' \in [Cluster -> 0 .. n]
  BY <1>1, Counts DEF IndInv
<1>6. Typed'
  BY <1>1, <1>2, <1>3, <1>4, <1>5 DEF IndInv, Typed
<1>7. \A i \in Customers : pair[i] = NO_NODE
  BY <1>2 DEF IndInv, Progress
<1>8. Progress'
  BY <1>1, <1>2, <1>3, <1>7 DEF IndInv, Progress
<1>9. SizesCountClusters'
  BY <1>1, <1>3 DEF Counted, SizesCountClusters
<1>10. ReadyToOrder'
  BY <1>1 DEF ReadyToOrder
<1>. QED  BY <1>2, <1>6, <1>7, <1>8, <1>9, <1>10, NobodyPaired DEF IndInv

(* The counts of the clusters stay those of the assignment.                *)
LEMMA RepairKeeps ==
  ASSUME IndInv, RepairParity
  PROVE  IndInv'
<1>1. PICK to \in Cluster : \E from \in Donors(to) : \E i \in Customers :
        clusters[i] = from /\ Moved(i, from, to)
  BY DEF RepairParity
<1>2. PICK from \in Donors(to), i \in Customers : clusters[i] = from /\ Moved(i, from, to)
  BY <1>1
<1>3. pc = "parity" /\ UNCHANGED <<pc, n, dist, k, cur, pair, type, demand>>
  BY DEF RepairParity, input
<1>4. Customers' = Customers /\ Cluster' = Cluster
  BY <1>3 DEF Customers, Cluster
<1>5. from \in Cluster /\ from # to
  BY <1>2 DEF Donors, OddClusters
<1>6. clusters \in [Customers -> Cluster] /\ sizes = Counted(clusters)
  BY <1>3 DEF IndInv, Typed, SizesCountClusters, Counted
<1>7. clusters' \in [Customers -> Cluster] /\ sizes' = Counted(clusters')
  BY <1>2, <1>3, <1>5, <1>6, OneMoves DEF IndInv
<1>8. sizes' \in [Cluster -> 0 .. n]
  BY <1>7, Counts DEF IndInv
<1>9. Typed'
  BY <1>3, <1>4, <1>7, <1>8 DEF IndInv, Typed
<1>10. \A j \in Customers : pair[j] = NO_NODE
  BY <1>3 DEF IndInv, Progress
<1>11. Progress'
  BY <1>3, <1>4, <1>10 DEF IndInv, Progress
<1>12. SizesCountClusters'
  BY <1>4, <1>7 DEF Counted, SizesCountClusters
<1>13. ReadyToOrder'
  BY <1>3 DEF ReadyToOrder
<1>. QED  BY <1>3, <1>9, <1>10, <1>11, <1>12, <1>13, NobodyPaired DEF IndInv

(* Steps that only lead on: the next cluster once this one is done, the    *)
(* demands once everybody has a partner, or a failure.                     *)
LEMMA LeadingOn ==
  ASSUME IndInv, RepairFails \/ AllEven \/ NextCluster \/ NobodyLeft \/ EverybodyPaired
  PROVE  IndInv'
<1>1. UNCHANGED <<n, dist, k, clusters, sizes, pair, type, demand>>
  BY DEF RepairFails, AllEven, NextCluster, NobodyLeft, EverybodyPaired, input
<1>2. Customers' = Customers /\ Cluster' = Cluster
  BY <1>1 DEF Customers, Cluster
<1>3. \/ pc' = "fault" /\ cur' = cur
      \/ pc = "parity" /\ pc' = "pair" /\ cur' = cur
      \/ pc = "pair" /\ pc' = "pair" /\ cur < k /\ InCluster(cur) = {} /\ cur' = cur + 1
      \/ pc = "pair" /\ pc' = "demand" /\ cur = k /\ cur' = cur
      \/ pc = "random" /\ pc' = "demand" /\ Unpaired = {} /\ cur' = cur
  BY DEF RepairFails, AllEven, NextCluster, NobodyLeft, EverybodyPaired
<1>4. cur \in 0 .. k /\ k \in Nat
  BY Numbers DEF IndInv, Typed
<1>5. pc = "pair" \/ pc = "parity" => clusters \in [Customers -> Cluster]
  BY DEF IndInv, Typed
<1>6. cur' \in 0 .. k
  BY <1>3, <1>4
<1>7. Typed'
  BY <1>1, <1>2, <1>3, <1>5, <1>6 DEF IndInv, Typed
<1>8. ASSUME pc' = "pair", NEW i \in Customers, clusters[i] < cur' PROVE pair[i] # NO_NODE
  <2>1. clusters[i] \in 0 .. k - 1
    BY <1>3, <1>5, <1>8 DEF Cluster
  <2>2. CASE pc = "parity"
    BY <2>1, <2>2, <1>3, <1>8 DEF IndInv, Progress
  <2>3. CASE pc = "pair" /\ InCluster(cur) = {} /\ cur' = cur + 1
    <3>1. clusters[i] < cur \/ clusters[i] = cur
      BY <2>1, <2>3, <1>4, <1>8
    <3>. QED  BY <3>1, <2>3 DEF IndInv, Progress, InCluster, Unpaired
  <2>. QED  BY <2>2, <2>3, <1>3, <1>8
<1>9. ASSUME pc' = "demand", NEW i \in Customers PROVE pair[i] # NO_NODE
  <2>1. CASE pc = "pair" /\ cur = k
    <3>1. clusters[i] \in 0 .. k - 1
      BY <2>1, <1>5 DEF Cluster
    <3>. QED  BY <3>1, <2>1, <1>4 DEF IndInv, Progress
  <2>2. CASE Unpaired = {}
    BY <2>2 DEF Unpaired
  <2>. QED  BY <2>1, <2>2, <1>3, <1>9
<1>10. Progress'
  BY <1>1, <1>2, <1>3, <1>8, <1>9 DEF IndInv, Progress
<1>11. SizesCountClusters'
  BY <1>1, <1>2, <1>3 DEF IndInv, SizesCountClusters
<1>12. ReadyToOrder'
  BY <1>3 DEF ReadyToOrder
<1>. QED  BY <1>1, <1>7, <1>10, <1>11, <1>12, StillCoupled DEF IndInv

-----------------------------------------------------------------------------
(* Two unpaired nodes become a couple; the others keep their partners.     *)
LEMMA NewCouple ==
  ASSUME Typed, Coupled, NEW p \in Unpaired, NEW d \in Unpaired, p # d, Paired(p, d),
         UNCHANGED <<n, dist, clusters>>, dist = "Cluster" => clusters[p] = clusters[d]
  PROVE  /\ pair' \in [Customers -> Customers \cup {NO_NODE}]
         /\ type' \in [Customers -> {"Pickup", "Delivery"}]
         /\ pair'[p] = d /\ pair'[d] = p
         /\ \A i \in Customers \ {p, d} : pair'[i] = pair[i]
         /\ Coupled'
<1>1. /\ p \in Customers /\ d \in Customers /\ pair[p] = NO_NODE /\ pair[d] = NO_NODE
      /\ pair \in [Customers -> Customers \cup {NO_NODE}]
      /\ type \in [Customers -> {"Pickup", "Delivery"}]
      /\ NO_NODE \notin Customers
  BY Numbers DEF Unpaired, Typed
<1>2. /\ pair' = [pair EXCEPT ![p] = d, ![d] = p]
      /\ type' = [type EXCEPT ![p] = "Pickup", ![d] = "Delivery"]
  BY DEF Paired
<1>3. /\ pair' \in [Customers -> Customers \cup {NO_NODE}]
      /\ type' \in [Customers -> {"Pickup", "Delivery"}]
  BY <1>1, <1>2
<1>4. /\ pair'[p] = d /\ pair'[d] = p /\ type'[p] = "Pickup" /\ type'[d] = "Delivery"
      /\ \A i \in Customers \ {p, d} : pair'[i] = pair[i] /\ type'[i] = type[i]
  BY <1>1, <1>2
<1>5. Customers' = Customers
  BY DEF Customers
<1>6. ASSUME NEW i \in Customers, pair'[i] # NO_NODE PROVE CoupledAt(i)'
  <2>1. CASE i = p \/ i = d
    BY <2>1, <1>1, <1>4, <1>5 DEF CoupledAt
  <2>2. CASE i \notin {p, d}
    <3>1. CoupledAt(i)
      BY <2>2, <1>4, <1>6 DEF Coupled
    <3>2. pair[i] \in Customers \ {p, d}
      <4>1. pair[pair[i]] = i /\ i # NO_NODE
        BY <3>1, <1>1 DEF CoupledAt
      <4>. QED  BY <4>1, <3>1, <1>1 DEF CoupledAt
    <3>. QED  BY <2>2, <3>1, <3>2, <1>4, <1>5 DEF CoupledAt
  <2>. QED  BY <2>1, <2>2
<1>7. Coupled'
  BY <1>5, <1>6 DEF Coupled
<1>. QED  BY <1>3, <1>4, <1>7

(* The two ways of pairing find two such nodes.                            *)
LEMMA Partners ==
  ASSUME IndInv, PairInCluster \/ PairAtRandom
  PROVE  /\ UNCHANGED <<pc, n, dist, k, clusters, sizes, cur, demand>>
         /\ pc \in {"pair", "random"}
         /\ \E p, d \in Unpaired :
              p # d /\ Paired(p, d) /\ (dist = "Cluster" => clusters[p] = clusters[d])
<1>1. CASE PairInCluster
  BY <1>1 DEF PairInCluster, InCluster, input
<1>2. CASE PairAtRandom
  <2>1. dist = "Random"
    BY <1>2 DEF PairAtRandom, IndInv, Progress
  <2>2. UNCHANGED <<pc, n, dist, k, clusters, sizes, cur, demand>> /\ pc = "random"
    BY <1>2 DEF PairAtRandom, input
  <2>3. PICK p \in Customers : IsFirst(p) /\ \E d \in Others(p) : Paired(p, d)
    BY <1>2 DEF PairAtRandom
  <2>4. PICK d \in Others(p) : Paired(p, d)
    BY <2>3
  <2>5. p \in Unpaired /\ d \in Unpaired /\ p # d
    BY <2>3, <2>4 DEF IsFirst, Others
  <2>. QED  BY <2>1, <2>2, <2>4, <2>5
<1>. QED  BY <1>1, <1>2

(* So either of them keeps the invariant.                                  *)
LEMMA PairingKeeps ==
  ASSUME IndInv, PairInCluster \/ PairAtRandom
  PROVE  IndInv'
<1>1. /\ UNCHANGED <<pc, n, dist, k, clusters, sizes, cur, demand>> /\ pc \in {"pair", "random"}
      /\ \E p, d \in Unpaired :
           p # d /\ Paired(p, d) /\ (dist = "Cluster" => clusters[p] = clusters[d])
  BY Partners
<1>2. PICK p \in Unpaired, d \in Unpaired :
        p # d /\ Paired(p, d) /\ (dist = "Cluster" => clusters[p] = clusters[d])
  BY <1>1
<1>3. /\ pair' \in [Customers -> Customers \cup {NO_NODE}]
      /\ type' \in [Customers -> {"Pickup", "Delivery"}]
      /\ pair'[p] = d /\ pair'[d] = p
      /\ \A i \in Customers \ {p, d} : pair'[i] = pair[i]
      /\ Coupled'
  BY <1>1, <1>2, NewCouple DEF IndInv
<1>4. Customers' = Customers /\ Cluster' = Cluster
  BY <1>1 DEF Customers, Cluster
<1>5. Typed'
  BY <1>1, <1>3, <1>4 DEF IndInv, Typed
<1>6. \A i \in Customers : pair[i] # NO_NODE => pair'[i] # NO_NODE
  BY <1>3, Numbers DEF IndInv, Unpaired
<1>7. Progress'
  BY <1>1, <1>4, <1>6 DEF IndInv, Progress
<1>8. SizesCountClusters' /\ ReadyToOrder'
  BY <1>1, <1>4 DEF IndInv, SizesCountClusters, ReadyToOrder
<1>. QED  BY <1>3, <1>5, <1>7, <1>8 DEF IndInv

(* A delivery's demand is that of its pickup, with the other sign.         *)
LEMMA DemandsKeep ==
  ASSUME IndInv, DrawDemands
  PROVE  IndInv'
<1>1. /\ pc = "demand" /\ pc' = "done"
      /\ UNCHANGED <<n, dist, k, clusters, sizes, cur, pair, type>>
  BY DEF DrawDemands, input
<1>. DEFINE Pickups == {i \in Customers : type[i] = "Pickup"}
            From == IF low' THEN WrongLoads ELSE Loads
<1>2. PICK q \in [Pickups -> From] :
        demand' = [i \in Customers |-> IF type[i] = "Pickup" THEN q[i] ELSE -q[pair[i]]]
  BY DEF DrawDemands
<1>3. \A e \in From : e \in Int /\ -e \in Int /\ -(-e) = e /\ (~low' => e > 0 /\ ~(-e > 0))
  BY LoadsAssumption
<1>4. Customers' = Customers /\ Cluster' = Cluster
  BY <1>1 DEF Customers, Cluster
<1>5. \A i \in Customers : CoupledAt(i)
  BY <1>1 DEF IndInv, Coupled, Progress
<1>6. type \in [Customers -> {"Pickup", "Delivery"}]
  BY DEF IndInv, Typed
<1>7. \A i \in Customers : IF type[i] = "Pickup" THEN i \in Pickups ELSE pair[i] \in Pickups
  BY <1>5, <1>6 DEF CoupledAt
<1>. HIDE DEF From
<1>8. ASSUME NEW i \in Customers
      PROVE  /\ demand'[i] = IF type[i] = "Pickup" THEN q[i] ELSE -q[pair[i]]
             /\ IF type[i] = "Pickup" THEN q[i] \in From ELSE q[pair[i]] \in From
  <2>1. demand'[i] = IF type[i] = "Pickup" THEN q[i] ELSE -q[pair[i]]
    BY <1>2
  <2>2. \A e \in Pickups : q[e] \in From
    OBVIOUS
  <2>. QED  BY <2>1, <2>2, <1>7
<1>9. demand' \in [Customers -> Int]
  <2>1. ASSUME NEW i \in Customers PROVE demand'[i] \in Int
    <3>1. CASE type[i] = "Pickup"
      BY <3>1, <1>3, <1>8
    <3>2. CASE type[i] # "Pickup"
      <4>1. demand'[i] = -q[pair[i]] /\ q[pair[i]] \in From
        BY <3>2, <1>8
      <4>. QED  BY <4>1, <1>3
    <3>. QED  BY <3>1, <3>2
  <2>2. demand' = [i \in Customers |-> demand'[i]]
    BY <1>2
  <2>. QED  BY <2>1, <2>2
<1>10. Typed'
  BY <1>1, <1>4, <1>9 DEF IndInv, Typed
<1>11. ASSUME NEW i \in Customers
       PROVE  /\ pair[i] \in Customers \ {i} /\ pair[pair[i]] = i
              /\ demand'[pair[i]] = -demand'[i]
              /\ ~low' => ((type[i] = "Pickup") <=> (demand'[i] > 0))
  <2>1. /\ pair[i] \in Customers \ {i} /\ pair[pair[i]] = i
        /\ type[pair[i]] = IF type[i] = "Pickup" THEN "Delivery" ELSE "Pickup"
    BY <1>5 DEF CoupledAt
  <2>2. CASE type[i] = "Pickup"
    <3>1. demand'[i] = q[i] /\ q[i] \in From
      BY <2>2, <1>8
    <3>2. demand'[pair[i]] = -q[i]
      <4>1. type[pair[i]] # "Pickup"
        BY <2>1, <2>2
      <4>. QED  BY <4>1, <2>1, <1>8
    <3>3. ~low' => demand'[i] > 0
      BY <3>1, <1>3
    <3>. QED  BY <3>1, <3>2, <3>3, <2>1, <2>2
  <2>3. CASE type[i] # "Pickup"
    <3>1. demand'[i] = -q[pair[i]] /\ q[pair[i]] \in From
      BY <2>3, <1>8
    <3>2. demand'[pair[i]] = q[pair[i]]
      <4>1. type[pair[i]] = "Pickup"
        BY <2>1, <2>3
      <4>. QED  BY <4>1, <2>1, <1>8
    <3>3. q[pair[i]] = -demand'[i] /\ (~low' => ~(demand'[i] > 0))
      BY <3>1, <1>3
    <3>. QED  BY <3>2, <3>3, <2>1, <2>3
  <2>. QED  BY <2>2, <2>3
<1>12. ReadyToOrder'
  BY <1>1, <1>4, <1>11 DEF ReadyToOrder
<1>13. Progress' /\ SizesCountClusters'
  BY <1>1, <1>4 DEF IndInv, Progress, SizesCountClusters
<1>. QED  BY <1>1, <1>10, <1>12, <1>13, StillCoupled DEF IndInv

(* Every step keeps the invariant.                                         *)
LEMMA NextInv == IndInv /\ [Next]_vars => IndInv'
<1>. SUFFICES ASSUME IndInv, [Next]_vars PROVE IndInv'
  OBVIOUS
<1>1. CASE UNCHANGED vars
  <2>1. UNCHANGED <<pc, n, dist, k, low, clusters, sizes, cur, pair, type, demand>>
    BY <1>1 DEF vars, input
  <2>2. Customers' = Customers /\ Cluster' = Cluster
    BY <2>1 DEF Customers, Cluster
  <2>3. Typed' /\ Progress'
    BY <2>1, <2>2 DEF IndInv, Typed, Progress
  <2>4. SizesCountClusters' /\ ReadyToOrder'
    BY <2>1, <2>2 DEF IndInv, SizesCountClusters, ReadyToOrder
  <2>. QED  BY <2>1, <2>3, <2>4, StillCoupled DEF IndInv
<1>2. CASE Start
  BY <1>2, StartKeeps
<1>3. CASE KMeansRound
  BY <1>3, KMeansKeeps
<1>4. CASE RepairParity
  BY <1>4, RepairKeeps
<1>5. CASE RepairFails \/ AllEven \/ NextCluster \/ NobodyLeft \/ EverybodyPaired
  BY <1>5, LeadingOn
<1>6. CASE PairInCluster \/ PairAtRandom
  BY <1>6, PairingKeeps
<1>7. CASE DrawDemands
  BY <1>7, DemandsKeep
<1>. QED  BY <1>1, <1>2, <1>3, <1>4, <1>5, <1>6, <1>7 DEF Next

-----------------------------------------------------------------------------
(* Nobody is paired, so there is no couple.                                *)
LEMMA AbstractInit == Init => Abstract!Init
<1>. SUFFICES ASSUME Init PROVE Abstract!Init
  OBVIOUS
<1>1. Unpaired = Customers
  BY DEF Init, Unpaired
<1>. QED  BY <1>1 DEF Abstract!Init, Couples

(* A step forms one couple of two that were in none, or leaves them alone. *)
LEMMA AbstractNext == IndInv /\ [Next]_vars => [Abstract!Next]_Couples
<1>. SUFFICES ASSUME IndInv, [Next]_vars PROVE [Abstract!Next]_Couples
  OBVIOUS
<1>1. CASE UNCHANGED <<n, pair>>
  BY <1>1 DEF Couples, Unpaired, Customers
<1>2. CASE PairInCluster \/ PairAtRandom
  <2>1. /\ UNCHANGED <<n, dist, clusters>>
        /\ \E p, d \in Unpaired :
             p # d /\ Paired(p, d) /\ (dist = "Cluster" => clusters[p] = clusters[d])
    BY <1>2, Partners
  <2>2. PICK p \in Unpaired, d \in Unpaired :
          p # d /\ Paired(p, d) /\ (dist = "Cluster" => clusters[p] = clusters[d])
    BY <2>1
  <2>3. /\ pair'[p] = d /\ pair'[d] = p
        /\ \A i \in Customers \ {p, d} : pair'[i] = pair[i]
    BY <2>1, <2>2, NewCouple DEF IndInv
  <2>4. /\ p \in Customers /\ d \in Customers /\ pair[p] = NO_NODE /\ pair[d] = NO_NODE
        /\ Customers' = Customers /\ NO_NODE \notin Customers /\ Customers \subseteq 1 .. MaxNodes
    BY <2>1, Numbers DEF Unpaired, Customers, IndInv
  <2>5. Couples' = Couples \cup {{p, d}}
    <3>1. Customers \ Unpaired' = (Customers \ Unpaired) \cup {p, d}
      BY <2>3, <2>4 DEF Unpaired
    <3>2. \A i \in Customers \ Unpaired : i \notin {p, d} /\ pair'[i] = pair[i]
      BY <2>3
    <3>3. Couples' = {{i, pair'[i]} : i \in Customers \ Unpaired'}
      BY <2>4 DEF Couples
    <3>4. ASSUME NEW e \in Couples' PROVE e \in Couples \/ e = {p, d}
      <4>1. PICK i \in Customers \ Unpaired' : e = {i, pair'[i]}
        BY <3>3
      <4>2. CASE i \in {p, d}
        BY <4>1, <4>2, <2>3
      <4>3. CASE i \in Customers \ Unpaired
        BY <4>1, <4>3, <3>2 DEF Couples
      <4>. QED  BY <4>2, <4>3, <3>1
    <3>5. \A e \in Couples : e \in Couples'
      BY <3>1, <3>2, <3>3 DEF Couples
    <3>6. {p, d} \in Couples'
      BY <2>3, <3>1, <3>3
    <3>. QED  BY <3>4, <3>5, <3>6
  <2>6. \A i \in Unpaired : i \in Abstract!Single
    <3>1. ASSUME NEW i \in Unpaired, NEW e \in Couples PROVE i \notin e
      <4>1. PICK j \in Customers \ Unpaired : e = {j, pair[j]}
        BY DEF Couples
      <4>2. pair[j] # NO_NODE /\ pair[pair[j]] = j /\ j # NO_NODE
        BY <2>4 DEF IndInv, Coupled, CoupledAt, Unpaired
      <4>. QED  BY <4>1, <4>2 DEF Unpaired
    <3>. QED  BY <3>1, <2>4 DEF Abstract!Single, Unpaired
  <2>7. Abstract!Match(p, d)
    BY <2>2, <2>5 DEF Abstract!Match
  <2>. QED  BY <2>6, <2>7 DEF Abstract!Next
<1>3. CASE ~ UNCHANGED <<n, pair>> /\ ~ (PairInCluster \/ PairAtRandom)
  BY <1>3 DEF Next, vars, input, Start, KMeansRound, RepairParity, RepairFails, AllEven,
              NextCluster, NobodyLeft, EverybodyPaired, DrawDemands
<1>. QED  BY <1>1, <1>2, <1>3

-----------------------------------------------------------------------------
(* A set of natural numbers has a least element.                           *)
LEMMA LeastNat ==
  ASSUME NEW S, S \subseteq Nat, S # {}
  PROVE  \E m \in S : \A x \in S : m <= x
<1>. DEFINE R == OpToRel(<, Nat)
<1>1. IsWellFoundedOn(R, Nat)
  BY NatLessThanWellFounded
<1>. HIDE DEF R
<1>2. PICK m \in S : \A x \in S : <<x, m>> \notin R
  BY <1>1, WFMin, Zenon
<1>3. \A x \in S : m <= x
  <2>1. \A x, y \in Nat : x < y => <<x, y>> \in R
    BY DEF R, OpToRel
  <2>. TAKE x \in S
  <2>2. x \in Nat /\ m \in Nat
    OBVIOUS
  <2>3. ~(x < m)
    BY <2>1, <2>2, <1>2, Zenon
  <2>. QED  BY <2>2, <2>3
<1>. QED  BY <1>3

(***************************************************************************)
(* The number of clusters with an odd number of nodes is odd just if the   *)
(* number of nodes is: with every node that is added, one cluster changes  *)
(* between odd and even.  A least number of nodes for which this fails     *)
(* cannot exist.                                                           *)
(***************************************************************************)
LEMMA OddOnes ==
  ASSUME Typed, NEW a \in [Customers -> Cluster]
  PROVE  LET Odd == {c \in Cluster : Counted(a)[c] % 2 = 1} IN
         IsFiniteSet(Odd) /\ Cardinality(Odd) % 2 = n % 2
<1>. DEFINE Of(m, c) == {i \in 1 .. m : a[i] = c}
            Odd(m) == {c \in Cluster : Cardinality(Of(m, c)) % 2 = 1}
            Bad == {m \in 0 .. n : Cardinality(Odd(m)) % 2 # m % 2}
<1>1. n \in Nat /\ k \in Nat /\ Customers = 1 .. n /\ Cluster = 0 .. k - 1
  BY Numbers
<1>2. ASSUME NEW m \in 0 .. n, NEW c
      PROVE  IsFiniteSet(Of(m, c)) /\ Cardinality(Of(m, c)) \in Nat
  <2>1. IsFiniteSet(1 .. m) /\ Of(m, c) \subseteq 1 .. m
    BY <1>1, FS_Interval
  <2>. QED  BY <2>1, FS_Subset, FS_CardinalityType
<1>3. IsFiniteSet(Cluster)
  BY <1>1, FS_Interval
<1>4. ASSUME NEW m \in 0 .. n
      PROVE  IsFiniteSet(Odd(m)) /\ Cardinality(Odd(m)) \in Nat
  <2>1. Odd(m) \subseteq Cluster
    OBVIOUS
  <2>. HIDE DEF Odd
  <2>. QED  BY <2>1, <1>3, FS_Subset, FS_CardinalityType
<1>5. ASSUME Bad # {} PROVE FALSE
  <2>1. PICK m \in Bad : \A x \in Bad : m <= x
    <3>1. Bad \subseteq Nat
      BY <1>1
    <3>. HIDE DEF Bad
    <3>. QED  BY <3>1, <1>5, LeastNat
  <2>2. m \in 0 .. n /\ Cardinality(Odd(m)) % 2 # m % 2
    OBVIOUS
  <2>3. CASE m = 0
    <3>1. \A c : Of(0, c) = {}
      OBVIOUS
    <3>2. Odd(0) = {}
      BY <3>1, FS_EmptySet
    <3>3. Cardinality(Odd(0)) = 0
      BY <3>2, FS_EmptySet
    <3>. QED  BY <3>3, <2>2, <2>3
  <2>4. CASE m # 0
    <3>. DEFINE e == m - 1
                b == a[m]
    <3>1. e \in 0 .. n /\ e + 1 = m /\ m \in 1 .. n /\ ~(m <= e) /\ e \in Int
      BY <2>2, <2>4, <1>1
    <3>2. Cardinality(Odd(e)) % 2 = e % 2
      <4>1. e \notin Bad
        <5>. HIDE DEF Bad, e
        <5>. QED  BY <2>1, <3>1
      <4>. QED  BY <4>1, <3>1
    <3>3. b \in Cluster
      BY <3>1, <1>1
    <3>. HIDE DEF e
    <3>4. Of(m, b) = Of(e, b) \cup {m} /\ m \notin Of(e, b)
      <4>1. \A i : i \in 1 .. m <=> i \in 1 .. e \/ i = m
        BY <3>1
      <4>2. m \notin 1 .. e
        BY <3>1
      <4>. QED  BY <4>1, <4>2
    <3>5. Cardinality(Of(m, b)) = Cardinality(Of(e, b)) + 1
      <4>1. IsFiniteSet(Of(e, b))
        BY <1>2, <3>1
      <4>. QED  BY <3>4, <4>1, FS_AddElement
    <3>6. \A c \in Cluster \ {b} : Of(m, c) = Of(e, c)
      <4>1. \A i : i \in 1 .. m <=> i \in 1 .. e \/ i = m
        BY <3>1
      <4>. QED  BY <4>1
    <3>7. Cardinality(Of(e, b)) \in Nat
      BY <1>2, <3>1
    <3>. HIDE DEF Of, b
    <3>8. (Cardinality(Of(m, b)) % 2 = 1) <=> ~(Cardinality(Of(e, b)) % 2 = 1)
      BY <3>5, <3>7
    <3>9. \A c \in Cluster \ {b} : c \in Odd(m) <=> c \in Odd(e)
      BY <3>6
    <3>10. b \in Odd(m) <=> b \notin Odd(e)
      BY <3>3, <3>8
    <3>11. Odd(m) \subseteq Cluster /\ Odd(e) \subseteq Cluster
      OBVIOUS
    <3>12. IsFiniteSet(Odd(e)) /\ Cardinality(Odd(e)) \in Nat
           /\ IsFiniteSet(Odd(m)) /\ Cardinality(Odd(m)) \in Nat
      BY <1>4, <3>1, <2>2
    <3>. HIDE DEF Odd
    <3>13. \/ Cardinality(Odd(m)) = Cardinality(Odd(e)) + 1
           \/ Cardinality(Odd(e)) = Cardinality(Odd(m)) + 1
      <4>1. CASE b \in Odd(m)
        <5>1. Odd(m) = Odd(e) \cup {b} /\ b \notin Odd(e)
          BY <4>1, <3>9, <3>10, <3>11
        <5>. QED  BY <5>1, <3>12, FS_AddElement
      <4>2. CASE b \notin Odd(m)
        <5>1. Odd(e) = Odd(m) \cup {b} /\ b \notin Odd(m)
          BY <4>2, <3>9, <3>10, <3>11
        <5>. QED  BY <5>1, <3>12, FS_AddElement
      <4>. QED  BY <4>1, <4>2
    <3>14. Cardinality(Odd(m)) % 2 # Cardinality(Odd(e)) % 2
      BY <3>12, <3>13
    <3>15. m % 2 # e % 2 /\ m % 2 \in 0 .. 1 /\ e % 2 \in 0 .. 1
      BY <3>1
    <3>16. Cardinality(Odd(m)) % 2 \in 0 .. 1
      BY <3>12
    <3>. QED  BY <2>2, <3>2, <3>14, <3>15, <3>16
  <2>. QED  BY <2>3, <2>4
<1>6. Cardinality(Odd(n)) % 2 = n % 2 /\ IsFiniteSet(Odd(n))
  <2>1. n \in 0 .. n
    BY <1>1
  <2>2. n \notin Bad
    BY <1>5
  <2>3. IsFiniteSet(Odd(n))
    BY <1>4, <2>1
  <2>. HIDE DEF Odd
  <2>. QED  BY <2>1, <2>2, <2>3
<1>7. {c \in Cluster : Counted(a)[c] % 2 = 1} = Odd(n)
  BY <1>1 DEF Counted
<1>. HIDE DEF Odd
<1>. QED  BY <1>6, <1>7

(***************************************************************************)
(* Who is left in pair_random_nodes has the parity of all the nodes; from  *)
(* the repair on, the nodes are even in number.                            *)
(***************************************************************************)
Parity ==
  /\ pc = "random" => Cardinality(Unpaired) % 2 = n % 2
  /\ pc \in {"pair", "demand", "done"} => n % 2 = 0
  /\ pc = "fault" => n % 2 = 1 \/ (dist = "Cluster" /\ Seedless)

(* The repair comes to an end with even clusters, or with one odd cluster. *)
LEMMA RepairParityFacts ==
  ASSUME IndInv, pc = "parity"
  PROVE  /\ OddClusters = {} => n % 2 = 0
         /\ \A to \in Cluster : IsSmallest(to) /\ Donors(to) = {} => n % 2 = 1
<1>1. clusters \in [Customers -> Cluster] /\ sizes = Counted(clusters)
  BY DEF IndInv, Typed, SizesCountClusters, Counted
<1>2. Cardinality(OddClusters) % 2 = n % 2
  BY <1>1, OddOnes DEF IndInv, OddClusters
<1>3. n \in Nat
  BY Numbers DEF IndInv
<1>4. ASSUME OddClusters = {} PROVE n % 2 = 0
  <2>1. Cardinality(OddClusters) = 0
    BY <1>4, FS_EmptySet
  <2>. QED  BY <2>1, <1>2, <1>3
<1>5. ASSUME NEW to \in Cluster, IsSmallest(to), Donors(to) = {} PROVE n % 2 = 1
  <2>1. OddClusters = {to}
    BY <1>5 DEF IsSmallest, Donors
  <2>2. Cardinality(OddClusters) = 1
    BY <2>1, FS_Singleton
  <2>. QED  BY <2>2, <1>2, <1>3
<1>. QED  BY <1>4, <1>5

(* In pair_random_nodes two nodes at a time are taken off the list.        *)
LEMMA TwoLess ==
  ASSUME IndInv, PairAtRandom
  PROVE  /\ IsFiniteSet(Unpaired) /\ Cardinality(Unpaired) \in Nat /\ Cardinality(Unpaired') \in Nat
         /\ Cardinality(Unpaired) = Cardinality(Unpaired') + 2
<1>1. /\ UNCHANGED <<n, dist, clusters>>
      /\ \E p, d \in Unpaired :
           p # d /\ Paired(p, d) /\ (dist = "Cluster" => clusters[p] = clusters[d])
  BY Partners
<1>2. PICK p \in Unpaired, d \in Unpaired :
        p # d /\ Paired(p, d) /\ (dist = "Cluster" => clusters[p] = clusters[d])
  BY <1>1
<1>3. /\ pair'[p] = d /\ pair'[d] = p
      /\ \A i \in Customers \ {p, d} : pair'[i] = pair[i]
  BY <1>1, <1>2, NewCouple DEF IndInv
<1>4. Customers' = Customers /\ NO_NODE \notin Customers /\ IsFiniteSet(Customers)
      /\ Unpaired \subseteq Customers
  BY <1>1, Numbers DEF IndInv, Customers, Unpaired
<1>5. Unpaired' = (Unpaired \ {p}) \ {d}
  BY <1>2, <1>3, <1>4 DEF Unpaired
<1>6. IsFiniteSet(Unpaired) /\ Cardinality(Unpaired) \in Nat
  BY <1>4, FS_Subset, FS_CardinalityType
<1>7. IsFiniteSet(Unpaired \ {p}) /\ Cardinality(Unpaired \ {p}) = Cardinality(Unpaired) - 1
  BY <1>2, <1>6, FS_RemoveElement
<1>8. IsFiniteSet(Unpaired') /\ Cardinality(Unpaired') = Cardinality(Unpaired \ {p}) - 1
  <2>1. d \in Unpaired \ {p}
    BY <1>2
  <2>. QED  BY <2>1, <1>5, <1>7, FS_RemoveElement
<1>9. Cardinality(Unpaired') \in Nat
  BY <1>8, FS_CardinalityType
<1>. QED  BY <1>6, <1>7, <1>8, <1>9

(* Every step keeps it.                                                    *)
LEMMA ParityNext == IndInv /\ Parity /\ [Next]_vars => Parity'
<1>. SUFFICES ASSUME IndInv, Parity, [Next]_vars PROVE Parity'
  OBVIOUS
<1>1. UNCHANGED <<n, dist, k>>
  BY DEF Next, vars, input, Start, KMeansRound, RepairParity, RepairFails, AllEven, PairInCluster,
         NextCluster, PairAtRandom, NobodyLeft, EverybodyPaired, DrawDemands
<1>2. n \in Nat /\ Customers' = Customers /\ (Seedless' <=> Seedless)
  BY <1>1, Numbers DEF IndInv, Customers, Seedless
<1>3. ASSUME pair' = pair PROVE Unpaired' = Unpaired
  BY <1>2, <1>3 DEF Unpaired
<1>4. CASE Start
  <2>1. pair' = pair /\ pc = "start"
    BY <1>4 DEF Start
  <2>2. Unpaired = Customers
    BY <2>1 DEF IndInv, Progress, Unpaired
  <2>3. Cardinality(Unpaired') = n
    BY <2>1, <2>2, <1>3, Numbers DEF IndInv
  <2>4. pc' \in {"random", "kmeans"} \/ (pc' = "fault" /\ dist = "Cluster" /\ Seedless)
    BY <1>4 DEF Start, IndInv, Typed
  <2>. QED  BY <2>3, <2>4, <1>1, <1>2 DEF Parity
<1>5. CASE KMeansRound \/ RepairParity
  <2>1. pc' \in {"kmeans", "parity"}
    BY <1>5 DEF KMeansRound, RepairParity
  <2>. QED  BY <2>1 DEF Parity
<1>6. CASE RepairFails \/ AllEven
  <2>1. pc = "parity" /\ \/ pc' = "pair" /\ OddClusters = {}
                         \/ pc' = "fault" /\ \E to \in Cluster : IsSmallest(to) /\ Donors(to) = {}
    BY <1>6 DEF RepairFails, AllEven
  <2>. QED  BY <2>1, <1>1, RepairParityFacts DEF Parity
<1>7. CASE PairInCluster \/ NextCluster
  <2>1. pc = "pair" /\ pc' \in {"pair", "demand"}
    BY <1>7 DEF PairInCluster, NextCluster
  <2>. QED  BY <2>1, <1>1 DEF Parity
<1>8. CASE PairAtRandom
  <2>1. pc = "random" /\ pc' = "random"
    BY <1>8 DEF PairAtRandom
  <2>2. Cardinality(Unpaired) \in Nat /\ Cardinality(Unpaired') \in Nat
        /\ Cardinality(Unpaired) = Cardinality(Unpaired') + 2
    BY <1>8, TwoLess
  <2>3. Cardinality(Unpaired') % 2 = Cardinality(Unpaired) % 2
    BY <2>2
  <2>. QED  BY <2>1, <2>3, <1>1 DEF Parity
<1>9. CASE NobodyLeft
  <2>1. pc = "random" /\ pc' = "fault"
    BY <1>9 DEF NobodyLeft
  <2>2. PICK p \in Customers : IsFirst(p) /\ Others(p) = {}
    BY <1>9 DEF NobodyLeft
  <2>3. Unpaired = {p}
    BY <2>2 DEF IsFirst, Others
  <2>4. Cardinality(Unpaired) = 1
    BY <2>3, FS_Singleton
  <2>. QED  BY <2>1, <2>4, <1>1, <1>2 DEF Parity
<1>10. CASE EverybodyPaired
  <2>1. pc = "random" /\ pc' = "demand" /\ Cardinality(Unpaired) = 0
    BY <1>10, FS_EmptySet DEF EverybodyPaired
  <2>. QED  BY <2>1, <1>1, <1>2 DEF Parity
<1>11. CASE DrawDemands
  BY <1>11, <1>1 DEF DrawDemands, Parity
<1>12. CASE UNCHANGED vars
  <2>1. pc' = pc /\ pair' = pair
    BY <1>12 DEF vars
  <2>. QED  BY <2>1, <1>1, <1>2, <1>3 DEF Parity
<1>. QED  BY <1>4, <1>5, <1>6, <1>7, <1>8, <1>9, <1>10, <1>11, <1>12 DEF Next

(* A move of the repair: the giving and the receiving cluster are odd and  *)
(* become even, the other counts stay.                                     *)
LEMMA RepairStep ==
  ASSUME IndInv, RepairParity
  PROVE  \E c, d \in OddClusters : c # d /\ OddClusters' = OddClusters \ {c, d}
<1>1. PICK to \in Cluster : IsSmallest(to) /\ \E from \in Donors(to) : \E i \in Customers :
        clusters[i] = from /\ Moved(i, from, to)
  BY DEF RepairParity
<1>2. PICK from \in Donors(to), i \in Customers : clusters[i] = from /\ Moved(i, from, to)
  BY <1>1
<1>3. to \in OddClusters /\ from \in OddClusters /\ from # to
  BY <1>1, <1>2 DEF IsSmallest, Donors
<1>4. Cluster' = Cluster /\ OddClusters \subseteq Cluster
  BY DEF RepairParity, input, Cluster, OddClusters
<1>5. n \in Nat /\ sizes \in [Cluster -> 0 .. n]
  BY Numbers DEF IndInv, Typed
<1>6. \A c \in Cluster : /\ sizes[c] \in Nat
                         /\ sizes'[c] = IF c = to THEN sizes[c] + 1
                                        ELSE IF c = from THEN sizes[c] - 1 ELSE sizes[c]
  BY <1>2, <1>3, <1>5 DEF Moved
<1>7. \A c \in Cluster : sizes'[c] % 2 = 1 <=> c # to /\ c # from /\ sizes[c] % 2 = 1
  <2>. TAKE c \in Cluster
  <2>1. CASE c = to \/ c = from
    <3>1. sizes[c] % 2 = 1 /\ sizes[c] \in Nat
      BY <2>1, <1>3, <1>6 DEF OddClusters
    <3>2. sizes'[c] = sizes[c] + 1 \/ sizes'[c] = sizes[c] - 1
      BY <2>1, <1>6
    <3>. QED  BY <2>1, <3>1, <3>2
  <2>2. CASE c # to /\ c # from
    BY <2>2, <1>6
  <2>. QED  BY <2>1, <2>2
<1>8. OddClusters' = OddClusters \ {to, from}
  BY <1>4, <1>7 DEF OddClusters
<1>. QED  BY <1>3, <1>8

-----------------------------------------------------------------------------
(* Couples, counts and progress are, at every step, as described above.    *)
THEOREM Invariance == Spec => []IndInv
BY InitInv, NextInv, PTL DEF Spec

(* Clusters, counts and partners stay in range, and the sizes by which the *)
(* repair decides are those of the clusters, for any number of nodes and   *)
(* clusters.                                                               *)
THEOREM TypeCorrect == Spec => []TypeOK
<1>1. IndInv => TypeOK
  BY DEF IndInv, TypeOK
<1>. QED  BY <1>1, Invariance, PTL

(* order_nodes is handed couples of a pickup and a delivery, everyone in   *)
(* one of them.                                                            *)
THEOREM CouplesCorrect == Spec => []ReadyToOrder
<1>1. IndInv => ReadyToOrder
  BY DEF IndInv
<1>. QED  BY <1>1, Invariance, PTL

(* No request of a clustered instance lies in two clusters.                *)
THEOREM WithinCorrect == Spec => []PairsWithinClusters
<1>1. IndInv => PairsWithinClusters
  BY DEF IndInv, Coupled, CoupledAt, PairsWithinClusters
<1>. QED  BY <1>1, Invariance, PTL

(* Undefined behaviour is met only with an odd number of nodes or without  *)
(* seeds, and with an odd number it is not escaped ("assuming |nodes|-1 is *)
(* even", line 244), for any number of nodes and clusters.                 *)
THEOREM FaultCorrect == Spec => []FaultOnlyOnBadInput
<1>1. Init => Parity
  BY DEF Init, Parity
<1>2. Parity => FaultOnlyOnBadInput
  BY DEF Parity, FaultOnlyOnBadInput
<1>. QED  BY <1>1, <1>2, ParityNext, Invariance, PTL DEF Spec

(* Every move of the repair makes two clusters even and none odd ("at      *)
(* least one (actually two!)", line 309), however many nodes and clusters  *)
(* there are: it makes at most half as many moves as clusters are odd.     *)
THEOREM RepairCorrect == Spec => TwoBecomeEven
<1>1. IndInv /\ [Next]_vars =>
        [clusters' # clusters /\ pc = "parity" =>
           \E c, d \in OddClusters : c # d /\ OddClusters' = OddClusters \ {c, d}]_vars
  <2>. SUFFICES ASSUME IndInv, Next, clusters' # clusters, pc = "parity"
                PROVE  \E c, d \in OddClusters : c # d /\ OddClusters' = OddClusters \ {c, d}
    OBVIOUS
  <2>1. RepairParity
    BY DEF Next, Start, KMeansRound, RepairFails, AllEven, PairInCluster, NextCluster,
           PairAtRandom, NobodyLeft, EverybodyPaired, DrawDemands
  <2>. QED  BY <2>1, RepairStep
<1>. QED  BY <1>1, Invariance, PTL DEF Spec, TwoBecomeEven

(***************************************************************************)
(* Both ways of pairing implement Matching: couples are formed one by one  *)
(* of nodes that are in none, and never dissolved.                         *)
(***************************************************************************)
THEOREM Refinement == Spec => ImplementsMatching
BY AbstractInit, AbstractNext, Invariance, PTL DEF Spec, ImplementsMatching, Abstract!Spec
=============================================================================

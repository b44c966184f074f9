------------------------------ MODULE Pairing -------------------------------
(***************************************************************************)
(* How PDPTW::build (src/src/pdptw_builder.cpp) turns bare locations into  *)
(* requests: pair_random_nodes, or clusterize (k-means, a repair that      *)
(* leaves every cluster with an even number of nodes, pairs within the     *)
(* clusters), and then demand_random_nodes.                                *)
(*                                                                         *)
(* Geography is abstract: a round of k-means may assign the nodes in any   *)
(* way, "closest" may be any candidate; counts, parities and the order of  *)
(* the steps are those of the code.  Or the nodes are on a meridian, where *)
(* a distance is a difference of latitudes, and k-means runs on them.      *)
(***************************************************************************)
EXTENDS Integers, FiniteSets, FiniteSetsExt

CONSTANTS
  MaxNodes,     \* bound: at most so many nodes besides the depot
  MaxClusters,  \* bound: at most so many clusters
  MaxPlaced,    \* bound: at most so many nodes on a meridian
  Latitudes,    \* where they are, in units that keep averages whole
  Loads,        \* demands a pickup may draw
  WrongLoads    \* and what comes of bounds that are the wrong way round

ASSUME BoundsAssumption == MaxNodes \in Nat /\ MaxClusters \in Nat
ASSUME LoadsAssumption  == Loads \subseteq Nat \ {0} /\ WrongLoads \subseteq Int
ASSUME PlacesAssumption ==
  /\ MaxPlaced \in Nat
  /\ \A l \in Latitudes : l \in Int /\ \A m \in 1 .. MaxPlaced : l % m = 0

NO_NODE == -1

VARIABLES
  pc,        \* "start", "random", "kmeans", "parity", "pair", "demand", "done", "fault"
  n,         \* nodes.size() - 1: any parity, SIZE is not checked
  dist,      \* con.dist_type; what is not Cluster is paired at random
  k,         \* con.nclusters
  place,     \* the latitudes of the nodes; << >> if geography is left open
  low,       \* whether 0.6 * con.capacity is below 10
  means,     \* the centers of the clusters
  clusters,  \* the cluster of every node
  sizes,     \* the number of nodes of every cluster
  cur,       \* the cluster whose nodes are being paired
  pair, type, demand

input == <<n, dist, k, place>>
vars  == <<pc, input, low, means, clusters, sizes, cur, pair, type, demand>>

Customers == 1 .. n
Cluster   == 0 .. k - 1
OnMeridian == place # << >>

Init ==
  /\ pc = "start"
  /\ n \in 0 .. MaxNodes
  /\ dist \in {"Cluster", "Random"}
  /\ k \in 0 .. MaxClusters
  /\ \/ place = << >>
     \/ n \in 1 .. MaxPlaced /\ dist = "Cluster" /\ place \in [Customers -> Latitudes]
  /\ low = FALSE
  /\ means = [c \in Cluster |-> IF OnMeridian /\ c + 1 <= n THEN place[c + 1] ELSE 0]
  /\ clusters = [i \in Customers |-> IF i <= k THEN i - 1 ELSE k + 1]
  /\ sizes = [c \in Cluster |-> 0]
  /\ cur = 0
  /\ pair = [i \in Customers |-> NO_NODE]
  /\ type = [i \in Customers |-> "Pickup"]
  /\ demand = [i \in Customers |-> 0]

-----------------------------------------------------------------------------
(* The seeds of the clusters are the first k nodes; clusterize reads past  *)
(* the end if there are fewer, and past the means if there is no cluster.  *)
Seedless == k > n \/ (k = 0 /\ n > 0)

Start ==
  /\ pc = "start"
  /\ pc' = IF dist = "Random" THEN "random" ELSE IF Seedless THEN "fault" ELSE "kmeans"
  /\ UNCHANGED <<input, low, means, clusters, sizes, cur, pair, type, demand>>

(* One round of k-means; the sizes are counted afresh in every round.      *)
Counted_Slip(a) == [c \in Cluster |-> sizes[c] + Cardinality({i \in Customers : a[i] = c})]
Counted(a) == [c \in Cluster |-> Cardinality({i \in Customers : a[i] = c})]

(* The first of the nearest means, and the new ones: an empty cluster gets *)
(* latitude 0.                                                             *)
Off(c, i) == IF means[c] < place[i] THEN place[i] - means[c] ELSE means[c] - place[i]
Nearest(i) ==
  CHOOSE c \in Cluster : \A d \in Cluster : Off(c, i) < Off(d, i) \/ (Off(c, i) = Off(d, i) /\ c <= d)

Averages(a) ==
  [c \in Cluster |->
     LET members == {i \in Customers : a[i] = c} IN
     IF members = {} THEN 0
     ELSE MapThenSumSet(LAMBDA i : place[i], members) \div Cardinality(members)]

Assignments ==
  LET nearest == [i \in Customers |-> Nearest(i)] IN
  {a \in [Customers -> Cluster] : OnMeridian => a = nearest}

KMeansRound ==
  /\ pc = "kmeans"
  /\ \E a \in Assignments :
        /\ clusters' = a
        /\ sizes' = Counted(a)
        /\ means' = IF OnMeridian THEN Averages(a) ELSE means
        /\ pc' = IF a = clusters THEN "parity" ELSE "kmeans"
  /\ UNCHANGED <<input, low, cur, pair, type, demand>>

-----------------------------------------------------------------------------
(* The repair: the smallest odd cluster takes a node from another odd one. *)
OddClusters_Slip == {c \in Cluster : sizes[c] % 2 = 1 /\ sizes[c] > 1}
OddClusters == {c \in Cluster : sizes[c] % 2 = 1}

IsSmallest(c) ==
  /\ c \in OddClusters
  /\ \A d \in OddClusters : sizes[c] < sizes[d] \/ (sizes[c] = sizes[d] /\ c <= d)

Donors_Slip(c) == {d \in Cluster \ {c} : sizes[d] > 0}
Donors(c) == OddClusters \ {c}

Moved_Slip(i, from, to) ==
  /\ sizes' = [sizes EXCEPT ![from] = @ - 1, ![to] = @ + 1]
  /\ clusters' = clusters
Moved(i, from, to) ==
  /\ sizes' = [sizes EXCEPT ![from] = @ - 1, ![to] = @ + 1]
  /\ clusters' = [clusters EXCEPT ![i] = to]

RepairParity ==
  /\ pc = "parity"
  /\ \E to \in Cluster :
        /\ IsSmallest(to)
        /\ \E from \in Donors(to) : \E i \in Customers :
              clusters[i] = from /\ Moved(i, from, to)
  /\ UNCHANGED <<pc, input, low, means, cur, pair, type, demand>>

(* Only one odd cluster: sizes[k+1] is decremented, past the end.          *)
RepairFails ==
  /\ pc = "parity"
  /\ \E to \in Cluster : IsSmallest(to) /\ Donors(to) = {}
  /\ pc' = "fault"
  /\ UNCHANGED <<input, low, means, clusters, sizes, cur, pair, type, demand>>

AllEven ==
  /\ pc = "parity"
  /\ OddClusters = {}
  /\ pc' = "pair"
  /\ UNCHANGED <<input, low, means, clusters, sizes, cur, pair, type, demand>>

-----------------------------------------------------------------------------
Unpaired == {i \in Customers : pair[i] = NO_NODE}

Paired_Slip(p, d) ==
  /\ pair' = [pair EXCEPT ![p] = d, ![d] = p]
  /\ type' = [type EXCEPT ![p] = "Pickup"]
Paired(p, d) ==
  /\ pair' = [pair EXCEPT ![p] = d, ![d] = p]
  /\ type' = [type EXCEPT ![p] = "Pickup", ![d] = "Delivery"]

(* Two consecutive members of the shuffled cluster become a request.       *)
InCluster_Slip(c) == {i \in Unpaired : sizes[clusters[i]] = sizes[c]}
InCluster(c) == {i \in Unpaired : clusters[i] = c}

PairInCluster ==
  /\ pc = "pair" /\ cur < k
  /\ \E p, d \in InCluster(cur) : p # d /\ Paired(p, d)
  /\ UNCHANGED <<pc, input, low, means, clusters, sizes, cur, demand>>

NextCluster ==
  /\ pc = "pair"
  /\ \/ cur = k /\ pc' = "demand" /\ cur' = cur
     \/ cur < k /\ InCluster(cur) = {} /\ pc' = pc /\ cur' = cur + 1
  /\ UNCHANGED <<input, low, means, clusters, sizes, pair, type, demand>>

(* pair_random_nodes: the first of the list, and any other of the list.    *)
IsFirst(p) == p \in Unpaired /\ \A i \in Unpaired : p <= i

Others_Slip(p) == Unpaired
Others(p) == Unpaired \ {p}

PairAtRandom ==
  /\ pc = "random"
  /\ \E p \in Customers : IsFirst(p) /\ \E d \in Others(p) : Paired(p, d)
  /\ UNCHANGED <<pc, input, low, means, clusters, sizes, cur, demand>>

(* One node is left over: rng() % 0.                                       *)
NobodyLeft ==
  /\ pc = "random"
  /\ \E p \in Customers : IsFirst(p) /\ Others(p) = {}
  /\ pc' = "fault"
  /\ UNCHANGED <<input, low, means, clusters, sizes, cur, pair, type, demand>>

EverybodyPaired ==
  /\ pc = "random"
  /\ Unpaired = {}
  /\ pc' = "demand"
  /\ UNCHANGED <<input, low, means, clusters, sizes, cur, pair, type, demand>>

(* demand_random_nodes: a delivery brings what its pickup took.  A demand  *)
(* is drawn from 10 to 0.6 * con.capacity, which may be less than 10.      *)
DrawDemands ==
  /\ pc = "demand"
  /\ low' \in BOOLEAN
  /\ \E q \in [{i \in Customers : type[i] = "Pickup"} -> IF low' THEN WrongLoads ELSE Loads] :
        demand' = [i \in Customers |-> IF type[i] = "Pickup" THEN q[i] ELSE -q[pair[i]]]
  /\ pc' = "done"
  /\ UNCHANGED <<input, means, clusters, sizes, cur, pair, type>>

Next ==
  \/ Start \/ KMeansRound
  \/ RepairParity \/ RepairFails \/ AllEven
  \/ PairInCluster \/ NextCluster
  \/ PairAtRandom \/ NobodyLeft \/ EverybodyPaired
  \/ DrawDemands

Spec == Init /\ [][Next]_vars /\ WF_vars(Next)

-----------------------------------------------------------------------------
(* Every node is in one of the clusters once k-means ran, every count and  *)
(* every partner is in range.                                              *)
Typed ==
  /\ pc \in {"start", "random", "kmeans", "parity", "pair", "demand", "done", "fault"}
  /\ n \in 0 .. MaxNodes /\ k \in 0 .. MaxClusters /\ dist \in {"Cluster", "Random"}
  /\ clusters \in [Customers -> Cluster \cup {k + 1}]
  /\ pc \in {"parity", "pair"} => clusters \in [Customers -> Cluster]
  /\ sizes \in [Cluster -> 0 .. n]
  /\ cur \in 0 .. k
  /\ pair \in [Customers -> Customers \cup {NO_NODE}]
  /\ type \in [Customers -> {"Pickup", "Delivery"}]
  /\ demand \in [Customers -> Int]

(***************************************************************************)
(* The repair decides by `sizes' and moves nodes in `clusters' (lines      *)
(* 337-339): the counts stay those of the assignment through k-means and   *)
(* every move.                                                             *)
(***************************************************************************)
SizesCountClusters ==
  pc \in {"parity", "pair"} => sizes = [c \in Cluster |-> Cardinality({i \in Customers : clusters[i] = c})]

(* So all that the later steps read is in range, and what it says it is.   *)
TypeOK == Typed /\ SizesCountClusters

(***************************************************************************)
(* What is handed to order_nodes: everyone is paired, with someone else,   *)
(* who is paired with him; one end picks up what the other delivers, and   *)
(* the types agree with the signs, if CAPACITY leaves room for a demand.   *)
(* It is the input OrderNodes starts from.                                 *)
(***************************************************************************)
ReadyToOrder ==
  pc = "done" =>
    \A i \in Customers :
       /\ pair[i] \in Customers \ {i}
       /\ pair[pair[i]] = i
       /\ demand[pair[i]] = -demand[i]
       /\ ~low => ((type[i] = "Pickup") <=> (demand[i] > 0))

(***************************************************************************)
(* A request of a clustered instance lies in one cluster ("Setting pairs   *)
(* within clusters", line 347), whatever the repair moved.                 *)
(***************************************************************************)
PairsWithinClusters ==
  dist = "Cluster" =>
    \A i \in Customers : pair[i] # NO_NODE => clusters[pair[i]] = clusters[i]

(***************************************************************************)
(* "assuming |nodes|-1 is even" (line 244): undefined behaviour is met     *)
(* only with an odd number of nodes or with a cluster count that has no    *)
(* seeds; with an odd number it cannot be escaped.  With no node at all    *)
(* (SIZE 1) there is nothing to go wrong before order_nodes, which then    *)
(* reads past its vectors (lines 432-434; IndexOutside of OrderNodes).     *)
(***************************************************************************)
FaultOnlyOnBadInput ==
  /\ pc = "fault" => n % 2 = 1 \/ (dist = "Cluster" /\ Seedless)
  /\ pc = "done" => n % 2 = 0

(***************************************************************************)
(* "at least one (actually two!)" (line 309): the clusters that every move *)
(* of the repair makes even are two, and no other one becomes odd, which   *)
(* is why the repair ends.                                                 *)
(***************************************************************************)
TwoBecomeEven ==
  [][clusters' # clusters /\ pc = "parity" =>
       \E c, d \in OddClusters : c # d /\ OddClusters' = OddClusters \ {c, d}]_vars

(* Couples are formed one at a time, and for good.                         *)
Couples == {{i, pair[i]} : i \in Customers \ Unpaired}

Abstract == INSTANCE Matching WITH Everyone <- 1 .. MaxNodes, couples <- Couples

(* Both ways of pairing form couples one after the other (lines 239-386).  *)
ImplementsMatching == Abstract!Spec

(***************************************************************************)
(* The loops end: k-means on a meridian, where no round makes the clusters *)
(* worse, also if one is emptied; once it is over, the repair, which makes *)
(* two clusters even at a time ("at least one (actually two!)", line 309). *)
(* One thread runs the program: Next is fair.                              *)
(***************************************************************************)
PairingEnds ==
  pc \in {"parity", "random"} \/ (pc = "kmeans" /\ OnMeridian) ~> pc \in {"done", "fault"}
=============================================================================

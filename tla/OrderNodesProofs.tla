-------------------------- MODULE OrderNodesProofs --------------------------
(***************************************************************************)
(* order_nodes is correct for every number of requests, every pairing,     *)
(* every choice of demands, also of both ends of a request independently,  *)
(* and every travel-time matrix.                                           *)
(*                                                                         *)
(* The inductive invariant has two parts.  While requests are placed,      *)
(* moves is the inverse of the numbers given so far, so that after the     *)
(* loop it is a permutation (a counting argument).  While cycles are       *)
(* chased, line x of the matrix is that of the node that belongs there as  *)
(* soon as this node has been carried.                                     *)
(***************************************************************************)
EXTENDS OrderNodes, FiniteSetTheorems, TLAPS

USE RequestsAssumption DEF N, Node, Customers, NO_MOVE, Home, Mate, PickedUp

IndInv ==
  /\ TypeOK
  /\ PlaceInv
  /\ ChaseInv
  /\ FaultIffNoPickup
  /\ MatrixFollowsNodes

-----------------------------------------------------------------------------
(* There are N - 1 customers.                                              *)
LEMMA CustomersCounted ==
  IsFiniteSet(Customers) /\ Cardinality(Customers) = N - 1
<1>1. IsFiniteSet(1 .. 2 * Requests) /\ Cardinality(1 .. 2 * Requests) = 2 * Requests
  <2>. DEFINE n == 2 * Requests
  <2>1. n \in Nat /\ 1 \in Int
    OBVIOUS
  <2>. HIDE DEF n
  <2>2. IsFiniteSet(1 .. n) /\ Cardinality(1 .. n) = IF 1 > n THEN 0 ELSE n - 1 + 1
    BY <2>1, FS_Interval
  <2>3. IsFiniteSet(1 .. n) /\ Cardinality(1 .. n) = n
    BY <2>1, <2>2
  <2>. QED  BY <2>3 DEF n
<1>2. N - 1 = 2 * Requests
  OBVIOUS
<1>. QED  BY <1>1, <1>2

(* The customers that have a move can be counted.                          *)
LEMMA MovedFinite == IsFiniteSet(Moved) /\ Cardinality(Moved) \in Nat
<1>1. Moved \in SUBSET Customers
  BY DEF Moved
<1>. QED  BY <1>1, CustomersCounted, FS_Subset, FS_CardinalityType

(* Giving different customers different values in Customers uses them all. *)
LEMMA SelfInjection ==
  ASSUME NEW f \in [Customers -> Customers],
         \A x, y \in Customers : f[x] = f[y] => x = y
  PROVE  \A i \in Customers : \E x \in Customers : f[x] = i
<1>1. f \in Injection(Customers, Customers)
  BY DEF Injection, IsInjective
<1>2. f \in Surjection(Customers, Customers)
  BY <1>1, CustomersCounted, FS_Injection
<1>. QED  BY <1>2 DEF Surjection

(* The index after old_index, counted round the vector, is an index.       *)
LEMMA RoundTheVector == \A o \in Node : (o + 1) % N \in Node
OBVIOUS

LEMMA NotYetRound == ASSUME NEW m \in Nat, NEW i \in Nat, i < m PROVE i % m = i
OBVIOUS

(* The fields of a node.                                                   *)
LEMMA NodeFields ==
  ASSUME NEW v \in NodeRecord
  PROVE  v.home \in Node /\ v.demand \in Int /\ v.type \in NodeType
         /\ v.pair \in Node /\ v.id \in Node
BY DEF NodeRecord

-----------------------------------------------------------------------------
(* The input satisfies the invariant.                                      *)
LEMMA InitInv == Init => IndInv
<1>. SUFFICES ASSUME Init PROVE IndInv
  OBVIOUS
<1>1. PICK p \in {f \in [Customers -> Customers] : IsPairing(f)} :
        \E d \in [Customers -> Demands] :
        \E misread \in {{}} \cup {{i} : i \in {k \in Customers : d[k] < 0}} :
           nodes = [i \in Node |-> IF i = 0 THEN DepotNode ELSE InputNode(i, p, d, misread)]
  BY DEF Init
<1>2. PICK d \in [Customers -> Demands] :
        \E misread \in SUBSET Customers :
           nodes = [i \in Node |-> IF i = 0 THEN DepotNode ELSE InputNode(i, p, d, misread)]
  <2>1. PICK d \in [Customers -> Demands] :
          \E misread \in {{}} \cup {{i} : i \in {k \in Customers : d[k] < 0}} :
             nodes = [i \in Node |-> IF i = 0 THEN DepotNode ELSE InputNode(i, p, d, misread)]
    BY <1>1
  <2>2. {{}} \cup {{i} : i \in {k \in Customers : d[k] < 0}} \subseteq SUBSET Customers
    OBVIOUS
  <2>. QED  BY <2>1, <2>2
<1>3. PICK misread \in SUBSET Customers :
        nodes = [i \in Node |-> IF i = 0 THEN DepotNode ELSE InputNode(i, p, d, misread)]
  BY <1>2
<1>4. \A i \in Customers : d[i] \in Int
  <2>1. Demands \subseteq Int
    <3>1. \A l \in Loads : l \in Int /\ -l \in Int
      BY LoadsAssumption
    <3>. QED  BY <3>1, Zenon DEF Demands
  <2>. QED  BY <2>1
<1>5. \A i \in Customers : p[i] \in Customers /\ p[i] # i /\ p[p[i]] = i
  BY DEF IsPairing
<1>6. nodes \in [Node -> NodeRecord]
  <2>1. DepotNode \in NodeRecord
    BY DEF DepotNode, NodeRecord, NodeType
  <2>2. \A i \in Customers : InputNode(i, p, d, misread) \in NodeRecord
    BY <1>4, <1>5 DEF InputNode, SignType, NodeRecord, NodeType
  <2>. QED  BY <1>3, <2>1, <2>2
<1>7. /\ pc = "retype" /\ ntemp = nodes /\ matrix = Routed /\ idx = 1 /\ jt = 1
      /\ moves = [i \in Node |-> NO_MOVE] /\ old = 0 /\ new = NO_MOVE /\ orders = 0
      /\ row = [i \in Node |-> 0] /\ col = [i \in Node |-> 0]
      /\ nto = [i \in Node |-> 0] /\ otn = [i \in Node |-> 0]
  BY DEF Init
<1>8. TypeOK
  <2>1. /\ pc \in {"retype", "place", "start", "chase", "finish", "done", "fault"}
        /\ nodes \in [Node -> NodeRecord] /\ ntemp \in [Node -> NodeRecord]
        /\ matrix \in [Node -> [Node -> Nat]]
    BY <1>6, <1>7, RoutedAssumption
  <2>2. /\ idx \in 1 .. Requests + 1 /\ jt \in 1 .. N
        /\ moves \in [Node -> Customers \cup {NO_MOVE}]
    BY <1>7
  <2>3. old \in Node /\ new \in Customers \cup {NO_MOVE} /\ orders \in 0 .. N - 1
    BY <1>7
  <2>4. /\ row \in [Node -> Nat] /\ col \in [Node -> Nat]
        /\ nto \in [Node -> Nat] /\ otn \in [Node -> Nat]
    BY <1>7
  <2>. QED  BY <2>1, <2>2, <2>3, <2>4 DEF TypeOK
<1>9. InputKept
  <2>1. ntemp[0] = DepotNode
    BY <1>3, <1>7
  <2>2. ASSUME NEW i \in Customers
        PROVE  /\ ntemp[i].home = i /\ ntemp[i].pair = p[i]
               /\ ntemp[i].demand = d[i]
    BY <1>3, <1>7 DEF InputNode
  <2>3. ASSUME NEW i \in Customers
        PROVE  /\ ntemp[i].pair \in Customers /\ ntemp[i].pair # i
               /\ ntemp[ntemp[i].pair].pair = i
    <3>1. p[i] \in Customers /\ p[i] # i /\ p[p[i]] = i
      BY <1>5
    <3>2. ntemp[i].pair = p[i]
      BY <2>2
    <3>3. ntemp[p[i]].pair = p[p[i]]
      BY <2>2, <3>1
    <3>. QED  BY <3>1, <3>2, <3>3
  <2>. QED  BY <2>1, <2>2, <2>3, <1>7 DEF InputKept
<1>10. Given = {} /\ Numbered = {}
  <2>1. Given = {}
    BY <1>7 DEF Given
  <2>. QED  BY <2>1 DEF Numbered
<1>11. RequestsPlaced
  <2>1. nodes[0] = DepotNode
    BY <1>3
  <2>. QED  BY <2>1, <1>10 DEF RequestsPlaced
<1>12. MovesRecorded /\ MovesCounted
  <2>1. \A i \in Customers : ntemp[i].pair \in Customers
    BY <1>9 DEF InputKept
  <2>2. \A i \in Customers : ~PassedBy(i)
    <3>. TAKE i \in Customers
    <3>1. ~(i < jt) /\ ~(ntemp[i].pair < jt)
      BY <2>1, <1>7
    <3>. QED  BY <3>1 DEF PassedBy
  <2>3. \A i \in Node : moves[i] = NO_MOVE
    BY <1>7
  <2>4. Moved = {} /\ Cardinality(Moved) = 0
    <3>1. Moved = {}
      BY <2>3 DEF Moved
    <3>. QED  BY <3>1, FS_EmptySet
  <2>5. ~ Twice
    BY <1>7 DEF Twice
  <2>. QED  BY <2>2, <2>3, <2>4, <2>5, <1>7, <1>10 DEF MovesRecorded, MovesCounted
<1>13. PlaceInv
  BY <1>7, <1>9, <1>11, <1>12 DEF PlaceInv
<1>. QED
  BY <1>7, <1>8, <1>13 DEF IndInv, ChaseInv, FaultIffNoPickup, MatrixFollowsNodes

-----------------------------------------------------------------------------
(* Retyping the nodes touches neither the pairs nor the matrix.            *)
LEMMA RetypeInv == IndInv /\ Retype => IndInv'
<1>. SUFFICES ASSUME IndInv, Retype PROVE IndInv'
  OBVIOUS
<1>1. /\ pc = "retype" /\ nodes = ntemp /\ idx = 1 /\ jt = 1 /\ InputKept /\ matrix = Routed
      /\ MovesCounted
  BY DEF IndInv, PlaceInv, Retype
<1>2. /\ ntemp' = nodes' /\ nodes' = Retyped(nodes)
      /\ pc' \in {"place", "start"}
      /\ pc' = "place" => idx <= Requests
      /\ pc' = "start" => Requests = 0
      /\ UNCHANGED <<idx, jt, moves, matrix, old, new, row, col, nto, otn, orders>>
  BY <1>1 DEF Retype, chasing
<1>3. nodes \in [Node -> NodeRecord]
  BY DEF IndInv, TypeOK
<1>4. nodes'[0] = nodes[0]
  BY <1>2 DEF Retyped
<1>5. \A i \in Customers : nodes'[i] = [nodes[i] EXCEPT !.type = SignType(nodes[i].demand)]
  BY <1>2 DEF Retyped
<1>6. \A i \in Customers :
        /\ nodes'[i].home = nodes[i].home /\ nodes'[i].demand = nodes[i].demand
        /\ nodes'[i].pair = nodes[i].pair /\ nodes'[i].type = SignType(nodes[i].demand)
        /\ nodes'[i] \in NodeRecord
  <2>. TAKE i \in Customers
  <2>1. nodes[i] \in NodeRecord /\ SignType(nodes[i].demand) \in NodeType
    BY <1>3 DEF SignType, NodeType
  <2>2. nodes'[i] = [nodes[i] EXCEPT !.type = SignType(nodes[i].demand)]
    BY <1>5
  <2>. DEFINE v == nodes[i]  t == SignType(nodes[i].demand)  w == nodes'[i]
  <2>3. v \in NodeRecord /\ t \in NodeType /\ w = [v EXCEPT !.type = t]
    BY <2>1, <2>2
  <2>. HIDE DEF v, t, w
  <2>4. /\ w \in NodeRecord /\ w.type = t
        /\ w.home = v.home /\ w.demand = v.demand /\ w.pair = v.pair
    BY <2>3 DEF NodeRecord
  <2>. QED  BY <2>4 DEF v, t, w
<1>7. nodes' \in [Node -> NodeRecord]
  <2>1. \A i \in Node : nodes'[i] \in NodeRecord
    BY <1>3, <1>4, <1>6
  <2>2. nodes' = [i \in Node |-> nodes'[i]]
    BY <1>2 DEF Retyped
  <2>. QED  BY <2>1, <2>2
<1>8. TypeOK'
  <2>1. /\ pc' \in {"retype", "place", "start", "chase", "finish", "done", "fault"}
        /\ nodes' \in [Node -> NodeRecord] /\ ntemp' \in [Node -> NodeRecord]
    BY <1>2, <1>7
  <2>. QED  BY <1>2, <2>1 DEF IndInv, TypeOK
<1>9. InputKept'
  <2>1. ntemp'[0] = DepotNode
    BY <1>1, <1>2, <1>4 DEF InputKept
  <2>2. ASSUME NEW i \in Customers
        PROVE  LET d == ntemp'[i].pair IN
               /\ ntemp'[i].home = i
               /\ d \in Customers /\ d # i
               /\ ntemp'[d].pair = i
               /\ ntemp'[i].type = SignType(ntemp'[i].demand)
    <3>1. ntemp[i].pair \in Customers
      BY <1>1 DEF InputKept
    <3>. QED  BY <3>1, <1>1, <1>2, <1>6 DEF InputKept
  <2>. QED  BY <2>1, <2>2 DEF InputKept, DepotNode
<1>10. Given' = {} /\ Numbered' = {}
  <2>1. Given' = {}
    BY <1>1, <1>2 DEF Given
  <2>. QED  BY <2>1 DEF Numbered
<1>11. RequestsPlaced'
  <2>1. nodes'[0] = DepotNode
    BY <1>1, <1>4 DEF InputKept
  <2>. QED  BY <2>1, <1>10 DEF RequestsPlaced
<1>12. MovesRecorded' /\ MovesCounted' /\ ~ Twice'
  <2>1. \A i \in Customers : ~ PassedBy(i) /\ ~ PassedBy(i)'
    <3>. TAKE i \in Customers
    <3>1. ~ (i < jt) /\ ~ (Mate(i) < jt) /\ ~ (i < jt') /\ ~ (Mate(i)' < jt')
      <4>1. Mate(i) \in Customers /\ Mate(i)' \in Customers
        BY <1>1, <1>9 DEF InputKept
      <4>. QED  BY <4>1, <1>1, <1>2
    <3>. QED  BY <3>1 DEF PassedBy
  <2>2. \A i \in Node : moves[i] = NO_MOVE
    BY <1>1, <2>1 DEF MovesCounted
  <2>3. Moved' = Moved
    BY <1>2 DEF Moved
  <2>4. ~ Twice'
    BY <1>1, <1>2 DEF Twice
  <2>. QED  BY <1>1, <1>2, <1>10, <2>1, <2>2, <2>3, <2>4 DEF MovesRecorded, MovesCounted
<1>14. pc' = "start" =>
         /\ idx' = Requests + 1
         /\ \A i \in Customers : \E x \in Customers : Home(x)' = i
         /\ \A x, y \in Node : Home(x)' = Home(y)' => x = y
  BY <1>1, <1>2
<1>13. PlaceInv'
  BY <1>1, <1>2, <1>9, <1>11, <1>12, <1>14 DEF PlaceInv
<1>. QED
  BY <1>2, <1>8, <1>13 DEF IndInv, ChaseInv, FaultIffNoPickup, MatrixFollowsNodes

-----------------------------------------------------------------------------
(* Placing a request: what the scan knows of the pickup p it stopped at    *)
(* and of the other end, and the numbers they get.  They have numbers      *)
(* already if the other end is a pickup that the scan has passed.          *)
LEMMA PlaceFacts ==
  ASSUME IndInv, pc = "place", NEW p \in Customers, NextPickup(p)
  PROVE  /\ p >= jt /\ PickedUp(p)
         /\ Mate(p) \in Customers /\ Mate(p) # p /\ Mate(Mate(p)) = p
         /\ moves[p] = NO_MOVE <=> moves[Mate(p)] = NO_MOVE
         /\ moves[p] # NO_MOVE <=> PickedUp(Mate(p)) /\ Mate(p) < jt
         /\ idx \in 1 .. Requests /\ idx \notin Numbered /\ idx + Requests \notin Numbered
         /\ \A i \in Customers : PickedUp(i) /\ i < p => i < jt
<1>1. InputKept /\ MovesCounted /\ idx \in 1 .. Requests /\ ntemp \in [Node -> NodeRecord]
      /\ jt \in 1 .. N
  BY DEF IndInv, PlaceInv, TypeOK
<1>2. \A i \in Customers : ntemp[i].demand \in Int /\ ntemp[i].type = SignType(ntemp[i].demand)
                           /\ Mate(i) \in Customers /\ Mate(i) # i /\ Mate(Mate(i)) = i
  <2>. TAKE i \in Customers
  <2>1. ntemp[i].demand \in Int
    BY <1>1, NodeFields
  <2>. QED  BY <1>1, <2>1 DEF InputKept
<1>3. \A i \in Customers : ntemp[i].type = "Pickup" <=> PickedUp(i)
  BY <1>2 DEF SignType
<1>4. p >= jt /\ PickedUp(p)
  BY <1>3 DEF NextPickup, PickupsFrom
<1>5. \A i \in Customers : PickedUp(i) /\ i < p => i < jt
  BY <1>1, <1>3 DEF NextPickup, PickupsFrom
<1>6. Mate(p) \in Customers /\ Mate(p) # p /\ Mate(Mate(p)) = p
  BY <1>2
<1>7. /\ PassedBy(p) <=> PickedUp(Mate(p)) /\ Mate(p) < jt
      /\ PassedBy(Mate(p)) <=> PickedUp(Mate(p)) /\ Mate(p) < jt
  BY <1>1, <1>4, <1>6 DEF PassedBy
<1>8. /\ moves[p] # NO_MOVE <=> PassedBy(p)
      /\ moves[Mate(p)] # NO_MOVE <=> PassedBy(Mate(p))
  BY <1>1, <1>6 DEF MovesCounted
<1>9. idx \notin Numbered /\ idx + Requests \notin Numbered
  BY <1>1 DEF Numbered, Given
<1>. QED  BY <1>1, <1>4, <1>5, <1>6, <1>7, <1>8, <1>9

(* One placement: the numbers given stay those of whole requests, unless   *)
(* they are given again.                                                   *)
LEMMA PlaceRequestInv == IndInv /\ PlaceRequest => IndInv'
<1>. SUFFICES ASSUME IndInv, PlaceRequest PROVE IndInv'
  OBVIOUS
<1>1. PICK p \in Customers : NextPickup(p) /\ Place(p) /\ jt' = p + 1
  BY DEF PlaceRequest
<1>0. PICK d \in Customers : d = ntemp[p].pair
  <2>1. pc = "place"
    BY DEF PlaceRequest
  <2>. QED  BY <1>1, <2>1, PlaceFacts
<1>. DEFINE pickup   == [ntemp[p] EXCEPT !.pair = idx + Requests, !.id = idx]
            delivery == [ntemp[d] EXCEPT !.pair = idx, !.id = idx + Requests]
<1>2. /\ pc = "place" /\ idx' = idx + 1
      /\ pc' = IF idx + 1 < Requests + 1 THEN "place" ELSE "start"
      /\ UNCHANGED <<ntemp, matrix, old, new, row, col, nto, otn, orders>>
  BY DEF PlaceRequest, chasing
<1>3. /\ TypeOK /\ InputKept /\ MovesCounted /\ matrix = Routed
      /\ ~ Twice => RequestsPlaced /\ MovesRecorded
  BY <1>2 DEF IndInv, PlaceInv
<1>4. /\ p >= jt /\ PickedUp(p)
      /\ d \in Customers /\ d # p /\ ntemp[d].pair = p
      /\ moves[p] = NO_MOVE <=> moves[d] = NO_MOVE
      /\ moves[p] # NO_MOVE <=> PickedUp(d) /\ d < jt
      /\ idx \in 1 .. Requests /\ idx \notin Numbered /\ idx + Requests \notin Numbered
      /\ \A i \in Customers : PickedUp(i) /\ i < p => i < jt
  BY <1>0, <1>1, <1>2, PlaceFacts
<1>5. /\ nodes \in [Node -> NodeRecord] /\ ntemp \in [Node -> NodeRecord]
      /\ moves \in [Node -> Customers \cup {NO_MOVE}] /\ jt \in 1 .. N
  BY <1>3 DEF TypeOK
<1>6. /\ nodes' = [nodes EXCEPT ![idx] = pickup, ![idx + Requests] = delivery]
      /\ moves' = [moves EXCEPT ![p] = idx, ![d] = idx + Requests]
  BY <1>0, <1>1 DEF Place
<1>7. /\ pickup \in NodeRecord /\ delivery \in NodeRecord
      /\ pickup.home = p /\ pickup.pair = idx + Requests /\ pickup.id = idx
      /\ pickup.demand = ntemp[p].demand /\ pickup.type = ntemp[p].type
      /\ delivery.home = d /\ delivery.pair = idx /\ delivery.id = idx + Requests
      /\ delivery.demand = ntemp[d].demand /\ delivery.type = ntemp[d].type
  <2>1. ntemp[p] \in NodeRecord /\ ntemp[d] \in NodeRecord
    BY <1>4, <1>5
  <2>2. ntemp[p].home = p /\ ntemp[d].home = d
    BY <1>3, <1>4 DEF InputKept
  <2>3. idx \in Node /\ idx + Requests \in Node
    BY <1>4
  <2>. DEFINE v == ntemp[p]  w == ntemp[d]
  <2>4. v \in NodeRecord /\ w \in NodeRecord /\ v.home = p /\ w.home = d
    BY <2>1, <2>2
  <2>5. pickup = [v EXCEPT !.pair = idx + Requests, !.id = idx]
        /\ delivery = [w EXCEPT !.pair = idx, !.id = idx + Requests]
    OBVIOUS
  <2>6. /\ pickup \in NodeRecord /\ delivery \in NodeRecord
        /\ pickup.home = p /\ pickup.pair = idx + Requests /\ pickup.id = idx
        /\ pickup.demand = v.demand /\ pickup.type = v.type
        /\ delivery.home = d /\ delivery.pair = idx /\ delivery.id = idx + Requests
        /\ delivery.demand = w.demand /\ delivery.type = w.type
    <3>. HIDE DEF v, w, pickup, delivery
    <3>. QED  BY <2>3, <2>4, <2>5 DEF NodeRecord
  <2>. QED  BY <2>6
<1>. HIDE DEF pickup, delivery
<1>8. /\ nodes'[idx] = pickup /\ nodes'[idx + Requests] = delivery
      /\ \A x \in Node : x # idx /\ x # idx + Requests => nodes'[x] = nodes[x]
      /\ nodes' \in [Node -> NodeRecord]
  BY <1>4, <1>5, <1>6, <1>7
<1>9. /\ moves'[p] = idx /\ moves'[d] = idx + Requests
      /\ \A i \in Node : i # p /\ i # d => moves'[i] = moves[i]
      /\ moves' \in [Node -> Customers \cup {NO_MOVE}]
  BY <1>4, <1>5, <1>6
<1>10. /\ \A k : k \in Given' <=> k \in Given \/ k = idx
       /\ \A x : x \in Numbered' <=> x \in Numbered \/ x = idx \/ x = idx + Requests
  <2>1. \A k : k \in Given' <=> k \in Given \/ k = idx
    BY <1>2, <1>4 DEF Given
  <2>2. \A x : x \in Numbered' <=> x \in Numbered \/ x = idx \/ x = idx + Requests
    BY <2>1, <1>4 DEF Numbered
  <2>. QED  BY <2>1, <2>2
<1>11. \A x \in Numbered : Home(x)' = Home(x) /\ nodes'[x] = nodes[x] /\ x \in Customers
  BY <1>4, <1>8 DEF Numbered
<1>12. \A k \in Given : k \in Numbered /\ k + Requests \in Numbered
  BY <1>4 DEF Given, Numbered
<1>13. TypeOK'
  <2>1. /\ pc' \in {"retype", "place", "start", "chase", "finish", "done", "fault"}
        /\ idx' \in 1 .. Requests + 1 /\ jt' \in 1 .. N
    BY <1>1, <1>2, <1>4
  <2>. QED  BY <2>1, <1>2, <1>3, <1>8, <1>9 DEF TypeOK
<1>14. InputKept'
  BY <1>2, <1>3 DEF InputKept
<1>16. \A i \in Customers : PassedBy(i)' <=> PassedBy(i) \/ i = p \/ i = d
  <2>. TAKE i \in Customers
  <2>. DEFINE e == ntemp[i].pair
  <2>1. /\ e \in Customers /\ ntemp[e].pair = i
        /\ ntemp[p].pair = d /\ ntemp[d].pair = p
    BY <1>0, <1>3, <1>4 DEF InputKept
  <2>2. \A k \in Customers : PickedUp(k) => (k < p + 1 <=> k < jt \/ k = p)
    BY <1>4, <1>5
  <2>3. e = p <=> i = d
    BY <2>1
  <2>. QED  BY <2>1, <2>2, <2>3, <1>1, <1>2, <1>4 DEF PassedBy
<1>17. moves'[0] = NO_MOVE /\ \A i \in Customers : moves'[i] # NO_MOVE <=> PassedBy(i)'
  <2>1. moves'[0] = NO_MOVE
    <3>1. moves[0] = NO_MOVE
      BY <1>3 DEF MovesCounted
    <3>2. 0 # p /\ 0 # d /\ 0 \in Node
      OBVIOUS
    <3>. QED  BY <3>1, <3>2, <1>5, <1>6
  <2>2. ASSUME NEW i \in Customers PROVE moves'[i] # NO_MOVE <=> PassedBy(i)'
    <3>1. CASE i = p \/ i = d
      BY <3>1, <1>4, <1>9, <1>16
    <3>2. CASE i # p /\ i # d
      BY <3>2, <1>3, <1>9, <1>16 DEF MovesCounted
    <3>. QED  BY <3>1, <3>2
  <2>. QED  BY <2>1, <2>2
<1>22. /\ Twice' => Twice \/ moves[p] # NO_MOVE
       /\ Twice \/ moves[p] # NO_MOVE => Twice'
  <2>1. ASSUME Twice' PROVE Twice \/ moves[p] # NO_MOVE
    <3>1. PICK i \in Customers : PickedUp(i) /\ PickedUp(Mate(i)) /\ i < p + 1 /\ Mate(i) < p + 1
      BY <2>1, <1>1, <1>2 DEF Twice
    <3>2. Mate(i) \in Customers /\ Mate(Mate(i)) = i /\ Mate(p) = d
      BY <1>0, <1>3 DEF InputKept
    <3>3. (i < jt \/ i = p) /\ (Mate(i) < jt \/ Mate(i) = p)
      BY <3>1, <3>2, <1>4, <1>5
    <3>4. CASE i < jt /\ Mate(i) < jt
      BY <3>1, <3>4 DEF Twice
    <3>5. CASE i = p
      BY <3>1, <3>2, <3>3, <3>5, <1>4
    <3>6. CASE Mate(i) = p
      BY <3>1, <3>2, <3>3, <3>6, <1>4
    <3>. QED  BY <3>3, <3>4, <3>5, <3>6
  <2>2. ASSUME Twice PROVE Twice'
    <3>1. PICK i \in Customers : PickedUp(i) /\ PickedUp(Mate(i)) /\ i < jt /\ Mate(i) < jt
      BY <2>2 DEF Twice
    <3>2. Mate(i) \in Customers
      BY <1>3 DEF InputKept
    <3>3. i < p + 1 /\ Mate(i) < p + 1
      BY <3>1, <3>2, <1>4, <1>5
    <3>. QED  BY <3>1, <3>3, <1>1, <1>2 DEF Twice
  <2>3. ASSUME moves[p] # NO_MOVE PROVE Twice'
    <3>1. PickedUp(d) /\ d < p + 1 /\ p < p + 1
      BY <2>3, <1>4, <1>5
    <3>. QED  BY <3>1, <1>0, <1>1, <1>2, <1>4 DEF Twice
  <2>. QED  BY <2>1, <2>2, <2>3
<1>23. MovesCounted'
  <2>1. Moved' = Moved \cup {p, d}
    BY <1>4, <1>9 DEF Moved
  <2>2. IsFiniteSet(Moved) /\ Cardinality(Moved) \in Nat
    BY MovedFinite
  <2>3. Cardinality(Moved) <= 2 * (idx - 1) /\ (Twice => Cardinality(Moved) <= 2 * (idx - 2))
    BY <1>3 DEF MovesCounted
  <2>4. CASE moves[p] # NO_MOVE
    <3>1. Moved' = Moved
      BY <2>1, <2>4, <1>4 DEF Moved
    <3>2. Cardinality(Moved') <= 2 * (idx' - 2) /\ Cardinality(Moved') <= 2 * (idx' - 1)
      BY <3>1, <2>2, <2>3, <1>2, <1>4
    <3>. QED  BY <3>2, <1>17 DEF MovesCounted
  <2>5. CASE moves[p] = NO_MOVE
    <3>1. p \notin Moved /\ d \notin Moved \cup {p} /\ Moved' = (Moved \cup {p}) \cup {d}
      BY <2>1, <2>5, <1>4 DEF Moved
    <3>2. IsFiniteSet(Moved \cup {p}) /\ Cardinality(Moved \cup {p}) = Cardinality(Moved) + 1
      BY <3>1, <2>2, FS_AddElement
    <3>3. Cardinality(Moved') = Cardinality(Moved) + 2
      <4>1. Cardinality((Moved \cup {p}) \cup {d}) = Cardinality(Moved \cup {p}) + 1
        BY <3>1, <3>2, FS_AddElement
      <4>. QED  BY <4>1, <3>1, <3>2, <2>2
    <3>4. Twice' => Twice
      BY <2>5, <1>22
    <3>5. Cardinality(Moved') <= 2 * (idx' - 1) /\ (Twice' => Cardinality(Moved') <= 2 * (idx' - 2))
      BY <3>3, <3>4, <2>2, <2>3, <1>2, <1>4
    <3>. QED  BY <3>5, <1>17 DEF MovesCounted
  <2>. QED  BY <2>4, <2>5
<1>24. ASSUME ~ Twice'
       PROVE  moves[p] = NO_MOVE /\ moves[d] = NO_MOVE /\ RequestsPlaced /\ MovesRecorded
  BY <1>24, <1>3, <1>4, <1>22
<1>15. ASSUME ~ Twice' PROVE RequestsPlaced'
  <2>1. nodes'[0] = DepotNode
    <3>1. nodes[0] = DepotNode
      BY <1>15, <1>24 DEF RequestsPlaced
    <3>. QED  BY <3>1, <1>4, <1>8
  <2>2. \A k \in Given : nodes'[k] = nodes[k] /\ nodes'[k + Requests] = nodes[k + Requests]
    BY <1>11, <1>12
  <2>3. nodes'[idx].home = p
    BY <1>7, <1>8
  <2>4. \A k \in Given' : RequestAt(k)'
    <3>. TAKE k \in Given'
    <3>1. CASE k \in Given
      <4>1. RequestAt(k) /\ Home(k) \in Customers /\ Home(k) < jt
        BY <3>1, <1>15, <1>24 DEF RequestsPlaced, RequestAt
      <4>2. Home(k) < jt'
        BY <4>1, <1>1, <1>4, <1>5
      <4>. QED  BY <3>1, <4>1, <4>2, <2>2, <1>2 DEF RequestAt, IsCopy
    <3>2. CASE k = idx
      <4>1. p < jt' /\ ntemp[p].pair = d
        BY <1>0, <1>1, <1>5
      <4>2. IsCopy(k, p, k + Requests)'
        BY <3>2, <1>2, <1>7, <1>8 DEF IsCopy
      <4>3. IsCopy(k + Requests, d, k)'
        BY <3>2, <1>2, <1>7, <1>8 DEF IsCopy
      <4>. QED  BY <3>2, <4>1, <4>2, <4>3, <2>3, <1>2, <1>4 DEF RequestAt, IsCopy
    <3>. QED  BY <3>1, <3>2, <1>10
  <2>5. \A k, l \in Given' : k < l => Home(k)' < Home(l)'
    <3>1. \A k, l \in Given : k < l => Home(k)' < Home(l)'
      BY <2>2, <1>15, <1>24 DEF RequestsPlaced, RequestAt
    <3>2. \A k \in Given : Home(k)' < nodes'[idx].home
      <4>. TAKE k \in Given
      <4>1. Home(k) \in Customers /\ Home(k) < jt
        BY <1>15, <1>24 DEF RequestsPlaced, RequestAt
      <4>. QED  BY <4>1, <2>2, <2>3, <1>4, <1>5
    <3>3. \A k \in Given : ~(idx < k)
      BY <1>4 DEF Given
    <3>4. ~(idx < idx)
      BY <1>4
    <3>. QED  BY <3>1, <3>2, <3>3, <3>4, <1>10
  <2>. QED  BY <2>1, <2>4, <2>5, <1>2 DEF RequestsPlaced
<1>19. ASSUME ~ Twice' PROVE MovesRecorded'
  <2>0. moves[p] = NO_MOVE /\ moves[d] = NO_MOVE /\ MovesRecorded
    BY <1>19, <1>24
  <2>1. ASSUME NEW i \in Customers, moves'[i] # NO_MOVE
        PROVE  moves'[i] \in Numbered' /\ Home(moves[i])' = i
    <3>1. CASE i = p \/ i = d
      BY <3>1, <1>4, <1>7, <1>8, <1>9, <1>10
    <3>2. CASE i # p /\ i # d
      <4>1. moves'[i] = moves[i]
        BY <3>2, <1>9
      <4>2. moves[i] \in Numbered /\ Home(moves[i]) = i
        BY <2>0, <2>1, <4>1 DEF MovesRecorded
      <4>. QED  BY <4>1, <4>2, <1>10, <1>11
    <3>. QED  BY <3>1, <3>2
  <2>2. ASSUME NEW x \in Numbered' PROVE moves'[Home(x)'] = x
    <3>1. CASE x \in Numbered
      <4>1. moves[Home(x)] = x /\ x \in Customers
        BY <3>1, <2>0, <1>11 DEF MovesRecorded
      <4>2. Home(x) # p /\ Home(x) # d /\ Home(x) \in Node
        BY <4>1, <2>0, <1>4, <1>5, NodeFields
      <4>. QED  BY <3>1, <4>1, <4>2, <1>9, <1>11
    <3>2. CASE x = idx \/ x = idx + Requests
      BY <3>2, <1>4, <1>7, <1>8, <1>9
    <3>. QED  BY <3>1, <3>2, <1>10
  <2>. QED  BY <2>1, <2>2 DEF MovesRecorded
<1>20. ASSUME ~ Twice', idx' = Requests + 1
       PROVE  /\ \A i \in Customers : \E x \in Customers : Home(x)' = i
              /\ \A x, y \in Node : Home(x)' = Home(y)' => x = y
  <2>0. RequestsPlaced' /\ MovesRecorded'
    BY <1>15, <1>19, <1>20
  <2>1. Numbered' = Customers
    BY <1>20 DEF Numbered, Given
  <2>2. \A x \in Customers : Home(x)' \in Customers
    <3>. TAKE x \in Customers
    <3>1. CASE x \in 1 .. Requests
      <4>1. x \in Given'
        BY <3>1, <1>20 DEF Given
      <4>. QED  BY <4>1, <2>0 DEF RequestsPlaced, RequestAt
    <3>2. CASE x \in Requests + 1 .. N - 1
      <4>. DEFINE k == x - Requests  q == Home(k)'
      <4>1. k \in Given' /\ k + Requests = x
        BY <3>2, <1>20 DEF Given
      <4>2. q \in Customers /\ nodes'[x].home = ntemp'[q].pair
        BY <4>1, <2>0 DEF RequestsPlaced, RequestAt, IsCopy
      <4>. QED  BY <4>2, <1>14 DEF InputKept
    <3>. QED  BY <3>1, <3>2
  <2>. DEFINE f == [x \in Customers |-> Home(x)']
  <2>3. f \in [Customers -> Customers] /\ \A x, y \in Customers : f[x] = f[y] => x = y
    BY <2>0, <2>1, <2>2 DEF MovesRecorded
  <2>4. \A i \in Customers : \E x \in Customers : f[x] = i
    <3>. HIDE DEF f
    <3>. QED  BY <2>3, SelfInjection
  <2>5. \A i \in Customers : \E x \in Customers : Home(x)' = i
    BY <2>4
  <2>6. Home(0)' = 0
    <3>1. nodes'[0] = DepotNode
      BY <2>0 DEF RequestsPlaced
    <3>. QED  BY <3>1 DEF DepotNode
  <2>7. \A x, y \in Node : Home(x)' = Home(y)' => x = y
    BY <2>0, <2>1, <2>2, <2>6 DEF MovesRecorded
  <2>. QED  BY <2>5, <2>7
<1>21. PlaceInv'
  <2>1. idx' = idx + 1 /\ idx \in 1 .. Requests /\ matrix' = Routed
        /\ pc' = IF idx + 1 < Requests + 1 THEN "place" ELSE "start"
    BY <1>2, <1>3, <1>4
  <2>2. pc' \in {"place", "start"} /\ (pc' = "place" => idx' <= Requests)
        /\ (pc' = "start" => idx' = Requests + 1)
    BY <2>1
  <2>. QED  BY <2>1, <2>2, <1>14, <1>15, <1>19, <1>20, <1>23 DEF PlaceInv
<1>. QED
  BY <1>2, <1>13, <1>21 DEF IndInv, ChaseInv, FaultIffNoPickup, MatrixFollowsNodes

-----------------------------------------------------------------------------
(* A fault leaves the vectors as they are.                                 *)
LEMMA FaultFrame ==
  ASSUME IndInv, pc \in {"place", "start"}, pc' = "fault", UNCHANGED <<placing, moves, chasing>>,
         Requests = 0 \/ \E a \in Customers : PickedUp(a) <=> PickedUp(Mate(a))
  PROVE  IndInv'
<1>1. UNCHANGED <<nodes, ntemp, idx, jt, moves, matrix, old, new, row, col, nto, otn, orders>>
  BY DEF placing, chasing
<1>2. TypeOK /\ InputKept /\ MovesCounted /\ (Twice \/ RequestsPlaced) /\ (Twice \/ MovesRecorded)
  BY DEF IndInv, PlaceInv
<1>3. TypeOK'
  BY <1>1, <1>2 DEF TypeOK
<1>4. InputKept' /\ (RequestsPlaced => RequestsPlaced') /\ (Twice => Twice')
  BY <1>1, <1>2 DEF InputKept, RequestsPlaced, RequestAt, IsCopy, Given, Twice
<1>5. MovesCounted' /\ (MovesRecorded => MovesRecorded')
  BY <1>1, <1>2 DEF MovesCounted, MovesRecorded, Numbered, Given, PassedBy, Moved, Twice
<1>6. PlaceInv'
  BY <1>2, <1>4, <1>5 DEF PlaceInv
<1>. QED  BY <1>1, <1>3, <1>6 DEF IndInv, ChaseInv, FaultIffNoPickup, MatrixFollowsNodes

(* With no pickup left and numbers still to give, some request has not     *)
(* exactly one pickup: otherwise every customer would have a move, and     *)
(* there are not so many moves.                                            *)
LEMMA ScanPastEndInv == IndInv /\ ScanPastEnd => IndInv'
<1>. SUFFICES ASSUME IndInv, ScanPastEnd PROVE IndInv'
  OBVIOUS
<1>1. /\ pc = "place" /\ pc' = "fault" /\ PickupsFrom(jt) = {}
      /\ UNCHANGED <<placing, moves, chasing>>
  BY DEF ScanPastEnd
<1>2. TypeOK /\ InputKept /\ MovesCounted /\ idx <= Requests
  BY <1>1 DEF IndInv, PlaceInv
<1>3. ntemp \in [Node -> NodeRecord] /\ jt \in 1 .. N /\ idx \in 1 .. Requests + 1
  BY <1>2 DEF TypeOK
<1>4. ASSUME \A a \in Customers : ~ (PickedUp(a) <=> PickedUp(Mate(a))) PROVE FALSE
  <2>1. \A i \in Customers : PickedUp(i) => i < jt
    <3>1. \A i \in Customers : PickedUp(i) => ntemp[i].type = "Pickup"
      <4>. TAKE i \in Customers
      <4>1. ntemp[i].demand \in Int /\ ntemp[i].type = SignType(ntemp[i].demand)
        BY <1>1, <1>2, <1>3, NodeFields DEF InputKept
      <4>. QED  BY <4>1 DEF SignType
    <3>. QED  BY <3>1, <1>1, <1>3 DEF PickupsFrom
  <2>2. \A i \in Customers : PassedBy(i)
    BY <2>1, <1>2, <1>4 DEF PassedBy, InputKept
  <2>3. Moved = Customers
    BY <2>2, <1>2 DEF MovesCounted, Moved
  <2>4. Cardinality(Moved) <= 2 * (idx - 1)
    BY <1>2 DEF MovesCounted
  <2>. QED  BY <2>3, <2>4, <1>2, <1>3, CustomersCounted
<1>. QED  BY <1>1, <1>4, FaultFrame

(* After the scan a customer without a move is one of those left out when  *)
(* a request was numbered twice.                                           *)
LEMMA IndexOutsideInv == IndInv /\ IndexOutside => IndInv'
<1>. SUFFICES ASSUME IndInv, IndexOutside PROVE IndInv'
  OBVIOUS
<1>1. /\ pc = "start" /\ pc' = "fault" /\ UNCHANGED <<placing, moves, chasing>>
      /\ Requests = 0 \/ \E i \in Customers : moves[i] = NO_MOVE
  BY DEF IndexOutside
<1>2. CASE Requests = 0
  BY <1>1, <1>2, FaultFrame
<1>3. CASE Requests # 0
  <2>1. PICK i \in Customers : moves[i] = NO_MOVE
    BY <1>1, <1>3
  <2>2. Twice
    <3>1. SUFFICES ASSUME ~ Twice PROVE FALSE
      OBVIOUS
    <3>2. MovesRecorded /\ idx = Requests + 1 /\ \E x \in Customers : Home(x) = i
      BY <1>1, <3>1 DEF IndInv, PlaceInv
    <3>3. Numbered = Customers
      BY <3>2 DEF Numbered, Given
    <3>4. PICK x \in Customers : Home(x) = i
      BY <3>2
    <3>5. moves[Home(x)] = x
      BY <3>2, <3>3 DEF MovesRecorded
    <3>. QED  BY <2>1, <3>4, <3>5
  <2>3. \E a \in Customers : PickedUp(a) <=> PickedUp(Mate(a))
    BY <2>2 DEF Twice
  <2>. QED  BY <1>1, <2>3, FaultFrame
<1>. QED  BY <1>2, <1>3

-----------------------------------------------------------------------------
(* The chase does not touch what the placement left.                       *)
LEMMA PlaceFrame ==
  ASSUME PlaceInv, UNCHANGED <<nodes, ntemp, idx, jt>>,
         pc \in {"start", "chase", "finish"}, pc' \in {"chase", "finish", "done"},
         Requests > 0, ~ Twice,
         \A a \in Customers : PickedUp(a) \/ PickedUp(Mate(a))
  PROVE  PlaceInv' /\ FaultIffNoPickup'
<1>0. Requests > 0 /\ ~ Twice /\ RequestsPlaced
  BY DEF PlaceInv
<1>1. InputKept' /\ RequestsPlaced' /\ ~ Twice'
  BY <1>0 DEF PlaceInv, InputKept, RequestsPlaced, RequestAt, IsCopy, Given, Twice
<1>2. /\ idx' = Requests + 1
      /\ \A i \in Customers : \E x \in Customers : Home(x)' = i
      /\ \A x, y \in Node : Home(x)' = Home(y)' => x = y
  BY <1>0 DEF PlaceInv
<1>3. \A a \in Customers : (PickedUp(a) \/ PickedUp(Mate(a)))'
  OBVIOUS
<1>. QED  BY <1>0, <1>1, <1>2, <1>3 DEF PlaceInv, FaultIffNoPickup

(* What the chase may rely on.                                             *)
LEMMA ChasePlace ==
  ASSUME IndInv, pc \in {"chase", "finish"}
  PROVE  /\ PlaceInv /\ RequestsPlaced /\ Requests > 0 /\ ~ Twice
         /\ \A a \in Customers : PickedUp(a) \/ PickedUp(Mate(a))
BY DEF IndInv, PlaceInv, FaultIffNoPickup

(* When the chase starts nothing has been carried.                         *)
LEMMA StartChaseInv == IndInv /\ StartChase => IndInv'
<1>. SUFFICES ASSUME IndInv, StartChase PROVE IndInv'
  OBVIOUS
<1>1. /\ pc = "start" /\ pc' = "chase" /\ old' = 1 /\ new' = moves[1] /\ orders' = 0
      /\ row' = matrix[1] /\ col' = Column(matrix, 1)
      /\ nto' = [x \in Node |-> IF x \in Customers THEN matrix[x][Source(x)] ELSE 0]
      /\ otn' = [i \in Node |-> IF i \in Customers THEN matrix[i][moves[i]] ELSE 0]
      /\ UNCHANGED <<nodes, ntemp, idx, jt, moves, matrix>>
      /\ Requests > 0 /\ \A i \in Customers : moves[i] # NO_MOVE
  BY DEF StartChase, placing
<1>19. ~ Twice
  <2>1. MovesCounted /\ idx = Requests + 1
    BY <1>1 DEF IndInv, PlaceInv
  <2>2. Moved = Customers
    BY <1>1 DEF Moved
  <2>. QED  BY <1>1, <2>1, <2>2, CustomersCounted DEF MovesCounted
<1>2. /\ TypeOK /\ PlaceInv /\ RequestsPlaced /\ MovesRecorded /\ MovesCounted /\ matrix = Routed
      /\ idx = Requests + 1 /\ \A i \in Customers : \E x \in Customers : Home(x) = i
      /\ \A x, y \in Node : Home(x) = Home(y) => x = y
  BY <1>1, <1>19 DEF IndInv, PlaceInv
<1>3. Numbered = Customers
  BY <1>2 DEF Numbered, Given
<1>4. \A x \in Customers : moves[Home(x)] = x
  BY <1>2, <1>3 DEF MovesRecorded
<1>5. \A i \in Customers : moves[i] \in Customers /\ Home(moves[i]) = i /\ moves[i] # NO_MOVE
  BY <1>2, <1>4
<1>6. Home(0) = 0
  <2>1. nodes[0] = DepotNode
    BY <1>2 DEF RequestsPlaced
  <2>. QED  BY <2>1 DEF DepotNode
<1>7. \A x \in Customers : Home(x) \in Customers
  <2>1. \A x \in Node : nodes[x] \in NodeRecord
    BY <1>2 DEF TypeOK
  <2>2. \A x \in Node : Home(x) \in Node
    BY <2>1, NodeFields
  <2>3. \A x \in Customers : nodes[x].home # nodes[0].home
    BY <1>2
  <2>. QED  BY <2>2, <2>3, <1>6
<1>8. \A x \in Customers : Source(x) = Home(x)
  <2>. TAKE x \in Customers
  <2>1. Home(x) \in Customers /\ moves[Home(x)] = x
    BY <1>4, <1>7
  <2>2. \A i \in Customers : moves[i] = x => i = Home(x)
    BY <1>5
  <2>. QED  BY <2>1, <2>2 DEF Source
<1>9. matrix \in [Node -> [Node -> Nat]]
  BY <1>2 DEF TypeOK
<1>20. /\ \A x \in Customers : nto'[x] = matrix[x][Home(x)]
       /\ \A x \in Customers : otn'[x] = matrix[x][moves[x]]
       /\ nto'[0] = 0 /\ otn'[0] = 0
  <2>1. /\ nto' = [x \in Node |-> IF x \in Customers THEN matrix[x][Source(x)] ELSE 0]
        /\ otn' = [i \in Node |-> IF i \in Customers THEN matrix[i][moves[i]] ELSE 0]
    BY <1>1
  <2>2. \A x \in Customers : nto'[x] = matrix[x][Source(x)]
    BY <2>1
  <2>3. \A x \in Customers : otn'[x] = matrix[x][moves[x]]
    BY <2>1
  <2>. QED  BY <2>1, <2>2, <2>3, <1>8
<1>10. TypeOK'
  <2>1. row' \in [Node -> Nat] /\ col' \in [Node -> Nat]
    BY <1>1, <1>9 DEF Column
  <2>2. nto' \in [Node -> Nat] /\ otn' \in [Node -> Nat]
    <3>1. \A x \in Node : nto'[x] \in Nat /\ otn'[x] \in Nat
      <4>1. \A x, y \in Node : matrix[x][y] \in Nat
        BY <1>9
      <4>2. \A x \in Customers : nto'[x] \in Nat
        BY <4>1, <1>7, <1>20
      <4>3. \A x \in Customers : otn'[x] \in Nat
        BY <4>1, <1>5, <1>20
      <4>. QED  BY <4>2, <4>3, <1>20
    <3>2. nto' = [x \in Node |-> nto'[x]] /\ otn' = [x \in Node |-> otn'[x]]
      BY <1>1
    <3>. QED  BY <3>1, <3>2
  <2>3. old' \in Node /\ new' \in Customers \cup {NO_MOVE} /\ orders' \in 0 .. N - 1
        /\ pc' \in {"retype", "place", "start", "chase", "finish", "done", "fault"}
    BY <1>1, <1>5
  <2>. QED  BY <1>1, <1>2, <2>1, <2>2, <2>3 DEF TypeOK
<1>11. CarriedNodes' = {}
  BY <1>1, <1>5 DEF CarriedNodes
<1>12. \A x \in Node : Held(x)' = x
  BY <1>11 DEF Held
<1>13. MatrixHolds'
  BY <1>1, <1>2, <1>12 DEF MatrixHolds
<1>14. SavedLine'
  BY <1>1, <1>2, <1>12 DEF SavedLine, Column
<1>15. NothingLost' /\ PutAside'
  <2>1. NothingLost'
    BY <1>11 DEF NothingLost
  <2>2. PutAside'
    <3>1. \A x \in Customers : otn'[Home(x)] = matrix[Home(x)][x]
      BY <1>4, <1>7, <1>20
    <3>2. \A x \in Customers :
            /\ nto'[x] = Routed[x][nodes'[x].home]
            /\ otn'[nodes'[x].home] = Routed[nodes'[x].home][x]
      <4>1. nodes' = nodes /\ matrix = Routed
        BY <1>1, <1>2
      <4>. QED  BY <4>1, <3>1, <1>20
    <3>. QED  BY <3>2 DEF PutAside
  <2>. QED  BY <2>1, <2>2
<1>16. /\ \A i \in Customers \ CarriedNodes' : Home(moves[i])' = i
       /\ moves'[0] = NO_MOVE /\ new' = moves'[old'] /\ orders' = Cardinality(CarriedNodes')
       /\ orders' # N - 1
  <2>1. moves[0] = NO_MOVE
    BY <1>2 DEF MovesCounted
  <2>2. N - 1 > 0
    BY <1>1
  <2>. QED  BY <2>1, <2>2, <1>1, <1>5, <1>11, FS_EmptySet
<1>17. ChaseInv'
  BY <1>1, <1>13, <1>14, <1>15, <1>16 DEF ChaseInv
<1>21. \A a \in Customers : PickedUp(a) \/ PickedUp(Mate(a))
  BY <1>1, <1>2 DEF MovesCounted, PassedBy
<1>18. PlaceInv' /\ FaultIffNoPickup'
  BY <1>1, <1>2, <1>19, <1>21, PlaceFrame
<1>. QED  BY <1>1, <1>10, <1>17, <1>18 DEF IndInv, MatrixFollowsNodes

-----------------------------------------------------------------------------
(* What the two branches of the chase start from.                          *)
LEMMA ChaseFacts ==
  ASSUME IndInv, pc = "chase"
  PROVE  /\ MatrixHolds /\ SavedLine /\ NothingLost /\ PutAside
         /\ \A i \in Customers \ CarriedNodes : Home(moves[i]) = i
         /\ moves[0] = NO_MOVE /\ new = moves[old] /\ orders = Cardinality(CarriedNodes)
         /\ orders < N - 1 /\ IsFiniteSet(CarriedNodes)
         /\ Home(0) = 0 /\ \A x \in Customers : Home(x) \in Customers
         /\ \A x, y \in Node : Home(x) = Home(y) => x = y
         /\ moves \in [Node -> Customers \cup {NO_MOVE}] /\ old \in Node
<1>1. nodes[0] = DepotNode /\ \A x, y \in Node : Home(x) = Home(y) => x = y
  BY DEF IndInv, PlaceInv, RequestsPlaced
<1>2. Home(0) = 0
  BY <1>1 DEF DepotNode
<1>3. \A x \in Customers : Home(x) \in Customers
  <2>1. \A x \in Node : Home(x) \in Node
    BY NodeFields DEF IndInv, TypeOK
  <2>. QED  BY <2>1, <1>1, <1>2
<1>4. /\ MatrixHolds /\ SavedLine /\ NothingLost /\ PutAside
      /\ \A i \in Customers \ CarriedNodes : Home(moves[i]) = i
      /\ moves[0] = NO_MOVE /\ new = moves[old] /\ orders = Cardinality(CarriedNodes)
      /\ orders # N - 1
  BY DEF IndInv, ChaseInv
<1>5. IsFiniteSet(CarriedNodes)
  <2>1. CarriedNodes \in SUBSET Customers
    BY DEF CarriedNodes
  <2>. QED  BY <2>1, CustomersCounted, FS_Subset
<1>6. moves \in [Node -> Customers \cup {NO_MOVE}] /\ old \in Node /\ orders \in 0 .. N - 1
  BY DEF IndInv, TypeOK
<1>7. orders < N - 1
  BY <1>4, <1>6
<1>. QED  BY <1>1, <1>2, <1>3, <1>4, <1>5, <1>6, <1>7, Zenon

(* No more customers can be carried than there are.                        *)
LEMMA CarriedBound ==
  ASSUME NEW S \in SUBSET Customers
  PROVE  IsFiniteSet(S) /\ Cardinality(S) \in 0 .. N - 1
         /\ (Cardinality(S) = N - 1 => S = Customers)
<1>1. /\ IsFiniteSet(S) /\ Cardinality(S) <= Cardinality(Customers)
      /\ (Cardinality(Customers) = Cardinality(S) => Customers = S)
  BY CustomersCounted, FS_Subset
<1>2. Cardinality(S) \in Nat
  BY <1>1, FS_CardinalityType
<1>. QED  BY <1>1, <1>2, CustomersCounted

(* The branch that goes to the next index: the node there may be carried   *)
(* already, and then nothing is carried; if it is not, it still is at its  *)
(* old place, and what is saved is its line.                               *)
LEMMA AdvanceInv == IndInv /\ Advance => IndInv'
<1>. SUFFICES ASSUME IndInv, Advance PROVE IndInv'
  OBVIOUS
<1>1. /\ pc = "chase" /\ (old = new \/ moves[old] = NO_MOVE)
      /\ moves' = [moves EXCEPT ![old] = NO_MOVE]
      /\ orders' = IF moves[old] > 0 THEN orders + 1 ELSE orders
      /\ old' = (old + 1) % N /\ new' = moves'[old'] /\ row' = matrix[old']
      /\ col' = Column(matrix, old') /\ pc' = LoopOn(orders')
      /\ UNCHANGED <<nodes, ntemp, idx, jt, matrix, nto, otn>>
  BY DEF Advance, placing
<1>2. /\ MatrixHolds /\ SavedLine /\ NothingLost /\ PutAside
      /\ \A i \in Customers \ CarriedNodes : Home(moves[i]) = i
      /\ moves[0] = NO_MOVE /\ new = moves[old] /\ orders = Cardinality(CarriedNodes)
      /\ orders < N - 1 /\ IsFiniteSet(CarriedNodes)
      /\ Home(0) = 0 /\ \A x \in Customers : Home(x) \in Customers
      /\ \A x, y \in Node : Home(x) = Home(y) => x = y
      /\ moves \in [Node -> Customers \cup {NO_MOVE}] /\ old \in Node
  BY <1>1, ChaseFacts
<1>3. PICK o \in Node : o = old'
  BY <1>1, <1>2, RoundTheVector
<1>4. /\ moves'[old] = NO_MOVE /\ \A i \in Node : i # old => moves'[i] = moves[i]
      /\ moves' \in [Node -> Customers \cup {NO_MOVE}]
  BY <1>1, <1>2
<1>5. CarriedNodes' = IF moves[old] = NO_MOVE THEN CarriedNodes ELSE CarriedNodes \cup {old}
  BY <1>2, <1>4 DEF CarriedNodes
<1>6. moves[old] # NO_MOVE => moves[old] = old /\ old \in Customers /\ Home(old) = old
                              /\ old \notin CarriedNodes
  BY <1>1, <1>2 DEF CarriedNodes
<1>7. orders' = Cardinality(CarriedNodes')
  <2>1. CASE moves[old] = NO_MOVE
    <3>1. orders' = orders /\ CarriedNodes' = CarriedNodes
      BY <2>1, <1>1, <1>5
    <3>. QED  BY <3>1, <1>2
  <2>2. CASE moves[old] # NO_MOVE
    <3>1. orders' = orders + 1 /\ CarriedNodes' = CarriedNodes \cup {old}
      BY <2>2, <1>1, <1>5, <1>6
    <3>2. Cardinality(CarriedNodes \cup {old}) = Cardinality(CarriedNodes) + 1
      BY <2>2, <1>2, <1>6, FS_AddElement
    <3>. QED  BY <3>1, <3>2, <1>2
  <2>. QED  BY <2>1, <2>2
<1>8. orders' \in 0 .. N - 1
  BY <1>7, CarriedBound DEF CarriedNodes
<1>9. \A x \in Node : Held(x)' = Held(x)
  <2>. TAKE x \in Node
  <2>1. CASE moves[old] = NO_MOVE
    BY <2>1, <1>1, <1>5 DEF Held
  <2>2. CASE moves[old] # NO_MOVE
    <3>1. Home(x) = old => x = old
      BY <2>2, <1>2, <1>6
    <3>. QED  BY <2>2, <3>1, <1>1, <1>5 DEF Held
  <2>. QED  BY <2>1, <2>2
<1>10. MatrixHolds'
  BY <1>1, <1>2, <1>9 DEF MatrixHolds
<1>11. \A x \in Customers \ CarriedNodes' : Home(x)' \notin CarriedNodes'
  <2>. SUFFICES ASSUME NEW x \in Customers, x \notin CarriedNodes'
                PROVE  nodes'[x].home \notin CarriedNodes'
    OBVIOUS
  <2>1. x \notin CarriedNodes /\ x # old
    BY <1>4, <1>5 DEF CarriedNodes
  <2>2. Home(x) \notin CarriedNodes
    BY <2>1, <1>2 DEF NothingLost
  <2>3. moves[old] # NO_MOVE => Home(x) # old
    BY <2>1, <1>2, <1>6
  <2>. QED  BY <2>2, <2>3, <1>1, <1>5
<1>12. SavedLine'
  <2>. SUFFICES ASSUME moves'[o] # NO_MOVE, NEW x \in Node
                PROVE  row'[x] = Routed[o][Held(x)'] /\ col'[x] = Routed[Held(x)'][o]
    BY <1>3 DEF SavedLine
  <2>1. o \in Customers /\ o \notin CarriedNodes'
    BY <1>2, <1>3, <1>4 DEF CarriedNodes
  <2>2. Held(o)' = o
    BY <2>1, <1>11 DEF Held
  <2>3. row'[x] = matrix[o][x] /\ col'[x] = matrix[x][o]
    BY <1>1, <1>3 DEF Column
  <2>4. matrix[o][x] = Routed[Held(o)][Held(x)] /\ matrix[x][o] = Routed[Held(x)][Held(o)]
    BY <1>2 DEF MatrixHolds
  <2>. QED  BY <2>2, <2>3, <2>4, <1>9
<1>13. \A i \in Customers \ CarriedNodes' : Home(moves[i])' = i
  <2>. SUFFICES ASSUME NEW i \in Customers, i \notin CarriedNodes'
                PROVE  nodes'[moves'[i]].home = i
    OBVIOUS
  <2>1. i # old /\ i \notin CarriedNodes
    BY <1>4, <1>5 DEF CarriedNodes
  <2>2. moves'[i] = moves[i]
    BY <2>1, <1>4
  <2>. QED  BY <2>1, <2>2, <1>1, <1>2
<1>14. pc' = "finish" <=> orders' = N - 1
  BY <1>1, <1>8 DEF LoopOn
<1>15. ChaseInv'
  <2>1. PutAside' /\ NothingLost'
    BY <1>1, <1>2, <1>11 DEF PutAside, NothingLost
  <2>2. moves'[0] = NO_MOVE
    BY <1>2, <1>4
  <2>. QED  BY <2>1, <2>2, <1>1, <1>7, <1>10, <1>11, <1>12, <1>13, <1>14 DEF ChaseInv
<1>16. TypeOK'
  <2>1. new' \in Customers \cup {NO_MOVE}
    BY <1>1, <1>3, <1>4
  <2>2. matrix \in [Node -> [Node -> Nat]]
    BY DEF IndInv, TypeOK
  <2>3. row' \in [Node -> Nat] /\ col' \in [Node -> Nat]
    BY <2>2, <1>1, <1>3 DEF Column
  <2>4. pc' \in {"retype", "place", "start", "chase", "finish", "done", "fault"}
    BY <1>1 DEF LoopOn
  <2>. QED  BY <2>1, <2>2, <2>3, <2>4, <1>1, <1>3, <1>4, <1>8 DEF IndInv, TypeOK
<1>17. pc' \in {"chase", "finish"}
  BY <1>1 DEF LoopOn
<1>18. PlaceInv' /\ FaultIffNoPickup'
  BY <1>1, <1>17, PlaceFrame, ChasePlace
<1>. QED  BY <1>15, <1>16, <1>17, <1>18 DEF IndInv, MatrixFollowsNodes

(* The branch that carries a node: the line it overwrites is the only one  *)
(* the matrix loses, and the saved row and column hold it.                 *)
LEMMA CarryInv == IndInv /\ Carry => IndInv'
<1>. SUFFICES ASSUME IndInv, Carry PROVE IndInv'
  OBVIOUS
<1>1. /\ pc = "chase" /\ old # new /\ moves[old] # NO_MOVE
      /\ matrix' = Carried(matrix, row, col, new)
      /\ moves' = [moves EXCEPT ![old] = NO_MOVE]
      /\ old' = new /\ new' = moves'[new] /\ row' = SavedRow(new) /\ col' = SavedCol(new, old)
      /\ orders' = orders + 1 /\ pc' = LoopOn(orders')
      /\ UNCHANGED <<nodes, ntemp, idx, jt, nto, otn>>
  BY DEF Carry, placing
<1>2. /\ MatrixHolds /\ SavedLine /\ NothingLost /\ PutAside
      /\ \A i \in Customers \ CarriedNodes : Home(moves[i]) = i
      /\ moves[0] = NO_MOVE /\ new = moves[old] /\ orders = Cardinality(CarriedNodes)
      /\ orders < N - 1 /\ IsFiniteSet(CarriedNodes)
      /\ Home(0) = 0 /\ \A x \in Customers : Home(x) \in Customers
      /\ \A x, y \in Node : Home(x) = Home(y) => x = y
      /\ moves \in [Node -> Customers \cup {NO_MOVE}] /\ old \in Node
  BY <1>1, ChaseFacts
<1>3. PICK o \in Customers, w \in Customers :
        o = old /\ w = new /\ o # w /\ Home(w) = o /\ o \notin CarriedNodes
  BY <1>1, <1>2 DEF CarriedNodes
<1>4. /\ moves'[o] = NO_MOVE /\ \A i \in Node : i # o => moves'[i] = moves[i]
      /\ moves' \in [Node -> Customers \cup {NO_MOVE}]
  BY <1>1, <1>2, <1>3
<1>5. CarriedNodes' = CarriedNodes \cup {o}
  BY <1>3, <1>4 DEF CarriedNodes
<1>6. orders' = Cardinality(CarriedNodes')
  BY <1>1, <1>2, <1>3, <1>5, FS_AddElement
<1>7. orders' \in 0 .. N - 1
  BY <1>6, CarriedBound DEF CarriedNodes
<1>8. Held(w) = w /\ Held(w)' = o
  BY <1>1, <1>3, <1>5 DEF Held
<1>9. \A x \in Node : x # w => Held(x)' = Held(x)
  <2>. TAKE x \in Node
  <2>1. Home(x) = o => x = w
    BY <1>2, <1>3
  <2>. QED  BY <2>1, <1>1, <1>5 DEF Held
<1>10. MatrixHolds'
  <2>. SUFFICES ASSUME NEW x \in Node, NEW y \in Node
                PROVE  matrix'[x][y] = Routed[Held(x)'][Held(y)']
    BY DEF MatrixHolds
  <2>1. matrix'[x][y] = IF y = w THEN (IF x = w THEN 0 ELSE col[x])
                                 ELSE IF x = w THEN row[y] ELSE matrix[x][y]
    BY <1>1, <1>3 DEF Carried
  <2>2. row[y] = Routed[o][Held(y)] /\ col[x] = Routed[Held(x)][o]
    BY <1>1, <1>2, <1>3 DEF SavedLine
  <2>3. matrix[x][y] = Routed[Held(x)][Held(y)]
    BY <1>2 DEF MatrixHolds
  <2>4. Routed[o][o] = 0
    BY RoutedAssumption
  <2>. QED  BY <2>1, <2>2, <2>3, <2>4, <1>8, <1>9
<1>11. NothingLost'
  <2>. SUFFICES ASSUME NEW x \in Customers, x \notin CarriedNodes', x # w
                PROVE  nodes'[x].home \notin CarriedNodes'
    BY <1>1, <1>3 DEF NothingLost
  <2>1. x \notin CarriedNodes /\ x # o
    BY <1>5
  <2>2. Home(x) \notin CarriedNodes
    BY <2>1, <1>2, <1>3 DEF NothingLost
  <2>3. Home(x) # o
    BY <1>2, <1>3
  <2>. QED  BY <2>2, <2>3, <1>1, <1>5
<1>12. SavedLine'
  <2>. SUFFICES ASSUME NEW x \in Node
                PROVE  row'[x] = Routed[w][Held(x)'] /\ col'[x] = Routed[Held(x)'][w]
    BY <1>1, <1>3 DEF SavedLine
  <2>. DEFINE r == matrix[w]  c == Column(matrix, w)
  <2>0. /\ row' = [r EXCEPT ![w] = nto[w]] /\ col' = [c EXCEPT ![w] = otn[o]]
        /\ DOMAIN r = Node /\ DOMAIN c = Node /\ r[x] = matrix[w][x] /\ c[x] = matrix[x][w]
    <3>1. matrix \in [Node -> [Node -> Nat]]
      BY DEF IndInv, TypeOK
    <3>2. row' = [r EXCEPT ![w] = nto[w]] /\ col' = [c EXCEPT ![w] = otn[o]]
      BY <1>1, <1>3 DEF SavedRow, SavedCol
    <3>. QED  BY <3>1, <3>2 DEF Column
  <2>. HIDE DEF r, c
  <2>1. CASE x = w
    <3>1. row'[x] = nto[w] /\ col'[x] = otn[o]
      BY <2>0, <2>1
    <3>2. nto[w] = Routed[w][o] /\ otn[o] = Routed[o][w]
      BY <1>2, <1>3 DEF PutAside
    <3>. QED  BY <2>1, <3>1, <3>2, <1>8
  <2>2. CASE x # w
    <3>1. row'[x] = matrix[w][x] /\ col'[x] = matrix[x][w]
      BY <2>0, <2>2
    <3>2. matrix[w][x] = Routed[w][Held(x)] /\ matrix[x][w] = Routed[Held(x)][w]
      BY <1>2, <1>8 DEF MatrixHolds
    <3>. QED  BY <2>2, <3>1, <3>2, <1>9
  <2>. QED  BY <2>1, <2>2
<1>13. \A i \in Customers \ CarriedNodes' : Home(moves[i])' = i
  <2>. SUFFICES ASSUME NEW i \in Customers, i \notin CarriedNodes'
                PROVE  nodes'[moves'[i]].home = i
    OBVIOUS
  <2>1. i # o /\ i \notin CarriedNodes
    BY <1>5
  <2>2. moves'[i] = moves[i]
    BY <2>1, <1>4
  <2>. QED  BY <2>1, <2>2, <1>1, <1>2
<1>14. pc' = "finish" <=> orders' = N - 1
  BY <1>1, <1>7 DEF LoopOn
<1>15. ChaseInv'
  <2>1. PutAside'
    BY <1>1, <1>2 DEF PutAside
  <2>2. moves'[0] = NO_MOVE
    BY <1>2, <1>3, <1>4
  <2>3. new' = moves'[old']
    BY <1>1
  <2>. QED  BY <2>1, <2>2, <2>3, <1>6, <1>10, <1>11, <1>12, <1>13, <1>14 DEF ChaseInv
<1>16. TypeOK'
  <2>1. new' \in Customers \cup {NO_MOVE} /\ old' \in Node
    BY <1>1, <1>3, <1>4
  <2>2. /\ matrix \in [Node -> [Node -> Nat]] /\ row \in [Node -> Nat] /\ col \in [Node -> Nat]
        /\ nto \in [Node -> Nat] /\ otn \in [Node -> Nat]
    BY DEF IndInv, TypeOK
  <2>3. row' \in [Node -> Nat] /\ col' \in [Node -> Nat]
    <3>1. SavedRow(w) \in [Node -> Nat]
      <4>1. matrix[w] \in [Node -> Nat] /\ nto[w] \in Nat
        BY <2>2
      <4>. QED  BY <4>1 DEF SavedRow
    <3>2. SavedCol(w, o) \in [Node -> Nat]
      <4>1. Column(matrix, w) \in [Node -> Nat] /\ otn[o] \in Nat
        <5>1. \A x \in Node : matrix[x][w] \in Nat
          BY <2>2
        <5>2. Column(matrix, w) \in [Node -> Nat]
          BY <5>1 DEF Column
        <5>3. otn[o] \in Nat
          BY <2>2
        <5>. QED  BY <5>2, <5>3
      <4>. QED  BY <4>1 DEF SavedCol
    <3>. QED  BY <3>1, <3>2, <1>1, <1>3
  <2>4. matrix' \in [Node -> [Node -> Nat]]
    BY <2>2, <1>1 DEF Carried
  <2>5. pc' \in {"retype", "place", "start", "chase", "finish", "done", "fault"}
    BY <1>1 DEF LoopOn
  <2>. QED  BY <2>1, <2>2, <2>3, <2>4, <2>5, <1>1, <1>4, <1>7 DEF IndInv, TypeOK
<1>17. pc' \in {"chase", "finish"}
  BY <1>1 DEF LoopOn
<1>18. PlaceInv' /\ FaultIffNoPickup'
  BY <1>1, <1>17, PlaceFrame, ChasePlace
<1>. QED  BY <1>15, <1>16, <1>17, <1>18 DEF IndInv, MatrixFollowsNodes

(* All nodes have been carried: every line is where its node is.           *)
LEMMA FinishInv == IndInv /\ Finish => IndInv' /\ nodes' = nodes /\ UNCHANGED <<ntemp, matrix>>
<1>. SUFFICES ASSUME IndInv, Finish
              PROVE  IndInv' /\ nodes' = nodes /\ UNCHANGED <<ntemp, matrix>>
  OBVIOUS
<1>1. /\ pc = "finish" /\ pc' = "done" /\ nodes' = [nodes EXCEPT ![0].pair = 0]
      /\ UNCHANGED <<ntemp, idx, jt, moves, matrix, old, new, row, col, nto, otn, orders>>
  BY DEF Finish, chasing
<1>2. nodes[0] = DepotNode /\ nodes \in [Node -> NodeRecord]
  BY <1>1, ChasePlace DEF IndInv, RequestsPlaced, TypeOK
<1>3. nodes' = nodes
  <2>. DEFINE v == nodes[0]
  <2>1. nodes' = [nodes EXCEPT ![0] = [v EXCEPT !.pair = 0]]
    BY <1>1
  <2>2. [v EXCEPT !.pair = 0] = v
    BY <1>2 DEF DepotNode
  <2>. QED  BY <2>1, <2>2, <1>2
<1>4. /\ Home(0) = 0
      /\ \A x \in Node : Home(x) \in Node
      /\ \A x, y \in Node : Home(x) = Home(y) => x = y
  <2>1. Home(0) = 0
    BY <1>2 DEF DepotNode
  <2>2. \A x \in Node : Home(x) \in Node
    BY <1>2, NodeFields
  <2>. QED  BY <2>1, <2>2, <1>1 DEF IndInv, PlaceInv
<1>5. CarriedNodes = Customers
  <2>1. Cardinality(CarriedNodes) = N - 1
    BY <1>1 DEF IndInv, ChaseInv
  <2>. QED  BY <2>1, CarriedBound DEF CarriedNodes
<1>6. \A x \in Node : Held(x) = Home(x)
  BY <1>4, <1>5 DEF Held
<1>7. \A i, j \in Node : matrix'[i][j] = Routed[Home(i)'][Home(j)']
  BY <1>1, <1>3, <1>6 DEF IndInv, ChaseInv, MatrixHolds
<1>8. TypeOK'
  BY <1>1, <1>3 DEF IndInv, TypeOK
<1>9. PlaceInv' /\ FaultIffNoPickup'
  BY <1>1, <1>3, PlaceFrame, ChasePlace
<1>. QED  BY <1>1, <1>3, <1>7, <1>8, <1>9 DEF IndInv, ChaseInv, MatrixFollowsNodes

-----------------------------------------------------------------------------
(* No step leaves the invariant.                                           *)
LEMMA NextInv == IndInv /\ [Next]_vars => IndInv'
<1>. SUFFICES ASSUME IndInv, [Next]_vars PROVE IndInv'
  OBVIOUS
<1>1. CASE Next
  BY <1>1, RetypeInv, PlaceRequestInv, ScanPastEndInv, IndexOutsideInv, StartChaseInv, AdvanceInv, CarryInv,
     FinishInv DEF Next
<1>2. CASE UNCHANGED vars
  <2>1. /\ UNCHANGED <<pc, nodes, ntemp, idx, jt, moves>>
        /\ UNCHANGED <<matrix, old, new, row, col, nto, otn, orders>>
    BY <1>2 DEF vars, placing, chasing
  <2>2. TypeOK'
    BY <2>1 DEF IndInv, TypeOK
  <2>3. PlaceInv'
    <3>1. /\ InputKept' <=> InputKept
          /\ RequestsPlaced' <=> RequestsPlaced
          /\ Twice' <=> Twice
      BY <2>1 DEF InputKept, RequestsPlaced, RequestAt, IsCopy, Given, Twice
    <3>2. MovesRecorded' <=> MovesRecorded
      BY <2>1 DEF MovesRecorded, Numbered, Given
    <3>3. MovesCounted' <=> MovesCounted
      BY <2>1, <3>1 DEF MovesCounted, PassedBy, Moved
    <3>. QED  BY <2>1, <3>1, <3>2, <3>3 DEF IndInv, PlaceInv
  <2>4. ChaseInv'
    BY <2>1 DEF IndInv, ChaseInv, MatrixHolds, SavedLine, NothingLost, PutAside, Held, CarriedNodes
  <2>5. FaultIffNoPickup' /\ MatrixFollowsNodes'
    BY <2>1 DEF IndInv, FaultIffNoPickup, MatrixFollowsNodes
  <2>. QED  BY <2>2, <2>3, <2>4, <2>5 DEF IndInv
<1>. QED  BY <1>1, <1>2

(* The invariant holds throughout.                                         *)
THEOREM Invariance == Spec => []IndInv
BY InitInv, NextInv, PTL DEF Spec

(***************************************************************************)
(* Type correctness of every reachable state, for every number of          *)
(* requests, every demand and every matrix.                                *)
(***************************************************************************)
THEOREM TypeCorrect == Spec => []TypeOK
<1>1. IndInv => TypeOK
  BY DEF IndInv
<1>. QED  BY <1>1, Invariance, PTL

(***************************************************************************)
(* The in-place permutation of the matrix (lines 448-477) is correct: on   *)
(* return the entry of two nodes is the time between their locations.      *)
(***************************************************************************)
THEOREM MatrixCorrect == Spec => []MatrixFollowsNodes
<1>1. IndInv => MatrixFollowsNodes
  BY DEF IndInv
<1>. QED  BY <1>1, Invariance, PTL

(***************************************************************************)
(* The unbounded scan of line 402 and the accesses of lines 432-445 go     *)
(* wrong only if there is no request or one of the input has not exactly   *)
(* one pickup, and always if one has none.                                 *)
(***************************************************************************)
THEOREM FaultCharacterised == Spec => []FaultIffNoPickup
<1>1. IndInv => FaultIffNoPickup
  BY DEF IndInv
<1>. QED  BY <1>1, Invariance, PTL

(***************************************************************************)
(* The chase makes progress (lines 448-477): one more node is carried, or  *)
(* old_index gets closer, round the vector, to one that waits.             *)
(***************************************************************************)
LEMMA ChaseStep ==
  ASSUME IndInv, Next, pc = "chase"
  PROVE  \/ pc' = "finish" \/ orders' > orders
         \/ orders' = orders /\ RoundsLeft' < RoundsLeft
<1>1. /\ moves \in [Node -> Customers \cup {NO_MOVE}] /\ old \in Node
      /\ moves[0] = NO_MOVE /\ new = moves[old]
      /\ orders = Cardinality(CarriedNodes) /\ orders < N - 1
  BY ChaseFacts
<1>2. orders \in Nat
  BY DEF IndInv, TypeOK
<1>3. Advance \/ Carry
  BY DEF Next, Retype, PlaceRequest, ScanPastEnd, IndexOutside, StartChase, Finish
<1>4. CASE moves[old] # NO_MOVE
  <2>1. moves[old] > 0
    BY <1>1, <1>4
  <2>2. orders' = orders + 1
    BY <1>3, <2>1 DEF Advance, Carry
  <2>. QED  BY <1>2, <2>2
<1>5. CASE moves[old] = NO_MOVE
  <2>1. /\ moves' = [moves EXCEPT ![old] = NO_MOVE] /\ old' = (old + 1) % N
        /\ orders' = IF moves[old] > 0 THEN orders + 1 ELSE orders
    BY <1>3, <1>5 DEF Advance, Carry
  <2>2. orders' = orders /\ moves' = moves
    BY <1>1, <1>5, <2>1
  <2>3. CarriedNodes' = CarriedNodes /\ old \notin Customers \ CarriedNodes
    BY <1>5, <2>2 DEF CarriedNodes
  <2>4. PICK w \in Customers \ CarriedNodes : TRUE
    <3>1. CarriedNodes \in SUBSET Customers
      BY DEF CarriedNodes
    <3>2. CarriedNodes # Customers
      BY <1>1, CustomersCounted
    <3>. QED  BY <3>1, <3>2
  <2>. DEFINE Waiting == Customers \ CarriedNodes
              rounds(o) == IF \E x \in Waiting : o <= x THEN N - o ELSE 2 * N - o
  <2>5. w \in Waiting /\ Waiting \subseteq 1 .. N - 1 /\ old \notin Waiting
    BY <2>3, <2>4
  <2>6. RoundsLeft = rounds(old) /\ RoundsLeft' = rounds(old')
    BY <2>3 DEF RoundsLeft
  <2>. HIDE DEF Waiting
  <2>7. rounds(old') < rounds(old)
    <3>1. CASE old = N - 1
      <4>1. old' = 0 /\ \A x \in Waiting : 0 <= x /\ ~(old <= x)
        BY <2>1, <2>5, <3>1
      <4>2. rounds(old') = N /\ rounds(old) = N + 1
        BY <2>5, <3>1, <4>1
      <4>. QED  BY <4>2
    <3>2. CASE old < N - 1
      <4>1. old' = old + 1
        <5>1. N \in Nat /\ old + 1 \in Nat /\ old + 1 < N
          BY <1>1, <3>2
        <5>. QED  BY <2>1, <5>1, NotYetRound
      <4>2. (\E x \in Waiting : old' <= x) <=> (\E x \in Waiting : old <= x)
        BY <2>5, <4>1, <1>1
      <4>. QED  BY <4>1, <4>2, <1>1
    <3>. QED  BY <3>1, <3>2, <1>1
  <2>. QED  BY <2>2, <2>6, <2>7
<1>. QED  BY <1>4, <1>5

(***************************************************************************)
(* Every call of order_nodes follows the cycles to their end, for every    *)
(* number of requests and every permutation: the number of nodes carried   *)
(* never falls, and while it stands still the rounds left become fewer.    *)
(***************************************************************************)
THEOREM ChaseCorrect == Spec => ChaseMovesOn
<1>1. IndInv /\ [Next]_vars =>
        [pc = "chase" => \/ pc' = "finish" \/ orders' > orders
                         \/ orders' = orders /\ RoundsLeft' < RoundsLeft]_vars
  BY ChaseStep
<1>. QED  BY <1>1, Invariance, PTL DEF Spec, ChaseMovesOn

(* On return node i is a pickup and node n + i its delivery (line 388).    *)
LEMMA OrderFromInv == IndInv => PickupThenDelivery
<1>. SUFFICES ASSUME IndInv, pc = "done" PROVE PickupThenDelivery
  BY DEF PickupThenDelivery
<1>1. InputKept /\ RequestsPlaced /\ idx = Requests + 1
  BY DEF IndInv, PlaceInv
<1>2. Given = 1 .. Requests
  BY <1>1 DEF Given
<1>3. nodes[0] = DepotNode /\ \A k, l \in 1 .. Requests : k < l => Home(k) < Home(l)
  BY <1>1, <1>2 DEF RequestsPlaced
<1>4. ASSUME NEW i \in 1 .. Requests
      PROVE  /\ nodes[i].demand > 0 /\ nodes[i].type = "Pickup"
             /\ nodes[i].pair = Requests + i /\ nodes[i].id = i
             /\ ntemp[Mate(Home(i))].demand = -ntemp[Home(i)].demand =>
                  /\ nodes[Requests + i].demand = -nodes[i].demand
                  /\ nodes[Requests + i].type = "Delivery"
             /\ nodes[Requests + i].pair = i /\ nodes[Requests + i].id = Requests + i
             /\ Home(Requests + i) = ntemp[Home(i)].pair
  <2>. DEFINE p == Home(i)  d == ntemp[p].pair
  <2>1. /\ p \in Customers /\ ntemp[p].demand > 0
        /\ IsCopy(i, p, i + Requests) /\ IsCopy(i + Requests, d, i)
    BY <1>1, <1>2 DEF RequestsPlaced, RequestAt
  <2>2. ntemp[p].demand \in Int
    <3>0. ntemp \in [Node -> NodeRecord]
      BY DEF IndInv, TypeOK
    <3>1. p \in Node
      BY <2>1
    <3>2. ntemp[p] \in NodeRecord
      BY <3>0, <3>1
    <3>. QED  BY <3>2, NodeFields
  <2>3. /\ d \in Customers
        /\ ntemp[p].type = SignType(ntemp[p].demand)
    BY <1>1, <2>1 DEF InputKept
  <2>4. ntemp[d].type = SignType(ntemp[d].demand)
    BY <1>1, <2>3 DEF InputKept
  <2>5. /\ ntemp[p].type = "Pickup"
        /\ ntemp[d].demand = -ntemp[p].demand => ntemp[d].type = "Delivery"
    BY <2>1, <2>2, <2>3, <2>4 DEF SignType
  <2>6. i + Requests = Requests + i
    OBVIOUS
  <2>. HIDE DEF p, d
  <2>7. Home(i) = p /\ ntemp[p].pair = d
    BY DEF p, d
  <2>. QED  BY <2>1, <2>3, <2>5, <2>6, <2>7 DEF IsCopy
<1>. QED  BY <1>3, <1>4 DEF PickupThenDelivery

(***************************************************************************)
(* What the comment of line 388 says of the order of the nodes holds for   *)
(* every input on which the function returns.                              *)
(***************************************************************************)
THEOREM OrderCorrect == Spec => []PickupThenDelivery
BY OrderFromInv, Invariance, PTL

-----------------------------------------------------------------------------
(* Refinement.  Seen from outside, order_nodes renumbers at its last step. *)
LEMMA AbstractInit == Init => Abstract!Init
<1>. SUFFICES ASSUME Init PROVE Abstract!Init
  OBVIOUS
<1>1. IndInv
  BY InitInv
<1>2. pc = "retype" /\ InputKept
  BY <1>1 DEF Init, IndInv, PlaceInv
<1>3. \A a \in Customers : ntemp[a].pair \in Customers /\ ntemp[a].pair # a
                           /\ ntemp[ntemp[a].pair].pair = a
  BY <1>2 DEF InputKept
<1>. QED
  BY <1>2, <1>3 DEF Abstract!Init, Abstract!Customers, Abstract!Node, Abstract!Size

(* Until it returns, the steps of the function do not show.                *)
LEMMA HiddenStep ==
  ASSUME IndInv, pc \notin {"done", "fault"}, pc' \notin {"done", "fault"},
         \A a \in Customers : ntemp'[a].pair = ntemp[a].pair /\ ntemp'[a].demand = ntemp[a].demand
  PROVE  UNCHANGED Abstract!vars
BY DEF Abstract!vars

(* A step of order_nodes is a step of Renumbering or changes nothing that  *)
(* its caller sees.                                                        *)
LEMMA AbstractNext == IndInv /\ IndInv' /\ [Next]_vars => [Abstract!Next]_(Abstract!vars)
<1>. SUFFICES ASSUME IndInv, IndInv', [Next]_vars PROVE [Abstract!Next]_(Abstract!vars)
  OBVIOUS
<1>1. CASE Retype
  <2>1. nodes = ntemp /\ ntemp' = Retyped(nodes) /\ pc = "retype" /\ pc' \in {"place", "start"}
    BY <1>1 DEF Retype, IndInv, PlaceInv
  <2>2. ASSUME NEW a \in Customers
        PROVE  ntemp'[a].pair = ntemp[a].pair /\ ntemp'[a].demand = ntemp[a].demand
    <3>. DEFINE v == ntemp[a]
    <3>1. ntemp'[a] = [v EXCEPT !.type = SignType(v.demand)]
      BY <2>1 DEF Retyped
    <3>2. v \in NodeRecord
      BY DEF IndInv, TypeOK
    <3>. HIDE DEF v
    <3>3. ntemp'[a].pair = v.pair /\ ntemp'[a].demand = v.demand
      BY <3>1, <3>2 DEF NodeRecord
    <3>. QED  BY <3>3 DEF v
  <2>. QED  BY <2>1, <2>2, HiddenStep
<1>2. CASE PlaceRequest
  <2>1. pc = "place" /\ pc' \in {"place", "start"} /\ ntemp' = ntemp
    BY <1>2 DEF PlaceRequest
  <2>. QED  BY <2>1, HiddenStep
<1>3. CASE ScanPastEnd \/ IndexOutside
  <2>1. pc \in {"place", "start"} /\ pc' = "fault" /\ ntemp' = ntemp
    BY <1>3 DEF ScanPastEnd, IndexOutside, placing
  <2>2. InputKept /\ (Requests = 0 \/ \E a \in Customers : PickedUp(a) <=> PickedUp(Mate(a)))
    BY <2>1 DEF IndInv, PlaceInv, FaultIffNoPickup
  <2>3. \A a \in Customers : Mate(a) \in Customers
    BY <2>2 DEF InputKept
  <2>5. Abstract!Fail
    BY <2>1, <2>2, <2>3
       DEF Abstract!Fail, Abstract!Customers, Abstract!Node, Abstract!Size
  <2>. QED  BY <2>5 DEF Abstract!Next
<1>4. CASE StartChase
  <2>1. pc = "start" /\ pc' = "chase" /\ ntemp' = ntemp
    BY <1>4 DEF StartChase, placing
  <2>. QED  BY <2>1, HiddenStep
<1>5. CASE Advance \/ Carry
  <2>1. pc = "chase" /\ pc' \in {"chase", "finish"} /\ ntemp' = ntemp
    BY <1>5 DEF Advance, Carry, placing, LoopOn
  <2>. QED  BY <2>1, HiddenStep
<1>6. CASE Finish
  <2>1. nodes' = nodes /\ ntemp' = ntemp /\ matrix' = matrix /\ pc = "finish" /\ pc' = "done"
    BY <1>6, FinishInv DEF Finish
  <2>2. PickupThenDelivery'
    BY OrderFromInv, PTL
  <2>3. \A i, j \in Node : matrix'[i][j] = Routed[Home(i)'][Home(j)']
    BY <2>1 DEF IndInv, MatrixFollowsNodes
  <2>4. matrix' \in [Node -> [Node -> Nat]]
    BY DEF IndInv, TypeOK
  <2>. DEFINE f == [i \in Node |-> Home(i)']
  <2>5. f \in [Node -> Node]
    BY NodeFields DEF IndInv, TypeOK
  <2>6. \A i, j \in Node : f[i] = f[j] => i = j
    BY <2>1 DEF IndInv, PlaceInv
  <2>7. f[0] = 0
    <3>1. (nodes[0])' = DepotNode
      BY <2>1 DEF IndInv, PlaceInv, RequestsPlaced
    <3>. QED  BY <3>1 DEF DepotNode
  <2>8. \A i \in 1 .. Requests :
          /\ f[i] \in Customers /\ ntemp[f[i]].demand > 0
          /\ f[Requests + i] = ntemp[f[i]].pair
    <3>. TAKE i \in 1 .. Requests
    <3>1. RequestAt(i)' /\ idx' = Requests + 1
      BY <2>1 DEF IndInv, PlaceInv, RequestsPlaced, Given
    <3>2. f[Requests + i] = ntemp[f[i]].pair
      BY <2>1, <2>2 DEF PickupThenDelivery
    <3>. QED  BY <3>1, <3>2, <2>1 DEF RequestAt
  <2>9. \A i, j \in 1 .. Requests : i < j => f[i] < f[j]
    BY <2>1, <2>2 DEF PickupThenDelivery
  <2>. DEFINE at2 == [i \in Node |-> IF pc' = "done" THEN Home(i)' ELSE i]
  <2>10. at2 = f
    BY <2>1
  <2>11. matrix' = [i \in Node |-> [j \in Node |-> Routed[f[i]][f[j]]]]
    <3>1. \A i \in Node : matrix'[i] = [j \in Node |-> Routed[f[i]][f[j]]]
      BY <2>3, <2>4
    <3>2. matrix' = [i \in Node |-> matrix'[i]]
      BY <2>4
    <3>. QED  BY <3>1, <3>2
  <2>12. Abstract!Renumbered(f)
    <3>. HIDE DEF f
    <3>. QED  BY <2>5, <2>6, <2>7, <2>8, <2>9
              DEF Abstract!Renumbered, Abstract!Customers, Abstract!Node, Abstract!Size
  <2>13. Abstract!Renumber
    <3>. HIDE DEF f
    <3>. QED  BY <2>1, <2>10, <2>11, <2>12
              DEF Abstract!Renumber, Abstract!Customers, Abstract!Node, Abstract!Size
  <2>. QED  BY <2>13 DEF Abstract!Next
<1>7. CASE UNCHANGED vars
  BY <1>7 DEF vars, placing, chasing, Abstract!vars
<1>. QED  BY <1>1, <1>2, <1>3, <1>4, <1>5, <1>6, <1>7 DEF Next

(***************************************************************************)
(* order_nodes implements Renumbering: its caller can see no other effect  *)
(* than one renumbering of nodes and matrix together, or the failure that  *)
(* a request without exactly one pickup, or none at all, may cause.        *)
(***************************************************************************)
THEOREM Refinement == Spec => ImplementsRenumbering
BY AbstractInit, AbstractNext, Invariance, PTL DEF Spec, ImplementsRenumbering, Abstract!Spec
=============================================================================

----------------------------- MODULE OrderNodes -----------------------------
(***************************************************************************)
(* order_nodes (src/src/pdptw_builder.cpp): the last transformation of a   *)
(* PDPTW instance.  It renumbers the nodes so that pickup i has delivery   *)
(* n + i, and permutes the rows and the columns of the travel-time matrix  *)
(* IN PLACE, following the cycles of the permutation with one saved row    *)
(* and one saved column.                                                   *)
(*                                                                         *)
(* The payload of a node (coordinates, time window, service time) is       *)
(* copied as a whole and never inspected here; it is represented by        *)
(* `home', the index the node had on entry.  A travel time is a number     *)
(* taken from the constant Routed.                                         *)
(*                                                                         *)
(* A definition X_Slip is no part of the model: it is a slip one could     *)
(* make in X, kept to show which property rejects it.                      *)
(***************************************************************************)
EXTENDS Integers, FiniteSets

CONSTANTS
  Requests,   \* (nodes.size() - 1) / 2
  Loads,      \* the amounts of a demand
  Routed      \* the matrix the router delivered

N         == 2 * Requests + 1     \* nodes.size()
Node      == 0 .. N - 1
Customers == 1 .. N - 1
NO_MOVE   == -1
NodeType  == {"Pickup", "Delivery", "Depot"}

ASSUME RequestsAssumption == Requests \in Nat
ASSUME LoadsAssumption    == Loads \subseteq Nat
ASSUME RoutedAssumption   ==
  /\ Routed \in [Node -> [Node -> Nat]]
  /\ \A i \in Node : Routed[i][i] = 0

VARIABLES
  pc,       \* "retype", "place", "start", "chase", "finish", "done" or "fault"
  nodes,    \* the node vector
  ntemp,    \* its copy (set in Retype; before that it equals the input)
  matrix,   \* the travel times
  idx, jt,  \* next request number; where the scan for a pickup goes on
  moves,    \* moves[i]: the new index of node i, NO_MOVE once carried out
  old, new, \* old_index, new_index
  row, col, \* the saved row and column of old_index
  nto, otn, \* nto_dist, otn_dist
  orders    \* how many nodes have been carried to their place

placing == <<nodes, ntemp, idx, jt>>
chasing == <<matrix, old, new, row, col, nto, otn, orders>>
vars    == <<pc, placing, moves, chasing>>

NodeRecord == [home : Node, demand : Int, type : NodeType, pair : Node, id : Node]

-----------------------------------------------------------------------------
(***************************************************************************)
(* The input.  The customers are paired up.  Of demands the code generates *)
(* one end of a pair picks up what the other one delivers; those of a node *)
(* file are taken as they were read, whatever they are.  The types agree   *)
(* with the demands, except that one delivery may be typed Depot:          *)
(* read_node_file recognises a delivery by a positive pickup number, and   *)
(* the pickup of the first delivery of a file is number 0.                 *)
(***************************************************************************)
IsPairing(p) == \A i \in Customers : p[p[i]] = i /\ p[i] # i

Demands == Loads \cup {-l : l \in Loads}

SignType(d) == IF d < 0 THEN "Delivery" ELSE IF d > 0 THEN "Pickup" ELSE "Depot"

InputNode(i, p, d, misread) ==
  [home   |-> i,
   demand |-> d[i],
   type   |-> IF i \in misread THEN "Depot" ELSE SignType(d[i]),
   pair   |-> p[i],
   id     |-> i]

DepotNode == [home |-> 0, demand |-> 0, type |-> "Depot", pair |-> 0, id |-> 0]

Init ==
  /\ \E p \in {f \in [Customers -> Customers] : IsPairing(f)} :
     \E d \in [Customers -> Demands] :
     \E misread \in {{}} \cup {{i} : i \in {k \in Customers : d[k] < 0}} :
        nodes = [i \in Node |-> IF i = 0 THEN DepotNode
                                         ELSE InputNode(i, p, d, misread)]
  /\ pc = "retype"
  /\ ntemp = nodes
  /\ matrix = Routed
  /\ idx = 1
  /\ jt = 1
  /\ moves = [i \in Node |-> NO_MOVE]
  /\ old = 0
  /\ new = NO_MOVE
  /\ row = [i \in Node |-> 0]
  /\ col = [i \in Node |-> 0]
  /\ nto = [i \in Node |-> 0]
  /\ otn = [i \in Node |-> 0]
  /\ orders = 0

-----------------------------------------------------------------------------
(* The first loop: the sign of the demand says what a customer is.         *)
Retyped_Slip(v) == v
Retyped(v) ==
  [i \in Node |-> IF i = 0 THEN v[i] ELSE [v[i] EXCEPT !.type = SignType(v[i].demand)]]

Retype ==
  /\ pc = "retype"
  /\ nodes' = Retyped(nodes)
  /\ ntemp' = nodes'
  /\ pc' = IF idx < Requests + 1 THEN "place" ELSE "start"
  /\ UNCHANGED <<idx, jt, moves, chasing>>

(***************************************************************************)
(* One round of "while(idx < n+1)": find the next pickup, give it number   *)
(* idx and its delivery number idx + n.                                    *)
(***************************************************************************)
PickupsFrom_Slip(k) == {i \in k .. N - 1 : ntemp[i].type # "Delivery"}
PickupsFrom(k) == {i \in k .. N - 1 : ntemp[i].type = "Pickup"}

NextPickup(p) == p \in PickupsFrom(jt) /\ \A i \in PickupsFrom(jt) : p <= i

Place_Slip(p) ==
  LET d == ntemp[p].pair IN
  /\ nodes' = [nodes EXCEPT
       ![idx]                = [ntemp[p] EXCEPT !.pair = idx + Requests, !.id = idx],
       ![idx + Requests + 1] = [ntemp[d] EXCEPT !.pair = idx, !.id = idx + Requests]]
  /\ moves' = [moves EXCEPT ![p] = idx, ![d] = idx + Requests + 1]
Place(p) ==
  LET d == ntemp[p].pair IN
  /\ nodes' = [nodes EXCEPT
       ![idx]            = [ntemp[p] EXCEPT !.pair = idx + Requests, !.id = idx],
       ![idx + Requests] = [ntemp[d] EXCEPT !.pair = idx, !.id = idx + Requests]]
  /\ moves' = [moves EXCEPT ![p] = idx, ![d] = idx + Requests]

PlaceRequest ==
  /\ pc = "place"
  /\ \E p \in Customers :
        /\ NextPickup(p)
        /\ Place(p)
        /\ jt' = p + 1
  /\ idx' = idx + 1
  /\ pc' = IF idx' < Requests + 1 THEN "place" ELSE "start"
  /\ UNCHANGED <<ntemp, chasing>>

(* "while(ntemp[jt].type != Pickup) jt++" has no bound: with no pickup     *)
(* left it reads past the end of the vector.                               *)
ScanPastEnd ==
  /\ pc = "place"
  /\ PickupsFrom(jt) = {}
  /\ pc' = "fault"
  /\ UNCHANGED <<placing, moves, chasing>>

-----------------------------------------------------------------------------
Column(m, j) == [i \in Node |-> m[i][j]]

(* With SIZE 1 there is no node 1 to begin with (lines 432-434); and a     *)
(* node that was not placed, because both ends of another pair are         *)
(* pickups, moves to -1, which is outside the vectors (lines 442-445).     *)
IndexOutside ==
  /\ pc = "start"
  /\ Requests = 0 \/ \E i \in Customers : moves[i] = NO_MOVE
  /\ pc' = "fault"
  /\ UNCHANGED <<placing, moves, chasing>>

(* Who moves to index x; defined for the customers' indices once placed.   *)
Source(x) == CHOOSE i \in Customers : moves[i] = x

(***************************************************************************)
(* Before the chase the times between the old and the new index of every   *)
(* node are put aside: they are the entries that a saved row and a saved   *)
(* column cannot both hold.                                                *)
(***************************************************************************)
StartChase ==
  /\ pc = "start"
  /\ Requests > 0 /\ \A i \in Customers : moves[i] # NO_MOVE
  /\ old' = 1
  /\ new' = moves[1]
  /\ row' = matrix[1]
  /\ col' = Column(matrix, 1)
  /\ nto' = [x \in Node |-> IF x \in Customers THEN matrix[x][Source(x)] ELSE 0]
  /\ otn' = [i \in Node |-> IF i \in Customers THEN matrix[i][moves[i]] ELSE 0]
  /\ orders' = 0
  /\ pc' = "chase"
  /\ UNCHANGED <<placing, moves, matrix>>

LoopOn_Slip(o) == IF o <= N - 1 THEN "chase" ELSE "finish"
LoopOn(o) == IF o < N - 1 THEN "chase" ELSE "finish"

(* The branch for a node that stays where it is or is already in place:    *)
(* go to the next index and save its row and column.                       *)
Advance ==
  /\ pc = "chase"
  /\ old = new \/ moves[old] = NO_MOVE
  /\ moves' = [moves EXCEPT ![old] = NO_MOVE]
  /\ orders' = IF moves[old] > 0 THEN orders + 1 ELSE orders
  /\ old' = (old + 1) % N
  /\ new' = moves'[old']
  /\ row' = matrix[old']
  /\ col' = Column(matrix, old')
  /\ pc' = LoopOn(orders')
  /\ UNCHANGED <<placing, matrix, nto, otn>>

(* matrix[new] = row; column new = col; matrix[new][new] = 0               *)
Carried_Slip(m, r, c, k) ==
  [i \in Node |-> [j \in Node |-> IF j = k THEN c[i] ELSE IF i = k THEN r[j] ELSE m[i][j]]]
Carried(m, r, c, k) ==
  [i \in Node |-> [j \in Node |->
     IF j = k THEN (IF i = k THEN 0 ELSE c[i]) ELSE IF i = k THEN r[j] ELSE m[i][j]]]

(* What is saved of line k before it is overwritten.                       *)
SavedRow_Slip(k) == matrix[k]
SavedRow(k) == [matrix[k] EXCEPT ![k] = nto[k]]
SavedCol_Slip(k, o) == [Column(matrix, k) EXCEPT ![k] = nto[k]]
SavedCol(k, o) == [Column(matrix, k) EXCEPT ![k] = otn[o]]

(* The other branch: save the line at the new index, overwrite it with the *)
(* line carried from the old index, and go on with the one just saved.     *)
Carry ==
  /\ pc = "chase"
  /\ old # new /\ moves[old] # NO_MOVE
  /\ matrix' = Carried(matrix, row, col, new)
  /\ moves' = [moves EXCEPT ![old] = NO_MOVE]
  /\ old' = new
  /\ new' = moves'[new]
  /\ row' = SavedRow(new)
  /\ col' = SavedCol(new, old)
  /\ orders' = orders + 1
  /\ pc' = LoopOn(orders')
  /\ UNCHANGED <<placing, nto, otn>>

Finish ==
  /\ pc = "finish"
  /\ nodes' = [nodes EXCEPT ![0].pair = 0]
  /\ pc' = "done"
  /\ UNCHANGED <<ntemp, idx, jt, moves, chasing>>

Next ==
  \/ Retype \/ PlaceRequest \/ ScanPastEnd \/ IndexOutside
  \/ StartChase \/ Advance \/ Carry \/ Finish

(* One thread runs the function to its end.                                *)
Spec == Init /\ [][Next]_vars /\ WF_vars(Next)
-----------------------------------------------------------------------------
PickedUp(a) == ntemp[a].demand > 0
Mate(a)     == ntemp[a].pair

Home(x) == nodes[x].home

(* The whole state stays well-formed: every index is an index.             *)
TypeOK ==
  /\ pc \in {"retype", "place", "start", "chase", "finish", "done", "fault"}
  /\ nodes \in [Node -> NodeRecord]
  /\ ntemp \in [Node -> NodeRecord]
  /\ matrix \in [Node -> [Node -> Nat]]
  /\ idx \in 1 .. Requests + 1
  /\ jt \in 1 .. N
  /\ moves \in [Node -> Customers \cup {NO_MOVE}]
  /\ old \in Node
  /\ new \in Customers \cup {NO_MOVE}
  /\ row \in [Node -> Nat]
  /\ col \in [Node -> Nat]
  /\ nto \in [Node -> Nat]
  /\ otn \in [Node -> Nat]
  /\ orders \in 0 .. N - 1

(***************************************************************************)
(* The travel times move with the nodes: when the function returns, the    *)
(* entry of two nodes is the time the router measured between the places   *)
(* they stand for, the diagonal and the depot's line included (lines       *)
(* 448-477, the in-place permutation).                                     *)
(***************************************************************************)
MatrixFollowsNodes ==
  pc = "done" => \A i, j \in Node : matrix[i][j] = Routed[Home(i)][Home(j)]

(***************************************************************************)
(* The comment of line 388: pickup i has delivery n + i, the two point to  *)
(* each other, they are the two ends of one request of the input, and the  *)
(* pickups keep their order.  The other end is a delivery if the input     *)
(* says so; with demands of a node file it is what it is.                  *)
(***************************************************************************)
PickupThenDelivery ==
  pc = "done" =>
    /\ nodes[0] = DepotNode
    /\ \A i \in 1 .. Requests :
         /\ nodes[i].demand > 0 /\ nodes[i].type = "Pickup"
         /\ nodes[i].pair = Requests + i /\ nodes[i].id = i
         /\ ntemp[Mate(Home(i))].demand = -ntemp[Home(i)].demand =>
              /\ nodes[Requests + i].demand = -nodes[i].demand
              /\ nodes[Requests + i].type = "Delivery"
         /\ nodes[Requests + i].pair = i /\ nodes[Requests + i].id = Requests + i
         /\ Home(Requests + i) = Mate(Home(i))
    /\ \A i, j \in 1 .. Requests : i < j => Home(i) < Home(j)

(***************************************************************************)
(* The function leaves its vectors (lines 402, 432-434, 443-444) only if   *)
(* there is no request at all or one that has not exactly one pickup, and  *)
(* it never returns if a request has none.  Two pickups may go well: it is *)
(* the first of them that counts if the scan gets no further.              *)
(***************************************************************************)
FaultIffNoPickup ==
  /\ pc = "fault" => Requests = 0 \/ \E a \in Customers : PickedUp(a) <=> PickedUp(Mate(a))
  /\ pc \in {"chase", "finish", "done"} => \A a \in Customers : PickedUp(a) \/ PickedUp(Mate(a))

(***************************************************************************)
(* The placement at every step (lines 401-413).  The numbers given out so  *)
(* far hold whole requests of the input, one per pickup the scan has       *)
(* passed, and moves is the inverse of the numbering: no node has been     *)
(* numbered twice or dropped, unless both ends of a request are pickups.   *)
(* Otherwise every customer is numbered after the loop.                    *)
(***************************************************************************)
InputKept ==
  /\ ntemp[0] = DepotNode
  /\ \A i \in Customers :
       /\ ntemp[i].home = i
       /\ Mate(i) \in Customers /\ Mate(i) # i /\ Mate(Mate(i)) = i
       /\ pc # "retype" => ntemp[i].type = SignType(ntemp[i].demand)

Given == 1 .. idx - 1

Numbered == {x \in Customers : x \in Given \/ x - Requests \in Given}

IsCopy(x, a, q) ==
  /\ nodes[x].home = a
  /\ nodes[x].demand = ntemp[a].demand /\ nodes[x].type = ntemp[a].type
  /\ nodes[x].pair = q /\ nodes[x].id = x

RequestAt(k) ==
  LET p == Home(k) IN
  /\ p \in Customers /\ p < jt /\ PickedUp(p)
  /\ IsCopy(k, p, k + Requests)
  /\ IsCopy(k + Requests, Mate(p), k)

RequestsPlaced ==
  /\ nodes[0] = DepotNode
  /\ \A k \in Given : RequestAt(k)
  /\ \A k, l \in Given : k < l => Home(k) < Home(l)

MovesRecorded ==
  /\ \A i \in Customers : moves[i] # NO_MOVE => moves[i] \in Numbered /\ Home(moves[i]) = i
  /\ \A x \in Numbered : moves[Home(x)] = x

(***************************************************************************)
(* If the scan meets both ends of a request, that one is numbered twice.   *)
(* Then fewer nodes have a move than numbers are given out, and in the end *)
(* one has none.                                                           *)
(***************************************************************************)
PassedBy(i) == (PickedUp(i) /\ i < jt) \/ (PickedUp(Mate(i)) /\ Mate(i) < jt)

Moved == {i \in Customers : moves[i] # NO_MOVE}

Twice == \E i \in Customers : PickedUp(i) /\ PickedUp(Mate(i)) /\ i < jt /\ Mate(i) < jt

MovesCounted ==
  /\ moves[0] = NO_MOVE
  /\ \A i \in Customers : moves[i] # NO_MOVE <=> PassedBy(i)
  /\ Cardinality(Moved) <= 2 * (idx - 1)
  /\ Twice => Cardinality(Moved) <= 2 * (idx - 2)

(* All of this, phase by phase.                                            *)
PlaceInv ==
  /\ InputKept
  /\ Twice \/ RequestsPlaced
  /\ pc = "retype" => nodes = ntemp /\ idx = 1 /\ jt = 1
  /\ pc \in {"retype", "place", "fault", "start"} => MovesCounted /\ (Twice \/ MovesRecorded)
  /\ pc = "place" => idx <= Requests
  /\ pc \in {"retype", "place", "start"} => matrix = Routed
  /\ pc \in {"start", "chase", "finish", "done"} =>
       /\ idx = Requests + 1
       /\ \/ Twice
          \/ /\ \A i \in Customers : \E x \in Customers : Home(x) = i
             /\ \A x, y \in Node : Home(x) = Home(y) => x = y
  /\ pc \in {"chase", "finish", "done"} => Requests > 0 /\ ~ Twice

(***************************************************************************)
(* The chase at every step (lines 448-477).  A node is carried once its    *)
(* move is erased.  Index x of the matrix holds the node that belongs      *)
(* there if that one has been carried, and still node x otherwise; the     *)
(* saved row and column are those of old_index, seen through the lines     *)
(* already moved; and the only line overwritten before its node was        *)
(* carried is the one that the saved row and column replace.               *)
(***************************************************************************)
CarriedNodes == {i \in Customers : moves[i] = NO_MOVE}

Held(x) == IF Home(x) \in CarriedNodes THEN Home(x) ELSE x

MatrixHolds == \A x, y \in Node : matrix[x][y] = Routed[Held(x)][Held(y)]

SavedLine ==
  moves[old] # NO_MOVE =>
    \A x \in Node : row[x] = Routed[old][Held(x)] /\ col[x] = Routed[Held(x)][old]

NothingLost == \A x \in Customers \ CarriedNodes : x # old => Home(x) \notin CarriedNodes

PutAside ==
  \A x \in Customers : nto[x] = Routed[x][Home(x)] /\ otn[Home(x)] = Routed[Home(x)][x]

(* All of this, as long as the chase lasts.                                *)
ChaseInv ==
  pc \in {"chase", "finish"} =>
    /\ MatrixHolds
    /\ SavedLine
    /\ NothingLost
    /\ PutAside
    /\ \A i \in Customers \ CarriedNodes : Home(moves[i]) = i
    /\ moves[0] = NO_MOVE
    /\ new = moves[old]
    /\ orders = Cardinality(CarriedNodes)
    /\ pc = "finish" <=> orders = N - 1

(***************************************************************************)
(* Why the chase ends, whose condition only counts the nodes carried while *)
(* old_index jumps about the vector (lines 448-477): a round that carries  *)
(* no node brings old_index closer to one that waits for it, if need be    *)
(* round the end of the vector.                                            *)
(***************************************************************************)
RoundsLeft ==
  IF \E x \in Customers \ CarriedNodes : old <= x THEN N - old ELSE 2 * N - old

(* So there are at most 2 N rounds for each node.                          *)
ChaseMovesOn ==
  [][pc = "chase" =>
       \/ pc' = "finish"
       \/ orders' > orders
       \/ orders' = orders /\ RoundsLeft' < RoundsLeft]_vars

(***************************************************************************)
(* Every call ends: the cycles of the permutation are all followed, and    *)
(* the loop leaves by its count of carried nodes (line 477).               *)
(***************************************************************************)
Terminates == <>(pc \in {"done", "fault"})

(***************************************************************************)
(* order_nodes does what Renumbering promises: until it returns its caller *)
(* sees nothing of it, and then nodes and matrix agree on a renumbering.   *)
(***************************************************************************)
Abstract == INSTANCE Renumbering WITH
  at     <- [i \in Node |-> IF pc = "done" THEN Home(i) ELSE i],
  times  <- IF pc = "done" THEN matrix ELSE Routed,
  mate   <- [a \in Customers |-> Mate(a)],
  loaded <- {a \in Customers : ntemp[a].demand > 0},
  status <- IF pc = "done" THEN "ordered" ELSE IF pc = "fault" THEN "fault" ELSE "given"

(* order_nodes implements Renumbering (lines 389-480).                     *)
ImplementsRenumbering == Abstract!Spec
=============================================================================

------------------------ MODULE TriangleRepairProofs ------------------------
(***************************************************************************)
(* The pass of triangular_inequality, for any number of locations and any  *)
(* durations.  Entries only ever fall, and they fall to the length of a    *)
(* detour: from the first fact follows what the pass achieves, from the    *)
(* second what it cannot spoil.                                            *)
(***************************************************************************)
EXTENDS TriangleRepair, WellFoundedInduction, TLAPS

USE SizeAssumption DEF Loc, Last

(* The rounds that are over: (a, b, c) comes before (i, j, k).             *)
Over(a, b, c) ==
  \/ a < i
  \/ a = i /\ b < j
  \/ a = i /\ b = j /\ c < k

(* The table bounds the matrix, and bounds it by a detour where the round  *)
(* of that detour is over.                                                 *)
Routed == pc \in {"relax", "done"}

BelowTable ==
  Routed => \A a, c \in Loc : matrix[a][c] <= Tabled(durations)[a][c]

DetoursTaken ==
  Routed =>
    \A a, b, c \in Loc :
      Over(a, b, c) => matrix[a][c] <= Tabled(durations)[a][b] + Tabled(durations)[b][c]

IndInv ==
  /\ Typed
  /\ DiagonalZero
  /\ BelowTable
  /\ DetoursTaken
  /\ pc = "table" => i = 0 /\ j = 0 /\ k = 0
  /\ pc = "done" => i = Size

-----------------------------------------------------------------------------
(* The entries of a matrix, and a matrix made of entries.                  *)
LEMMA Entries ==
  ASSUME NEW m \in [Loc -> [Loc -> Nat]]
  PROVE  \A a, b \in Loc : m[a][b] \in Nat
OBVIOUS

(* A number of minutes is a natural number.                                *)
LEMMA MinutesNat == \A s \in Int : Minutes(s) \in Nat
BY DEF Minutes

(* A table of durations becomes a matrix of minutes, 0 on the diagonal.    *)
LEMMA TabledNat ==
  ASSUME durations \in [Loc -> [Loc -> Int]]
  PROVE  /\ Tabled(durations) \in [Loc -> [Loc -> Nat]]
         /\ \A a \in Loc : Tabled(durations)[a][a] = 0
<1>1. \A a, b \in Loc : Minutes(durations[a][b]) \in Nat
  BY MinutesNat
<1>. QED  BY <1>1 DEF Tabled

(* Before the table is read the matrix is 0 everywhere.                    *)
LEMMA InitInv == Init => IndInv
<1>. SUFFICES ASSUME Init PROVE IndInv
  OBVIOUS
<1>1. PICK d \in [Pairs -> UNION {Seconds[p] : p \in Pairs}] :
        /\ \A p \in Pairs : d[p] \in Seconds[p]
        /\ durations = [a \in Loc |-> [b \in Loc |-> IF a = b THEN Trash ELSE d[<<a, b>>]]]
  BY DEF Init
<1>2. durations \in [Loc -> [Loc -> Int]]
  <2>1. ASSUME NEW a \in Loc, NEW b \in Loc, a # b
        PROVE  d[<<a, b>>] \in Int
    <3>1. <<a, b>> \in Pairs
      BY <2>1 DEF Pairs
    <3>2. d[<<a, b>>] \in Seconds[<<a, b>>] /\ Seconds[<<a, b>>] \in SUBSET Int
      BY <1>1, <3>1, SecondsAssumption
    <3>. QED  BY <3>2
  <2>. QED  BY <1>1, <2>1, SecondsAssumption
<1>. QED  BY <1>2 DEF Init, IndInv, Typed, DiagonalZero, BelowTable, DetoursTaken, Routed

(* One round: a detour is taken if it is shorter, nothing else changes.    *)
LEMMA RoundFacts ==
  ASSUME IndInv, pc = "relax"
  PROVE  /\ Shortened(matrix) \in [Loc -> [Loc -> Nat]]
         /\ \A a, c \in Loc : Shortened(matrix)[a][c] <= matrix[a][c]
         /\ \A a, c \in Loc : Shortened(matrix)[a][c] # matrix[a][c] =>
              a = i /\ c = k /\ Shortened(matrix)[a][c] = matrix[i][j] + matrix[j][k]
         /\ Shortened(matrix)[i][k] <= matrix[i][j] + matrix[j][k]
<1>1. matrix \in [Loc -> [Loc -> Nat]] /\ i \in Loc /\ j \in Loc /\ k \in Loc
  BY DEF IndInv, Typed
<1>. DEFINE sum == matrix[i][j] + matrix[j][k]
            m2  == [matrix EXCEPT ![i][k] = sum]
<1>2. sum \in Nat /\ matrix[i][k] \in Nat
  <2>1. \A a, b \in Loc : matrix[a][b] \in Nat
    BY <1>1, Entries
  <2>2. matrix[i][j] \in Nat /\ matrix[j][k] \in Nat /\ matrix[i][k] \in Nat
    BY <1>1, <2>1
  <2>. QED  BY <2>2
<1>3. /\ m2 \in [Loc -> [Loc -> Nat]] /\ m2[i][k] = sum
      /\ \A a, c \in Loc : ~(a = i /\ c = k) => m2[a][c] = matrix[a][c]
  <2>. HIDE DEF sum
  <2>. QED  BY <1>1, <1>2
<1>4. CASE sum < matrix[i][k]
  <2>1. Shortened(matrix) = m2
    BY <1>4 DEF Shortened
  <2>2. sum <= matrix[i][k] /\ sum <= sum
    BY <1>2, <1>4
  <2>3. m2[i][k] <= matrix[i][k] /\ m2[i][k] <= sum
    <3>. HIDE DEF m2, sum
    <3>. QED  BY <2>2, <1>3
  <2>4. \A a, c \in Loc : matrix[a][c] <= matrix[a][c]
    <3>1. \A a, c \in Loc : matrix[a][c] \in Nat
      BY <1>1, Entries
    <3>. QED  BY <3>1
  <2>. HIDE DEF m2, sum
  <2>5. \A a, c \in Loc : m2[a][c] <= matrix[a][c]
    BY <2>3, <2>4, <1>3, Zenon
  <2>6. \A a, c \in Loc : m2[a][c] # matrix[a][c] => a = i /\ c = k /\ m2[a][c] = sum
    BY <1>3
  <2>7. /\ m2 \in [Loc -> [Loc -> Nat]]
        /\ \A a, c \in Loc : m2[a][c] <= matrix[a][c]
        /\ \A a, c \in Loc : m2[a][c] # matrix[a][c] => a = i /\ c = k /\ m2[a][c] = sum
        /\ m2[i][k] <= sum
    BY <1>3, <2>3, <2>5, <2>6, Zenon
  <2>. QED  BY <2>1, <2>7, Zenon DEF sum
<1>5. CASE ~(sum < matrix[i][k])
  <2>1. Shortened(matrix) = matrix
    BY <1>5 DEF Shortened
  <2>2. matrix[i][k] <= sum
    BY <1>2, <1>5
  <2>3. \A a, c \in Loc : matrix[a][c] <= matrix[a][c]
    <3>1. \A a, c \in Loc : matrix[a][c] \in Nat
      BY <1>1, Entries
    <3>. QED  BY <3>1
  <2>. QED  BY <1>1, <2>1, <2>2, <2>3
<1>. QED  BY <1>4, <1>5

(* Only the round (i, j, k) is over after it that was not over before.     *)
LEMMA RoundOrder ==
  ASSUME IndInv, pc = "relax", NextRound
  PROVE  /\ i' \in 0 .. Size /\ j' \in Loc /\ k' \in Loc
         /\ pc' \in {"relax", "done"} /\ (pc' = "done" <=> i' = Size)
         /\ \A a, b, c \in Loc : Over(a, b, c)' => Over(a, b, c) \/ (a = i /\ b = j /\ c = k)
<1>1. i \in Loc /\ j \in Loc /\ k \in Loc
  BY DEF IndInv, Typed
<1>. QED  BY <1>1 DEF NextRound, Over

(* Every round keeps the invariant.                                        *)
LEMMA NextInv == IndInv /\ [Next]_vars => IndInv'
<1>. SUFFICES ASSUME IndInv, [Next]_vars PROVE IndInv'
  OBVIOUS
<1>. DEFINE T == Tabled(durations)
<1>0. T \in [Loc -> [Loc -> Nat]] /\ \A a \in Loc : T[a][a] = 0
  BY TabledNat DEF IndInv, Typed
<1>1. CASE TableRoute
  <2>1. /\ matrix' = T /\ durations' = durations /\ pc' = "relax"
        /\ i' = 0 /\ j' = 0 /\ k' = 0
    BY <1>1 DEF TableRoute, IndInv
  <2>. HIDE DEF T
  <2>2. Typed' /\ DiagonalZero'
    BY <2>1, <1>0 DEF IndInv, Typed, DiagonalZero
  <2>3. BelowTable'
    <3>0. \A a, c \in Loc : T[a][c] \in Nat
      BY <1>0, Entries
    <3>1. \A a, c \in Loc : T[a][c] <= T[a][c]
      BY <3>0
    <3>. QED  BY <2>1, <3>1 DEF BelowTable, T
  <2>4. DetoursTaken'
    <3>1. \A a, b, c \in Loc : ~Over(a, b, c)'
      BY <2>1 DEF Over
    <3>. QED  BY <3>1 DEF DetoursTaken
  <2>. QED  BY <2>1, <2>2, <2>3, <2>4 DEF IndInv
<1>2. CASE DeadEnd
  BY <1>2 DEF DeadEnd, IndInv, Typed, DiagonalZero, BelowTable, DetoursTaken, Routed
<1>3. CASE Relax
  <2>1. /\ pc = "relax" /\ matrix' = Shortened(matrix) /\ NextRound /\ durations' = durations
    BY <1>3 DEF Relax
  <2>2. /\ matrix \in [Loc -> [Loc -> Nat]] /\ i \in Loc /\ j \in Loc /\ k \in Loc
        /\ \A a, c \in Loc : matrix[a][c] <= T[a][c]
        /\ \A a \in Loc : matrix[a][a] = 0
    BY <2>1 DEF IndInv, Typed, BelowTable, DiagonalZero, Routed
  <2>3. /\ matrix' \in [Loc -> [Loc -> Nat]]
        /\ \A a, c \in Loc : matrix'[a][c] <= matrix[a][c]
        /\ \A a, c \in Loc : matrix'[a][c] # matrix[a][c] =>
             a = i /\ c = k /\ matrix'[a][c] = matrix[i][j] + matrix[j][k]
        /\ matrix'[i][k] <= matrix[i][j] + matrix[j][k]
    BY <2>1, RoundFacts
  <2>4. /\ i' \in 0 .. Size /\ j' \in Loc /\ k' \in Loc
        /\ pc' \in {"relax", "done"} /\ (pc' = "done" <=> i' = Size)
        /\ \A a, b, c \in Loc : Over(a, b, c)' => Over(a, b, c) \/ (a = i /\ b = j /\ c = k)
    BY <2>1, RoundOrder
  <2>. HIDE DEF T
  <2>5. Typed'
    <3>1. durations \in [Loc -> [Loc -> Int]]
      BY DEF IndInv, Typed
    <3>2. pc' = "relax" => i' \in Loc
      BY <2>4
    <3>. QED  BY <2>1, <2>3, <2>4, <3>1, <3>2 DEF Typed
  <2>. DEFINE m == matrix  w == matrix'
  <2>11. \A a, c \in Loc : m[a][c] \in Nat /\ w[a][c] \in Nat /\ T[a][c] \in Nat
    <3>1. \A a, c \in Loc : m[a][c] \in Nat
      BY <2>2, Entries
    <3>2. \A a, c \in Loc : w[a][c] \in Nat
      BY <2>3, Entries
    <3>3. \A a, c \in Loc : T[a][c] \in Nat
      BY <1>0, Entries
    <3>. QED  BY <3>1, <3>2, <3>3
  <2>6. DiagonalZero'
    <3>. SUFFICES ASSUME NEW a \in Loc PROVE matrix'[a][a] = 0
      BY DEF DiagonalZero
    <3>1. matrix'[a][a] \in Nat /\ matrix'[a][a] <= 0
      <4>1. matrix[a][a] = 0 /\ matrix'[a][a] <= matrix[a][a]
        BY <2>2, <2>3
      <4>2. matrix'[a][a] \in Nat
        BY <2>11
      <4>. QED  BY <4>1, <4>2
    <3>. QED  BY <3>1
  <2>7. \A a, c \in Loc : matrix'[a][c] <= T[a][c]
    <3>. TAKE a \in Loc, c \in Loc
    <3>1. /\ matrix'[a][c] \in Nat /\ matrix[a][c] \in Nat /\ T[a][c] \in Nat
          /\ matrix'[a][c] <= matrix[a][c] /\ matrix[a][c] <= T[a][c]
      BY <2>2, <2>3, <2>11
    <3>. QED  BY <3>1
  <2>8. BelowTable'
    BY <2>1, <2>7 DEF BelowTable, T
  <2>9. \A a, b, c \in Loc : Over(a, b, c)' => matrix'[a][c] <= T[a][b] + T[b][c]
    <3>. SUFFICES ASSUME NEW a \in Loc, NEW b \in Loc, NEW c \in Loc, Over(a, b, c)'
                  PROVE  matrix'[a][c] <= T[a][b] + T[b][c]
      OBVIOUS
    <3>1. /\ matrix'[a][c] \in Nat /\ matrix[a][c] \in Nat
          /\ T[a][b] \in Nat /\ T[b][c] \in Nat
          /\ matrix[a][b] \in Nat /\ matrix[b][c] \in Nat
          /\ matrix[a][b] <= T[a][b] /\ matrix[b][c] <= T[b][c]
          /\ matrix'[a][c] <= matrix[a][c]
      BY <2>2, <2>3, <2>11
    <3>2. CASE Over(a, b, c)
      <4>1. matrix[a][c] <= T[a][b] + T[b][c]
        BY <2>1, <3>2 DEF IndInv, DetoursTaken, Routed, T
      <4>. QED  BY <3>1, <4>1
    <3>3. CASE a = i /\ b = j /\ c = k
      <4>1. matrix'[a][c] <= matrix[a][b] + matrix[b][c]
        BY <2>3, <3>3
      <4>. QED  BY <3>1, <4>1
    <3>. QED  BY <2>4, <3>2, <3>3
  <2>10. DetoursTaken'
    BY <2>1, <2>9 DEF DetoursTaken, T
  <2>. QED  BY <2>4, <2>5, <2>6, <2>8, <2>10 DEF IndInv
<1>4. CASE UNCHANGED vars
  BY <1>4 DEF vars, IndInv, Typed, DiagonalZero, BelowTable, DetoursTaken, Routed, Over
<1>. QED  BY <1>1, <1>2, <1>3, <1>4 DEF Next

(* The invariant holds throughout.                                         *)
THEOREM Invariance == Spec => []IndInv
BY InitInv, NextInv, PTL DEF Spec

(***************************************************************************)
(* The counters, the table and the matrix are always well-formed, and the  *)
(* diagonal is 0 at every step, whatever OSRM answers for it: what         *)
(* order_nodes assumes of the matrix it permutes.                          *)
(***************************************************************************)
THEOREM TypeCorrect == Spec => []TypeOK
<1>1. IndInv => TypeOK
  BY DEF IndInv, TypeOK
<1>. QED  BY <1>1, Invariance, PTL

(***************************************************************************)
(* After the pass no entry is beaten by a detour through one other         *)
(* location of the table, for any number of locations.                     *)
(***************************************************************************)
THEOREM TwoLegsCorrect == Spec => []TwoLegsRepaired
<1>1. IndInv => TwoLegsRepaired
  <2>. SUFFICES ASSUME IndInv, pc = "done" PROVE TwoLegsRepaired
    BY DEF TwoLegsRepaired
  <2>1. \A a, b, c \in Loc : Over(a, b, c)
    BY DEF IndInv, Over
  <2>. QED  BY <2>1 DEF IndInv, DetoursTaken, Routed, TwoLegsRepaired
<1>. QED  BY <1>1, Invariance, PTL

(* One round takes no entry below a matrix without shortcuts.              *)
LEMMA StaysAbove ==
  ASSUME NEW D \in [Loc -> [Loc -> Nat]], TriangleInequality(D),
         IndInv, [Next]_vars,
         \A a, b \in Loc : D[a][b] <= Tabled(durations)[a][b],
         Routed => \A a, b \in Loc : D[a][b] <= matrix[a][b]
  PROVE  Routed' => \A a, b \in Loc : D[a][b] <= matrix'[a][b]
<1>1. CASE TableRoute
  BY <1>1 DEF TableRoute
<1>2. CASE DeadEnd
  BY <1>2 DEF DeadEnd, Routed
<1>3. CASE Relax
  <2>1. pc = "relax" /\ matrix' = Shortened(matrix)
    BY <1>3 DEF Relax
  <2>2. \A a, b \in Loc : D[a][b] <= matrix[a][b] /\ D[a][b] \in Nat /\ matrix[a][b] \in Nat
    BY <2>1, Entries DEF Routed, IndInv, Typed
  <2>3. i \in Loc /\ j \in Loc /\ k \in Loc
    BY <2>1 DEF IndInv, Typed
  <2>4. ASSUME NEW a \in Loc, NEW b \in Loc PROVE D[a][b] <= matrix'[a][b]
    <3>1. CASE matrix'[a][b] = matrix[a][b]
      BY <3>1, <2>2
    <3>2. CASE matrix'[a][b] # matrix[a][b]
      <4>1. a = i /\ b = k /\ matrix'[a][b] = matrix[i][j] + matrix[j][k]
        BY <3>2, <2>1, RoundFacts
      <4>2. D[i][k] <= D[i][j] + D[j][k]
        BY <2>3 DEF TriangleInequality
      <4>3. /\ D[i][j] <= matrix[i][j] /\ D[j][k] <= matrix[j][k]
            /\ D[i][j] \in Nat /\ D[j][k] \in Nat /\ D[i][k] \in Nat
            /\ matrix[i][j] \in Nat /\ matrix[j][k] \in Nat
        BY <2>2, <2>3
      <4>. DEFINE p == D[i][j]  q == D[j][k]  r == D[i][k]  u == matrix[i][j]  v == matrix[j][k]
      <4>4. r <= u + v
        <5>1. /\ p \in Nat /\ q \in Nat /\ r \in Nat /\ u \in Nat /\ v \in Nat
              /\ p <= u /\ q <= v /\ r <= p + q
          BY <4>2, <4>3
        <5>. HIDE DEF p, q, r, u, v
        <5>. QED  BY <5>1
      <4>. QED  BY <4>1, <4>4
    <3>. QED  BY <3>1, <3>2
  <2>. QED  BY <2>4
<1>4. CASE UNCHANGED vars
  BY <1>4 DEF vars, Routed
<1>. QED  BY <1>1, <1>2, <1>3, <1>4 DEF Next

(***************************************************************************)
(* The pass invents no shortcut: whatever respects the triangular          *)
(* inequality and stays below the table stays below the result, the        *)
(* shortest travel times in particular.  In consequence a table that       *)
(* needs no correction gets none.                                          *)
(***************************************************************************)
THEOREM NoShortcutInvented ==
  ASSUME NEW D \in [Loc -> [Loc -> Nat]], TriangleInequality(D)
  PROVE  Spec /\ [](\A a, b \in Loc : D[a][b] <= Tabled(durations)[a][b])
           => [](Routed => \A a, b \in Loc : D[a][b] <= matrix[a][b])
<1>1. Init => (Routed => \A a, b \in Loc : D[a][b] <= matrix[a][b])
  BY DEF Init, Routed
<1>2. /\ IndInv /\ [Next]_vars
      /\ \A a, b \in Loc : D[a][b] <= Tabled(durations)[a][b]
      /\ Routed => \A a, b \in Loc : D[a][b] <= matrix[a][b]
      => (Routed => \A a, b \in Loc : D[a][b] <= matrix[a][b])'
  BY StaysAbove
<1>. QED  BY <1>1, <1>2, Invariance, PTL DEF Spec

-----------------------------------------------------------------------------
(***************************************************************************)
(* The shortest routes.  That Floyd and Warshall find them is an induction *)
(* over the intermediate locations; so is that the recursive function is   *)
(* one.  Either way a least counterexample is led to a contradiction.      *)
(***************************************************************************)
Matrix == [Loc -> [Loc -> Nat]]

(* A set of natural numbers has a least element.                           *)
LEMMA LeastNat ==
  ASSUME NEW S, S \subseteq Nat, S # {}
  PROVE  \E m \in S : \A x \in S : m <= x
<1>. DEFINE R == OpToRel(<, Nat)
<1>1. IsWellFoundedOn(R, Nat)
  BY NatLessThanWellFounded
<1>. HIDE DEF R
<1>2. PICK m \in S : \A x \in S : <<x, m>> \notin R
  BY <1>1, WFMin, Zenon
<1>3. \A x \in S : m <= x
  <2>1. \A x, y \in Nat : x < y => <<x, y>> \in R
    BY DEF R, OpToRel
  <2>. TAKE x \in S
  <2>2. x \in Nat /\ m \in Nat
    OBVIOUS
  <2>3. ~(x < m)
    BY <2>1, <2>2, <1>2, Zenon
  <2>. QED  BY <2>2, <2>3
<1>. QED  BY <1>3

(* One more intermediate location leaves a matrix.                         *)
LEMMA ThroughNat ==
  ASSUME NEW w \in Matrix, NEW h \in Loc
  PROVE  Through(w, h) \in Matrix
<1>1. \A a, b \in Loc : w[a][b] \in Nat
  BY Entries DEF Matrix
<1>2. \A a, b \in Loc : (IF w[a][h] + w[h][b] < w[a][b] THEN w[a][h] + w[h][b] ELSE w[a][b]) \in Nat
  BY <1>1
<1>. QED  BY <1>2 DEF Through, Matrix

(* One more intermediate location: the entries fall, and none is beaten by *)
(* a detour through it or through an earlier one.                          *)
LEMMA ThroughKeeps ==
  ASSUME NEW w \in Matrix, NEW h \in Loc, \A a \in Loc : w[a][a] = 0,
         \A a, b, c \in Loc : c < h => w[a][b] <= w[a][c] + w[c][b]
  PROVE  /\ Through(w, h) \in Matrix
         /\ \A a \in Loc : Through(w, h)[a][a] = 0
         /\ \A a, b \in Loc : Through(w, h)[a][b] <= w[a][b]
         /\ \A a, b, c \in Loc : c < h + 1 =>
              Through(w, h)[a][b] <= Through(w, h)[a][c] + Through(w, h)[c][b]
<1>. DEFINE v == Through(w, h)
<1>1. \A a, b \in Loc : w[a][b] \in Nat
  BY Entries DEF Matrix
<1>2. \A a, b \in Loc : v[a][b] = IF w[a][h] + w[h][b] < w[a][b] THEN w[a][h] + w[h][b] ELSE w[a][b]
  BY DEF Through
<1>3. v \in Matrix
  BY ThroughNat
<1>. HIDE DEF v
<1>4. \A a, b \in Loc : v[a][b] \in Nat /\ v[a][b] <= w[a][b] /\ v[a][b] <= w[a][h] + w[h][b]
                       /\ (v[a][b] = w[a][b] \/ v[a][b] = w[a][h] + w[h][b])
  <2>. TAKE a \in Loc, b \in Loc
  <2>. DEFINE p == w[a][b]  q == w[a][h]  r == w[h][b]
  <2>1. p \in Nat /\ q \in Nat /\ r \in Nat /\ v[a][b] = IF q + r < p THEN q + r ELSE p
    BY <1>1, <1>2
  <2>. HIDE DEF p, q, r
  <2>2. v[a][b] \in Nat /\ v[a][b] <= p /\ v[a][b] <= q + r /\ (v[a][b] = p \/ v[a][b] = q + r)
    BY <2>1
  <2>. QED  BY <2>2 DEF p, q, r
<1>5. ASSUME NEW a \in Loc PROVE v[a][a] = 0
  <2>1. v[a][a] \in Nat /\ v[a][a] <= w[a][a] /\ w[a][a] = 0
    BY <1>4
  <2>. QED  BY <2>1
<1>6. ASSUME NEW a \in Loc PROVE v[a][h] = w[a][h] /\ v[h][a] = w[h][a]
  <2>1. w[h][h] = 0 /\ w[a][h] \in Nat /\ w[h][a] \in Nat
    BY <1>1
  <2>2. v[a][h] = w[a][h] \/ v[a][h] = w[a][h] + w[h][h]
    BY <1>4
  <2>3. v[h][a] = w[h][a] \/ v[h][a] = w[h][h] + w[h][a]
    BY <1>4
  <2>. QED  BY <2>1, <2>2, <2>3
<1>7. ASSUME NEW a \in Loc, NEW b \in Loc, NEW c \in Loc, c < h + 1
      PROVE  v[a][b] <= v[a][c] + v[c][b]
  <2>1. CASE c = h
    BY <2>1, <1>4, <1>6
  <2>2. CASE c # h
    <3>. DEFINE ab == w[a][b]  ac == w[a][c]  cb == w[c][b]
                ah == w[a][h]  hb == w[h][b]  hc == w[h][c]  ch == w[c][h]
    <3>0. c < h
      BY <2>2, <1>7
    <3>1. ab <= ac + cb /\ hb <= hc + cb /\ ah <= ac + ch
      BY <3>0
    <3>2. /\ ab \in Nat /\ ac \in Nat /\ cb \in Nat
          /\ ah \in Nat /\ hb \in Nat /\ hc \in Nat /\ ch \in Nat
      BY <1>1
    <3>3. v[a][b] \in Nat /\ v[a][b] <= ab /\ v[a][b] <= ah + hb
      BY <1>4
    <3>4. v[a][c] = ac \/ v[a][c] = ah + hc
      BY <1>4
    <3>5. v[c][b] = cb \/ v[c][b] = ch + hb
      BY <1>4
    <3>. HIDE DEF ab, ac, cb, ah, hb, hc, ch
    <3>6. CASE v[a][c] = ac /\ v[c][b] = cb
      BY <3>6, <3>1, <3>2, <3>3
    <3>7. CASE v[a][c] = ah + hc /\ v[c][b] = cb
      BY <3>7, <3>1, <3>2, <3>3
    <3>8. CASE v[a][c] = ac /\ v[c][b] = ch + hb
      BY <3>8, <3>1, <3>2, <3>3
    <3>9. CASE v[a][c] = ah + hc /\ v[c][b] = ch + hb
      BY <3>9, <3>1, <3>2, <3>3
    <3>. QED  BY <3>4, <3>5, <3>6, <3>7, <3>8, <3>9
  <2>. QED  BY <2>1, <2>2
<1>. QED  BY <1>3, <1>4, <1>5, <1>7 DEF v

(* The matrices of Floyd and Warshall, of the first intermediate locations *)
(* up to any bound, exist.                                                 *)
Rounds(w, m, f) == f = [h \in 0 .. w |-> IF h = 0 THEN m ELSE Through(f[h - 1], h - 1)]

(* With one more round they still do.                                      *)
LEMMA RoundsExist == \A m : \A w \in Nat : \E f : Rounds(w, m, f)
<1>. TAKE m
<1>. DEFINE Bad == {w \in Nat : ~ \E f : Rounds(w, m, f)}
<1>. SUFFICES ASSUME Bad # {} PROVE FALSE
  OBVIOUS
<1>1. PICK w \in Bad : \A x \in Bad : w <= x
  <2>1. Bad \subseteq Nat
    OBVIOUS
  <2>. HIDE DEF Bad
  <2>. QED  BY <2>1, LeastNat
<1>2. w \in Nat
  OBVIOUS
<1>3. CASE w = 0
  <2>. DEFINE f == [h \in 0 .. 0 |-> m]
  <2>1. f = [h \in 0 .. 0 |-> IF h = 0 THEN m ELSE Through(f[h - 1], h - 1)]
    OBVIOUS
  <2>. HIDE DEF f
  <2>2. Rounds(0, m, f)
    BY <2>1 DEF Rounds
  <2>. QED  BY <2>2, <1>3
<1>4. CASE w # 0
  <2>1. w - 1 \in Nat /\ ~(w <= w - 1)
    BY <1>2, <1>4
  <2>2. w - 1 \notin Bad
    <3>. HIDE DEF Bad
    <3>. QED  BY <2>1, <1>1
  <2>3. PICK g : Rounds(w - 1, m, g)
    BY <2>1, <2>2
  <2>. DEFINE f == [h \in 0 .. w |-> IF h = w THEN Through(g[w - 1], w - 1) ELSE g[h]]
              Round(h) == IF h = 0 THEN m ELSE Through(f[h - 1], h - 1)
  <2>4. \A h \in 0 .. w - 1 : g[h] = IF h = 0 THEN m ELSE Through(g[h - 1], h - 1)
    BY <2>3 DEF Rounds
  <2>5. ASSUME NEW h \in 0 .. w PROVE f[h] = Round(h)
    <3>1. CASE h = w
      <4>1. w - 1 \in 0 .. w /\ w - 1 # w /\ h # 0
        BY <2>1, <3>1, <1>2, <1>4
      <4>2. f[w - 1] = g[w - 1]
        BY <4>1
      <4>. QED  BY <3>1, <4>1, <4>2
    <3>2. CASE h # w /\ h = 0
      <4>1. 0 \in 0 .. w - 1
        BY <2>1
      <4>. QED  BY <3>2, <4>1, <2>4
    <3>3. CASE h # w /\ h # 0
      <4>1. h \in 0 .. w - 1 /\ h - 1 \in 0 .. w /\ h - 1 # w
        BY <3>3, <1>2
      <4>2. f[h - 1] = g[h - 1] /\ f[h] = g[h]
        BY <4>1, <3>3
      <4>. QED  BY <3>3, <4>1, <4>2, <2>4
    <3>. QED  BY <3>1, <3>2, <3>3
  <2>6. f = [h \in 0 .. w |-> f[h]]
    OBVIOUS
  <2>7. f = [h \in 0 .. w |-> Round(h)]
    <3>. HIDE DEF f, Round
    <3>. QED  BY <2>5, <2>6
  <2>. HIDE DEF f
  <2>8. Rounds(w, m, f)
    BY <2>7 DEF Rounds
  <2>. QED  BY <2>8
<1>. QED  BY <1>3, <1>4

(* So the shortest routes are the last of them.                            *)
LEMMA ShortestRounds ==
  ASSUME NEW m
  PROVE  \E f : Rounds(Size, m, f) /\ Shortest(m) = f[Size]
<1>. DEFINE W == CHOOSE f : f = [h \in 0 .. Size |-> IF h = 0 THEN m ELSE Through(f[h - 1], h - 1)]
<1>1. Shortest(m) = W[Size]
  BY DEF Shortest
<1>2. \E f : f = [h \in 0 .. Size |-> IF h = 0 THEN m ELSE Through(f[h - 1], h - 1)]
  <2>1. Size \in Nat
    OBVIOUS
  <2>2. PICK f : Rounds(Size, m, f)
    BY <2>1, RoundsExist
  <2>3. f = [h \in 0 .. Size |-> IF h = 0 THEN m ELSE Through(f[h - 1], h - 1)]
    BY <2>2 DEF Rounds
  <2>. QED  BY <2>3, Zenon
<1>3. W = [h \in 0 .. Size |-> IF h = 0 THEN m ELSE Through(W[h - 1], h - 1)]
  BY <1>2, Zenon
<1>. HIDE DEF W
<1>. QED  BY <1>1, <1>3 DEF Rounds

(* They stay below the table and satisfy the triangular inequality.        *)
LEMMA ShortestFacts ==
  ASSUME NEW m \in Matrix, \A a \in Loc : m[a][a] = 0
  PROVE  /\ Shortest(m) \in Matrix
         /\ TriangleInequality(Shortest(m))
         /\ \A a, b \in Loc : Shortest(m)[a][b] <= m[a][b]
<1>1. PICK f : Rounds(Size, m, f) /\ Shortest(m) = f[Size]
  BY ShortestRounds
<1>2. \A h \in 0 .. Size : f[h] = IF h = 0 THEN m ELSE Through(f[h - 1], h - 1)
  BY <1>1 DEF Rounds
<1>. DEFINE Fine(h) ==
       /\ f[h] \in Matrix
       /\ \A a \in Loc : f[h][a][a] = 0
       /\ \A a, b \in Loc : f[h][a][b] <= m[a][b]
       /\ \A a, b, c \in Loc : c < h => f[h][a][b] <= f[h][a][c] + f[h][c][b]
     Bad == {h \in 0 .. Size : ~Fine(h)}
<1>3. ASSUME Bad # {} PROVE FALSE
  <2>1. PICK h \in Bad : \A x \in Bad : h <= x
    <3>1. Bad \subseteq Nat
      OBVIOUS
    <3>. HIDE DEF Bad
    <3>. QED  BY <3>1, <1>3, LeastNat
  <2>2. h \in 0 .. Size /\ ~Fine(h)
    OBVIOUS
  <2>3. CASE h = 0
    <3>1. f[h] = m
      BY <2>2, <2>3, <1>2
    <3>2. \A a, b \in Loc : m[a][b] \in Nat
      BY Entries DEF Matrix
    <3>3. \A a, b \in Loc : m[a][b] <= m[a][b]
      BY <3>2
    <3>4. \A c \in Loc : ~(c < 0)
      OBVIOUS
    <3>. QED  BY <2>2, <2>3, <3>1, <3>3, <3>4
  <2>4. CASE h # 0
    <3>. DEFINE e == h - 1
    <3>1. e \in Loc /\ e \in 0 .. Size /\ ~(h <= e) /\ e + 1 = h
      BY <2>2, <2>4
    <3>2. f[h] = Through(f[e], e)
      BY <2>2, <2>4, <1>2
    <3>. HIDE DEF e
    <3>3. Fine(e)
      <4>1. e \notin Bad
        <5>. HIDE DEF Bad
        <5>. QED  BY <2>1, <3>1
      <4>. HIDE DEF Fine
      <4>. QED  BY <4>1, <3>1
    <3>4. /\ f[h] \in Matrix
          /\ \A a \in Loc : f[h][a][a] = 0
          /\ \A a, b \in Loc : f[h][a][b] <= f[e][a][b]
          /\ \A a, b, c \in Loc : c < e + 1 => f[h][a][b] <= f[h][a][c] + f[h][c][b]
      <4>1. f[e] \in Matrix /\ (\A a \in Loc : f[e][a][a] = 0)
            /\ \A a, b, c \in Loc : c < e => f[e][a][b] <= f[e][a][c] + f[e][c][b]
        BY <3>3
      <4>2. /\ Through(f[e], e) \in Matrix
            /\ \A a \in Loc : Through(f[e], e)[a][a] = 0
            /\ \A a, b \in Loc : Through(f[e], e)[a][b] <= f[e][a][b]
            /\ \A a, b, c \in Loc : c < e + 1 =>
                 Through(f[e], e)[a][b] <= Through(f[e], e)[a][c] + Through(f[e], e)[c][b]
        BY <4>1, <3>1, ThroughKeeps
      <4>. QED  BY <4>2, <3>2, Zenon
    <3>5. ASSUME NEW a \in Loc, NEW b \in Loc PROVE f[h][a][b] <= m[a][b]
      <4>1. f[h][a][b] <= f[e][a][b] /\ f[e][a][b] <= m[a][b]
        BY <3>3, <3>4
      <4>2. f[h][a][b] \in Nat /\ f[e][a][b] \in Nat /\ m[a][b] \in Nat
        BY <3>3, <3>4, Entries DEF Matrix
      <4>. QED  BY <4>1, <4>2
    <3>6. Fine(h)
      BY <3>1, <3>4, <3>5, Zenon
    <3>. HIDE DEF Fine
    <3>. QED  BY <3>6, <2>2
  <2>. QED  BY <2>3, <2>4
<1>4. Fine(Size)
  <2>1. Size \in 0 .. Size /\ Size \notin Bad
    BY <1>3
  <2>. HIDE DEF Fine
  <2>. QED  BY <2>1
<1>5. \A c \in Loc : c < Size
  OBVIOUS
<1>. QED  BY <1>1, <1>4, <1>5 DEF TriangleInequality

(***************************************************************************)
(* They are the shortest: whatever respects the triangular inequality and  *)
(* stays below a table stays below what Floyd and Warshall make of it.     *)
(***************************************************************************)
THEOREM ShortestIsGreatest ==
  ASSUME NEW m \in Matrix, NEW D \in Matrix, TriangleInequality(D),
         \A a, b \in Loc : D[a][b] <= m[a][b], \A a \in Loc : m[a][a] = 0
  PROVE  \A a, b \in Loc : D[a][b] <= Shortest(m)[a][b]
<1>1. PICK f : Rounds(Size, m, f) /\ Shortest(m) = f[Size]
  BY ShortestRounds
<1>2. \A h \in 0 .. Size : f[h] = IF h = 0 THEN m ELSE Through(f[h - 1], h - 1)
  BY <1>1 DEF Rounds
<1>. DEFINE Above(h) == f[h] \in Matrix /\ \A a, b \in Loc : D[a][b] <= f[h][a][b]
            Bad == {h \in 0 .. Size : ~Above(h)}
<1>3. ASSUME Bad # {} PROVE FALSE
  <2>1. PICK h \in Bad : \A x \in Bad : h <= x
    <3>1. Bad \subseteq Nat
      OBVIOUS
    <3>. HIDE DEF Bad
    <3>. QED  BY <3>1, <1>3, LeastNat
  <2>2. h \in 0 .. Size /\ ~Above(h)
    OBVIOUS
  <2>3. CASE h = 0
    BY <2>2, <2>3, <1>2
  <2>4. CASE h # 0
    <3>. DEFINE e == h - 1
    <3>1. e \in Loc /\ e \in 0 .. Size /\ ~(h <= e)
      BY <2>2, <2>4
    <3>2. f[h] = Through(f[e], e)
      BY <2>2, <2>4, <1>2
    <3>. HIDE DEF e
    <3>3. Above(e)
      <4>1. e \notin Bad
        <5>. HIDE DEF Bad
        <5>. QED  BY <2>1, <3>1
      <4>. HIDE DEF Above
      <4>. QED  BY <4>1, <3>1
    <3>4. \A a, b \in Loc : f[e][a][b] \in Nat /\ D[a][b] \in Nat
      BY <3>3, Entries DEF Matrix
    <3>5. \A a, b \in Loc : f[h][a][b] =
            IF f[e][a][e] + f[e][e][b] < f[e][a][b] THEN f[e][a][e] + f[e][e][b] ELSE f[e][a][b]
      BY <3>2 DEF Through
    <3>6. f[h] \in Matrix
      <4>1. f[e] \in Matrix
        BY <3>3
      <4>. QED  BY <4>1, <3>1, <3>2, ThroughNat
    <3>7. ASSUME NEW a \in Loc, NEW b \in Loc PROVE D[a][b] <= f[h][a][b]
      <4>. DEFINE p == f[e][a][b]  q == f[e][a][e]  r == f[e][e][b]
                  dp == D[a][b]  dq == D[a][e]  dr == D[e][b]
      <4>1. /\ p \in Nat /\ q \in Nat /\ r \in Nat /\ dp \in Nat /\ dq \in Nat /\ dr \in Nat
            /\ dp <= p /\ dq <= q /\ dr <= r
        BY <3>1, <3>3, <3>4
      <4>2. dp <= dq + dr
        BY <3>1 DEF TriangleInequality
      <4>3. f[h][a][b] = IF q + r < p THEN q + r ELSE p
        BY <3>5
      <4>. HIDE DEF p, q, r, dp, dq, dr
      <4>4. dp <= f[h][a][b]
        BY <4>1, <4>2, <4>3
      <4>. QED  BY <4>4 DEF dp
    <3>8. Above(h)
      BY <3>6, <3>7
    <3>. HIDE DEF Above
    <3>. QED  BY <3>8, <2>2
  <2>. QED  BY <2>3, <2>4
<1>4. Size \in 0 .. Size /\ Size \notin Bad
  BY <1>3
<1>. QED  BY <1>1, <1>4

(* The durations OSRM answered stay what they are.                         *)
LEMMA DurationsStay == [Next]_vars => durations' = durations
BY DEF Next, vars, TableRoute, DeadEnd, Relax

(* Rounding up keeps the order, and a detour of two legs as long.          *)
LEMMA MinutesUp ==
  /\ \A s \in Nat : s <= 60 * Minutes(s)
  /\ \A s, t \in Int : s <= t => Minutes(s) <= Minutes(t)
  /\ \A s, t \in Nat : Minutes(s + t) <= Minutes(s) + Minutes(t)
BY DEF Minutes

(* The shortest routes of the answer, in minutes.                          *)
LEMMA ShortestMinutes ==
  ASSUME durations \in [Loc -> [Loc -> Int]]
  PROVE  LET S == Shortest(InSeconds(durations))
             D == [a \in Loc |-> [b \in Loc |-> Minutes(S[a][b])]]
         IN  /\ S \in Matrix /\ D \in Matrix
             /\ TriangleInequality(D)
             /\ \A a, b \in Loc : D[a][b] <= Tabled(durations)[a][b]
             /\ \A a, b \in Loc : S[a][b] <= 60 * D[a][b]
<1>. DEFINE s == InSeconds(durations)
            S == Shortest(s)
            D == [a \in Loc |-> [b \in Loc |-> Minutes(S[a][b])]]
<1>1. s \in Matrix /\ \A a \in Loc : s[a][a] = 0
  <2>. DEFINE t(a, b) == IF a = b \/ durations[a][b] < 0 THEN 0 ELSE durations[a][b]
  <2>1. ASSUME NEW a \in Loc, NEW b \in Loc PROVE t(a, b) \in Nat
    <3>1. durations[a][b] \in Int
      OBVIOUS
    <3>. QED  BY <3>1
  <2>2. \A a \in Loc : t(a, a) = 0
    OBVIOUS
  <2>3. s = [a \in Loc |-> [b \in Loc |-> t(a, b)]]
    BY DEF InSeconds
  <2>. HIDE DEF s, S, D, t
  <2>. QED  BY <2>1, <2>2, <2>3 DEF Matrix
<1>2. /\ S \in Matrix /\ TriangleInequality(S)
      /\ \A a, b \in Loc : S[a][b] <= s[a][b]
  <2>. HIDE DEF s
  <2>. QED  BY <1>1, ShortestFacts
<1>3. \A a, b \in Loc : s[a][b] = IF a = b \/ durations[a][b] < 0 THEN 0 ELSE durations[a][b]
  BY DEF InSeconds
<1>4. \A a, b \in Loc : Tabled(durations)[a][b] = IF a = b THEN 0 ELSE Minutes(durations[a][b])
  BY DEF Tabled
<1>. HIDE DEF S, s
<1>5. \A a, b \in Loc : S[a][b] \in Nat
  BY <1>2, Entries DEF Matrix
<1>6. D \in Matrix /\ \A a, b \in Loc : D[a][b] = Minutes(S[a][b]) /\ D[a][b] \in Nat
  <2>1. ASSUME NEW a \in Loc, NEW b \in Loc PROVE Minutes(S[a][b]) \in Nat
    <3>1. S[a][b] \in Int
      BY <1>5
    <3>. QED  BY <3>1, MinutesNat
  <2>2. D \in Matrix
    BY <2>1 DEF Matrix
  <2>3. \A a, b \in Loc : D[a][b] = Minutes(S[a][b])
    OBVIOUS
  <2>. HIDE DEF D
  <2>. QED  BY <2>1, <2>2, <2>3
<1>. HIDE DEF D
<1>7. ASSUME NEW a \in Loc, NEW b \in Loc, NEW c \in Loc
      PROVE  D[a][c] <= D[a][b] + D[b][c]
  <2>. DEFINE x == S[a][b]  y == S[b][c]  z == S[a][c]
  <2>1. x \in Nat /\ y \in Nat /\ z \in Nat /\ z <= x + y
    BY <1>2, <1>5 DEF TriangleInequality
  <2>2. D[a][b] = Minutes(x) /\ D[b][c] = Minutes(y) /\ D[a][c] = Minutes(z)
    BY <1>6
  <2>. HIDE DEF x, y, z
  <2>3. Minutes(z) <= Minutes(x) + Minutes(y)
    BY <2>1 DEF Minutes
  <2>. QED  BY <2>2, <2>3
<1>8. ASSUME NEW a \in Loc, NEW b \in Loc PROVE D[a][b] <= Tabled(durations)[a][b]
  <2>. DEFINE x == S[a][b]  d == durations[a][b]
  <2>1. x \in Nat /\ d \in Int /\ x <= (IF a = b \/ d < 0 THEN 0 ELSE d)
    BY <1>2, <1>3, <1>5
  <2>2. /\ D[a][b] = Minutes(x)
        /\ Tabled(durations)[a][b] = IF a = b THEN 0 ELSE Minutes(d)
    BY <1>4, <1>6
  <2>. HIDE DEF x, d
  <2>3. Minutes(x) <= IF a = b THEN 0 ELSE Minutes(d)
    BY <2>1 DEF Minutes
  <2>. QED  BY <2>2, <2>3
<1>9. ASSUME NEW a \in Loc, NEW b \in Loc PROVE S[a][b] <= 60 * D[a][b]
  BY <1>5, <1>6, MinutesUp
<1>. QED  BY <1>2, <1>6, <1>7, <1>8, <1>9 DEF TriangleInequality, S, D, s

(***************************************************************************)
(* No travel time is below the shortest route through OSRM's answer in     *)
(* seconds, for any number of locations and any answer: the rounding is    *)
(* upwards (line 72), and the pass (lines 41-47) shortens an entry by a    *)
(* detour only.                                                            *)
(***************************************************************************)
THEOREM NeverBelowCorrect == Spec => []NeverBelowShortest
<1>. DEFINE S == Shortest(InSeconds(durations))
            D == [a \in Loc |-> [b \in Loc |-> Minutes(S[a][b])]]
            Above == Routed => \A a, b \in Loc : D[a][b] <= matrix[a][b]
<1>1. Init => Above
  BY DEF Init, Routed
<1>2. IndInv /\ Above /\ [Next]_vars => Above'
  <2>. SUFFICES ASSUME IndInv, Above, [Next]_vars PROVE Above'
    OBVIOUS
  <2>1. D \in Matrix /\ TriangleInequality(D)
        /\ \A a, b \in Loc : D[a][b] <= Tabled(durations)[a][b]
    BY ShortestMinutes DEF IndInv, Typed
  <2>2. D' = D
    <3>1. InSeconds(durations') = InSeconds(durations)
      BY DurationsStay, Zenon
    <3>2. S' = Shortest(InSeconds(durations'))
      OBVIOUS
    <3>3. S' = S
      BY <3>1, <3>2, Zenon
    <3>. HIDE DEF S
    <3>. QED  BY <3>3
  <2>. HIDE DEF D
  <2>3. Routed' => \A a, b \in Loc : D[a][b] <= matrix'[a][b]
    BY <2>1, StaysAbove DEF Matrix
  <2>. QED  BY <2>2, <2>3
<1>3. IndInv /\ Above => NeverBelowShortest
  <2>. SUFFICES ASSUME IndInv, Above, pc = "done", NEW a \in Loc, NEW b \in Loc
                PROVE  S[a][b] <= 60 * matrix[a][b]
    BY DEF NeverBelowShortest
  <2>1. /\ S \in Matrix /\ D \in Matrix /\ S[a][b] <= 60 * D[a][b]
    BY ShortestMinutes DEF IndInv, Typed
  <2>2. D[a][b] <= matrix[a][b]
    BY DEF Routed
  <2>3. matrix \in [Loc -> [Loc -> Nat]]
    BY DEF IndInv, Typed
  <2>. HIDE DEF D, S
  <2>4. S[a][b] \in Nat /\ D[a][b] \in Nat /\ matrix[a][b] \in Nat
    BY <2>1, <2>3, Entries DEF Matrix
  <2>. QED  BY <2>1, <2>2, <2>4
<1>. HIDE DEF Above
<1>. QED  BY <1>1, <1>2, <1>3, Invariance, PTL DEF Spec

(***************************************************************************)
(* Where there is no inconsistency there is nothing to correct: a table    *)
(* that satisfies the triangular inequality is what the pass returns, so   *)
(* that the proviso of FullTimeWindows holds for it (lines 39-47).         *)
(***************************************************************************)
THEOREM ConsistentUntouched ==
  Spec => [](pc = "done" /\ TriangleInequality(Tabled(durations))
               => matrix = Tabled(durations) /\ TriangleInequality(matrix))
<1>. DEFINE T == Tabled(durations)
            Above == Routed /\ TriangleInequality(T) => \A a, b \in Loc : T[a][b] <= matrix[a][b]
            Kept == pc = "done" /\ TriangleInequality(T) => matrix = T /\ TriangleInequality(matrix)
<1>1. Init => Above
  BY DEF Init, Routed
<1>2. IndInv /\ Above /\ [Next]_vars => Above'
  <2>. SUFFICES ASSUME IndInv, Above, [Next]_vars PROVE Above'
    OBVIOUS
  <2>1. T \in [Loc -> [Loc -> Nat]]
    BY TabledNat DEF IndInv, Typed
  <2>2. T' = T
    <3>1. Tabled(durations') = Tabled(durations)
      BY DurationsStay, Zenon
    <3>2. T' = Tabled(durations')
      OBVIOUS
    <3>. QED  BY <3>1, <3>2, Zenon
  <2>3. ASSUME Routed', TriangleInequality(T) PROVE \A a, b \in Loc : T[a][b] <= matrix'[a][b]
    <3>1. \A a, b \in Loc : T[a][b] \in Nat
      BY <2>1, Entries
    <3>2. \A a, b \in Loc : T[a][b] <= Tabled(durations)[a][b]
      BY <3>1
    <3>. HIDE DEF T
    <3>3. Routed => \A a, b \in Loc : T[a][b] <= matrix[a][b]
      BY <2>3
    <3>. QED  BY <2>1, <2>3, <3>2, <3>3, StaysAbove
  <2>4. TriangleInequality(T)' <=> TriangleInequality(T)
    <3>. HIDE DEF T
    <3>. QED  BY <2>2 DEF TriangleInequality
  <2>. HIDE DEF T
  <2>. QED  BY <2>2, <2>3, <2>4
<1>3. IndInv /\ Above => Kept
  <2>. SUFFICES ASSUME IndInv, Above, pc = "done", TriangleInequality(T)
                PROVE  matrix = T
    OBVIOUS
  <2>1. T \in [Loc -> [Loc -> Nat]] /\ matrix \in [Loc -> [Loc -> Nat]]
    BY TabledNat DEF IndInv, Typed
  <2>2. \A a, b \in Loc : T[a][b] <= matrix[a][b] /\ matrix[a][b] <= T[a][b]
    <3>1. \A a, b \in Loc : T[a][b] <= matrix[a][b]
      <4>. HIDE DEF T
      <4>. QED  BY DEF Routed
    <3>2. \A a, b \in Loc : matrix[a][b] <= T[a][b]
      BY DEF Routed, IndInv, BelowTable
    <3>. HIDE DEF T
    <3>. QED  BY <3>1, <3>2
  <2>. HIDE DEF T
  <2>3. \A a, b \in Loc : T[a][b] \in Nat /\ matrix[a][b] \in Nat
    BY <2>1, Entries
  <2>4. \A a, b \in Loc : T[a][b] = matrix[a][b]
    BY <2>2, <2>3
  <2>5. ASSUME NEW a \in Loc PROVE T[a] = matrix[a]
    <3>. DEFINE p == T[a]
                q == matrix[a]
    <3>1. p \in [Loc -> Nat] /\ q \in [Loc -> Nat] /\ \A b \in Loc : p[b] = q[b]
      BY <2>1, <2>4
    <3>. HIDE DEF p, q
    <3>2. p = q
      BY <3>1
    <3>. QED  BY <3>2 DEF p, q
  <2>. QED  BY <2>1, <2>5
<1>. HIDE DEF Above
<1>4. Kept => (pc = "done" /\ TriangleInequality(Tabled(durations))
               => matrix = Tabled(durations) /\ TriangleInequality(matrix))
  OBVIOUS
<1>. HIDE DEF Kept
<1>. QED  BY <1>1, <1>2, <1>3, <1>4, Invariance, PTL DEF Spec
=============================================================================

--------------------------- MODULE TriangleRepair ---------------------------
(***************************************************************************)
(* Router::route (src/src/router.cpp): the durations that OSRM answers are *)
(* turned into whole minutes, and then one pass of three nested loops      *)
(* shortens every entry that a detour through one other location beats.    *)
(*                                                                         *)
(* The pass works on the matrix it reads from, row by row (i), with the    *)
(* intermediate location (j) in the middle loop; Floyd and Warshall have   *)
(* the intermediate location outermost.                                    *)
(***************************************************************************)
EXTENDS Integers

CONSTANTS
  Size,      \* locations.size()
  Seconds,   \* the durations OSRM may answer for each two different locations
  Trash      \* what it answers for a location and itself

Loc == 0 .. Size - 1

ASSUME SizeAssumption    == Size \in Nat \ {0}
Pairs == {p \in Loc \X Loc : p[1] # p[2]}

ASSUME SecondsAssumption == Seconds \in [Pairs -> SUBSET Int] /\ Trash \in Int

VARIABLES
  pc,          \* "table", "relax", "done" or "dead_end"
  durations,   \* OSRM's answer, in seconds
  matrix,      \* the travel times in minutes
  i, j, k      \* the loop counters of triangular_inequality

vars == <<pc, durations, matrix, i, j, k>>

(* std::max(0.0, std::ceil(seconds/60.0))                                  *)
Minutes_Slip(s) == s \div 60
Minutes(s) == IF s <= 0 THEN 0 ELSE (s + 59) \div 60

Init ==
  /\ pc = "table"
  /\ \E d \in [Pairs -> UNION {Seconds[p] : p \in Pairs}] :
        /\ \A p \in Pairs : d[p] \in Seconds[p]
        /\ durations = [a \in Loc |-> [b \in Loc |-> IF a = b THEN Trash ELSE d[<<a, b>>]]]
  /\ matrix = [a \in Loc |-> [b \in Loc |-> 0]]
  /\ i = 0 /\ j = 0 /\ k = 0

-----------------------------------------------------------------------------
(* table_route: the diagonal keeps the 0 the matrix was allocated with.    *)
Tabled_Slip(d) == [a \in Loc |-> [b \in Loc |-> Minutes(d[a][b])]]
Tabled(d) == [a \in Loc |-> [b \in Loc |-> IF a = b THEN 0 ELSE Minutes(d[a][b])]]

TableRoute ==
  /\ pc = "table"
  /\ matrix' = Tabled(durations)
  /\ pc' = "relax"
  /\ UNCHANGED <<durations, i, j, k>>

(* OSRM answers Error, or no number for a pair: nobody catches the         *)
(* exception.                                                              *)
DeadEnd ==
  /\ pc = "table"
  /\ pc' = "dead_end"
  /\ UNCHANGED <<durations, matrix, i, j, k>>

(* One round of the innermost loop.                                        *)
Shortened_Slip(m) ==
  IF m[i][j] + m[k][j] < m[i][k] THEN [m EXCEPT ![i][k] = m[i][j] + m[k][j]] ELSE m

Shortened(m) ==
  IF m[i][j] + m[j][k] < m[i][k] THEN [m EXCEPT ![i][k] = m[i][j] + m[j][k]] ELSE m

Last_Slip == Size
Last == Size - 1

NextRound_Slip ==
  /\ k' = IF k < Last THEN k + 1 ELSE 0
  /\ j' = IF k < Last THEN j ELSE IF j < Last THEN j + 1 ELSE i
  /\ i' = IF k < Last \/ j < Last THEN i ELSE i + 1
  /\ pc' = IF i' = Size THEN "done" ELSE "relax"

NextRound ==
  /\ k' = IF k < Last THEN k + 1 ELSE 0
  /\ j' = IF k < Last THEN j ELSE IF j < Last THEN j + 1 ELSE 0
  /\ i' = IF k < Last \/ j < Last THEN i ELSE i + 1
  /\ pc' = IF i' = Size THEN "done" ELSE "relax"

Relax ==
  /\ pc = "relax"
  /\ matrix' = Shortened(matrix)
  /\ NextRound
  /\ UNCHANGED durations

Next == TableRoute \/ DeadEnd \/ Relax

Spec == Init /\ [][Next]_vars

-----------------------------------------------------------------------------
Typed ==
  /\ pc \in {"table", "relax", "done", "dead_end"}
  /\ durations \in [Loc -> [Loc -> Int]]
  /\ matrix \in [Loc -> [Loc -> Nat]]
  /\ i \in 0 .. Size /\ j \in Loc /\ k \in Loc
  /\ pc = "relax" => i \in Loc

(***************************************************************************)
(* No time from a location to itself, whatever OSRM answers for it (the    *)
(* comment of line 68) and whatever the pass does: order_nodes relies on   *)
(* it when it writes a 0 there (pdptw_builder.cpp:467).                    *)
(***************************************************************************)
DiagonalZero == \A a \in Loc : matrix[a][a] = 0

(* Counters and entries stay in range while the loops run, and there is no *)
(* time on the diagonal.                                                   *)
TypeOK == Typed /\ DiagonalZero

(***************************************************************************)
(* What one pass achieves (lines 41-47): no entry is beaten by a detour    *)
(* through ONE other location, measured on the table OSRM answered.        *)
(***************************************************************************)
TwoLegsRepaired ==
  pc = "done" =>
    \A a, b, c \in Loc : matrix[a][c] <= Tabled(durations)[a][b] + Tabled(durations)[b][c]

(***************************************************************************)
(* The rounding (line 72) and the pass invent no shortcut: no entry falls  *)
(* below the length, in seconds, of the shortest route through OSRM's      *)
(* answer, so that an instance never promises a travel time that no route  *)
(* has.  The shortest routes are those of Floyd and Warshall: after the    *)
(* location h has been the intermediate one, the routes through 0 .. h are *)
(* the shortest.  A negative answer counts as no time, and so does the     *)
(* way from a location to itself.                                          *)
(***************************************************************************)
InSeconds(d) ==
  [a \in Loc |-> [b \in Loc |-> IF a = b \/ d[a][b] < 0 THEN 0 ELSE d[a][b]]]

Through(m, h) ==
  [a \in Loc |-> [b \in Loc |->
     IF m[a][h] + m[h][b] < m[a][b] THEN m[a][h] + m[h][b] ELSE m[a][b]]]

Shortest(m) ==
  LET Within[h \in 0 .. Size] == IF h = 0 THEN m ELSE Through(Within[h - 1], h - 1)
  IN  Within[Size]

(* No entry is below the shortest route of the answer (lines 41-47, 72).   *)
NeverBelowShortest ==
  pc = "done" =>
    LET s == Shortest(InSeconds(durations))
    IN  \A a, b \in Loc : s[a][b] <= 60 * matrix[a][b]

(***************************************************************************)
(* The comment of lines 39-40: "if there is any inconsistency regarding    *)
(* triangular inequality, correct it".  Refuted from four locations on:    *)
(* one pass with the intermediate location in the middle loop leaves       *)
(* inconsistencies that it could have corrected.                           *)
(***************************************************************************)
TriangleInequality(m) == \A a, b, c \in Loc : m[a][c] <= m[a][b] + m[b][c]

(* After the pass the triangular inequality holds: refuted.                *)
InconsistenciesCorrected == pc = "done" => TriangleInequality(matrix)
=============================================================================

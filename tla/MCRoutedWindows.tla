-------------------------- MODULE MCRoutedWindows ---------------------------
(***************************************************************************)
(* Complete nodes over travel times that Router::route really delivers:    *)
(* two requests, 1 to 2 and 3 to 4, and the matrix that the one pass of    *)
(* the router makes of Table.  From the depot to 4 the best way is by 3    *)
(* and 1; the pass takes ten minutes for every leg of it, and leaves the   *)
(* direct way at a hundred.                                                *)
(***************************************************************************)
EXTENDS FullTimeWindows

Place == 0 .. 4

(* Whole minutes, in tenths, as OSRM may answer.                           *)
Table ==
  [a \in Place |-> [b \in Place |->
     IF a = b THEN 0
     ELSE IF <<a, b>> \in {<<0, 3>>, <<3, 1>>, <<1, 4>>} THEN 100 ELSE 1000]]

(* The loops of Router::route: the matrix after the first r rounds of the  *)
(* two outer loops.  Row i is shortened by row j; a round changes neither  *)
(* m[i][j] nor row j, so that the rounds of the inner loop are one.        *)
Pass[r \in 0 .. 25] ==
  IF r = 0 THEN Table
  ELSE LET m == Pass[r - 1]
           i == (r - 1) \div 5
           j == (r - 1) % 5
       IN [m EXCEPT ![i] = [k \in Place |-> Earlier(m[i][k], m[i][j] + m[j][k])]]

Matrix == Pass[25]

RoutedInit ==
  /\ trip = [r \in 1 .. Requests |-> [out  |-> Matrix[0][2 * r - 1],
                                ride |-> Matrix[2 * r - 1][2 * r],
                                back |-> Matrix[2 * r][0]]]
  /\ direct = [r \in Request |-> Matrix[0][2 * r]]
  /\ Init

RoutedSpec == RoutedInit /\ [][Next]_vars

MCLegs == {Matrix[a][b] : a, b \in Place} \ {0}
=============================================================================

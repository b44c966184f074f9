-------------------------- MODULE MCCompleteNodes ---------------------------
(* An early and a late request.                                            *)
EXTENDS CompleteNodes

MCCenters == {<<2, 8>>, <<6, 12>>}

(***************************************************************************)
(* The roads between two places three minutes apart if one of the depot,   *)
(* the pickup and the delivery is elsewhere than the other two, and one on *)
(* which the way back takes twice as long and the direct way to the        *)
(* delivery is not the shortest.                                           *)
(***************************************************************************)
MCRoads ==
  { [out |-> 30, ride |-> 0,  back |-> 30, direct |-> 30],
    [out |-> 0,  ride |-> 30, back |-> 30, direct |-> 30],
    [out |-> 30, ride |-> 30, back |-> 0,  direct |-> 0],
    [out |-> 0,  ride |-> 0,  back |-> 60, direct |-> 30] }
=============================================================================

---------------------------- MODULE MCLocations -----------------------------
(* Two files of too few locations, and one of two towns that are 1000 km   *)
(* apart; a rectangle in the middle of the map and one across its border.  *)
EXTENDS Locations

MCPlaces == {0, 600, 1000}
MCKm     == [p \in MCPlaces |-> [q \in MCPlaces |-> IF p < q THEN q - p ELSE p - q]]
MCFiles  ==
  {<<0, 600>>, <<0, 600, 1000>>, <<0, 1000, 0, 1000, 0, 1000>>}
MCLimits == {<<0, 2>>, <<5, -5>>}
=============================================================================

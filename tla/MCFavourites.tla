---------------------------- MODULE MCFavourites ----------------------------
(***************************************************************************)
(* A small instance of Favourites: three corners of a block, of which two  *)
(* share a latitude, two a longitude and two nothing, and two trashcans    *)
(* that share no coordinate with any other.                                *)
(***************************************************************************)
EXTENDS Favourites

CONSTANTS SouthWest, SouthEast, NorthWest, Island, Rock

Trashcans == {SouthWest, SouthEast, NorthWest, Island, Rock}

GridLatitude ==
  [t \in {SouthWest, SouthEast} |-> 1] @@ NorthWest :> 2 @@ Island :> 3 @@ Rock :> 4

GridLongitude ==
  [t \in {SouthWest, NorthWest} |-> 1] @@ SouthEast :> 2 @@ Island :> 3 @@ Rock :> 4
=============================================================================

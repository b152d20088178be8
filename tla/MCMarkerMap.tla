----------------------------- MODULE MCMarkerMap -----------------------------
(***************************************************************************)
(* Two children at two places with two addresses and one or two kinds of   *)
(* containers, and a list that changes once: two snapshots, so that markers *)
(* are doubled, moved and deleted before and after the map loads.          *)
(***************************************************************************)
EXTENDS MarkerMap
=============================================================================

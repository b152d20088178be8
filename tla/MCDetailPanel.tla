---------------------------- MODULE MCDetailPanel ----------------------------
(***************************************************************************)
(* Two trashcans with an image and one without.                            *)
(***************************************************************************)
EXTENDS DetailPanel

CONSTANTS Bin, Skip, Tray
=============================================================================

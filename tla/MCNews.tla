------------------------------- MODULE MCNews -------------------------------
(***************************************************************************)
(* Pages with up to three elements of each kind, in all combinations.      *)
(***************************************************************************)
EXTENDS News
=============================================================================

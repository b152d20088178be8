---------------------------- MODULE MCLeaderboard ----------------------------
(***************************************************************************)
(* Three users, ratings up to two, so that all orders and all ties occur,  *)
(* and two rows in sight, so that the table must be scrolled to see all.   *)
(***************************************************************************)
EXTENDS Leaderboard
=============================================================================

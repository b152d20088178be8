----------------------------- MODULE MCSession -----------------------------
(***************************************************************************)
(* Two people share a phone.                                               *)
(***************************************************************************)
EXTENDS Session

CONSTANTS Anna, Boris

People == {Anna, Boris}
=============================================================================

------------------------- MODULE MCFirestoreClient -------------------------
(***************************************************************************)
(* Two gets and one change of the document by somebody else, so that each  *)
(* get meets the listener, the queued write and the acknowledgement of the *)
(* other, and watch updates from before and after its own write.  A        *)
(* pipeline of one write leaves the second waiting in the queue.           *)
(***************************************************************************)
EXTENDS FirestoreClient
=============================================================================

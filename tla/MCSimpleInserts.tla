--------------------------- MODULE MCSimpleInserts ---------------------------
(***************************************************************************)
(* All tables of four rows with three ratings, and with them all patterns  *)
(* of ties and of ascending and descending runs among three ratings.       *)
(***************************************************************************)
EXTENDS SimpleInserts

ThreeRates == 0..2
=============================================================================

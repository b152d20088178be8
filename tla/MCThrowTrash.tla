---------------------------- MODULE MCThrowTrash ----------------------------
(***************************************************************************)
(* Two trashcans on either side of a courtyard: from the middle both are   *)
(* near, from the gate one is near and the other at the edge, and from the *)
(* street both are far.                                                    *)
(***************************************************************************)
EXTENDS ThrowTrash

CONSTANTS Bin, Skip

Phones == {Phone}

Cans == {Bin, Skip}
Places == {"middle", "gate", "street"}

Courtyard ==
  [p \in Places |->
    [t \in Cans |-> CASE p = "middle" -> "near"
                      [] p = "gate" -> IF t = Bin THEN "near" ELSE "edge"
                      [] p = "street" -> "far"]]
=============================================================================

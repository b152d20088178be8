----------------------------- MODULE SortedRows -----------------------------
(***************************************************************************)
(* What simpleInserts makes of the rows of the rating table: one operator, *)
(* which SimpleInserts!ComputesInserted ties to the loop and Leaderboard   *)
(* is built on.                                                            *)
(***************************************************************************)
EXTENDS Integers, FiniteSets

\* Mutant of ComesBefore: a row goes behind its equals.
ComesBeforeInTurn(p, q, rows) ==
  \/ rows[p].rate < rows[q].rate
  \/ rows[p].rate = rows[q].rate /\ p < q

\* Row p goes in front of row q: in front of its equals, too, that came first.
ComesBefore(p, q, rows) ==
  \/ rows[p].rate < rows[q].rate
  \/ rows[p].rate = rows[q].rate /\ p > q

\* Where row p goes.
PlaceOf(p, rows) ==
  Cardinality({q \in DOMAIN rows : q = p \/ ComesBefore(q, p, rows)})

Inserted(rows) ==
  [k \in DOMAIN rows |-> rows[CHOOSE p \in DOMAIN rows : PlaceOf(p, rows) = k]]
=============================================================================

----------------------------- MODULE Selections -----------------------------
(***************************************************************************)
(* Parts of a sequence, in its order.  They are what SelectSeq computes,   *)
(* defined by counting instead of recursion.                               *)
(***************************************************************************)
EXTENDS Integers, FiniteSets

\* How many members of P, a finite set of integers, are not beyond p.
Rank(p, P) == Cardinality({q \in P : q <= p})

\* The n-th member of P.
Nth(n, P) == CHOOSE p \in P : Rank(p, P) = n

\* The elements of s at the places P.
Picked(s, P) == [n \in 1..Cardinality(P) |-> s[Nth(n, P)]]
=============================================================================

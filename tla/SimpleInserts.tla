---------------------------- MODULE SimpleInserts ----------------------------
(***************************************************************************)
(* ProfileViewController.simpleInserts, statement by statement: it sorts   *)
(* three parallel arrays by the first one, in place, with indices from 0.  *)
(* A user is the index its row had at the start; users stand for titles    *)
(* and subtitles alike.  The caller guarantees at least two rows.          *)
(***************************************************************************)
EXTENDS Integers, SortedRows

CONSTANTS
  N,     \* how many rows there are
  Rate   \* the ratings that occur

ASSUME ConstantsAssumption ==
  /\ N \in Nat \ {0, 1}
  /\ Rate \subseteq Int

Row == 0 .. N - 1

VARIABLES
  masRate, titles, subtitles,  \* the arrays
  i, j,                        \* the row to insert, the gap's left neighbour
  b, c, d,                     \* the row that was taken out
  pc,                          \* "take", "shift" or "done"
  rateOf                       \* history: the rating every user came with

vars == << masRate, titles, subtitles, i, j, b, c, d, pc, rateOf >>

Init ==
  /\ masRate \in [Row -> Rate]
  /\ rateOf = masRate
  /\ titles = [k \in Row |-> k]
  /\ subtitles = titles
  /\ i = 1
  /\ j = 0
  /\ b = masRate[0] /\ c = titles[0] /\ d = subtitles[0]
  /\ pc = "take"

\* The head of the for loop: take row i out.
Take ==
  /\ pc = "take" /\ i < N
  /\ b' = masRate[i] /\ c' = titles[i] /\ d' = subtitles[i]
  /\ j' = i - 1
  /\ pc' = "shift"
  /\ UNCHANGED << masRate, titles, subtitles, i, rateOf >>

\* Mutants of MovesUp: ties stay in front; the first row is not compared.
MovesUpIfSmaller == j >= 0 /\ b < masRate[j]

MovesUpFromSecond == j >= 1 /\ b <= masRate[j]

\* The condition of the while loop.
MovesUp == j >= 0 /\ b <= masRate[j]

\* Mutants of Shift: one array is left alone; j is not decreased.
ShiftWithoutSubtitles ==
  /\ pc = "shift" /\ MovesUp
  /\ masRate' = [masRate EXCEPT ![j + 1] = masRate[j]]
  /\ titles' = [titles EXCEPT ![j + 1] = titles[j]]
  /\ j' = j - 1
  /\ UNCHANGED << subtitles, i, b, c, d, pc, rateOf >>

ShiftForever ==
  /\ pc = "shift" /\ MovesUp
  /\ masRate' = [masRate EXCEPT ![j + 1] = masRate[j]]
  /\ titles' = [titles EXCEPT ![j + 1] = titles[j]]
  /\ subtitles' = [subtitles EXCEPT ![j + 1] = subtitles[j]]
  /\ UNCHANGED << i, j, b, c, d, pc, rateOf >>

\* The body of the while loop: row j moves one down.
Shift ==
  /\ pc = "shift" /\ MovesUp
  /\ masRate' = [masRate EXCEPT ![j + 1] = masRate[j]]
  /\ titles' = [titles EXCEPT ![j + 1] = titles[j]]
  /\ subtitles' = [subtitles EXCEPT ![j + 1] = subtitles[j]]
  /\ j' = j - 1
  /\ UNCHANGED << i, b, c, d, pc, rateOf >>

\* Mutant of Insert: the next row is skipped.
InsertAndSkip ==
  /\ pc = "shift" /\ ~MovesUp
  /\ masRate' = [masRate EXCEPT ![j + 1] = b]
  /\ titles' = [titles EXCEPT ![j + 1] = c]
  /\ subtitles' = [subtitles EXCEPT ![j + 1] = d]
  /\ i' = i + 2
  /\ pc' = "take"
  /\ UNCHANGED << j, b, c, d, rateOf >>

\* After the while loop: the row goes into the gap.
Insert ==
  /\ pc = "shift" /\ ~MovesUp
  /\ masRate' = [masRate EXCEPT ![j + 1] = b]
  /\ titles' = [titles EXCEPT ![j + 1] = c]
  /\ subtitles' = [subtitles EXCEPT ![j + 1] = d]
  /\ i' = i + 1
  /\ pc' = "take"
  /\ UNCHANGED << j, b, c, d, rateOf >>

Return ==
  /\ pc = "take" /\ i = N
  /\ pc' = "done"
  /\ UNCHANGED << masRate, titles, subtitles, i, j, b, c, d, rateOf >>

Next == Take \/ Shift \/ Insert \/ Return

Spec == Init /\ [][Next]_vars

FairSpec == Spec /\ WF_vars(Next)

-----------------------------------------------------------------------------
\* The types of the variables; no index leaves the arrays.
TypeOK ==
  /\ masRate \in [Row -> Rate] /\ rateOf \in [Row -> Rate]
  /\ titles \in [Row -> Row] /\ subtitles \in [Row -> Row]
  /\ i \in 1..N /\ j \in -1 .. N - 2
  /\ b \in Rate /\ c \in Row /\ d \in Row
  /\ pc \in {"take", "shift", "done"}
  /\ pc = "shift" => i < N /\ j < i

\* Between two insertions every row still holds one user's title, subtitle and
\* rating, and every user has one row, although each shift leaves a duplicate.
RowsStayTogether ==
  pc # "shift" =>
    /\ subtitles = titles
    /\ \A k \in Row : masRate[k] = rateOf[titles[k]]
    /\ \A k, l \in Row : titles[k] = titles[l] => k = l

\* At the end the ratings ascend, and users with equal ratings stand in the
\* reverse of the order they came in: the caller reverses the arrays, so it
\* gets them back in that order, and a second sort changes nothing.
SortedBackwards ==
  pc = "done" =>
    \A k, l \in Row : k < l =>
      \/ masRate[k] < masRate[l]
      \/ masRate[k] = masRate[l] /\ titles[k] > titles[l]

\* The loop computes what its callers are modelled with.
ComputesInserted ==
  pc = "done" =>
    LET came == [k \in 1..N |-> [user |-> k - 1, rate |-> rateOf[k - 1]]]
        row == [k \in 1..N |-> [user |-> titles[k - 1], rate |-> masRate[k - 1]]]
    IN  row = Inserted(came)

\* The loops end.
Terminates == <>(pc = "done")
=============================================================================

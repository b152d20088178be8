-------------------------- MODULE RatingTableProofs --------------------------
(***************************************************************************)
(* Proofs about the rating table: the sorting loop of SimpleInserts, the   *)
(* operator of SortedRows, and the table of Leaderboard.                   *)
(*                                                                         *)
(* The loop is right for any number of rows and any ratings.  While rows   *)
(* are shifted, row j + 1 is a gap whose content is kept in b, c and d:    *)
(* the invariants hold of all other rows, and the gap lies behind the rows *)
(* not yet compared and in front of the shifted ones (IInv).               *)
(*                                                                         *)
(* What comes before a row decides its place, because the order is total:  *)
(* rows that are listed in order are the sorted ones.  So the loop         *)
(* computes the operator.  Sorting puts equals into the reverse of the     *)
(* order they are in, and reversing the table puts them back: a table in   *)
(* which equals are in the order of their ids stays one, and shows the     *)
(* ranking, however often it is sorted (TableInv).                         *)
(***************************************************************************)
EXTENDS Leaderboard, SimpleInserts, FiniteSetTheorems, SequenceTheorems, TLAPS

-----------------------------------------------------------------------------
(* The loop.                                                               *)

\* The rows that count: all of them between two insertions, all but the gap
\* during one.
Whole(k) == pc = "shift" => k # j + 1

Together ==
  /\ \A k \in Row : Whole(k) =>
       subtitles[k] = titles[k] /\ masRate[k] = rateOf[titles[k]]
  /\ \A k, l \in Row : Whole(k) /\ Whole(l) /\ titles[k] = titles[l] => k = l
  /\ pc = "shift" =>
       /\ d = c /\ b = rateOf[c]
       /\ \A k \in Row : k # j + 1 => titles[k] # c

\* How far the loop has come: the users that came first are in front.
FrontEnd(k) == k < i \/ (k = i /\ pc = "shift")

Progress ==
  /\ \A k \in Row : Whole(k) => IF FrontEnd(k) THEN titles[k] < i ELSE titles[k] = k
  /\ pc = "shift" => c = i
  /\ pc = "done" => i = N

Before(k, l) ==
  \/ masRate[k] < masRate[l]
  \/ masRate[k] = masRate[l] /\ titles[k] > titles[l]

Sorted ==
  /\ \A k, l \in Row : k < l /\ FrontEnd(l) /\ Whole(k) /\ Whole(l) => Before(k, l)
  /\ pc = "shift" => \A k \in Row : j + 1 < k /\ k <= i => b <= masRate[k]

IInv == TypeOK /\ Together /\ Progress /\ Sorted

-----------------------------------------------------------------------------
LEMMA RowFacts ==
  /\ N \in Nat /\ N > 1
  /\ \A k : k \in Row <=> k \in Int /\ 0 <= k /\ k < N
BY ConstantsAssumption DEF Row

LEMMA InitIInv == Init => IInv
<1>1. SUFFICES ASSUME Init PROVE IInv
  OBVIOUS
<1>2. 0 \in Row /\ 0 \in -1 .. N - 2 /\ 1 \in 1..N
  BY RowFacts
<1>3. TypeOK
  <2>1. titles \in [Row -> Row] /\ masRate \in [Row -> Rate]
    BY <1>1 DEF Init
  <2>2. b \in Rate /\ c \in Row /\ d \in Row
    BY <1>1, <1>2, <2>1 DEF Init
  <2>3. QED
    BY <1>1, <1>2, <2>1, <2>2 DEF Init, TypeOK
<1>4. Together
  BY <1>1 DEF Init, Together, Whole
<1>5. \A k \in Row : titles[k] = k /\ (FrontEnd(k) => k = 0)
  BY <1>1, RowFacts DEF Init, FrontEnd
<1>6. Progress
  BY <1>1, <1>5, RowFacts DEF Init, Progress
<1>7. Sorted
  BY <1>1, <1>5, RowFacts DEF Init, Sorted
<1>8. QED
  BY <1>3, <1>4, <1>6, <1>7 DEF IInv

LEMMA TakeKeeps == ASSUME IInv, Take PROVE IInv'
<1>1. /\ pc = "take" /\ i < N
      /\ b' = masRate[i] /\ c' = titles[i] /\ d' = subtitles[i]
      /\ j' = i - 1 /\ pc' = "shift"
      /\ UNCHANGED << masRate, titles, subtitles, i, rateOf >>
  BY DEF Take
<1>2. TypeOK
  BY DEF IInv
<1>3. i \in 1..N /\ i \in Row /\ i - 1 \in -1 .. N - 2 /\ i = j' + 1
  BY <1>1, <1>2, RowFacts DEF TypeOK
<1>4. TypeOK'
  BY <1>1, <1>2, <1>3 DEF TypeOK
<1>5. \A k \in Row : Whole(k)
  BY <1>1 DEF Whole
<1>6. Together'
  BY <1>1, <1>3, <1>5 DEF IInv, Together, Whole
<1>7. Progress'
  BY <1>1, <1>3, <1>5, RowFacts DEF IInv, Progress, FrontEnd, Whole
<1>8. Sorted'
  BY <1>1, <1>3, <1>5, RowFacts DEF IInv, Sorted, FrontEnd, Whole, Before
<1>9. QED
  BY <1>4, <1>6, <1>7, <1>8 DEF IInv

LEMMA ShiftKeeps == ASSUME IInv, Shift PROVE IInv'
<1>1. /\ pc = "shift" /\ MovesUp
      /\ masRate' = [masRate EXCEPT ![j + 1] = masRate[j]]
      /\ titles' = [titles EXCEPT ![j + 1] = titles[j]]
      /\ subtitles' = [subtitles EXCEPT ![j + 1] = subtitles[j]]
      /\ j' = j - 1
      /\ UNCHANGED << i, b, c, d, pc, rateOf >>
  BY DEF Shift
<1>2. TypeOK
  BY DEF IInv
<1>3. /\ i \in 1..N /\ i < N /\ j \in -1 .. N - 2 /\ j < i /\ j >= 0
      /\ j \in Row /\ j + 1 \in Row /\ b <= masRate[j]
  BY <1>1, <1>2, RowFacts DEF TypeOK, MovesUp
<1>4. /\ masRate \in [Row -> Rate] /\ titles \in [Row -> Row]
      /\ subtitles \in [Row -> Row] /\ b \in Rate /\ Rate \subseteq Int
  BY <1>2, ConstantsAssumption DEF TypeOK
<1>5. TypeOK'
  <2>1. masRate' \in [Row -> Rate] /\ titles' \in [Row -> Row]
        /\ subtitles' \in [Row -> Row]
    BY <1>1, <1>3, <1>4
  <2>2. j' \in -1 .. N - 2
    BY <1>1, <1>3, RowFacts
  <2>3. QED
    BY <1>1, <1>2, <1>3, <2>1, <2>2 DEF TypeOK
<1>6. \A k \in Row :
        /\ k # j + 1 => /\ masRate'[k] = masRate[k] /\ titles'[k] = titles[k]
                        /\ subtitles'[k] = subtitles[k]
        /\ k = j + 1 => /\ masRate'[k] = masRate[j] /\ titles'[k] = titles[j]
                        /\ subtitles'[k] = subtitles[j]
  BY <1>1, <1>4
<1>7. pc' = "shift" /\ j' + 1 = j /\ j # j + 1
  BY <1>1, <1>3
<1>8. Together'
  BY <1>1, <1>3, <1>6, <1>7 DEF IInv, Together, Whole
<1>9. Progress'
  <2>1. titles[j] < i
    BY <1>1, <1>3, <1>7 DEF IInv, Progress, Whole, FrontEnd
  <2>2. QED
    BY <1>1, <1>3, <1>6, <1>7, <2>1, RowFacts DEF IInv, Progress, Whole, FrontEnd
<1>10. Sorted'
  <2>1. ASSUME NEW k \in Row, NEW l \in Row, k < l, l <= i, k # j, l # j
        PROVE  Before(k, l)'
    <3>1. CASE k # j + 1 /\ l # j + 1
      <4>1. FrontEnd(l) /\ Whole(k) /\ Whole(l)
        BY <1>1, <1>3, <2>1, <3>1, RowFacts DEF Whole, FrontEnd
      <4>2. Before(k, l)
        BY <2>1, <4>1 DEF IInv, Sorted
      <4>3. QED
        BY <1>6, <2>1, <3>1, <4>2 DEF Before
    <3>2. CASE l = j + 1
      <4>1. k < j /\ k # j + 1 /\ Before(k, j)
        BY <1>1, <1>3, <2>1, <3>2, RowFacts DEF IInv, Sorted, Whole, FrontEnd
      <4>2. QED
        BY <1>6, <2>1, <3>2, <4>1 DEF Before
    <3>3. CASE k = j + 1
      <4>1. j < l /\ l # j + 1 /\ Before(j, l)
        BY <1>1, <1>3, <2>1, <3>3, RowFacts DEF IInv, Sorted, Whole, FrontEnd
      <4>2. QED
        BY <1>6, <2>1, <3>3, <4>1 DEF Before
    <3>4. QED
      BY <3>1, <3>2, <3>3
  <2>2. ASSUME NEW k \in Row, j < k, k <= i PROVE b <= masRate'[k]
    BY <1>1, <1>3, <1>6, <2>2, RowFacts DEF IInv, Sorted
  <2>3. QED
    BY <1>1, <1>3, <1>7, <2>1, <2>2, RowFacts DEF Sorted, FrontEnd, Whole
<1>11. QED
  BY <1>5, <1>8, <1>9, <1>10 DEF IInv

LEMMA InsertKeeps == ASSUME IInv, Insert PROVE IInv'
<1>1. /\ pc = "shift" /\ ~MovesUp
      /\ masRate' = [masRate EXCEPT ![j + 1] = b]
      /\ titles' = [titles EXCEPT ![j + 1] = c]
      /\ subtitles' = [subtitles EXCEPT ![j + 1] = d]
      /\ i' = i + 1 /\ pc' = "take"
      /\ UNCHANGED << j, b, c, d, rateOf >>
  BY DEF Insert
<1>2. TypeOK
  BY DEF IInv
<1>3. /\ i \in 1..N /\ i < N /\ j \in -1 .. N - 2 /\ j < i /\ j + 1 \in Row
      /\ i + 1 \in 1..N
  BY <1>1, <1>2, RowFacts DEF TypeOK
<1>4. /\ masRate \in [Row -> Rate] /\ titles \in [Row -> Row]
      /\ subtitles \in [Row -> Row] /\ b \in Rate /\ c \in Row /\ d \in Row
      /\ Rate \subseteq Int
  BY <1>2, ConstantsAssumption DEF TypeOK
<1>5. TypeOK'
  <2>1. masRate' \in [Row -> Rate] /\ titles' \in [Row -> Row]
        /\ subtitles' \in [Row -> Row]
    BY <1>1, <1>3, <1>4
  <2>2. QED
    BY <1>1, <1>2, <1>3, <2>1 DEF TypeOK
<1>6. \A k \in Row :
        /\ k # j + 1 => /\ masRate'[k] = masRate[k] /\ titles'[k] = titles[k]
                        /\ subtitles'[k] = subtitles[k]
        /\ k = j + 1 => masRate'[k] = b /\ titles'[k] = c /\ subtitles'[k] = d
  BY <1>1, <1>4
<1>7. c = i /\ d = c /\ b = rateOf[c]
  BY <1>1 DEF IInv, Progress, Together
<1>8. Together'
  BY <1>1, <1>3, <1>6, <1>7 DEF IInv, Together, Whole
<1>9. Progress'
  BY <1>1, <1>3, <1>4, <1>6, <1>7, RowFacts DEF IInv, Progress, Whole, FrontEnd
<1>10. Sorted'
  <2>1. ASSUME NEW k \in Row, NEW l \in Row, k < l, l <= i
        PROVE  Before(k, l)'
    <3>1. CASE k # j + 1 /\ l # j + 1
      <4>1. FrontEnd(l) /\ Whole(k) /\ Whole(l)
        BY <1>1, <1>3, <2>1, <3>1, RowFacts DEF Whole, FrontEnd
      <4>2. Before(k, l)
        BY <2>1, <4>1 DEF IInv, Sorted
      <4>3. QED
        BY <1>6, <2>1, <3>1, <4>2 DEF Before
    <3>2. CASE k = j + 1
      <4>1. l # j + 1 /\ b <= masRate[l] /\ titles[l] < i
        BY <1>1, <1>3, <2>1, <3>2, RowFacts DEF IInv, Sorted, Progress, Whole, FrontEnd
      <4>2. masRate[l] \in Int /\ b \in Int /\ titles[l] \in Int
        BY <1>4, <2>1, RowFacts
      <4>3. QED
        BY <1>3, <1>6, <1>7, <2>1, <3>2, <4>1, <4>2 DEF Before
    <3>3. CASE l = j + 1
      <4>1. j >= 0 /\ j \in Row /\ k <= j
        BY <1>3, <2>1, <3>3, RowFacts
      <4>2. masRate[j] \in Int /\ b \in Int /\ masRate[k] \in Int
        BY <1>4, <2>1, <4>1
      <4>3. masRate[j] < b
        BY <1>1, <4>1, <4>2 DEF MovesUp
      <4>4. k = j \/ Before(k, j)
        BY <1>1, <1>3, <2>1, <4>1, RowFacts DEF IInv, Sorted, Whole, FrontEnd
      <4>5. masRate[k] < b
        BY <4>2, <4>3, <4>4 DEF Before
      <4>6. masRate'[k] = masRate[k] /\ masRate'[l] = b
        <5>1. k # j + 1 /\ l = j + 1
          BY <2>1, <3>3
        <5>2. QED
          BY <1>6, <5>1
      <4>7. masRate'[k] < masRate'[l]
        BY <4>5, <4>6
      <4>8. QED
        BY <4>7 DEF Before
    <3>4. QED
      BY <3>1, <3>2, <3>3
  <2>2. QED
    BY <1>1, <1>3, <2>1, RowFacts DEF Sorted, FrontEnd, Whole
<1>11. QED
  BY <1>5, <1>8, <1>9, <1>10 DEF IInv

LEMMA ReturnKeeps == ASSUME IInv, Return PROVE IInv'
<1>1. /\ pc = "take" /\ i = N /\ pc' = "done"
      /\ UNCHANGED << masRate, titles, subtitles, i, j, b, c, d, rateOf >>
  BY DEF Return
<1>2. TypeOK'
  BY <1>1 DEF IInv, TypeOK
<1>3. Together' /\ Progress' /\ Sorted'
  BY <1>1 DEF IInv, Together, Progress, Sorted, Whole, FrontEnd, Before
<1>4. QED
  BY <1>2, <1>3 DEF IInv

LEMMA NextIInv == IInv /\ [Next]_vars => IInv'
<1>1. SUFFICES ASSUME IInv, [Next]_vars PROVE IInv'
  OBVIOUS
<1>2. CASE UNCHANGED vars
  <2>1. UNCHANGED << masRate, titles, subtitles, i, j, b, c, d, pc, rateOf >>
    BY <1>2 DEF vars
  <2>2. QED
    BY <1>1, <2>1 DEF IInv, TypeOK, Together, Progress, Sorted, Whole, FrontEnd, Before
<1>3. QED
  BY <1>1, <1>2, TakeKeeps, ShiftKeeps, InsertKeeps, ReturnKeeps DEF Next

\* The strengthened invariant holds at every step of the loop.
THEOREM Invariant == Spec => []IInv
<1>1. QED
  BY InitIInv, NextIInv, PTL DEF Spec

\* The variables keep their types; no index ever leaves the arrays.
THEOREM TypeCorrect == Spec => []TypeOK
<1>1. IInv => TypeOK
  BY DEF IInv
<1>2. QED
  BY <1>1, Invariant, PTL

\* However many users there are, no title, subtitle or rating changes its row
\* without the other two, and none is lost or doubled by an insertion.
THEOREM RowsAreKept == Spec => []RowsStayTogether
<1>1. IInv => RowsStayTogether
  <2>1. SUFFICES ASSUME IInv, pc # "shift"
                 PROVE  /\ subtitles = titles
                        /\ \A k \in Row : masRate[k] = rateOf[titles[k]]
                        /\ \A k, l \in Row : titles[k] = titles[l] => k = l
    BY DEF RowsStayTogether
  <2>2. subtitles \in [Row -> Row] /\ titles \in [Row -> Row]
    BY <2>1 DEF IInv, TypeOK
  <2>3. \A k \in Row : subtitles[k] = titles[k]
    BY <2>1 DEF IInv, Together, Whole
  <2>4. subtitles = titles
    BY <2>2, <2>3
  <2>5. QED
    BY <2>1, <2>4 DEF IInv, Together, Whole
<1>2. QED
  BY <1>1, Invariant, PTL

\* When the loop ends the ratings ascend, and equal ratings are in reverse order,
\* for every table of at least two rows.
THEOREM LoopSorts == Spec => []SortedBackwards
<1>1. IInv => SortedBackwards
  <2>1. SUFFICES ASSUME IInv, pc = "done", NEW k \in Row, NEW l \in Row, k < l
                 PROVE  Before(k, l)
    BY DEF SortedBackwards, Before
  <2>2. FrontEnd(l) /\ Whole(k) /\ Whole(l)
    BY <2>1, RowFacts DEF IInv, Progress, FrontEnd, Whole
  <2>3. QED
    BY <2>1, <2>2 DEF IInv, Sorted
<1>2. QED
  BY <1>1, Invariant, PTL

-----------------------------------------------------------------------------
(* Places in an order.                                                      *)

\* Those not behind x in the order R.
UpTo(x, S, R) == {y \in S : y = x \/ << y, x >> \in R}

IsOrder(R, S) ==
  /\ \A x \in S : << x, x >> \notin R
  /\ \A x, y, z \in S : << x, y >> \in R /\ << y, z >> \in R => << x, z >> \in R
  /\ \A x, y \in S : x # y => << x, y >> \in R \/ << y, x >> \in R

LEMMA UpToGrows ==
  ASSUME NEW S, IsFiniteSet(S), NEW R, IsOrder(R, S),
         NEW x \in S, NEW y \in S, << x, y >> \in R
  PROVE  Cardinality(UpTo(x, S, R)) < Cardinality(UpTo(y, S, R))
<1> DEFINE A == UpTo(x, S, R)
           B == UpTo(y, S, R)
<1>1. A \subseteq B /\ y \in B /\ y \notin A /\ B \subseteq S
  BY DEF UpTo, IsOrder
<1> HIDE DEF A, B
<1>2. IsFiniteSet(B)
  BY <1>1, FS_Subset
<1>3. IsFiniteSet(A) /\ Cardinality(A) <= Cardinality(B) /\ Cardinality(A) # Cardinality(B)
  BY <1>1, <1>2, FS_Subset
<1>4. Cardinality(A) \in Nat /\ Cardinality(B) \in Nat
  BY <1>2, <1>3, FS_CardinalityType
<1>5. QED
  BY <1>3, <1>4 DEF A, B

LEMMA UpToIs ==
  ASSUME NEW S, IsFiniteSet(S), NEW R, NEW x \in S
  PROVE  Cardinality(UpTo(x, S, R)) \in 1..Cardinality(S)
<1> DEFINE A == UpTo(x, S, R)
<1>1. A \subseteq S /\ x \in A
  BY DEF UpTo
<1> HIDE DEF A
<1>2. IsFiniteSet(A) /\ Cardinality(A) <= Cardinality(S) /\ Cardinality(A) # 0
  BY <1>1, FS_Subset, FS_EmptySet
<1>3. Cardinality(A) \in Nat /\ Cardinality(S) \in Nat
  BY <1>2, FS_CardinalityType
<1>4. QED
  BY <1>2, <1>3 DEF A

\* There is one at every place.
LEMMA PlacesFilled ==
  ASSUME NEW S, IsFiniteSet(S), NEW R, IsOrder(R, S), NEW k \in 1..Cardinality(S)
  PROVE  \E x \in S : Cardinality(UpTo(x, S, R)) = k
<1> DEFINE T == 1..Cardinality(S)
           f == [x \in S |-> Cardinality(UpTo(x, S, R))]
<1>1. Cardinality(S) \in Nat
  BY FS_CardinalityType
<1>2. IsFiniteSet(T) /\ Cardinality(T) = Cardinality(S)
  BY <1>1, FS_Interval
<1>3. f \in [S -> T]
  BY UpToIs
<1>4. ASSUME NEW x \in S, NEW y \in S, f[x] = f[y] PROVE x = y
  <2>1. f[x] \in Int /\ f[y] \in Int
    BY <1>3
  <2>2. << x, y >> \notin R /\ << y, x >> \notin R
    BY <1>4, <2>1, UpToGrows
  <2>3. QED
    BY <2>2 DEF IsOrder
<1>5. f \in Injection(S, T)
  BY <1>3, <1>4 DEF Injection, IsInjective
<1> HIDE DEF T
<1>6. f \in Surjection(S, T)
  BY <1>2, <1>5, FS_Injection
<1>7. \E x \in S : f[x] = k
  BY <1>6 DEF Surjection, T
<1>8. QED
  BY <1>7

\* What is listed in order has the place it is listed at.
LEMMA ListedPlaces ==
  ASSUME NEW n \in Nat, NEW S, NEW R, IsOrder(R, S),
         NEW f \in [1..n -> S], \A x \in S : \E p \in 1..n : f[p] = x,
         \A p, q \in 1..n : p < q => << f[p], f[q] >> \in R,
         NEW k \in 1..n
  PROVE  Cardinality(UpTo(f[k], S, R)) = k
<1> DEFINE A == UpTo(f[k], S, R)
           g == [p \in 1..k |-> f[p]]
<1>1. \A p \in 1..k : p \in 1..n /\ p \in Int
  OBVIOUS
<1>2. \A p \in 1..k : f[p] \in A
  <2>1. ASSUME NEW p \in 1..k PROVE f[p] = f[k] \/ << f[p], f[k] >> \in R
    <3>1. p = k \/ p < k
      OBVIOUS
    <3>2. QED
      BY <1>1, <3>1
  <2>2. QED
    BY <1>1, <2>1 DEF UpTo
<1>3. \A x \in A : \E p \in 1..k : f[p] = x
  <2>1. ASSUME NEW x \in A PROVE \E p \in 1..k : f[p] = x
    <3>1. x \in S /\ (x = f[k] \/ << x, f[k] >> \in R)
      BY DEF UpTo
    <3>2. PICK p \in 1..n : f[p] = x
      BY <3>1
    <3>3. ASSUME k < p PROVE FALSE
      <4>1. << f[k], x >> \in R
        BY <3>2, <3>3
      <4>2. << x, x >> \in R
        BY <3>1, <4>1 DEF IsOrder
      <4>3. QED
        BY <3>1, <4>2 DEF IsOrder
    <3>4. p \in 1..k
      BY <3>2, <3>3
    <3>5. QED
      BY <3>2, <3>4
  <2>2. QED
    BY <2>1
<1>4. ASSUME NEW p \in 1..k, NEW q \in 1..k, f[p] = f[q] PROVE p = q
  <2>1. ~(p < q) /\ ~(q < p)
    BY <1>1, <1>4 DEF IsOrder
  <2>2. QED
    BY <2>1
<1> HIDE DEF A
<1>5. g \in Bijection(1..k, A)
  <2>1. g \in [1..k -> A]
    BY <1>2
  <2>2. IsInjective(g)
    BY <1>4 DEF IsInjective
  <2>3. \A x \in A : \E p \in 1..k : g[p] = x
    BY <1>3
  <2>4. QED
    BY <2>1, <2>2, <2>3 DEF Bijection, Injection, Surjection
<1>6. ExistsBijection(1..k, A)
  BY <1>5 DEF ExistsBijection
<1>7. k \in Nat
  OBVIOUS
<1>8. QED
  BY <1>6, <1>7, FS_CountingElements DEF A

-----------------------------------------------------------------------------
(* Sorted rows.                                                             *)

Rated(rows, n) ==
  /\ n \in Nat /\ DOMAIN rows = 1..n
  /\ \A p \in 1..n : rows[p].rate \in Int

RowOrder(rows) ==
  {e \in (DOMAIN rows) \X (DOMAIN rows) : ComesBefore(e[1], e[2], rows)}

LEMMA RowsHavePlaces ==
  ASSUME NEW rows, NEW n, Rated(rows, n)
  PROVE  /\ IsFiniteSet(1..n) /\ Cardinality(1..n) = n
         /\ IsOrder(RowOrder(rows), 1..n)
         /\ \A p \in 1..n : /\ PlaceOf(p, rows) = Cardinality(UpTo(p, 1..n, RowOrder(rows)))
                            /\ PlaceOf(p, rows) \in 1..n
         /\ \A p, q \in 1..n : << p, q >> \in RowOrder(rows) <=> ComesBefore(p, q, rows)
<1>1. n \in Nat /\ DOMAIN rows = 1..n /\ \A p \in 1..n : rows[p].rate \in Int /\ p \in Int
  BY DEF Rated
<1>2. \A p, q \in 1..n : << p, q >> \in RowOrder(rows) <=> ComesBefore(p, q, rows)
  <2>1. ASSUME NEW p \in 1..n, NEW q \in 1..n
        PROVE  << p, q >> \in RowOrder(rows) <=> ComesBefore(p, q, rows)
    <3>1. << p, q >> \in (DOMAIN rows) \X (DOMAIN rows)
      BY <1>1
    <3>2. << p, q >>[1] = p /\ << p, q >>[2] = q
      OBVIOUS
    <3>3. QED
      BY <3>1, <3>2 DEF RowOrder
  <2>2. QED
    BY <2>1
<1>3. IsFiniteSet(1..n) /\ Cardinality(1..n) = n
  BY <1>1, FS_Interval
<1>4. IsOrder(RowOrder(rows), 1..n)
  <2>1. \A p \in 1..n : ~ComesBefore(p, p, rows)
    BY <1>1 DEF ComesBefore
  <2>2. ASSUME NEW p \in 1..n, NEW q \in 1..n, NEW r \in 1..n,
               ComesBefore(p, q, rows), ComesBefore(q, r, rows)
        PROVE  ComesBefore(p, r, rows)
    <3>1. rows[p].rate \in Int /\ rows[q].rate \in Int /\ rows[r].rate \in Int
      BY <1>1
    <3>2. p \in Int /\ q \in Int /\ r \in Int
      BY <1>1
    <3>3. QED
      BY <2>2, <3>1, <3>2 DEF ComesBefore
  <2>3. ASSUME NEW p \in 1..n, NEW q \in 1..n, p # q
        PROVE  ComesBefore(p, q, rows) \/ ComesBefore(q, p, rows)
    <3>1. rows[p].rate \in Int /\ rows[q].rate \in Int /\ p \in Int /\ q \in Int
      BY <1>1
    <3>2. QED
      BY <2>3, <3>1 DEF ComesBefore
  <2>4. QED
    BY <1>2, <2>1, <2>2, <2>3 DEF IsOrder
<1>5. ASSUME NEW p \in 1..n
      PROVE  PlaceOf(p, rows) = Cardinality(UpTo(p, 1..n, RowOrder(rows)))
  <2>1. {q \in DOMAIN rows : q = p \/ ComesBefore(q, p, rows)} = UpTo(p, 1..n, RowOrder(rows))
    BY <1>1, <1>2 DEF UpTo
  <2>2. QED
    BY <2>1 DEF PlaceOf
<1>6. \A p \in 1..n : PlaceOf(p, rows) \in 1..n
  BY <1>3, <1>5, UpToIs
<1>7. QED
  BY <1>2, <1>3, <1>4, <1>5, <1>6

LEMMA PlacesDiffer ==
  ASSUME NEW rows, NEW n, Rated(rows, n), NEW p \in 1..n, NEW q \in 1..n
  PROVE  /\ ComesBefore(p, q, rows) => PlaceOf(p, rows) < PlaceOf(q, rows)
         /\ PlaceOf(p, rows) = PlaceOf(q, rows) => p = q
         /\ PlaceOf(p, rows) < PlaceOf(q, rows) => ComesBefore(p, q, rows)
<1>1. /\ IsFiniteSet(1..n) /\ IsOrder(RowOrder(rows), 1..n)
      /\ PlaceOf(p, rows) = Cardinality(UpTo(p, 1..n, RowOrder(rows)))
      /\ PlaceOf(q, rows) = Cardinality(UpTo(q, 1..n, RowOrder(rows)))
      /\ PlaceOf(p, rows) \in Int /\ PlaceOf(q, rows) \in Int
      /\ << p, q >> \in RowOrder(rows) <=> ComesBefore(p, q, rows)
      /\ << q, p >> \in RowOrder(rows) <=> ComesBefore(q, p, rows)
  BY RowsHavePlaces
<1>2. /\ ComesBefore(p, q, rows) => PlaceOf(p, rows) < PlaceOf(q, rows)
      /\ ComesBefore(q, p, rows) => PlaceOf(q, rows) < PlaceOf(p, rows)
  BY <1>1, UpToGrows
<1>3. p = q \/ ComesBefore(p, q, rows) \/ ComesBefore(q, p, rows)
  BY <1>1 DEF IsOrder
<1>4. QED
  BY <1>1, <1>2, <1>3

\* Every row is at its place.
LEMMA InsertedIs ==
  ASSUME NEW rows, NEW n, Rated(rows, n)
  PROVE  /\ DOMAIN Inserted(rows) = 1..n
         /\ \A p \in 1..n : Inserted(rows)[PlaceOf(p, rows)] = rows[p]
         /\ \A k \in 1..n : \E p \in 1..n : PlaceOf(p, rows) = k /\ Inserted(rows)[k] = rows[p]
<1>1. DOMAIN rows = 1..n
  BY DEF Rated
<1>2. ASSUME NEW p \in 1..n PROVE Inserted(rows)[PlaceOf(p, rows)] = rows[p]
  <2> DEFINE k == PlaceOf(p, rows)
             q == CHOOSE q \in DOMAIN rows : PlaceOf(q, rows) = k
  <2>1. k \in 1..n
    BY RowsHavePlaces
  <2>2. q \in 1..n /\ PlaceOf(q, rows) = k
    BY <1>1
  <2>3. Inserted(rows)[k] = rows[q]
    BY <1>1, <2>1 DEF Inserted
  <2> HIDE DEF q
  <2>4. q = p
    BY <2>2, PlacesDiffer
  <2>5. QED
    BY <2>3, <2>4
<1>3. ASSUME NEW k \in 1..n PROVE \E p \in 1..n : PlaceOf(p, rows) = k
  <2>1. /\ IsFiniteSet(1..n) /\ Cardinality(1..n) = n /\ IsOrder(RowOrder(rows), 1..n)
        /\ \A p \in 1..n : PlaceOf(p, rows) = Cardinality(UpTo(p, 1..n, RowOrder(rows)))
    BY RowsHavePlaces
  <2>2. k \in 1..Cardinality(1..n)
    BY <2>1
  <2>3. \E p \in 1..n : Cardinality(UpTo(p, 1..n, RowOrder(rows))) = k
    <3> DEFINE R == RowOrder(rows)
               S == 1..n
    <3>1. IsFiniteSet(S) /\ IsOrder(R, S) /\ k \in 1..Cardinality(S)
      BY <2>1, <2>2
    <3> HIDE DEF R, S
    <3>2. \E p \in S : Cardinality(UpTo(p, S, R)) = k
      BY <3>1, PlacesFilled
    <3>3. QED
      BY <3>2 DEF R, S
  <2>4. QED
    BY <2>1, <2>3
<1>4. QED
  BY <1>1, <1>2, <1>3 DEF Inserted

\* Rows that are listed in order are the sorted ones.
LEMMA ListedIsInserted ==
  ASSUME NEW rows, NEW n, Rated(rows, n), NEW f \in [1..n -> 1..n],
         \A k, l \in 1..n : k < l => ComesBefore(f[k], f[l], rows),
         NEW sorted, sorted = [k \in 1..n |-> rows[f[k]]]
  PROVE  sorted = Inserted(rows)
<1>1. n \in Nat /\ IsFiniteSet(1..n)
  BY RowsHavePlaces DEF Rated
<1>2. \A k, l \in 1..n : k < l => << f[k], f[l] >> \in RowOrder(rows)
  BY RowsHavePlaces
<1>3. \A p \in 1..n : \E k \in 1..n : f[k] = p
  <2>1. ASSUME NEW k \in 1..n, NEW l \in 1..n, f[k] = f[l] PROVE k = l
    <3>1. ~(k < l) /\ ~(l < k)
      BY <1>2, <2>1, RowsHavePlaces DEF IsOrder
    <3>2. QED
      BY <3>1
  <2>2. f \in Injection(1..n, 1..n)
    BY <2>1 DEF Injection, IsInjective
  <2>3. f \in Surjection(1..n, 1..n)
    BY <1>1, <2>2, FS_Injection
  <2>4. QED
    BY <2>3 DEF Surjection
<1>4. ASSUME NEW k \in 1..n PROVE PlaceOf(f[k], rows) = k
  <2>1. IsOrder(RowOrder(rows), 1..n) /\ f[k] \in 1..n
    BY RowsHavePlaces
  <2> DEFINE R == RowOrder(rows)
             S == 1..n
  <2>2. Cardinality(UpTo(f[k], S, R)) = k
    <3>1. IsOrder(R, S) /\ f \in [1..n -> S] /\ k \in 1..n
      BY <2>1
    <3>2. \A x \in S : \E p \in 1..n : f[p] = x
      BY <1>3
    <3>3. \A p, q \in 1..n : p < q => << f[p], f[q] >> \in R
      BY <1>2
    <3> HIDE DEF R, S
    <3>4. QED
      BY <1>1, <3>1, <3>2, <3>3, ListedPlaces
  <2>3. QED
    BY <2>1, <2>2, RowsHavePlaces
<1>5. \A k \in 1..n : Inserted(rows)[k] = rows[f[k]]
  <2>1. \A k \in 1..n : f[k] \in 1..n
    OBVIOUS
  <2>2. \A p \in 1..n : Inserted(rows)[PlaceOf(p, rows)] = rows[p]
    BY InsertedIs
  <2>3. QED
    BY <1>4, <2>1, <2>2
<1>6. DOMAIN Inserted(rows) = 1..n /\ Inserted(rows) = [k \in DOMAIN rows |-> Inserted(rows)[k]]
  BY InsertedIs DEF Inserted
<1>7. QED
  BY <1>5, <1>6 DEF Rated

\* The rows end up where the operator puts them that the table is modelled
\* with, for any number of rows and any ratings.
THEOREM LoopComputes == Spec => []ComputesInserted
<1>1. IInv => ComputesInserted
  <2> SUFFICES ASSUME IInv, pc = "done" PROVE ComputesInserted
    BY DEF ComputesInserted
  <2> DEFINE came == [k \in 1..N |-> [user |-> k - 1, rate |-> rateOf[k - 1]]]
             row == [k \in 1..N |-> [user |-> titles[k - 1], rate |-> masRate[k - 1]]]
             f == [k \in 1..N |-> titles[k - 1] + 1]
  <2>1. /\ N \in Nat /\ Rate \subseteq Int
        /\ titles \in [Row -> Row] /\ rateOf \in [Row -> Rate]
        /\ \A k \in Row : k \in Int /\ titles[k] \in Row
    BY RowFacts, ConstantsAssumption DEF IInv, TypeOK
  <2>2. \A k \in 1..N : k - 1 \in Row /\ k \in Int
    BY RowFacts
  <2>3. \A k \in Row : k + 1 \in 1..N /\ (k + 1) - 1 = k
    BY RowFacts
  <2>4. \A k \in Row : masRate[k] = rateOf[titles[k]]
    BY DEF IInv, Together, Whole
  <2>5. \A k, l \in Row : k < l =>
          \/ masRate[k] < masRate[l]
          \/ masRate[k] = masRate[l] /\ titles[k] > titles[l]
    <3>1. ASSUME NEW k \in Row, NEW l \in Row, k < l PROVE Before(k, l)
      <4>1. FrontEnd(l) /\ Whole(k) /\ Whole(l)
        BY RowFacts DEF IInv, Progress, FrontEnd, Whole
      <4>2. QED
        BY <3>1, <4>1 DEF IInv, Sorted
    <3>2. QED
      BY <3>1 DEF Before
  <2>6. Rated(came, N)
    <3>1. \A k \in 1..N : came[k].rate = rateOf[k - 1]
      OBVIOUS
    <3>2. \A k \in 1..N : rateOf[k - 1] \in Int
      BY <2>1, <2>2
    <3>3. QED
      BY <2>1, <3>1, <3>2 DEF Rated
  <2>7. f \in [1..N -> 1..N]
    BY <2>1, <2>2, <2>3
  <2>8. \A k \in 1..N : /\ f[k] \in 1..N /\ f[k] = titles[k - 1] + 1
                        /\ came[f[k]].rate = masRate[k - 1]
                        /\ came[f[k]] = row[k]
    <3>1. ASSUME NEW k \in 1..N
          PROVE  /\ f[k] \in 1..N /\ f[k] = titles[k - 1] + 1
                 /\ came[f[k]].rate = masRate[k - 1]
                 /\ came[f[k]] = row[k]
      <4> DEFINE t == titles[k - 1]
      <4>1. t \in Row /\ masRate[k - 1] = rateOf[t]
        BY <2>1, <2>2, <2>4
      <4>2. f[k] = t + 1 /\ t + 1 \in 1..N /\ (t + 1) - 1 = t
        BY <2>3, <4>1
      <4>3. came[t + 1] = [user |-> (t + 1) - 1, rate |-> rateOf[(t + 1) - 1]]
        BY <4>2
      <4>4. came[t + 1] = [user |-> t, rate |-> rateOf[t]]
        BY <4>2, <4>3
      <4>5. row[k] = [user |-> t, rate |-> masRate[k - 1]]
        OBVIOUS
      <4> HIDE DEF came, row, t, f
      <4>6. QED
        BY <4>1, <4>2, <4>4, <4>5 DEF t
    <3>2. QED
      BY <3>1
  <2>9. \A k, l \in 1..N : k < l => ComesBefore(f[k], f[l], came)
    <3> HIDE DEF f, came
    <3>1. ASSUME NEW k \in 1..N, NEW l \in 1..N, k < l
          PROVE  ComesBefore(f[k], f[l], came)
      <4>1. k - 1 \in Row /\ l - 1 \in Row /\ k - 1 < l - 1
        BY <2>2, <3>1
      <4>2. \/ masRate[k - 1] < masRate[l - 1]
            \/ masRate[k - 1] = masRate[l - 1] /\ titles[k - 1] > titles[l - 1]
        BY <2>5, <4>1
      <4>3. titles[k - 1] \in Int /\ titles[l - 1] \in Int
        BY <2>1, <4>1
      <4>4. titles[k - 1] > titles[l - 1] => f[k] > f[l]
        <5>1. f[k] = titles[k - 1] + 1 /\ f[l] = titles[l - 1] + 1
          BY <2>8
        <5> DEFINE t == titles[k - 1]
                   u == titles[l - 1]
        <5>2. t \in Int /\ u \in Int /\ f[k] = t + 1 /\ f[l] = u + 1
          BY <4>3, <5>1
        <5> HIDE DEF t, u
        <5>3. t > u => f[k] > f[l]
          BY <5>2
        <5>4. QED
          BY <5>3 DEF t, u
      <4>5. QED
        BY <2>8, <4>2, <4>4 DEF ComesBefore
    <3>2. QED
      BY <3>1
  <2>10. row = [k \in 1..N |-> came[f[k]]]
    BY <2>8
  <2> HIDE DEF came, row, f
  <2>11. row = Inserted(came)
    BY <2>6, <2>7, <2>9, <2>10, ListedIsInserted
  <2>12. QED
    BY <2>11 DEF ComputesInserted, came, row
<1>2. QED
  BY <1>1, Invariant, PTL

-----------------------------------------------------------------------------
(* The rating table.                                                        *)

UserRow == [user : User, rate : Int]

\* Each registered user has one row, and equals are in the order of their ids,
\* before the rows are sorted and after.
TableOf(rows, n, ratings) ==
  /\ n \in Nat /\ DOMAIN rows = 1..n
  /\ \A p \in 1..n : /\ rows[p] \in UserRow /\ rows[p].user \in Registered(ratings)
                     /\ rows[p].rate = ratings[rows[p].user]
  /\ \A u \in Registered(ratings) : \E p \in 1..n : rows[p].user = u
  /\ \A p, q \in 1..n : p < q => rows[p].user # rows[q].user
  /\ \A p, q \in 1..n : p < q /\ rows[p].rate = rows[q].rate => rows[p].user < rows[q].user

\* The rows descend.
Descending(rows, n) ==
  \A p, q \in 1..n : p < q =>
    \/ rows[p].rate > rows[q].rate
    \/ rows[p].rate = rows[q].rate /\ rows[p].user < rows[q].user

LEMMA TableIsRated ==
  ASSUME NEW rows, NEW n, NEW ratings, TableOf(rows, n, ratings)
  PROVE  Rated(rows, n)
BY DEF TableOf, Rated, UserRow

\* Sorting and reversing the table makes it descend, ties in the order of ids.
LEMMA RankedIs ==
  ASSUME NEW rows \in Seq(UserRow), NEW n, NEW ratings,
         Len(rows) = n, TableOf(rows, n, ratings)
  PROVE  /\ Ranked(rows) \in Seq(UserRow) /\ Len(Ranked(rows)) = n
         /\ TableOf(Ranked(rows), n, ratings) /\ Descending(Ranked(rows), n)
<1> DEFINE front == Inserted(rows)
           back == [k \in 1..n |-> front[n + 1 - k]]
<1>1. /\ n \in Nat /\ DOMAIN rows = 1..n /\ Rated(rows, n)
      /\ \A p \in 1..n : /\ rows[p] \in UserRow /\ rows[p].user \in Registered(ratings)
                         /\ rows[p].rate = ratings[rows[p].user]
                         /\ rows[p].rate \in Int /\ rows[p].user \in Int
  <2>1. Rated(rows, n)
    BY TableIsRated
  <2>2. /\ n \in Nat /\ DOMAIN rows = 1..n
        /\ \A p \in 1..n : /\ rows[p] \in UserRow /\ rows[p].user \in Registered(ratings)
                           /\ rows[p].rate = ratings[rows[p].user]
    BY DEF TableOf
  <2>3. \A r \in UserRow : r.rate \in Int /\ r.user \in Int
    BY DEF UserRow, User
  <2>4. QED
    BY <2>1, <2>2, <2>3
<1>2. /\ DOMAIN front = 1..n
      /\ \A p \in 1..n : front[PlaceOf(p, rows)] = rows[p] /\ PlaceOf(p, rows) \in 1..n
      /\ \A k \in 1..n : \E p \in 1..n : PlaceOf(p, rows) = k /\ front[k] = rows[p]
  <2>1. Rated(rows, n)
    BY <1>1
  <2>2. /\ DOMAIN front = 1..n
        /\ \A p \in 1..n : front[PlaceOf(p, rows)] = rows[p]
        /\ \A k \in 1..n : \E p \in 1..n : PlaceOf(p, rows) = k /\ front[k] = rows[p]
    BY <2>1, InsertedIs
  <2>3. \A p \in 1..n : PlaceOf(p, rows) \in 1..n
    BY <2>1, RowsHavePlaces
  <2>4. QED
    BY <2>2, <2>3
<1>3. n > 1 \/ front = rows
  <2>1. CASE n <= 1
    <3> DEFINE f == [k \in 1..n |-> k]
    <3>1. f \in [1..n -> 1..n]
      OBVIOUS
    <3>2. \A k, l \in 1..n : k < l => FALSE
      BY <1>1, <2>1
    <3>3. \A k, l \in 1..n : k < l => ComesBefore(f[k], f[l], rows)
      BY <3>2
    <3>4. rows = [k \in 1..n |-> rows[f[k]]]
      <4>1. rows = [k \in 1..n |-> rows[k]]
        BY <1>1, LenProperties
      <4>2. QED
        BY <4>1
    <3> HIDE DEF f
    <3>5. rows = Inserted(rows)
      <4>1. Rated(rows, n)
        BY <1>1
      <4> DEFINE sorted == [k \in 1..n |-> rows[f[k]]]
      <4>2. sorted = Inserted(rows)
        BY <3>1, <3>3, <4>1, ListedIsInserted
      <4>3. QED
        BY <3>4, <4>2
    <3>6. QED
      BY <3>5
  <2>2. QED
    BY <1>1, <2>1
<1> HIDE DEF front
<1>4. Ranked(rows) = back
  <2>1. (IF Len(rows) > 1 THEN Inserted(rows) ELSE rows) = front
    BY <1>3 DEF front
  <2>2. Len(front) = n
    BY <1>1, <1>2
  <2>3. Reverse(front) = [k \in 1..n |-> front[(n - k) + 1]]
    BY <2>2 DEF Reverse
  <2>4. \A k \in 1..n : (n - k) + 1 = n + 1 - k
    BY <1>1
  <2>5. Reverse(front) = back
    BY <2>3, <2>4
  <2>6. QED
    BY <2>1, <2>5 DEF Ranked
<1>5. ASSUME NEW k \in 1..n
      PROVE  \E p \in 1..n : PlaceOf(p, rows) = n + 1 - k /\ back[k] = rows[p]
  <2>1. n + 1 - k \in 1..n
    BY <1>1
  <2>2. QED
    BY <1>2, <2>1
<1>6. ASSUME NEW p \in 1..n
      PROVE  \E k \in 1..n : back[k] = rows[p]
  <2>1. PlaceOf(p, rows) \in 1..n
    BY <1>2
  <2>2. n + 1 - PlaceOf(p, rows) \in 1..n /\ n + 1 - (n + 1 - PlaceOf(p, rows)) = PlaceOf(p, rows)
    BY <1>1, <2>1
  <2>3. back[n + 1 - PlaceOf(p, rows)] = front[PlaceOf(p, rows)]
    BY <2>2
  <2>4. QED
    BY <1>2, <2>2, <2>3
<1> HIDE DEF back
<1>7. DOMAIN back = 1..n
  BY DEF back
<1>8. ASSUME NEW k \in 1..n, NEW l \in 1..n, k < l
      PROVE  /\ back[k].user # back[l].user
             /\ \/ back[k].rate > back[l].rate
                \/ back[k].rate = back[l].rate /\ back[k].user < back[l].user
  <2>1. PICK p \in 1..n : PlaceOf(p, rows) = n + 1 - k /\ back[k] = rows[p]
    BY <1>5
  <2>2. PICK q \in 1..n : PlaceOf(q, rows) = n + 1 - l /\ back[l] = rows[q]
    BY <1>5
  <2>3. PlaceOf(q, rows) < PlaceOf(p, rows)
    BY <1>1, <1>8, <2>1, <2>2
  <2>4. ComesBefore(q, p, rows)
    BY <1>1, <2>3, PlacesDiffer
  <2>5. p # q /\ p \in Int /\ q \in Int
    BY <2>3, <1>1, <2>1, <2>2, <1>8
  <2>6. rows[p].user # rows[q].user
    BY <2>5 DEF TableOf
  <2>7. rows[q].rate = rows[p].rate /\ q > p => rows[p].user < rows[q].user
    BY DEF TableOf
  <2>8. rows[p].rate \in Int /\ rows[q].rate \in Int
    BY <1>1
  <2>9. QED
    BY <2>1, <2>2, <2>4, <2>6, <2>7, <2>8 DEF ComesBefore
<1>9. \A k \in 1..n : /\ back[k] \in UserRow /\ back[k].user \in Registered(ratings)
                      /\ back[k].rate = ratings[back[k].user] /\ back[k].rate \in Int
  BY <1>1, <1>5
<1>10. Descending(back, n)
  BY <1>8 DEF Descending
<1>11. TableOf(back, n, ratings)
  <2>1. ASSUME NEW u \in Registered(ratings) PROVE \E k \in 1..n : back[k].user = u
    <3>1. PICK p \in 1..n : rows[p].user = u
      BY DEF TableOf
    <3>2. QED
      BY <1>6, <3>1
  <2>2. ASSUME NEW k \in 1..n, NEW l \in 1..n, k < l, back[k].rate = back[l].rate
        PROVE  back[k].user < back[l].user
    BY <1>8, <1>9, <2>2
  <2>3. QED
    BY <1>1, <1>7, <1>8, <1>9, <2>1, <2>2 DEF TableOf
<1>12. back \in Seq(UserRow) /\ Len(back) = n
  <2>1. back \in [1..n -> UserRow]
    BY <1>9 DEF back
  <2>2. QED
    BY <1>1, <2>1, SeqDef, LenProperties
<1>13. QED
  BY <1>4, <1>10, <1>11, <1>12

Ratings == [User -> 0..MaxRate \cup {NoUser}]

LEMMA RegisteredIs ==
  ASSUME NEW ratings \in Ratings
  PROVE  /\ Registered(ratings) \in SUBSET User /\ Registered(ratings) \in SUBSET Int
         /\ IsFiniteSet(Registered(ratings)) /\ Cardinality(Registered(ratings)) \in Nat
         /\ \A u \in Registered(ratings) : ratings[u] \in Int
<1>1. Registered(ratings) \in SUBSET User /\ User \in SUBSET Int
  BY DEF Registered, User
<1>2. IsFiniteSet(User)
  BY TableAssumption, FS_Interval DEF User
<1>3. IsFiniteSet(Registered(ratings))
  BY <1>1, <1>2, FS_Subset
<1>4. ASSUME NEW u \in Registered(ratings) PROVE ratings[u] \in Int
  <2>1. u \in User /\ ratings[u] # NoUser
    BY DEF Registered
  <2>2. ratings[u] \in 0..MaxRate
    BY <2>1 DEF Ratings
  <2>3. QED
    BY <2>2
<1>5. QED
  BY <1>1, <1>3, <1>4, FS_CardinalityType

\* The documents of a snapshot are in the order of their ids.
LEMMA DocumentsAre ==
  ASSUME NEW ratings \in Ratings
  PROVE  /\ Documents(ratings) \in Seq(UserRow)
         /\ TableOf(Documents(ratings), Len(Documents(ratings)), ratings)
<1> DEFINE P == Registered(ratings)
           n == Cardinality(P)
           R == {e \in P \X P : e[1] < e[2]}
           rows == Documents(ratings)
<1>1. /\ P \in SUBSET User /\ P \in SUBSET Int /\ IsFiniteSet(P) /\ n \in Nat
      /\ \A u \in P : ratings[u] \in Int
  BY RegisteredIs
<1>2. rows = [k \in 1..n |-> [u \in User |-> [user |-> u, rate |-> ratings[u]]][Nth(k, P)]]
  BY DEF Documents, Picked
<1> HIDE DEF P, rows
<1>3. \A x, y \in P : << x, y >> \in R <=> x < y
  OBVIOUS
<1>4. IsOrder(R, P)
  <2>1. \A x \in P : x \in Int
    BY <1>1
  <2>2. (\A x \in P : ~(x < x)) /\ (\A x, y \in P : x # y => x < y \/ y < x)
    BY <2>1
  <2>3. \A x, y, z \in P : x < y /\ y < z => x < z
    BY <2>1
  <2> HIDE DEF R
  <2>4. QED
    BY <1>3, <2>2, <2>3 DEF IsOrder
<1>5. \A x \in P : Rank(x, P) = Cardinality(UpTo(x, P, R))
  <2>1. ASSUME NEW x \in P PROVE {q \in P : q <= x} = UpTo(x, P, R)
    <3>1. \A q \in P : q <= x <=> q = x \/ q < x
      BY <1>1
    <3> HIDE DEF R
    <3>2. QED
      BY <1>3, <3>1 DEF UpTo
  <2>2. QED
    BY <2>1 DEF Rank
<1> HIDE DEF R
<1>6. ASSUME NEW k \in 1..n PROVE Nth(k, P) \in P /\ Rank(Nth(k, P), P) = k
  <2>1. \E x \in P : Cardinality(UpTo(x, P, R)) = k
    BY <1>1, <1>4, PlacesFilled
  <2>2. \E x \in P : Rank(x, P) = k
    BY <1>5, <2>1
  <2>3. QED
    BY <2>2 DEF Nth
<1>7. ASSUME NEW k \in 1..n, NEW l \in 1..n, k < l PROVE Nth(k, P) < Nth(l, P)
  <2> DEFINE x == Nth(k, P)
             y == Nth(l, P)
  <2>1. x \in P /\ y \in P /\ Rank(x, P) = k /\ Rank(y, P) = l
    BY <1>6
  <2> HIDE DEF x, y
  <2>2. << y, x >> \in R => Rank(y, P) < Rank(x, P)
    BY <1>1, <1>4, <1>5, <2>1, UpToGrows
  <2>3. << y, x >> \notin R /\ x # y
    BY <1>7, <2>1, <2>2
  <2>4. << x, y >> \in R
    BY <1>4, <2>1, <2>3 DEF IsOrder
  <2>5. QED
    BY <1>3, <2>1, <2>4 DEF x, y
<1>8. ASSUME NEW u \in P PROVE \E k \in 1..n : Nth(k, P) = u
  <2> DEFINE k == Rank(u, P)
             x == Nth(k, P)
  <2>1. k \in 1..n
    BY <1>1, <1>5, UpToIs
  <2>2. x \in P /\ Rank(x, P) = k
    BY <1>6, <2>1
  <2> HIDE DEF x
  <2>3. << x, u >> \in R => Rank(x, P) < Rank(u, P)
    BY <1>1, <1>4, <1>5, <2>2, UpToGrows
  <2>4. << u, x >> \in R => Rank(u, P) < Rank(x, P)
    BY <1>1, <1>4, <1>5, <2>2, UpToGrows
  <2>5. x = u
    BY <1>4, <2>1, <2>2, <2>3, <2>4 DEF IsOrder
  <2>6. QED
    BY <2>1, <2>5 DEF x
<1> HIDE DEF n
<1>9. \A k \in 1..n : rows[k] = [user |-> Nth(k, P), rate |-> ratings[Nth(k, P)]]
  <2>1. ASSUME NEW k \in 1..n
        PROVE  rows[k] = [user |-> Nth(k, P), rate |-> ratings[Nth(k, P)]]
    <3>1. Nth(k, P) \in User
      BY <1>1, <1>6
    <3>2. QED
      BY <1>2, <3>1
  <2>2. QED
    BY <2>1
<1>10. \A k \in 1..n : rows[k] \in UserRow /\ rows[k].user = Nth(k, P)
                       /\ rows[k].rate = ratings[rows[k].user]
  <2>1. ASSUME NEW k \in 1..n
        PROVE  rows[k] \in UserRow /\ rows[k].user = Nth(k, P)
               /\ rows[k].rate = ratings[rows[k].user]
    <3>1. Nth(k, P) \in User /\ ratings[Nth(k, P)] \in Int
      BY <1>1, <1>6
    <3>2. QED
      <4> DEFINE x == Nth(k, P)
      <4>1. rows[k] = [user |-> x, rate |-> ratings[x]] /\ x \in User /\ ratings[x] \in Int
        BY <1>9, <3>1
      <4> HIDE DEF x
      <4>2. rows[k].user = x /\ rows[k].rate = ratings[x] /\ rows[k] \in UserRow
        BY <4>1 DEF UserRow
      <4>3. QED
        BY <4>2 DEF x
  <2>2. QED
    BY <2>1
<1>11. rows \in Seq(UserRow) /\ Len(rows) = n
  <2>1. rows \in [1..n -> UserRow]
    <3>1. rows = [k \in 1..n |-> rows[k]]
      BY <1>2
    <3>2. QED
      BY <1>10, <3>1
  <2>2. QED
    BY <1>1, <2>1, SeqDef, LenProperties
<1>12. DOMAIN rows = 1..n
  BY <1>2
<1>13. \A k, l \in 1..n : k < l => rows[k].user < rows[l].user /\ rows[k].user # rows[l].user
  <2>1. \A k \in 1..n : Nth(k, P) \in Int
    BY <1>1, <1>6
  <2>2. ASSUME NEW k \in 1..n, NEW l \in 1..n, k < l
        PROVE  Nth(k, P) < Nth(l, P) /\ Nth(k, P) # Nth(l, P)
    BY <1>7, <2>1, <2>2
  <2>3. QED
    BY <1>10, <2>2
<1>14. TableOf(rows, n, ratings)
  <2>1. \A u \in Registered(ratings) : \E p \in 1..n : rows[p].user = u
    BY <1>8, <1>10 DEF P
  <2>2. \A k \in 1..n : rows[k].user \in Registered(ratings)
    BY <1>6, <1>10 DEF P
  <2>3. QED
    BY <1>1, <1>10, <1>12, <1>13, <2>1, <2>2 DEF TableOf
<1>15. QED
  BY <1>11, <1>14 DEF rows

\* In a table that descends every row is at the place of its user.
LEMMA PlacesAre ==
  ASSUME NEW ratings \in Ratings, NEW rows, NEW n,
         TableOf(rows, n, ratings), Descending(rows, n), NEW k \in 1..n
  PROVE  Place(rows[k].user, ratings) = k
<1> DEFINE P == Registered(ratings)
           InFront(v, u) == ratings[v] > ratings[u] \/ (ratings[v] = ratings[u] /\ v < u)
           R == {e \in P \X P : InFront(e[1], e[2])}
           f == [p \in 1..n |-> rows[p].user]
           u == f[k]
<1>1. P \in SUBSET Int /\ IsFiniteSet(P) /\ \A v \in P : ratings[v] \in Int
  BY RegisteredIs
<1>2. /\ n \in Nat /\ f \in [1..n -> P]
      /\ \A v \in P : \E p \in 1..n : f[p] = v
      /\ \A p \in 1..n : rows[p].rate = ratings[f[p]] /\ rows[p].user = f[p]
  BY DEF TableOf
<1> HIDE DEF P
<1>3. \A v, w \in P : << v, w >> \in R <=> InFront(v, w)
  OBVIOUS
<1>4. /\ \A v \in P : ~InFront(v, v)
      /\ \A v, w, x \in P : InFront(v, w) /\ InFront(w, x) => InFront(v, x)
      /\ \A v, w \in P : v # w => InFront(v, w) \/ InFront(w, v)
  <2>1. \A v \in P : v \in Int /\ ratings[v] \in Int
    BY <1>1
  <2>2. ASSUME NEW v \in P, NEW w \in P, NEW x \in P, InFront(v, w), InFront(w, x)
        PROVE  InFront(v, x)
    BY <2>1, <2>2
  <2>3. ASSUME NEW v \in P, NEW w \in P, v # w PROVE InFront(v, w) \/ InFront(w, v)
    BY <2>1, <2>3
  <2>4. \A v \in P : ~InFront(v, v)
    BY <2>1
  <2> HIDE DEF InFront
  <2>5. QED
    BY <2>2, <2>3, <2>4
<1>5. \A p, q \in 1..n : p < q => InFront(f[p], f[q])
  BY <1>2 DEF Descending
<1> HIDE DEF R, f
<1>6. {v \in P : InFront(v, u)} \cup {u} = UpTo(u, P, R)
  <2>1. u \in P
    BY <1>2
  <2> HIDE DEF InFront
  <2>2. QED
    BY <1>3, <2>1 DEF UpTo
<1>7. u \notin {v \in P : InFront(v, u)} /\ IsFiniteSet({v \in P : InFront(v, u)})
  BY <1>1, <1>2, <1>4, FS_Subset
<1>8. Place(u, ratings) = 1 + Cardinality({v \in P : InFront(v, u)})
  BY DEF Place, P
<1> HIDE DEF InFront
<1>9. IsOrder(R, P)
  BY <1>3, <1>4 DEF IsOrder
<1>10. \A p, q \in 1..n : p < q => << f[p], f[q] >> \in R
  BY <1>2, <1>3, <1>5
<1>11. Cardinality(UpTo(f[k], P, R)) = k
  <2>1. n \in Nat /\ f \in [1..n -> P] /\ \A v \in P : \E p \in 1..n : f[p] = v
    BY <1>2
  <2>2. QED
    BY <1>9, <1>10, <2>1, ListedPlaces
<1>12. Cardinality({v \in P : InFront(v, u)} \cup {u}) = Cardinality({v \in P : InFront(v, u)}) + 1
  BY <1>7, FS_AddElement
<1>13. Cardinality({v \in P : InFront(v, u)}) \in Nat
  BY <1>7, FS_CardinalityType
<1>14. Place(u, ratings) = k
  BY <1>6, <1>8, <1>11, <1>12, <1>13
<1>15. QED
  BY <1>2, <1>14

\* The table holds the rows of the last snapshot, sorted or not, and the cells
\* that were drawn show its ranking.
TableInv ==
  /\ cloud \in Ratings /\ seen \in Ratings
  /\ tables \in Seq(UserRow) /\ TableOf(tables, Len(tables), seen)
  /\ DOMAIN cells = 1..Len(tables)
  /\ CellsShowRanking

LEMMA TableStarts == TableInit => TableInv
<1> SUFFICES ASSUME TableInit PROVE TableInv
  OBVIOUS
<1>1. cloud \in Ratings /\ tables = << >> /\ cells = << >> /\ seen = NoDocuments
  BY DEF TableInit, Ratings
<1>2. seen \in Ratings /\ Registered(seen) = {}
  BY <1>1 DEF NoDocuments, Ratings, Registered
<1>3. tables \in Seq(UserRow) /\ Len(tables) = 0 /\ DOMAIN tables = 1..0 /\ DOMAIN cells = 1..0
  BY <1>1
<1>4. \A k \in 1..0 : FALSE
  OBVIOUS
<1>5. TableOf(tables, 0, seen)
  BY <1>2, <1>3, <1>4 DEF TableOf
<1>6. CellsShowRanking
  BY <1>3, <1>4 DEF CellsShowRanking
<1>7. QED
  BY <1>1, <1>2, <1>3, <1>5, <1>6 DEF TableInv

LEMMA ChangeKeeps ==
  ASSUME TableInv, NEW u \in User, NEW rate \in 0..MaxRate, Change(u, rate)
  PROVE  TableInv'
<1>1. /\ cloud' = [cloud EXCEPT ![u] = rate]
      /\ tables' = tables /\ cells' = cells /\ seen' = seen
  BY DEF Change
<1>2. cloud' \in Ratings
  BY <1>1 DEF TableInv, Ratings
<1>3. CellsShowRanking'
  BY <1>1 DEF TableInv, CellsShowRanking
<1>4. QED
  BY <1>1, <1>2, <1>3 DEF TableInv

LEMMA SnapshotKeeps == ASSUME TableInv, Snapshot PROVE TableInv'
<1>1. /\ seen' = cloud /\ cloud' = cloud /\ tables' = Documents(cloud)
      /\ cells' = [k \in 1 .. Len(tables') |-> Blank]
  BY DEF Snapshot
<1>2. cloud \in Ratings
  BY DEF TableInv
<1>3. tables' \in Seq(UserRow) /\ TableOf(tables', Len(tables'), cloud)
  BY <1>1, <1>2, DocumentsAre
<1>4. DOMAIN cells' = 1..Len(tables') /\ \A k \in DOMAIN cells' : cells'[k] = Blank
  BY <1>1
<1>5. CellsShowRanking'
  BY <1>4 DEF CellsShowRanking
<1>6. QED
  BY <1>1, <1>2, <1>3, <1>4, <1>5 DEF TableInv

LEMMA CellKeeps ==
  ASSUME TableInv, NEW k \in DOMAIN cells, CellForRowAt(k)
  PROVE  TableInv'
<1> DEFINE n == Len(tables)
<1>1. /\ tables' = Ranked(tables) /\ cells' = [cells EXCEPT ![k] = tables'[k]]
      /\ cloud' = cloud /\ seen' = seen
  BY DEF CellForRowAt
<1>2. /\ tables \in Seq(UserRow) /\ TableOf(tables, n, seen) /\ seen \in Ratings
      /\ DOMAIN cells = 1..n
  BY DEF TableInv
<1>3. /\ tables' \in Seq(UserRow) /\ Len(tables') = n
      /\ TableOf(tables', n, seen) /\ Descending(tables', n)
  BY <1>1, <1>2, RankedIs
<1>4. /\ k \in 1..n /\ DOMAIN cells' = 1..n /\ cells'[k] = tables'[k]
      /\ \A l \in 1..n : l # k => cells'[l] = cells[l]
  BY <1>1, <1>2
<1>5. Place(tables'[k].user, seen) = k
  BY <1>2, <1>3, <1>4, PlacesAre
<1>6. /\ tables'[k].user \in Registered(seen)
      /\ tables'[k] = [user |-> tables'[k].user, rate |-> seen[tables'[k].user]]
  <2>1. /\ tables'[k] \in UserRow /\ tables'[k].user \in Registered(seen)
        /\ tables'[k].rate = seen[tables'[k].user]
    BY <1>3, <1>4 DEF TableOf
  <2>2. QED
    BY <2>1 DEF UserRow
<1>7. ASSUME NEW l \in DOMAIN cells', cells'[l] # Blank
      PROVE  \E u \in Registered(seen) :
               Place(u, seen) = l /\ cells'[l] = [user |-> u, rate |-> seen[u]]
  <2>1. CASE l = k
    BY <1>4, <1>5, <1>6, <2>1
  <2>2. CASE l # k
    <3>1. l \in DOMAIN cells /\ cells'[l] = cells[l]
      BY <1>2, <1>4, <1>7, <2>2
    <3>2. QED
      BY <1>7, <3>1 DEF TableInv, CellsShowRanking
  <2>3. QED
    BY <2>1, <2>2
<1>8. CellsShowRanking'
  BY <1>1, <1>7 DEF CellsShowRanking
<1>9. QED
  BY <1>1, <1>2, <1>3, <1>4, <1>8 DEF TableInv

\* Cells that are scrolled off are blank again, the others are as they were.
LEMMA ScrollKeeps ==
  ASSUME TableInv, NEW rows \in 0 .. Len(cells) - Window, Scroll(rows)
  PROVE  TableInv'
<1>1. /\ cloud' = cloud /\ seen' = seen /\ tables' = tables
      /\ cells' = [k \in DOMAIN cells |-> IF InSight(k)' THEN cells[k] ELSE Blank]
  BY DEF Scroll
<1>2. DOMAIN cells' = DOMAIN cells /\ \A k \in DOMAIN cells : cells'[k] \in {cells[k], Blank}
  BY <1>1
<1>3. CellsShowRanking'
  BY <1>1, <1>2 DEF TableInv, CellsShowRanking
<1>4. QED
  BY <1>1, <1>2, <1>3 DEF TableInv

LEMMA TableSteps == TableInv /\ [TableNext]_tableVars => TableInv'
<1> SUFFICES ASSUME TableInv, [TableNext]_tableVars PROVE TableInv'
  OBVIOUS
<1>1. CASE UNCHANGED tableVars
  BY <1>1 DEF tableVars, TableInv, CellsShowRanking
<1>2. CASE SetInDefaults \/ ViewDidLoad \/ ListenFails
  <2>1. UNCHANGED << cloud, seen, tables, cells >>
    BY <1>2 DEF SetInDefaults, ViewDidLoad, ListenFails
  <2>2. QED
    BY <2>1 DEF TableInv, CellsShowRanking
<1>3. QED
  BY <1>1, <1>2, ChangeKeeps, SnapshotKeeps, CellKeeps, ScrollKeeps DEF TableNext

\* However often the cells are drawn, each shows the user whose place it is in
\* the ranking of the last snapshot, for any number of users and any ratings.
THEOREM CellsShowTheRanking == Table => []CellsShowRanking
<1>1. TableInv => CellsShowRanking
  BY DEF TableInv
<1>2. QED
  BY <1>1, TableStarts, TableSteps, PTL DEF Table
=============================================================================

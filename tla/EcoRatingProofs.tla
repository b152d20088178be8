-------------------------- MODULE EcoRatingProofs --------------------------
(***************************************************************************)
(* Proofs about EcoRating for any devices and bounds.                      *)
(*                                                                         *)
(* Points are earned: a rating is never more than the throws whose writes  *)
(* are safe.  What a device reads may be in the cloud, in its pending      *)
(* writes, in an answer or with a handler; wherever it is, it is bounded   *)
(* by the credited throws, whose number never falls, and a handler holds   *)
(* at most one more, which its own throw makes up for when it is saved.    *)
(*                                                                         *)
(* Losses are excused: of the throws that neither overlapped another one   *)
(* nor failed, all but one are in whatever may be read or answered, and    *)
(* all of them in what is written.                                         *)
(*                                                                         *)
(* One device: what its user sees is what its answers and writes climb     *)
(* from, one point at a time and in the order of their throws.             *)
(***************************************************************************)
EXTENDS EcoRating, FiniteSetTheorems, WellFoundedInduction, TLAPS

USE ConstantsAssumption

Throw == 1..MaxThrows

Points == Cardinality(Credited)

\* What can be read from the cloud was earned.
CloudInv == \A v \in DOMAIN cloud : cloud[v] <= Points

\* So were pending writes and answers; a handler is one throw ahead.
RoundInv ==
  \A d \in Device, n \in Throw :
    /\ stage[d][n] \in {"saved", "applied"} => value[d][n] \in Nat /\ value[d][n] <= Points
    /\ stage[d][n] = "answered" /\ value[d][n] # NoRating => value[d][n] <= Points
    /\ stage[d][n] = "called" => value[d][n] \in Nat /\ value[d][n] <= Points + 1

IInv == TypeOK /\ IsFiniteSet(Credited) /\ CloudInv /\ RoundInv

-----------------------------------------------------------------------------
(* The newest of some rounds is one of them.                               *)

LEMMA HasOldest ==
  ASSUME NEW S \in SUBSET Nat, S # {}
  PROVE  \E n \in S : \A m \in S : n <= m
<1> DEFINE R == OpToRel(<, Nat)
<1>1. PICK x \in S : \A y \in S : ~(<< y, x >> \in R)
  BY NatLessThanWellFounded, WFMin
<1>2. \A y \in S : y < x => << y, x >> \in R
  BY DEF OpToRel
<1>3. \A y \in S : x \in Nat /\ y \in Nat /\ ~(y < x)
  BY <1>1, <1>2
<1>4. \A y \in S : x <= y
  BY <1>3
<1>5. QED
  BY <1>4

LEMMA HasNewest ==
  ASSUME NEW S \in SUBSET Throw, S # {}
  PROVE  Cloud!Newest(S) \in S /\ \A m \in S : m <= Cloud!Newest(S)
<1> DEFINE T == {k \in 0..MaxThrows : MaxThrows - k \in S}
<1>1. T \in SUBSET Nat
  OBVIOUS
<1>2. T # {}
  <2>1. PICK n \in S : TRUE
    OBVIOUS
  <2>2. n \in 1..MaxThrows
    BY DEF Throw
  <2>3. MaxThrows - n \in 0..MaxThrows /\ MaxThrows - (MaxThrows - n) = n
    BY <2>2
  <2>4. QED
    BY <2>3
<1>3. PICK k \in T : \A j \in T : k <= j
  <2> HIDE DEF T
  <2>1. QED
    BY <1>1, <1>2, HasOldest
<1>4. ASSUME NEW m \in S PROVE m <= MaxThrows - k
  <2>1. m \in 1..MaxThrows
    BY DEF Throw
  <2>2. MaxThrows - m \in 0..MaxThrows /\ MaxThrows - (MaxThrows - m) = m
    BY <2>1
  <2>3. k <= MaxThrows - m
    BY <1>3, <2>2
  <2>4. QED
    BY <2>1, <2>3
<1>5. MaxThrows - k \in S
  OBVIOUS
<1>6. QED
  BY <1>4, <1>5 DEF Cloud!Newest

-----------------------------------------------------------------------------
(* Tables of rounds.                                                       *)

LEMMA UpdateOne ==
  ASSUME NEW S, NEW f \in [Device -> [Throw -> S]], NEW d \in Device, NEW n \in Throw, NEW x \in S
  PROVE  /\ [f EXCEPT ![d][n] = x] \in [Device -> [Throw -> S]]
         /\ \A e \in Device, m \in Throw :
              [f EXCEPT ![d][n] = x][e][m] = IF e = d /\ m = n THEN x ELSE f[e][m]
OBVIOUS

-----------------------------------------------------------------------------
(* The credited throws.                                                    *)

LEMMA CreditedIs ==
  ASSUME NEW d, NEW n
  PROVE  << d, n >> \in Credited <=>
           d \in Device /\ n \in Throw /\ stage[d][n] \in {"saved", "applied", "done"}
BY DEF Credited, Throws, Throw

LEMMA SameCredited ==
  ASSUME \A d \in Device, n \in Throw :
           stage'[d][n] \in {"saved", "applied", "done"} <=>
             stage[d][n] \in {"saved", "applied", "done"}
  PROVE  Credited' = Credited
BY DEF Credited, Throws, Throw

LEMMA OneMoreCredited ==
  ASSUME NEW d \in Device, NEW n \in Throw,
         stage \in [Device -> [Throw -> Cloud!Stage]],
         stage[d][n] \notin {"saved", "applied", "done"},
         stage' = [stage EXCEPT ![d][n] = "saved"],
         IsFiniteSet(Credited)
  PROVE  /\ IsFiniteSet(Credited')
         /\ Points' = Points + 1
         /\ Points \in Nat
<1>1. \A e \in Device, m \in Throw :
        stage'[e][m] \in {"saved", "applied", "done"} <=>
          \/ e = d /\ m = n
          \/ stage[e][m] \in {"saved", "applied", "done"}
  OBVIOUS
<1>2. Credited' = Credited \cup {<< d, n >>}
  BY <1>1 DEF Credited, Throws, Throw
<1>3. << d, n >> \notin Credited
  BY CreditedIs
<1>4. QED
  BY <1>2, <1>3, FS_AddElement, FS_CardinalityType DEF Points

LEMMA PointsNat == ASSUME IsFiniteSet(Credited) PROVE Points \in Nat
BY FS_CardinalityType DEF Points

\* Whatever a device reads was earned.
LEMMA ViewEarned ==
  ASSUME IInv, NEW d \in Device, NEW v \in DOMAIN cloud
  PROVE  Cloud!View(d, v) \in Nat /\ Cloud!View(d, v) <= Points
<1> DEFINE own == Cloud!In(d, {"saved", "applied"})
<1>1. CASE own = {}
  BY <1>1 DEF Cloud!View, IInv, TypeOK, CloudInv
<1>2. CASE own # {}
  <2>1. own \in SUBSET Throw
    BY DEF Cloud!In, Cloud!Round, Throw
  <2>2. Cloud!Newest(own) \in own
    <3> HIDE DEF own
    <3>1. QED
      BY <1>2, <2>1, HasNewest
  <2>3. /\ Cloud!Newest(own) \in Throw
        /\ stage[d][Cloud!Newest(own)] \in {"saved", "applied"}
    BY <2>2 DEF Cloud!In, Cloud!Round, Throw
  <2>4. QED
    BY <1>2, <2>3 DEF Cloud!View, IInv, RoundInv
<1>3. QED
  BY <1>1, <1>2

-----------------------------------------------------------------------------
(* Each action preserves the invariant.                                    *)

LEMMA InitInv == Init => IInv
<1>1. SUFFICES ASSUME Init PROVE IInv
  OBVIOUS
<1>2. TypeOK
  <2>1. cloud = << 0 >> /\ Len(cloud) = 1
    BY <1>1 DEF Init, Cloud!Begin
  <2>2. cloud \in Seq(Nat) /\ cloud # << >>
    BY <2>1
  <2>3. /\ stage = [d \in Device |-> [n \in Throw |-> "none"]]
        /\ value = [d \in Device |-> [n \in Throw |-> NoRating]]
        /\ version = [d \in Device |-> [n \in Throw |-> 0]]
        /\ after = [d \in Device |-> [n \in Throw |-> 0]]
    BY <1>1 DEF Init, Cloud!Begin, Cloud!Round, Throw
  <2>4. /\ stage \in [Device -> [Throw -> Cloud!Stage]]
        /\ value \in [Device -> [Throw -> Nat \cup {NoRating}]]
    BY <2>3 DEF Cloud!Stage
  <2>5. /\ version \in [Device -> [Throw -> 0..Len(cloud)]]
        /\ after \in [Device -> [Throw -> Nat]]
    BY <2>1, <2>3
  <2>6. since \in [Device -> 1..Len(cloud)] /\ known \in [Device -> 0..Len(cloud)]
    BY <1>1, <2>1 DEF Init, Cloud!Begin
  <2>7. /\ resends = 0 /\ hurried = 0 /\ overlapped = 0
        /\ staleRead \in BOOLEAN
    BY <1>1 DEF Init
  <2>8. QED
    BY <2>2, <2>4, <2>5, <2>6, <2>7 DEF TypeOK, Throw
<1>3. Credited = {}
  BY <1>1 DEF Init, Cloud!Begin, Cloud!Round, Credited, Throws
<1>4. IsFiniteSet(Credited) /\ Points = 0
  BY <1>3, FS_EmptySet DEF Points
<1>5. CloudInv
  BY <1>1, <1>4 DEF Init, Cloud!Begin, CloudInv
<1>6. RoundInv
  BY <1>1 DEF Init, Cloud!Begin, Cloud!Round, RoundInv, Throw
<1>7. QED
  BY <1>2, <1>4, <1>5, <1>6 DEF IInv

LEMMA AskInv ==
  ASSUME IInv, NEW d \in Device, Ask(d) PROVE IInv'
<1>1. PICK n \in Throw :
        /\ stage[d][n] = "none"
        /\ stage' = [stage EXCEPT ![d][n] = "asked"]
        /\ after' = [after EXCEPT ![d][n] =
                       IF Cloud!In(d, {"called"}) = {} THEN 0
                       ELSE Cloud!Newest(Cloud!In(d, {"called"}))]
        /\ since' = [since EXCEPT ![d] = IF Cloud!Reading(d) THEN @ ELSE Len(cloud)]
        /\ UNCHANGED << cloud, value, version, known >>
  BY DEF Ask, Cloud!Ask, Cloud!IsOldest, Cloud!In, Cloud!Round, Throw
<1>2. UNCHANGED << resends, staleRead >> /\ hurried' \in Nat /\ overlapped' \in Nat
  BY DEF Ask, IInv, TypeOK, Count
<1>3. Cloud!In(d, {"called"}) # {} => Cloud!Newest(Cloud!In(d, {"called"})) \in Throw
  <2>1. Cloud!In(d, {"called"}) \in SUBSET Throw
    BY DEF Cloud!In, Cloud!Round, Throw
  <2>2. QED
    BY <2>1, HasNewest
<1>4. TypeOK'
  <2>1. stage' \in [Device -> [Throw -> Cloud!Stage]]
    BY <1>1 DEF IInv, TypeOK, Throw, Cloud!Stage
  <2>2. after' \in [Device -> [Throw -> Nat]]
    <3> DEFINE last == IF Cloud!In(d, {"called"}) = {} THEN 0
                       ELSE Cloud!Newest(Cloud!In(d, {"called"}))
    <3>1. last \in Nat
      BY <1>3 DEF Throw
    <3>2. after' = [after EXCEPT ![d][n] = last]
      BY <1>1
    <3> HIDE DEF last
    <3>3. QED
      BY <3>1, <3>2, UpdateOne DEF IInv, TypeOK, Throw
  <2>3. since' \in [Device -> 1..Len(cloud)]
    BY <1>1 DEF IInv, TypeOK
  <2>4. QED
    BY <1>1, <1>2, <2>1, <2>2, <2>3 DEF IInv, TypeOK, Throw
<1>5. Credited' = Credited
  BY <1>1, SameCredited DEF IInv, TypeOK, Throw
<1>6. CloudInv' /\ RoundInv'
  <2>1. Points' = Points
    BY <1>5 DEF Points
  <2>2. CloudInv'
    BY <1>1, <2>1 DEF IInv, CloudInv
  <2>3. RoundInv'
    BY <1>1, <2>1 DEF IInv, RoundInv, TypeOK, Throw
  <2>4. QED
    BY <2>2, <2>3
<1>7. QED
  BY <1>4, <1>5, <1>6 DEF IInv

\* Answers hand out what was earned, or nothing.
LEMMA ReplyInv ==
  ASSUME IInv, NEW d \in Device, NEW seen,
         seen = NoRating \/ (seen \in Nat /\ seen <= Points),
         Cloud!Reply(d, seen),
         known' \in [Device -> 0..Len(cloud)],
         UNCHANGED << resends, hurried, overlapped >>, staleRead' \in BOOLEAN
  PROVE  IInv'
<1>1. PICK replied \in SUBSET {n \in Throw : stage[d][n] = "asked"} :
        /\ stage' = [stage EXCEPT ![d] =
                       [n \in Throw |-> IF n \in replied THEN "answered" ELSE @[n]]]
        /\ value' = [value EXCEPT ![d] =
                       [n \in Throw |-> IF n \in replied THEN seen ELSE @[n]]]
        /\ UNCHANGED << cloud, version, after, since >>
  <2>1. PICK last \in Cloud!In(d, {"asked"}) :
          LET replied == {n \in Cloud!In(d, {"asked"}) : n <= last} IN
          /\ stage' = [stage EXCEPT ![d] =
                         [n \in Throw |-> IF n \in replied THEN "answered" ELSE @[n]]]
          /\ value' = [value EXCEPT ![d] =
                         [n \in Throw |-> IF n \in replied THEN seen ELSE @[n]]]
          /\ UNCHANGED << cloud, version, after, since >>
    BY DEF Cloud!Reply, Cloud!Round, Throw
  <2>2. {n \in Cloud!In(d, {"asked"}) : n <= last} \in
          SUBSET {n \in Throw : stage[d][n] = "asked"}
    BY DEF Cloud!In, Cloud!Round, Throw
  <2>3. QED
    BY <2>1, <2>2
<1>2. \A e \in Device, m \in Throw :
        /\ stage'[e][m] = IF e = d /\ m \in replied THEN "answered" ELSE stage[e][m]
        /\ value'[e][m] = IF e = d /\ m \in replied THEN seen ELSE value[e][m]
        /\ e = d /\ m \in replied => stage[e][m] = "asked"
  BY <1>1 DEF IInv, TypeOK, Throw
<1>3. TypeOK'
  <2>1. stage' \in [Device -> [Throw -> Cloud!Stage]]
    BY <1>1 DEF IInv, TypeOK, Throw, Cloud!Stage
  <2>2. value' \in [Device -> [Throw -> Nat \cup {NoRating}]]
    BY <1>1 DEF IInv, TypeOK, Throw
  <2>3. QED
    BY <1>1, <2>1, <2>2 DEF IInv, TypeOK, Throw
<1>4. Credited' = Credited
  BY <1>2, SameCredited
<1>5. Points' = Points
  BY <1>4 DEF Points
<1>6. CloudInv'
  BY <1>1, <1>5 DEF IInv, CloudInv
<1>7. RoundInv'
  BY <1>2, <1>5 DEF IInv, RoundInv
<1>8. QED
  BY <1>3, <1>4, <1>6, <1>7 DEF IInv

LEMMA AnswerInv ==
  ASSUME IInv, NEW d \in Device, Answer(d) PROVE IInv'
<1>1. PICK v \in DOMAIN cloud :
        /\ Cloud!Reply(d, Cloud!View(d, v))
        /\ known' = [known EXCEPT ![d] = v]
  BY DEF Answer, Cloud!Answer
<1>2. known' \in [Device -> 0..Len(cloud)]
  BY <1>1 DEF IInv, TypeOK
<1>3. UNCHANGED << resends, hurried, overlapped >> /\ staleRead' \in BOOLEAN
  BY DEF Answer, history, IInv, TypeOK
<1>4. QED
  BY <1>1, <1>2, <1>3, ViewEarned, ReplyInv

LEMMA AnswerFromCacheInv ==
  ASSUME IInv, NEW d \in Device, AnswerFromCache(d) PROVE IInv'
<1>1. PICK v \in DOMAIN cloud :
        /\ Cloud!Reply(d, Cloud!View(d, v))
        /\ known' = [known EXCEPT ![d] = v]
  BY DEF AnswerFromCache, Cloud!AnswerFromCache
<1>2. known' \in [Device -> 0..Len(cloud)]
  BY <1>1 DEF IInv, TypeOK
<1>3. UNCHANGED << resends, hurried, overlapped >> /\ staleRead' \in BOOLEAN
  BY DEF AnswerFromCache
<1>4. QED
  BY <1>1, <1>2, <1>3, ViewEarned, ReplyInv

LEMMA AnswerWithErrorInv ==
  ASSUME IInv, NEW d \in Device, AnswerWithError(d) PROVE IInv'
<1>1. Cloud!Reply(d, NoRating) /\ known' = known
  BY DEF AnswerWithError, Cloud!AnswerWithError
<1>2. UNCHANGED << resends, hurried, overlapped, staleRead >>
  BY DEF AnswerWithError, history
<1>3. QED
  BY <1>1, <1>2, ReplyInv DEF IInv, TypeOK

\* A handler adds one to what it was given.
LEMMA HandleAnswerInv ==
  ASSUME IInv, NEW d \in Device, HandleAnswer(d) PROVE IInv'
<1>1. PICK n \in Throw :
        /\ stage[d][n] = "answered"
        /\ IF value[d][n] = NoRating
           THEN stage' = [stage EXCEPT ![d][n] = "failed"] /\ UNCHANGED value
           ELSE /\ stage' = [stage EXCEPT ![d][n] = "called"]
                /\ value' = [value EXCEPT ![d][n] = value[d][n] + 1]
        /\ UNCHANGED << cloud, version, after, since, known >>
  <2>1. PICK m \in Throw :
          /\ Cloud!IsOldest(m, Cloud!In(d, {"answered"}))
          /\ Cloud!HandleAnswer(d, IF value[d][m] = NoRating THEN 0 ELSE value[d][m] + 1)
    BY DEF HandleAnswer, Handle, Throw
  <2>2. PICK n \in Throw :
          /\ Cloud!IsOldest(n, Cloud!In(d, {"answered"}))
          /\ IF value[d][n] = NoRating
             THEN stage' = [stage EXCEPT ![d][n] = "failed"] /\ UNCHANGED value
             ELSE /\ stage' = [stage EXCEPT ![d][n] = "called"]
                  /\ value' = [value EXCEPT ![d][n] =
                       IF value[d][m] = NoRating THEN 0 ELSE value[d][m] + 1]
          /\ UNCHANGED << cloud, version, after, since, known >>
    BY <2>1 DEF Cloud!HandleAnswer, Cloud!Round, Throw
  <2>3. m = n
    BY <2>1, <2>2 DEF Cloud!IsOldest, Throw
  <2>4. stage[d][n] = "answered"
    BY <2>2 DEF Cloud!IsOldest, Cloud!In
  <2>5. QED
    BY <2>2, <2>3, <2>4
<1>2. UNCHANGED << resends, hurried, overlapped, staleRead >>
  BY DEF HandleAnswer, Handle, history
<1>3. value[d][n] \in Nat \cup {NoRating} /\ Points \in Nat
  BY PointsNat DEF IInv, TypeOK, Throw
<1>4. /\ \A e \in Device, m \in Throw :
           IF e = d /\ m = n
           THEN IF value[d][n] = NoRating
                THEN stage'[e][m] = "failed"
                ELSE stage'[e][m] = "called" /\ value'[e][m] = value[d][n] + 1
           ELSE stage'[e][m] = stage[e][m] /\ value'[e][m] = value[e][m]
      /\ stage' \in [Device -> [Throw -> Cloud!Stage]]
      /\ value' \in [Device -> [Throw -> Nat \cup {NoRating}]]
  <2>1. /\ stage \in [Device -> [Throw -> Cloud!Stage]]
        /\ value \in [Device -> [Throw -> Nat \cup {NoRating}]]
        /\ "failed" \in Cloud!Stage /\ "called" \in Cloud!Stage
    BY DEF IInv, TypeOK, Throw, Cloud!Stage
  <2>2. CASE value[d][n] = NoRating
    <3>1. stage' = [stage EXCEPT ![d][n] = "failed"] /\ value' = value
      BY <1>1, <2>2
    <3>2. QED
      BY <2>1, <2>2, <3>1, UpdateOne
  <2>3. CASE value[d][n] # NoRating
    <3>1. /\ stage' = [stage EXCEPT ![d][n] = "called"]
          /\ value' = [value EXCEPT ![d][n] = value[d][n] + 1]
      BY <1>1, <2>3
    <3>2. value[d][n] + 1 \in Nat \cup {NoRating}
      BY <1>3, <2>3
    <3>3. /\ stage' \in [Device -> [Throw -> Cloud!Stage]]
          /\ \A e \in Device, m \in Throw :
               stage'[e][m] = IF e = d /\ m = n THEN "called" ELSE stage[e][m]
      BY <2>1, <3>1, UpdateOne
    <3>4. /\ value' \in [Device -> [Throw -> Nat \cup {NoRating}]]
          /\ \A e \in Device, m \in Throw :
               value'[e][m] = IF e = d /\ m = n THEN value[d][n] + 1 ELSE value[e][m]
      BY <2>1, <3>1, <3>2, UpdateOne
    <3>5. QED
      BY <2>3, <3>3, <3>4
  <2>4. QED
    BY <2>2, <2>3
<1>5. TypeOK'
  BY <1>1, <1>2, <1>4 DEF IInv, TypeOK, Throw
<1>6. Credited' = Credited
  <2>1. \A e \in Device, m \in Throw :
          stage'[e][m] \in {"saved", "applied", "done"} <=>
            stage[e][m] \in {"saved", "applied", "done"}
    BY <1>1, <1>4
  <2>2. QED
    BY <2>1, SameCredited
<1>7. Points' = Points
  BY <1>6 DEF Points
<1>8. CloudInv'
  BY <1>1, <1>7 DEF IInv, CloudInv
<1>9. RoundInv'
  BY <1>1, <1>3, <1>4, <1>7 DEF IInv, RoundInv
<1>10. QED
  BY <1>5, <1>6, <1>8, <1>9 DEF IInv

\* Saving credits the throw, which makes up for the one the handler added.
LEMMA SaveInv ==
  ASSUME IInv, NEW d \in Device, Save(d) PROVE IInv'
<1>1. PICK n \in Throw :
        /\ stage[d][n] = "called"
        /\ stage' = [stage EXCEPT ![d][n] = "saved"]
        /\ UNCHANGED << cloud, value, version, after, since, known >>
  BY DEF Save, Cloud!Save, Cloud!IsOldest, Cloud!In, Cloud!Round, Throw
<1>2. UNCHANGED << resends, hurried, overlapped, staleRead >>
  BY DEF Save, history
<1>3. IsFiniteSet(Credited') /\ Points' = Points + 1 /\ Points \in Nat
  BY <1>1, OneMoreCredited DEF IInv, TypeOK, Throw
<1>4. TypeOK'
  <2>1. stage' \in [Device -> [Throw -> Cloud!Stage]]
    BY <1>1 DEF IInv, TypeOK, Throw, Cloud!Stage
  <2>2. QED
    BY <1>1, <1>2, <2>1 DEF IInv, TypeOK, Throw
<1>5. CloudInv'
  <2>1. \A v \in DOMAIN cloud : cloud[v] \in Nat /\ cloud[v] <= Points
    BY DEF IInv, TypeOK, CloudInv
  <2>2. QED
    BY <1>1, <1>3, <2>1 DEF CloudInv
<1>6. RoundInv'
  <2>1. \A e \in Device, m \in Throw :
          /\ stage'[e][m] = IF e = d /\ m = n THEN "saved" ELSE stage[e][m]
          /\ value'[e][m] = value[e][m]
          /\ value[e][m] \in Nat \cup {NoRating}
    <3>1. /\ stage \in [Device -> [Throw -> Cloud!Stage]]
          /\ value \in [Device -> [Throw -> Nat \cup {NoRating}]]
          /\ "saved" \in Cloud!Stage
      BY DEF IInv, TypeOK, Throw, Cloud!Stage
    <3>2. QED
      BY <1>1, <3>1, UpdateOne
  <2>2. QED
    BY <1>1, <1>3, <2>1 DEF IInv, RoundInv
<1>7. QED
  BY <1>3, <1>4, <1>5, <1>6 DEF IInv

LEMMA ApplyWriteInv ==
  ASSUME IInv, NEW d \in Device, ApplyWrite(d) PROVE IInv'
<1>1. PICK n \in Throw :
        /\ stage[d][n] = "saved"
        /\ cloud' = Append(cloud, value[d][n])
        /\ stage' = [stage EXCEPT ![d][n] = "applied"]
        /\ version' = [version EXCEPT ![d][n] = Len(cloud) + 1]
        /\ UNCHANGED << value, after, since, known >>
  BY DEF ApplyWrite, Cloud!ApplyWrite, Cloud!IsOldest, Cloud!In, Cloud!Round, Throw
<1>2. UNCHANGED << resends, hurried, overlapped, staleRead >>
  BY DEF ApplyWrite, history
<1>3. value[d][n] \in Nat /\ value[d][n] <= Points
  BY <1>1 DEF IInv, RoundInv
<1>4. /\ cloud' \in Seq(Nat) /\ cloud' # << >> /\ Len(cloud') = Len(cloud) + 1
      /\ Len(cloud) \in Nat
      /\ \A v \in DOMAIN cloud' : cloud'[v] = IF v \in DOMAIN cloud THEN cloud[v] ELSE value[d][n]
  <2>1. cloud \in Seq(Nat)
    BY DEF IInv, TypeOK
  <2>2. value[d][n] \in Nat
    BY <1>3
  <2> DEFINE new == value[d][n]
  <2> HIDE DEF new
  <2>3. cloud' = Append(cloud, new) /\ new \in Nat
    BY <1>1, <2>2 DEF new
  <2>4. /\ cloud' \in Seq(Nat) /\ Len(cloud') = Len(cloud) + 1
        /\ Len(cloud) \in Nat
        /\ \A v \in DOMAIN cloud' : cloud'[v] = IF v \in DOMAIN cloud THEN cloud[v] ELSE new
    BY <2>1, <2>3
  <2>5. cloud' # << >>
    BY <2>4
  <2>6. QED
    BY <2>4, <2>5 DEF new
<1>5. TypeOK'
  <2>1. stage' \in [Device -> [Throw -> Cloud!Stage]]
    BY <1>1 DEF IInv, TypeOK, Throw, Cloud!Stage
  <2>2. version' \in [Device -> [Throw -> 0..Len(cloud')]]
    <3>1. version \in [Device -> [Throw -> 0..Len(cloud)]]
      BY DEF IInv, TypeOK, Throw
    <3>2. 0..Len(cloud) \subseteq 0..Len(cloud') /\ Len(cloud) + 1 \in 0..Len(cloud')
      BY <1>4
    <3>3. version \in [Device -> [Throw -> 0..Len(cloud')]]
      BY <3>1, <3>2
    <3>4. QED
      BY <1>1, <3>2, <3>3, UpdateOne
  <2>3. since' \in [Device -> 1..Len(cloud')] /\ known' \in [Device -> 0..Len(cloud')]
    <3>1. since \in [Device -> 1..Len(cloud)] /\ known \in [Device -> 0..Len(cloud)]
      BY DEF IInv, TypeOK
    <3>2. 1..Len(cloud) \subseteq 1..Len(cloud') /\ 0..Len(cloud) \subseteq 0..Len(cloud')
      BY <1>4
    <3>3. QED
      BY <1>1, <3>1, <3>2
  <2>4. QED
    BY <1>1, <1>2, <1>4, <2>1, <2>2, <2>3 DEF IInv, TypeOK, Throw
<1>6. \A e \in Device, m \in Throw :
        /\ stage'[e][m] = IF e = d /\ m = n THEN "applied" ELSE stage[e][m]
        /\ value'[e][m] = value[e][m]
  BY <1>1 DEF IInv, TypeOK, Throw
<1>7. Credited' = Credited
  BY <1>1, <1>6, SameCredited
<1>8. Points' = Points
  BY <1>7 DEF Points
<1>9. CloudInv'
  BY <1>3, <1>4, <1>8 DEF IInv, CloudInv
<1>10. RoundInv'
  BY <1>1, <1>6, <1>8 DEF IInv, RoundInv
<1>11. QED
  BY <1>5, <1>7, <1>9, <1>10 DEF IInv

LEMMA AcknowledgeInv ==
  ASSUME IInv, NEW d \in Device, Acknowledge(d) PROVE IInv'
<1>1. PICK n \in Throw :
        /\ stage[d][n] = "applied"
        /\ stage' = [stage EXCEPT ![d][n] = "done"]
        /\ value' = [value EXCEPT ![d][n] = NoRating]
        /\ version' = [version EXCEPT ![d][n] = 0]
        /\ known' = [known EXCEPT ![d] = Cloud!Larger(@, version[d][n])]
        /\ UNCHANGED << cloud, after, since >>
  BY DEF Acknowledge, Cloud!Acknowledge, Cloud!IsOldest, Cloud!In, Cloud!Round, Throw
<1>2. UNCHANGED << resends, hurried, overlapped, staleRead >>
  BY DEF Acknowledge, history
<1>3. TypeOK'
  <2>1. stage' \in [Device -> [Throw -> Cloud!Stage]]
    BY <1>1 DEF IInv, TypeOK, Throw, Cloud!Stage
  <2>2. /\ value' \in [Device -> [Throw -> Nat \cup {NoRating}]]
        /\ version' \in [Device -> [Throw -> 0..Len(cloud)]]
    <3>1. value \in [Device -> [Throw -> Nat \cup {NoRating}]]
      BY DEF IInv, TypeOK, Throw
    <3>2. version \in [Device -> [Throw -> 0..Len(cloud)]] /\ 0 \in 0..Len(cloud)
      BY DEF IInv, TypeOK, Throw
    <3>3. QED
      BY <1>1, <3>1, <3>2, UpdateOne
  <2>3. known' \in [Device -> 0..Len(cloud)]
    BY <1>1 DEF IInv, TypeOK, Throw, Cloud!Larger
  <2>4. QED
    BY <1>1, <1>2, <2>1, <2>2, <2>3 DEF IInv, TypeOK, Throw
<1>4. \A e \in Device, m \in Throw :
        IF e = d /\ m = n THEN stage'[e][m] = "done"
        ELSE stage'[e][m] = stage[e][m] /\ value'[e][m] = value[e][m]
  BY <1>1 DEF IInv, TypeOK, Throw
<1>5. Credited' = Credited
  BY <1>1, <1>4, SameCredited
<1>6. Points' = Points
  BY <1>5 DEF Points
<1>7. CloudInv'
  BY <1>1, <1>6 DEF IInv, CloudInv
<1>8. RoundInv'
  BY <1>4, <1>6 DEF IInv, RoundInv
<1>9. QED
  BY <1>3, <1>5, <1>7, <1>8 DEF IInv

LEMMA UnlearnInv ==
  ASSUME IInv, NEW d \in Device, NEW lost \in SUBSET {"asked", "answered", "called"},
         Cloud!Unlearn(d, lost),
         resends' \in 0..MaxResends, UNCHANGED << hurried, overlapped, staleRead >>
  PROVE  IInv'
<1>1. /\ stage' = [stage EXCEPT ![d] = [n \in Throw |->
                     CASE @[n] = "applied" -> "saved"
                       [] @[n] \in lost -> "failed"
                       [] OTHER -> @[n]]]
      /\ value' = [value EXCEPT ![d] =
                     [n \in Throw |-> IF stage[d][n] \in lost THEN NoRating ELSE @[n]]]
      /\ version' = [version EXCEPT ![d] = [n \in Throw |-> 0]]
      /\ UNCHANGED << cloud, after, since, known >>
  BY DEF Cloud!Unlearn, Cloud!Round, Throw
<1>2. \A e \in Device, m \in Throw :
        /\ e # d => stage'[e][m] = stage[e][m] /\ value'[e][m] = value[e][m]
        /\ e = d /\ stage[e][m] = "applied" =>
             stage'[e][m] = "saved" /\ value'[e][m] = value[e][m]
        /\ e = d /\ stage[e][m] \in lost => stage'[e][m] = "failed"
        /\ e = d /\ stage[e][m] # "applied" /\ stage[e][m] \notin lost =>
             stage'[e][m] = stage[e][m] /\ value'[e][m] = value[e][m]
  BY <1>1 DEF IInv, TypeOK, Throw
<1>3. TypeOK'
  <2>1. stage' \in [Device -> [Throw -> Cloud!Stage]]
    BY <1>1 DEF IInv, TypeOK, Throw, Cloud!Stage
  <2>2. value' \in [Device -> [Throw -> Nat \cup {NoRating}]]
    BY <1>1 DEF IInv, TypeOK, Throw
  <2>3. version' \in [Device -> [Throw -> 0..Len(cloud)]]
    BY <1>1 DEF IInv, TypeOK, Throw
  <2>4. QED
    BY <1>1, <2>1, <2>2, <2>3 DEF IInv, TypeOK, Throw
<1>4. Credited' = Credited
  <2>1. \A e \in Device, m \in Throw :
          stage'[e][m] \in {"saved", "applied", "done"} <=>
            stage[e][m] \in {"saved", "applied", "done"}
    BY <1>2
  <2>2. QED
    BY <2>1, SameCredited
<1>5. Points' = Points
  BY <1>4 DEF Points
<1>6. CloudInv'
  BY <1>1, <1>5 DEF IInv, CloudInv
<1>7. RoundInv'
  BY <1>2, <1>5 DEF IInv, RoundInv
<1>8. QED
  BY <1>3, <1>4, <1>6, <1>7 DEF IInv

LEMMA NextInv == IInv /\ [Next]_vars => IInv'
<1>1. SUFFICES ASSUME IInv, [Next]_vars PROVE IInv'
  OBVIOUS
<1>2. CASE UNCHANGED vars
  <2>1. /\ UNCHANGED << cloud, stage, value, version, after, since, known >>
        /\ UNCHANGED << resends, hurried, overlapped, staleRead >>
    BY <1>2 DEF vars, document, history
  <2>2. Credited' = Credited
    BY <2>1 DEF Credited, Throws
  <2>3. QED
    BY <1>1, <2>1, <2>2 DEF IInv, TypeOK, CloudInv, RoundInv, Points
<1>3. ASSUME NEW d \in Device, Resend(d) PROVE IInv'
  <2>1. Cloud!Unlearn(d, {}) /\ UNCHANGED << hurried, overlapped, staleRead >>
    BY <1>3 DEF Resend, Cloud!Resend, history
  <2>2. resends' \in 0..MaxResends
    BY <1>1, <1>3 DEF Resend, IInv, TypeOK
  <2>3. QED
    BY <1>1, <2>1, <2>2, UnlearnInv
<1>4. ASSUME NEW d \in Device, Kill(d) PROVE IInv'
  <2>1. /\ Cloud!Unlearn(d, {"asked", "answered", "called"})
        /\ UNCHANGED << hurried, overlapped, staleRead >>
    BY <1>4 DEF Kill, Cloud!Kill, history
  <2>2. resends' \in 0..MaxResends
    BY <1>1, <1>4 DEF Kill, Count, IInv, TypeOK
  <2>3. QED
    BY <1>1, <2>1, <2>2, UnlearnInv
<1>5. QED
  BY <1>1, <1>2, <1>3, <1>4, AskInv, AnswerInv, AnswerFromCacheInv, AnswerWithErrorInv,
     HandleAnswerInv, SaveInv, ApplyWriteInv, AcknowledgeInv DEF Next

-----------------------------------------------------------------------------
(* What each action does to every round.                                   *)

\* Round n of device d gets to stage s, and no other moves.
Goes(d, n, s) ==
  \A e \in Device, m \in Throw :
    stage'[e][m] = IF e = d /\ m = n THEN s ELSE stage[e][m]

LEMMA GoesIs ==
  ASSUME TypeOK, NEW d \in Device, NEW n \in Throw, NEW s,
         stage' = [stage EXCEPT ![d][n] = s]
  PROVE  Goes(d, n, s)
BY DEF Goes, TypeOK, Throw

LEMMA InIs ==
  ASSUME NEW d, NEW S, NEW n
  PROVE  n \in Cloud!In(d, S) <=> n \in Throw /\ stage[d][n] \in S
BY DEF Cloud!In, Cloud!Round, Throw

LEMMA InSubset == ASSUME NEW d, NEW S PROVE Cloud!In(d, S) \in SUBSET Throw
BY DEF Cloud!In, Cloud!Round, Throw

\* Newest is the newest.
LEMMA NewestIs ==
  ASSUME NEW S \in SUBSET Throw, NEW n \in S, \A m \in S : m <= n
  PROVE  Cloud!Newest(S) = n
<1>1. Cloud!Newest(S) \in S /\ \A m \in S : m <= Cloud!Newest(S)
  BY DEF Cloud!Newest
<1>2. \A m \in S : m \in Int
  BY DEF Throw
<1>3. n <= Cloud!Newest(S) /\ Cloud!Newest(S) <= n
  BY <1>1
<1>4. QED
  BY <1>1, <1>2, <1>3

LEMMA AskShape ==
  ASSUME TypeOK, NEW d \in Device, Ask(d)
  PROVE  \E n \in Throw :
           /\ stage[d][n] = "none"
           /\ \A m \in Throw : stage[d][m] = "none" => n <= m
           /\ Goes(d, n, "asked")
           /\ \A e \in Device, m \in Throw :
                after'[e][m] = IF e = d /\ m = n
                               THEN IF Cloud!In(d, {"called"}) = {} THEN 0
                                    ELSE Cloud!Newest(Cloud!In(d, {"called"}))
                               ELSE after[e][m]
           /\ \A e \in Device :
                since'[e] = IF e = d /\ ~Cloud!Reading(d) THEN Len(cloud) ELSE since[e]
           /\ hurried' = hurried + Count(Cloud!Reading(d))
           /\ overlapped' = overlapped + Count(~Settled)
           /\ UNCHANGED << cloud, value, version, known, resends, staleRead >>
<1>1. PICK n \in Throw :
        /\ Cloud!IsOldest(n, Cloud!In(d, {"none"}))
        /\ stage' = [stage EXCEPT ![d][n] = "asked"]
        /\ after' = [after EXCEPT ![d][n] =
                       IF Cloud!In(d, {"called"}) = {} THEN 0
                       ELSE Cloud!Newest(Cloud!In(d, {"called"}))]
        /\ since' = [since EXCEPT ![d] = IF Cloud!Reading(d) THEN @ ELSE Len(cloud)]
        /\ UNCHANGED << cloud, value, version, known >>
  BY DEF Ask, Cloud!Ask, Cloud!Round, Throw
<1>2. stage[d][n] = "none" /\ \A m \in Throw : stage[d][m] = "none" => n <= m
  BY <1>1, InIs DEF Cloud!IsOldest
<1>3. Goes(d, n, "asked")
  BY <1>1, GoesIs
<1>4. \A e \in Device, m \in Throw :
        after'[e][m] = IF e = d /\ m = n
                       THEN IF Cloud!In(d, {"called"}) = {} THEN 0
                            ELSE Cloud!Newest(Cloud!In(d, {"called"}))
                       ELSE after[e][m]
  BY <1>1 DEF TypeOK, Throw
<1>5. \A e \in Device :
        since'[e] = IF e = d /\ ~Cloud!Reading(d) THEN Len(cloud) ELSE since[e]
  BY <1>1 DEF TypeOK
<1>6. QED
  BY <1>1, <1>2, <1>3, <1>4, <1>5 DEF Ask

LEMMA ReplyShape ==
  ASSUME TypeOK, NEW d \in Device, NEW seen, Cloud!Reply(d, seen)
  PROVE  \E replied \in SUBSET Throw :
           /\ replied # {}
           /\ \A n \in replied : stage[d][n] = "asked"
           /\ \A n \in replied, m \in Throw :
                stage[d][m] = "asked" /\ m \notin replied => n < m
           /\ \A n \in replied, m \in Throw : stage[d][m] = "called" => m > after[d][n]
           /\ \A e \in Device, m \in Throw :
                /\ stage'[e][m] = IF e = d /\ m \in replied THEN "answered" ELSE stage[e][m]
                /\ value'[e][m] = IF e = d /\ m \in replied THEN seen ELSE value[e][m]
           /\ UNCHANGED << cloud, version, after, since >>
<1>1. PICK last \in Cloud!In(d, {"asked"}) :
        LET replied == {n \in Cloud!In(d, {"asked"}) : n <= last} IN
        /\ \A n \in replied, m \in Cloud!In(d, {"called"}) : m > after[d][n]
        /\ stage' = [stage EXCEPT ![d] =
                       [n \in Throw |-> IF n \in replied THEN "answered" ELSE @[n]]]
        /\ value' = [value EXCEPT ![d] =
                       [n \in Throw |-> IF n \in replied THEN seen ELSE @[n]]]
        /\ UNCHANGED << cloud, version, after, since >>
  BY DEF Cloud!Reply, Cloud!Round, Throw
<1> DEFINE replied == {n \in Cloud!In(d, {"asked"}) : n <= last}
<1>2. last \in Throw /\ last \in Int
  BY InIs DEF Throw
<1>3. replied \in SUBSET Throw /\ last \in replied
  BY <1>2, InIs
<1>4. \A n \in replied : stage[d][n] = "asked"
  BY InIs
<1>5. \A n \in replied, m \in Throw : stage[d][m] = "asked" /\ m \notin replied => n < m
  <2>1. SUFFICES ASSUME NEW n \in replied, NEW m \in Throw,
                        stage[d][m] = "asked", m \notin replied
                 PROVE  n < m
    OBVIOUS
  <2>2. m \in Cloud!In(d, {"asked"}) /\ n \in Throw
    BY <2>1, InIs
  <2>3. ~(m <= last) /\ n <= last
    BY <2>1, <2>2
  <2>4. QED
    BY <1>2, <2>2, <2>3 DEF Throw
<1>6. \A n \in replied, m \in Throw : stage[d][m] = "called" => m > after[d][n]
  BY <1>1, InIs
<1>7. \A e \in Device, m \in Throw :
        /\ stage'[e][m] = IF e = d /\ m \in replied THEN "answered" ELSE stage[e][m]
        /\ value'[e][m] = IF e = d /\ m \in replied THEN seen ELSE value[e][m]
  <2>1. /\ stage' = [stage EXCEPT ![d] =
                       [n \in Throw |-> IF n \in replied THEN "answered" ELSE @[n]]]
        /\ value' = [value EXCEPT ![d] =
                       [n \in Throw |-> IF n \in replied THEN seen ELSE @[n]]]
    BY <1>1
  <2> HIDE DEF replied
  <2>2. QED
    BY <2>1 DEF TypeOK, Throw
<1>8. UNCHANGED << cloud, version, after, since >>
  BY <1>1
<1> HIDE DEF replied
<1>9. QED
  BY <1>3, <1>4, <1>5, <1>6, <1>7, <1>8

LEMMA HandleShape ==
  ASSUME TypeOK, NEW d \in Device, HandleAnswer(d)
  PROVE  \E n \in Throw :
           /\ stage[d][n] = "answered"
           /\ \A m \in Throw : stage[d][m] = "answered" => n <= m
           /\ Goes(d, n, IF value[d][n] = NoRating THEN "failed" ELSE "called")
           /\ \A e \in Device, m \in Throw :
                value'[e][m] = IF e = d /\ m = n /\ value[d][n] # NoRating
                               THEN value[d][n] + 1 ELSE value[e][m]
           /\ UNCHANGED << cloud, version, after, since, known >>
           /\ UNCHANGED << resends, hurried, overlapped, staleRead >>
<1>1. PICK m \in Throw :
        /\ Cloud!IsOldest(m, Cloud!In(d, {"answered"}))
        /\ Cloud!HandleAnswer(d, IF value[d][m] = NoRating THEN 0 ELSE value[d][m] + 1)
  BY DEF HandleAnswer, Handle, Throw
<1>2. PICK n \in Throw :
        /\ Cloud!IsOldest(n, Cloud!In(d, {"answered"}))
        /\ IF value[d][n] = NoRating
           THEN stage' = [stage EXCEPT ![d][n] = "failed"] /\ UNCHANGED value
           ELSE /\ stage' = [stage EXCEPT ![d][n] = "called"]
                /\ value' = [value EXCEPT ![d][n] =
                     IF value[d][m] = NoRating THEN 0 ELSE value[d][m] + 1]
        /\ UNCHANGED << cloud, version, after, since, known >>
  BY <1>1 DEF Cloud!HandleAnswer, Cloud!Round, Throw
<1>3. m = n
  BY <1>1, <1>2 DEF Cloud!IsOldest, Throw
<1>4. stage[d][n] = "answered" /\ \A k \in Throw : stage[d][k] = "answered" => n <= k
  BY <1>2, InIs DEF Cloud!IsOldest
<1>5. CASE value[d][n] = NoRating
  <2>1. Goes(d, n, "failed") /\ value' = value
    BY <1>2, <1>5, GoesIs
  <2>2. QED
    BY <1>2, <1>4, <1>5, <2>1 DEF HandleAnswer, Handle, history
<1>6. CASE value[d][n] # NoRating
  <2>1. Goes(d, n, "called") /\ value' = [value EXCEPT ![d][n] = value[d][n] + 1]
    BY <1>2, <1>3, <1>6, GoesIs
  <2>2. \A e \in Device, k \in Throw :
          value'[e][k] = IF e = d /\ k = n THEN value[d][n] + 1 ELSE value[e][k]
    BY <2>1 DEF TypeOK, Throw
  <2>3. QED
    BY <1>2, <1>4, <1>6, <2>1, <2>2 DEF HandleAnswer, Handle, history
<1>7. QED
  BY <1>5, <1>6

LEMMA SaveShape ==
  ASSUME TypeOK, NEW d \in Device, Save(d)
  PROVE  \E n \in Throw :
           /\ stage[d][n] = "called"
           /\ \A m \in Throw : stage[d][m] = "called" => n <= m
           /\ Goes(d, n, "saved")
           /\ UNCHANGED << cloud, value, version, after, since, known >>
           /\ UNCHANGED << resends, hurried, overlapped, staleRead >>
<1>1. PICK n \in Throw :
        /\ Cloud!IsOldest(n, Cloud!In(d, {"called"}))
        /\ stage' = [stage EXCEPT ![d][n] = "saved"]
        /\ UNCHANGED << cloud, value, version, after, since, known >>
  BY DEF Save, Cloud!Save, Cloud!Round, Throw
<1>2. stage[d][n] = "called" /\ \A m \in Throw : stage[d][m] = "called" => n <= m
  BY <1>1, InIs DEF Cloud!IsOldest
<1>3. Goes(d, n, "saved")
  BY <1>1, GoesIs
<1>4. QED
  BY <1>1, <1>2, <1>3 DEF Save, history

LEMMA ApplyShape ==
  ASSUME TypeOK, NEW d \in Device, ApplyWrite(d)
  PROVE  \E n \in Throw :
           /\ stage[d][n] = "saved"
           /\ \A m \in Throw : stage[d][m] = "saved" => n <= m
           /\ Goes(d, n, "applied")
           /\ cloud' = Append(cloud, value[d][n])
           /\ \A e \in Device, m \in Throw :
                version'[e][m] = IF e = d /\ m = n THEN Len(cloud) + 1 ELSE version[e][m]
           /\ UNCHANGED << value, after, since, known >>
           /\ UNCHANGED << resends, hurried, overlapped, staleRead >>
<1>1. PICK n \in Throw :
        /\ Cloud!IsOldest(n, Cloud!In(d, {"saved"}))
        /\ cloud' = Append(cloud, value[d][n])
        /\ stage' = [stage EXCEPT ![d][n] = "applied"]
        /\ version' = [version EXCEPT ![d][n] = Len(cloud) + 1]
        /\ UNCHANGED << value, after, since, known >>
  BY DEF ApplyWrite, Cloud!ApplyWrite, Cloud!Round, Throw
<1>2. stage[d][n] = "saved" /\ \A m \in Throw : stage[d][m] = "saved" => n <= m
  BY <1>1, InIs DEF Cloud!IsOldest
<1>3. Goes(d, n, "applied")
  BY <1>1, GoesIs
<1>4. \A e \in Device, m \in Throw :
        version'[e][m] = IF e = d /\ m = n THEN Len(cloud) + 1 ELSE version[e][m]
  BY <1>1 DEF TypeOK, Throw
<1>5. QED
  BY <1>1, <1>2, <1>3, <1>4 DEF ApplyWrite, history

LEMMA AcknowledgeShape ==
  ASSUME TypeOK, NEW d \in Device, Acknowledge(d)
  PROVE  \E n \in Throw :
           /\ stage[d][n] = "applied"
           /\ \A m \in Throw : stage[d][m] = "applied" => n <= m
           /\ Goes(d, n, "done")
           /\ \A e \in Device, m \in Throw :
                /\ value'[e][m] = IF e = d /\ m = n THEN NoRating ELSE value[e][m]
                /\ version'[e][m] = IF e = d /\ m = n THEN 0 ELSE version[e][m]
           /\ \A e \in Device :
                known'[e] = IF e = d THEN Cloud!Larger(known[d], version[d][n]) ELSE known[e]
           /\ UNCHANGED << cloud, after, since >>
           /\ UNCHANGED << resends, hurried, overlapped, staleRead >>
<1>1. PICK n \in Throw :
        /\ Cloud!IsOldest(n, Cloud!In(d, {"applied"}))
        /\ stage' = [stage EXCEPT ![d][n] = "done"]
        /\ value' = [value EXCEPT ![d][n] = NoRating]
        /\ version' = [version EXCEPT ![d][n] = 0]
        /\ known' = [known EXCEPT ![d] = Cloud!Larger(@, version[d][n])]
        /\ UNCHANGED << cloud, after, since >>
  BY DEF Acknowledge, Cloud!Acknowledge, Cloud!Round, Throw
<1>2. stage[d][n] = "applied" /\ \A m \in Throw : stage[d][m] = "applied" => n <= m
  BY <1>1, InIs DEF Cloud!IsOldest
<1>3. Goes(d, n, "done")
  BY <1>1, GoesIs
<1>4. \A e \in Device, m \in Throw :
        /\ value'[e][m] = IF e = d /\ m = n THEN NoRating ELSE value[e][m]
        /\ version'[e][m] = IF e = d /\ m = n THEN 0 ELSE version[e][m]
  BY <1>1 DEF TypeOK, Throw
<1>5. \A e \in Device :
        known'[e] = IF e = d THEN Cloud!Larger(known[d], version[d][n]) ELSE known[e]
  BY <1>1 DEF TypeOK
<1>6. QED
  BY <1>1, <1>2, <1>3, <1>4, <1>5 DEF Acknowledge, history

LEMMA UnlearnShape ==
  ASSUME TypeOK, NEW d \in Device, NEW lost \in SUBSET {"asked", "answered", "called"},
         Cloud!Unlearn(d, lost)
  PROVE  /\ \A e \in Device, m \in Throw :
              /\ e # d => stage'[e][m] = stage[e][m] /\ value'[e][m] = value[e][m]
              /\ e = d /\ stage[e][m] = "applied" =>
                   stage'[e][m] = "saved" /\ value'[e][m] = value[e][m]
              /\ e = d /\ stage[e][m] \in lost => stage'[e][m] = "failed"
              /\ e = d /\ stage[e][m] # "applied" /\ stage[e][m] \notin lost =>
                   stage'[e][m] = stage[e][m] /\ value'[e][m] = value[e][m]
              /\ version'[e][m] = IF e = d THEN 0 ELSE version[e][m]
         /\ UNCHANGED << cloud, after, since, known >>
<1>1. /\ stage' = [stage EXCEPT ![d] = [n \in Throw |->
                     CASE @[n] = "applied" -> "saved"
                       [] @[n] \in lost -> "failed"
                       [] OTHER -> @[n]]]
      /\ value' = [value EXCEPT ![d] =
                     [n \in Throw |-> IF stage[d][n] \in lost THEN NoRating ELSE @[n]]]
      /\ version' = [version EXCEPT ![d] = [n \in Throw |-> 0]]
      /\ UNCHANGED << cloud, after, since, known >>
  BY DEF Cloud!Unlearn, Cloud!Round, Throw
<1>2. \A e \in Device, m \in Throw :
        version'[e][m] = IF e = d THEN 0 ELSE version[e][m]
  BY <1>1 DEF TypeOK, Throw
<1>3. QED
  BY <1>1, <1>2 DEF TypeOK, Throw

-----------------------------------------------------------------------------
(* Counting throws.                                                        *)

LEMMA StageIn ==
  ASSUME TypeOK, NEW d \in Device, NEW n \in Throw PROVE stage[d][n] \in Cloud!Stage
BY DEF TypeOK, Throw

\* What the sets of throws are, round by round.
RoundByRound ==
  /\ Thrown = {dn \in Device \X Throw : stage[dn[1]][dn[2]] # "none"}
  /\ Failed = {dn \in Device \X Throw : stage[dn[1]][dn[2]] = "failed"}
  /\ Settled <=> \A d \in Device, n \in Throw :
                   stage[d][n] \in {"none", "done", "failed"}

LEMMA ThrownIs == TypeOK => RoundByRound
<1> SUFFICES ASSUME TypeOK PROVE RoundByRound
  OBVIOUS
<1>1. \A dn \in Device \X Throw : stage[dn[1]][dn[2]] \in Cloud!Stage
  BY StageIn
<1>2. Thrown = {dn \in Device \X Throw : stage[dn[1]][dn[2]] # "none"}
  BY <1>1 DEF Thrown, Throws, Throw, Cloud!Stage
<1>3. Failed = {dn \in Device \X Throw : stage[dn[1]][dn[2]] = "failed"}
  BY DEF Failed, Throws, Throw
<1>4. Throws({"done", "failed"}) =
        {dn \in Device \X Throw : stage[dn[1]][dn[2]] \in {"done", "failed"}}
  BY DEF Throws, Throw
<1>5. Settled <=> \A dn \in Device \X Throw :
                    stage[dn[1]][dn[2]] # "none" => stage[dn[1]][dn[2]] \in {"done", "failed"}
  <2>1. Settled <=> {dn \in Device \X Throw : stage[dn[1]][dn[2]] # "none"} =
                    {dn \in Device \X Throw : stage[dn[1]][dn[2]] \in {"done", "failed"}}
    BY <1>2, <1>4 DEF Settled
  <2>2. QED
    BY <2>1
<1>6. ASSUME Settled, NEW d \in Device, NEW n \in Throw
      PROVE  stage[d][n] \in {"none", "done", "failed"}
  <2>1. << d, n >> \in Device \X Throw
    OBVIOUS
  <2>2. QED
    BY <1>5, <1>6, <2>1
<1>7. (\A d \in Device, n \in Throw : stage[d][n] \in {"none", "done", "failed"}) => Settled
  BY <1>5
<1>8. QED
  BY <1>2, <1>3, <1>6, <1>7 DEF RoundByRound

\* And after a step.
LEMMA ThrownIsNext == TypeOK' => RoundByRound'
BY ThrownIs, PTL

LEMMA Sizes ==
  ASSUME TypeOK, IsFiniteSet(Thrown)
  PROVE  /\ Cardinality(Thrown) \in Nat
         /\ IsFiniteSet(Failed) /\ Cardinality(Failed) \in Nat
         /\ hurried \in Nat /\ overlapped \in Nat
<1>1. Failed \subseteq Thrown
  BY ThrownIs DEF RoundByRound
<1>2. hurried \in Nat /\ overlapped \in Nat
  BY DEF TypeOK
<1>3. QED
  BY <1>1, <1>2, FS_Subset, FS_CardinalityType

LEMMA CountsKept ==
  ASSUME TypeOK, TypeOK',
         \A d \in Device, n \in Throw :
           /\ stage'[d][n] = "none" <=> stage[d][n] = "none"
           /\ stage'[d][n] = "failed" <=> stage[d][n] = "failed"
  PROVE  Thrown' = Thrown /\ Failed' = Failed
<1>1. /\ Thrown' = {dn \in Device \X Throw : stage'[dn[1]][dn[2]] # "none"}
      /\ Failed' = {dn \in Device \X Throw : stage'[dn[1]][dn[2]] = "failed"}
  BY ThrownIs, ThrownIsNext DEF RoundByRound, Throw
<1>2. QED
  BY <1>1, ThrownIs DEF RoundByRound

LEMMA OneMoreThrown ==
  ASSUME TypeOK, TypeOK', IsFiniteSet(Thrown),
         NEW d \in Device, NEW n \in Throw, stage[d][n] = "none", Goes(d, n, "asked")
  PROVE  /\ IsFiniteSet(Thrown') /\ Cardinality(Thrown') = Cardinality(Thrown) + 1
         /\ Failed' = Failed
<1>1. /\ Thrown' = {dn \in Device \X Throw : stage'[dn[1]][dn[2]] # "none"}
      /\ Failed' = {dn \in Device \X Throw : stage'[dn[1]][dn[2]] = "failed"}
  BY ThrownIs, ThrownIsNext DEF RoundByRound, Throw
<1>2. Thrown' = Thrown \cup {<< d, n >>}
  BY <1>1, ThrownIs DEF RoundByRound, Goes
<1>3. << d, n >> \notin Thrown
  BY ThrownIs DEF RoundByRound
<1>4. Failed' = Failed
  BY <1>1, ThrownIs DEF RoundByRound, Goes
<1>5. QED
  BY <1>2, <1>3, <1>4, FS_AddElement

\* Some throw fails, and none recovers.
LEMMA MoreFailed ==
  ASSUME TypeOK, TypeOK', IsFiniteSet(Thrown),
         \A d \in Device, n \in Throw :
           /\ stage'[d][n] = "none" <=> stage[d][n] = "none"
           /\ stage[d][n] = "failed" => stage'[d][n] = "failed"
  PROVE  /\ Thrown' = Thrown
         /\ IsFiniteSet(Failed')
         /\ Failed \subseteq Failed'
         /\ Cardinality(Failed) <= Cardinality(Failed')
<1>1. /\ Thrown' = {dn \in Device \X Throw : stage'[dn[1]][dn[2]] # "none"}
      /\ Failed' = {dn \in Device \X Throw : stage'[dn[1]][dn[2]] = "failed"}
  BY ThrownIs, ThrownIsNext DEF RoundByRound, Throw
<1>2. Thrown' = Thrown /\ Failed \subseteq Failed'
  BY <1>1, ThrownIs DEF RoundByRound
<1>3. IsFiniteSet(Failed')
  <2>1. Failed' \subseteq Thrown
    BY <1>1, <1>2
  <2>2. QED
    BY <2>1, FS_Subset
<1>4. QED
  BY <1>2, <1>3, FS_Subset

\* As many more as one can name.
LEMMA OneFails ==
  ASSUME TypeOK, TypeOK', IsFiniteSet(Thrown),
         \A d \in Device, n \in Throw :
           /\ stage'[d][n] = "none" <=> stage[d][n] = "none"
           /\ stage[d][n] = "failed" => stage'[d][n] = "failed",
         NEW e \in Device, NEW m \in Throw, stage[e][m] # "failed", stage'[e][m] = "failed"
  PROVE  Cardinality(Failed) + 1 <= Cardinality(Failed')
<1>1. IsFiniteSet(Failed) /\ IsFiniteSet(Failed') /\ Failed \subseteq Failed'
  BY MoreFailed, Sizes
<1>2. << e, m >> \in Failed' /\ << e, m >> \notin Failed
  BY ThrownIs, ThrownIsNext DEF RoundByRound, Throw
<1>3. /\ IsFiniteSet(Failed \cup {<< e, m >>})
      /\ Cardinality(Failed \cup {<< e, m >>}) = Cardinality(Failed) + 1
  BY <1>1, <1>2, FS_AddElement
<1>4. Failed \cup {<< e, m >>} \subseteq Failed'
  BY <1>1, <1>2
<1>5. QED
  BY <1>1, <1>3, <1>4, FS_Subset

LEMMA TwoFail ==
  ASSUME TypeOK, TypeOK', IsFiniteSet(Thrown),
         \A d \in Device, n \in Throw :
           /\ stage'[d][n] = "none" <=> stage[d][n] = "none"
           /\ stage[d][n] = "failed" => stage'[d][n] = "failed",
         NEW e \in Device, NEW m \in Throw, NEW k \in Throw, m # k,
         stage[e][m] # "failed", stage'[e][m] = "failed",
         stage[e][k] # "failed", stage'[e][k] = "failed"
  PROVE  Cardinality(Failed) + 2 <= Cardinality(Failed')
<1>1. IsFiniteSet(Failed) /\ IsFiniteSet(Failed') /\ Failed \subseteq Failed'
  BY MoreFailed, Sizes
<1> DEFINE more == Failed \cup {<< e, m >>}
<1>2. /\ << e, m >> \in Failed' /\ << e, m >> \notin Failed
      /\ << e, k >> \in Failed' /\ << e, k >> \notin more
  BY ThrownIs, ThrownIsNext DEF RoundByRound, Throw
<1>3. IsFiniteSet(more) /\ Cardinality(more) = Cardinality(Failed) + 1
  BY <1>1, <1>2, FS_AddElement
<1>4. more \cup {<< e, k >>} \subseteq Failed'
  BY <1>1, <1>2
<1>5. << e, k >> \notin more
  BY <1>2
<1>6. Cardinality(Failed) \in Nat
  BY <1>1, FS_CardinalityType
<1> HIDE DEF more
<1>7. /\ IsFiniteSet(more \cup {<< e, k >>})
      /\ Cardinality(more \cup {<< e, k >>}) = Cardinality(more) + 1
  BY <1>3, <1>5, FS_AddElement
<1>8. Cardinality(more \cup {<< e, k >>}) <= Cardinality(Failed')
  BY <1>1, <1>4, <1>7, FS_Subset
<1>9. QED
  BY <1>3, <1>6, <1>7, <1>8

-----------------------------------------------------------------------------
(* Lost points.                                                            *)

\* The points that the cloud would have if every throw that overlapped no
\* other one, and did not fail, had counted.
Due == Cardinality(Thrown) - overlapped - Cardinality(Failed)

\* At most one of them is still to come, and none when one has been applied
\* since the last moment of rest.
RatingDue ==
  /\ Due <= rating + 1
  /\ Settled => Due <= rating
  /\ \A d \in Device, n \in Throw : stage[d][n] = "applied" => Due <= rating

\* A device that reads will be given all others.
ReadsDue ==
  \A d \in Device : Cloud!Reading(d) =>
    \A v \in DOMAIN cloud : v >= since[d] => Due <= cloud[v] + 1

\* So were the answers, and the writes add the one.
RoundsDue ==
  \A d \in Device, n \in Throw :
    /\ stage[d][n] = "answered" /\ value[d][n] # NoRating => Due <= value[d][n] + 1
    /\ stage[d][n] \in {"called", "saved", "applied"} => Due <= value[d][n]

LossInv == RatingDue /\ ReadsDue /\ RoundsDue

LossIInv == IInv /\ IsFiniteSet(Thrown) /\ (~staleRead => LossInv)

LEMMA ValueIn ==
  ASSUME TypeOK, NEW d \in Device, NEW n \in Throw
  PROVE  value[d][n] \in Nat \cup {NoRating}
<1>1. value \in [Device -> [Throw -> Nat \cup {NoRating}]]
  BY DEF TypeOK, Throw
<1>2. value[d] \in [Throw -> Nat \cup {NoRating}]
  BY <1>1, Zenon
<1>3. QED
  BY <1>2, Zenon

LEMMA DueInt == ASSUME TypeOK, IsFiniteSet(Thrown) PROVE Due \in Int
BY Sizes DEF Due

LEMMA SameDue ==
  ASSUME Thrown' = Thrown, Failed' = Failed, overlapped' = overlapped
  PROVE  Due' = Due
BY DEF Due

\* The newest rating is one of the cloud's.
LEMMA RatingIs ==
  ASSUME TypeOK
  PROVE  /\ Len(cloud) \in Nat \ {0} /\ Len(cloud) \in DOMAIN cloud
         /\ DOMAIN cloud = 1..Len(cloud)
         /\ rating = cloud[Len(cloud)] /\ rating \in Nat
         /\ \A v \in DOMAIN cloud : cloud[v] \in Nat
<1>1. cloud \in Seq(Nat) /\ cloud # << >>
  BY DEF TypeOK
<1>2. Len(cloud) \in Nat /\ DOMAIN cloud = 1..Len(cloud) /\ Len(cloud) # 0
  BY <1>1
<1>3. \A v \in DOMAIN cloud : cloud[v] \in Nat
  BY <1>1, <1>2
<1>4. Len(cloud) \in Nat \ {0} /\ Len(cloud) \in DOMAIN cloud
  BY <1>2
<1>5. QED
  BY <1>2, <1>3, <1>4 DEF rating

LEMMA ReadingIs ==
  ASSUME NEW d
  PROVE  Cloud!Reading(d) <=> \E n \in Throw : stage[d][n] \in {"asked", "answered"}
BY InIs DEF Cloud!Reading

LEMMA ReadingIsNext ==
  ASSUME NEW d
  PROVE  Cloud!Reading(d)' <=> \E n \in Throw : stage'[d][n] \in {"asked", "answered"}
BY DEF Cloud!Reading, Cloud!In, Cloud!Round, Throw

\* What a device makes of what it may read.
LEMMA ViewDue ==
  ASSUME IInv, LossInv, NEW d \in Device, Cloud!Reading(d),
         NEW v \in DOMAIN cloud, v >= since[d], Due \in Int
  PROVE  /\ Cloud!View(d, v) \in Nat
         /\ Due <= Cloud!View(d, v) + 1
<1>1. Cloud!View(d, v) \in Nat
  BY ViewEarned
<1> DEFINE own == Cloud!In(d, {"saved", "applied"})
<1>2. CASE own = {}
  <2>1. Cloud!View(d, v) = cloud[v]
    BY <1>2 DEF Cloud!View
  <2>2. Due <= cloud[v] + 1
    BY DEF LossInv, ReadsDue
  <2>3. QED
    BY <1>1, <2>1, <2>2
<1>3. CASE own # {}
  <2>1. own \in SUBSET Throw
    BY InSubset
  <2>2. Cloud!Newest(own) \in own
    <3> HIDE DEF own
    <3>1. QED
      BY <1>3, <2>1, HasNewest
  <2>3. /\ Cloud!Newest(own) \in Throw
        /\ stage[d][Cloud!Newest(own)] \in {"saved", "applied"}
    BY <2>2, InIs
  <2>4. Cloud!View(d, v) = value[d][Cloud!Newest(own)]
    BY <1>3 DEF Cloud!View
  <2>5. Due <= value[d][Cloud!Newest(own)]
    BY <2>3 DEF LossInv, RoundsDue
  <2>6. QED
    BY <1>1, <2>4, <2>5
<1>4. QED
  BY <1>2, <1>3

LEMMA InitLoss == Init => LossIInv
<1> SUFFICES ASSUME Init PROVE LossIInv
  OBVIOUS
<1>1. IInv /\ TypeOK
  BY InitInv DEF IInv
<1>2. \A d \in Device, n \in Throw : stage[d][n] = "none"
  BY DEF Init, Cloud!Begin, Cloud!Round, Throw
<1>3. Thrown = {} /\ Failed = {}
  BY <1>1, <1>2, ThrownIs DEF RoundByRound
<1>4. IsFiniteSet(Thrown) /\ Due = 0
  <2>1. Cardinality(Thrown) = 0 /\ Cardinality(Failed) = 0 /\ overlapped = 0
    BY <1>3, FS_EmptySet DEF Init
  <2>2. QED
    BY <1>3, <2>1, FS_EmptySet DEF Due
<1>5. RatingDue
  BY <1>1, <1>2, <1>4, RatingIs DEF RatingDue
<1>6. ReadsDue /\ RoundsDue
  BY <1>2, ReadingIs DEF ReadsDue, RoundsDue
<1>7. QED
  BY <1>1, <1>4, <1>5, <1>6 DEF LossIInv, LossInv

\* The first throw after a rest adds a point to come; a later one overlaps.
LEMMA AskLoss ==
  ASSUME LossIInv, IInv', NEW d \in Device, Ask(d) PROVE LossIInv'
<1>1. TypeOK /\ TypeOK' /\ IsFiniteSet(Thrown)
  BY DEF LossIInv, IInv
<1>2. PICK n \in Throw :
        /\ stage[d][n] = "none"
        /\ Goes(d, n, "asked")
        /\ \A e \in Device :
             since'[e] = IF e = d /\ ~Cloud!Reading(d) THEN Len(cloud) ELSE since[e]
        /\ overlapped' = overlapped + Count(~Settled)
        /\ UNCHANGED << cloud, value, staleRead >>
  BY <1>1, AskShape
<1>3. /\ IsFiniteSet(Thrown') /\ Cardinality(Thrown') = Cardinality(Thrown) + 1
      /\ Failed' = Failed
  BY <1>1, <1>2, OneMoreThrown
<1>4. Due \in Int
  BY <1>1, DueInt
<1>5. Due' = IF Settled THEN Due + 1 ELSE Due
  <2>1. /\ Cardinality(Thrown) \in Nat /\ Cardinality(Failed) \in Nat /\ overlapped \in Nat
    BY <1>1, Sizes DEF TypeOK
  <2>2. QED
    BY <1>2, <1>3, <2>1 DEF Due, Count
<1>6. SUFFICES ASSUME ~staleRead PROVE LossInv'
  BY <1>2, <1>3 DEF LossIInv
<1>7. LossInv
  BY <1>6 DEF LossIInv
<1>8. rating' = rating /\ rating \in Nat
  BY <1>1, <1>2, RatingIs DEF rating
<1>9. Due' <= rating + 1
  BY <1>4, <1>5, <1>7, <1>8 DEF LossInv, RatingDue
<1>10. \A e \in Device, m \in Throw :
         stage'[e][m] \notin {"none", "done", "failed"} /\ ~(e = d /\ m = n) =>
           Due' = Due /\ stage[e][m] = stage'[e][m]
  <2>1. \A e \in Device, m \in Throw :
          ~(e = d /\ m = n) => stage'[e][m] = stage[e][m]
    BY <1>2 DEF Goes
  <2>2. \A e \in Device, m \in Throw :
          stage[e][m] \notin {"none", "done", "failed"} => ~Settled
    BY <1>1, ThrownIs DEF RoundByRound
  <2>3. QED
    BY <1>5, <2>1, <2>2
<1>11. stage'[d][n] = "asked"
  BY <1>2 DEF Goes
<1>12. RatingDue'
  <2>1. ~Settled'
    BY <1>1, <1>11, ThrownIsNext DEF RoundByRound
  <2>2. \A e \in Device, m \in Throw : stage'[e][m] = "applied" => Due' <= rating'
    BY <1>7, <1>8, <1>10, <1>11 DEF LossInv, RatingDue
  <2>3. QED
    BY <1>8, <1>9, <2>1, <2>2 DEF RatingDue
<1>13. ReadsDue'
  <2>1. SUFFICES ASSUME NEW e \in Device, Cloud!Reading(e)',
                        NEW v \in DOMAIN cloud, v >= since'[e]
                 PROVE  Due' <= cloud[v] + 1
    BY <1>2 DEF ReadsDue
  <2>2. v \in 1..Len(cloud) /\ Len(cloud) \in Nat /\ cloud[v] \in Nat
    BY <1>1, RatingIs
  <2>3. CASE e = d /\ ~Cloud!Reading(d)
    <3>1. since'[e] = Len(cloud)
      BY <1>2, <2>3
    <3>2. v = Len(cloud)
      BY <2>1, <2>2, <3>1
    <3>3. QED
      BY <1>9, <3>2 DEF rating
  <2>4. CASE ~(e = d /\ ~Cloud!Reading(d))
    <3>1. Cloud!Reading(e)
      <4>1. CASE e = d
        BY <2>4, <4>1
      <4>2. CASE e # d
        BY <1>2, <2>1, <4>2, ReadingIs, ReadingIsNext DEF Goes
      <4>3. QED
        BY <4>1, <4>2
    <3>2. since'[e] = since[e]
      BY <1>2, <2>4
    <3>3. Due <= cloud[v] + 1
      BY <1>7, <2>1, <3>1, <3>2 DEF LossInv, ReadsDue
    <3>4. ~Settled
      BY <1>1, <3>1, ReadingIs, ThrownIs DEF RoundByRound
    <3>5. QED
      BY <1>5, <3>3, <3>4
  <2>5. QED
    BY <2>3, <2>4
<1>14. RoundsDue'
  BY <1>2, <1>7, <1>10, <1>11 DEF LossInv, RoundsDue
<1>15. QED
  BY <1>12, <1>13, <1>14 DEF LossInv

\* An answer that is not outdated has all points but one.
LEMMA ReplyLoss ==
  ASSUME LossIInv, IInv', NEW d \in Device, NEW seen, Cloud!Reply(d, seen),
         staleRead => staleRead', overlapped' = overlapped,
         ~staleRead' => seen = NoRating \/ (seen \in Nat /\ Due <= seen + 1)
  PROVE  LossIInv'
<1>1. TypeOK /\ TypeOK' /\ IsFiniteSet(Thrown)
  BY DEF LossIInv, IInv
<1>2. PICK replied \in SUBSET Throw :
        /\ replied # {}
        /\ \A n \in replied : stage[d][n] = "asked"
        /\ \A e \in Device, m \in Throw :
             /\ stage'[e][m] = IF e = d /\ m \in replied THEN "answered" ELSE stage[e][m]
             /\ value'[e][m] = IF e = d /\ m \in replied THEN seen ELSE value[e][m]
        /\ UNCHANGED << cloud, since >>
  BY <1>1, ReplyShape
<1>3. Thrown' = Thrown /\ Failed' = Failed
  BY <1>1, <1>2, CountsKept
<1>4. Due' = Due
  BY <1>3, SameDue
<1>5. SUFFICES ASSUME ~staleRead' PROVE LossInv'
  BY <1>1, <1>3 DEF LossIInv
<1>6. LossInv /\ (seen = NoRating \/ (seen \in Nat /\ Due <= seen + 1))
  BY <1>5 DEF LossIInv
<1>7. PICK k \in replied : stage[d][k] = "asked" /\ stage'[d][k] = "answered"
  BY <1>2
<1>8. ~Settled /\ ~Settled'
  BY <1>1, <1>7, ThrownIs, ThrownIsNext DEF RoundByRound
<1>9. RatingDue'
  BY <1>2, <1>4, <1>6, <1>8 DEF LossInv, RatingDue, rating
<1>10. ReadsDue'
  <2>1. \A e \in Device : Cloud!Reading(e)' => Cloud!Reading(e)
    BY <1>2, ReadingIs, ReadingIsNext
  <2>2. QED
    BY <1>2, <1>4, <1>6, <2>1 DEF LossInv, ReadsDue
<1>11. RoundsDue'
  BY <1>2, <1>4, <1>6 DEF LossInv, RoundsDue
<1>12. QED
  BY <1>9, <1>10, <1>11 DEF LossInv

LEMMA AnswerLoss ==
  ASSUME LossIInv, IInv', NEW d \in Device,
         Answer(d) \/ AnswerFromCache(d) \/ AnswerWithError(d)
  PROVE  LossIInv'
<1>1. TypeOK /\ IsFiniteSet(Thrown) /\ Due \in Int
  BY DueInt DEF LossIInv, IInv
<1>2. ASSUME NEW seen, Cloud!Reply(d, seen) PROVE Cloud!Reading(d)
  BY <1>1, <1>2, ReplyShape, ReadingIs
<1>3. CASE Answer(d)
  <2>1. PICK v \in DOMAIN cloud : v >= since[d] /\ Cloud!Reply(d, Cloud!View(d, v))
    BY <1>3 DEF Answer, Cloud!Answer
  <2>2. UNCHANGED << staleRead, overlapped >>
    BY <1>3 DEF Answer, history
  <2>3. ~staleRead' => Cloud!View(d, v) \in Nat /\ Due <= Cloud!View(d, v) + 1
    BY <1>1, <1>2, <2>1, <2>2, ViewDue DEF LossIInv
  <2>4. QED
    BY <2>1, <2>2, <2>3, ReplyLoss
<1>4. CASE AnswerFromCache(d)
  <2>1. PICK v \in DOMAIN cloud : Cloud!Reply(d, Cloud!View(d, v))
    BY <1>4 DEF AnswerFromCache, Cloud!AnswerFromCache
  <2>2. /\ overlapped' = overlapped
        /\ staleRead' = (staleRead \/ \E n \in Cloud!In(d, {"asked"}) :
             stage'[d][n] = "answered" /\ value'[d][n] # Cloud!View(d, Len(cloud)))
    BY <1>4 DEF AnswerFromCache
  <2>3. ASSUME ~staleRead'
        PROVE  Cloud!View(d, v) = Cloud!View(d, Len(cloud))
    <3>1. PICK n \in Throw : /\ stage[d][n] = "asked" /\ stage'[d][n] = "answered"
                             /\ value'[d][n] = Cloud!View(d, v)
      BY <1>1, <2>1, ReplyShape
    <3>2. n \in Cloud!In(d, {"asked"})
      BY <3>1, InIs
    <3>3. QED
      BY <2>2, <2>3, <3>1, <3>2
  <2>4. since[d] \in 1..Len(cloud) /\ Len(cloud) \in DOMAIN cloud /\ Len(cloud) \in Nat
    BY <1>1, RatingIs DEF TypeOK
  <2>5. Len(cloud) >= since[d]
    BY <2>4
  <2>6. ~staleRead' => Cloud!View(d, v) \in Nat /\ Due <= Cloud!View(d, v) + 1
    BY <1>1, <1>2, <2>1, <2>2, <2>3, <2>4, <2>5, ViewDue DEF LossIInv
  <2>7. QED
    BY <2>1, <2>2, <2>6, ReplyLoss
<1>5. CASE AnswerWithError(d)
  BY <1>5, ReplyLoss DEF AnswerWithError, Cloud!AnswerWithError, history
<1>6. QED
  BY <1>3, <1>4, <1>5

\* The handler adds the point to come, or its throw has failed.
LEMMA HandleLoss ==
  ASSUME LossIInv, IInv', NEW d \in Device, HandleAnswer(d) PROVE LossIInv'
<1>1. TypeOK /\ TypeOK' /\ IsFiniteSet(Thrown) /\ Due \in Int
  BY DueInt DEF LossIInv, IInv
<1>2. PICK n \in Throw :
        /\ stage[d][n] = "answered"
        /\ Goes(d, n, IF value[d][n] = NoRating THEN "failed" ELSE "called")
        /\ \A e \in Device, m \in Throw :
             value'[e][m] = IF e = d /\ m = n /\ value[d][n] # NoRating
                            THEN value[d][n] + 1 ELSE value[e][m]
        /\ UNCHANGED << cloud, since, overlapped, staleRead >>
  BY <1>1, HandleShape
<1>3. /\ Thrown' = Thrown
      /\ IF value[d][n] = NoRating THEN Due' <= Due - 1 ELSE Due' = Due
      /\ Due' \in Int
  <2>1. CASE value[d][n] = NoRating
    <3>1. \A e \in Device, m \in Throw :
            /\ stage'[e][m] = "none" <=> stage[e][m] = "none"
            /\ stage[e][m] = "failed" => stage'[e][m] = "failed"
      BY <1>2, <2>1 DEF Goes
    <3>2. stage[d][n] # "failed" /\ stage'[d][n] = "failed"
      BY <1>2, <2>1 DEF Goes
    <3>3. /\ Thrown' = Thrown /\ IsFiniteSet(Failed')
          /\ Cardinality(Failed) + 1 <= Cardinality(Failed')
      BY <1>1, <3>1, <3>2, OneFails, MoreFailed
    <3>4. /\ Cardinality(Thrown) \in Nat /\ Cardinality(Failed) \in Nat
          /\ Cardinality(Failed') \in Nat /\ overlapped \in Nat
      BY <1>1, <3>3, Sizes, FS_CardinalityType DEF TypeOK
    <3>5. QED
      BY <1>2, <2>1, <3>3, <3>4 DEF Due
  <2>2. CASE value[d][n] # NoRating
    <3>1. Thrown' = Thrown /\ Failed' = Failed
      BY <1>1, <1>2, <2>2, CountsKept DEF Goes
    <3>2. QED
      BY <1>1, <1>2, <2>2, <3>1, SameDue
  <2>3. QED
    BY <2>1, <2>2
<1>4. SUFFICES ASSUME ~staleRead PROVE LossInv'
  BY <1>1, <1>2, <1>3 DEF LossIInv
<1>5. LossInv /\ Due' <= Due
  BY <1>1, <1>3, <1>4 DEF LossIInv
<1>6. rating' = rating /\ rating \in Nat
  BY <1>1, <1>2, RatingIs DEF rating
<1>7. RatingDue'
  <2>1. Due <= rating + 1
    BY <1>5 DEF LossInv, RatingDue
  <2>2. Settled' => Due' <= rating
    <3>1. Settled' => value[d][n] = NoRating
      BY <1>1, <1>2, ThrownIsNext DEF RoundByRound, Goes
    <3>2. QED
      BY <1>1, <1>3, <1>6, <2>1, <3>1
  <2>3. \A e \in Device, m \in Throw : stage'[e][m] = "applied" => Due' <= rating
    <3>1. \A e \in Device, m \in Throw : stage'[e][m] = "applied" => stage[e][m] = "applied"
      BY <1>2 DEF Goes
    <3>2. QED
      BY <1>1, <1>3, <1>5, <1>6, <3>1 DEF LossInv, RatingDue
  <2>4. QED
    BY <1>1, <1>3, <1>5, <1>6, <2>1, <2>2, <2>3 DEF RatingDue
<1>8. ReadsDue'
  <2>1. SUFFICES ASSUME NEW e \in Device, Cloud!Reading(e)',
                        NEW v \in DOMAIN cloud, v >= since[e]
                 PROVE  Due' <= cloud[v] + 1
    BY <1>2 DEF ReadsDue
  <2>2. Cloud!Reading(e)
    BY <1>2, <2>1, ReadingIs, ReadingIsNext DEF Goes
  <2>3. Due <= cloud[v] + 1 /\ cloud[v] \in Nat
    BY <1>1, <1>5, <2>1, <2>2, RatingIs DEF LossInv, ReadsDue
  <2>4. QED
    BY <1>1, <1>3, <1>5, <2>3
<1>9. RoundsDue'
  <2>1. SUFFICES ASSUME NEW e \in Device, NEW m \in Throw
                 PROVE  /\ stage'[e][m] = "answered" /\ value'[e][m] # NoRating =>
                             Due' <= value'[e][m] + 1
                        /\ stage'[e][m] \in {"called", "saved", "applied"} =>
                             Due' <= value'[e][m]
    BY DEF RoundsDue
  <2>2. value[e][m] \in Nat \cup {NoRating}
    BY <1>1, ValueIn
  <2>3. CASE e = d /\ m = n
    <3>1. value[d][n] # NoRating => Due <= value[d][n] + 1
      BY <1>2, <1>5 DEF LossInv, RoundsDue
    <3>2. CASE value[d][n] = NoRating
      <4>1. stage'[e][m] = "failed"
        BY <1>2, <2>3, <3>2 DEF Goes
      <4>2. QED
        BY <4>1
    <3>3. CASE value[d][n] # NoRating
      <4>1. stage'[e][m] = "called" /\ value'[e][m] = value[d][n] + 1
        BY <1>2, <2>3, <3>3 DEF Goes
      <4>2. QED
        BY <1>3, <3>1, <3>3, <4>1
    <3>4. QED
      BY <3>2, <3>3
  <2>4. CASE ~(e = d /\ m = n)
    <3>1. stage'[e][m] = stage[e][m] /\ value'[e][m] = value[e][m]
      BY <1>2, <2>4 DEF Goes
    <3>2. /\ stage[e][m] = "answered" /\ value[e][m] # NoRating => Due <= value[e][m] + 1
          /\ stage[e][m] \in {"called", "saved", "applied"} =>
               Due <= value[e][m] /\ value[e][m] \in Nat
      <4>1. stage[e][m] \in {"called", "saved", "applied"} => value[e][m] \in Nat
        BY DEF LossIInv, IInv, RoundInv
      <4>2. QED
        BY <1>5, <4>1 DEF LossInv, RoundsDue
    <3>3. QED
      BY <1>1, <1>3, <1>5, <2>2, <3>1, <3>2
  <2>5. QED
    BY <2>3, <2>4
<1>10. QED
  BY <1>7, <1>8, <1>9 DEF LossInv

LEMMA SaveLoss ==
  ASSUME LossIInv, IInv', NEW d \in Device, Save(d) PROVE LossIInv'
<1>1. TypeOK /\ TypeOK' /\ IsFiniteSet(Thrown)
  BY DEF LossIInv, IInv
<1>2. PICK n \in Throw :
        /\ stage[d][n] = "called"
        /\ Goes(d, n, "saved")
        /\ UNCHANGED << cloud, value, since, overlapped, staleRead >>
  BY <1>1, SaveShape
<1>3. Thrown' = Thrown /\ Failed' = Failed
  BY <1>1, <1>2, CountsKept DEF Goes
<1>4. Due' = Due
  BY <1>2, <1>3, SameDue
<1>5. SUFFICES ASSUME ~staleRead PROVE LossInv'
  BY <1>1, <1>2, <1>3 DEF LossIInv
<1>6. LossInv
  BY <1>5 DEF LossIInv
<1>7. RatingDue'
  <2>1. ~Settled'
    BY <1>1, <1>2, ThrownIsNext DEF RoundByRound, Goes
  <2>2. QED
    BY <1>2, <1>4, <1>6, <2>1 DEF LossInv, RatingDue, rating, Goes
<1>8. ReadsDue'
  <2>1. \A e \in Device : Cloud!Reading(e)' => Cloud!Reading(e)
    BY <1>2, ReadingIs, ReadingIsNext DEF Goes
  <2>2. QED
    BY <1>2, <1>4, <1>6, <2>1 DEF LossInv, ReadsDue
<1>9. RoundsDue'
  BY <1>2, <1>4, <1>6 DEF LossInv, RoundsDue, Goes
<1>10. QED
  BY <1>7, <1>8, <1>9 DEF LossInv

\* A write that is applied lands the point to come.
LEMMA ApplyLoss ==
  ASSUME LossIInv, IInv', NEW d \in Device, ApplyWrite(d) PROVE LossIInv'
<1>1. TypeOK /\ TypeOK' /\ IsFiniteSet(Thrown) /\ Due \in Int
  BY DueInt DEF LossIInv, IInv
<1>2. PICK n \in Throw :
        /\ stage[d][n] = "saved"
        /\ Goes(d, n, "applied")
        /\ cloud' = Append(cloud, value[d][n])
        /\ UNCHANGED << value, since, overlapped, staleRead >>
  BY <1>1, ApplyShape
<1>3. Thrown' = Thrown /\ Failed' = Failed
  BY <1>1, <1>2, CountsKept DEF Goes
<1>4. Due' = Due
  BY <1>2, <1>3, SameDue
<1>5. SUFFICES ASSUME ~staleRead PROVE LossInv'
  BY <1>1, <1>2, <1>3 DEF LossIInv
<1>6. LossInv
  BY <1>5 DEF LossIInv
<1>7. value[d][n] \in Nat /\ Due <= value[d][n]
  BY <1>2, <1>6 DEF LossInv, RoundsDue, LossIInv, IInv, RoundInv
<1>8. /\ DOMAIN cloud' = 1..(Len(cloud) + 1) /\ Len(cloud') = Len(cloud) + 1
      /\ cloud'[Len(cloud) + 1] = value[d][n]
      /\ \A v \in DOMAIN cloud : cloud'[v] = cloud[v]
      /\ DOMAIN cloud = 1..Len(cloud) /\ Len(cloud) \in Nat
  <2> DEFINE new == value[d][n]
  <2>1. cloud \in Seq(Nat) /\ new \in Nat /\ cloud' = Append(cloud, new)
    BY <1>1, <1>2, <1>7 DEF TypeOK
  <2> HIDE DEF new
  <2>2. /\ DOMAIN cloud' = 1..(Len(cloud) + 1) /\ Len(cloud') = Len(cloud) + 1
        /\ cloud'[Len(cloud) + 1] = new
        /\ \A v \in DOMAIN cloud : cloud'[v] = cloud[v]
        /\ DOMAIN cloud = 1..Len(cloud) /\ Len(cloud) \in Nat
    BY <2>1
  <2>3. QED
    BY <2>2 DEF new
<1>9. RatingDue'
  <2>1. rating' = value[d][n]
    BY <1>8 DEF rating
  <2>2. QED
    BY <1>1, <1>4, <1>7, <2>1 DEF RatingDue
<1>10. ReadsDue'
  <2>1. \A e \in Device : Cloud!Reading(e)' => Cloud!Reading(e)
    BY <1>2, ReadingIs, ReadingIsNext DEF Goes
  <2>2. SUFFICES ASSUME NEW e \in Device, Cloud!Reading(e),
                        NEW v \in DOMAIN cloud', v >= since[e]
                 PROVE  Due <= cloud'[v] + 1
    BY <1>2, <1>4, <2>1 DEF ReadsDue
  <2>3. CASE v \in DOMAIN cloud
    BY <1>6, <1>8, <2>2, <2>3 DEF LossInv, ReadsDue
  <2>4. CASE v \notin DOMAIN cloud
    <3>1. v = Len(cloud) + 1
      BY <1>8, <2>4
    <3>2. QED
      BY <1>1, <1>7, <1>8, <3>1
  <2>5. QED
    BY <2>3, <2>4
<1>11. RoundsDue'
  BY <1>2, <1>4, <1>6, <1>7 DEF LossInv, RoundsDue, Goes
<1>12. QED
  BY <1>9, <1>10, <1>11 DEF LossInv

LEMMA AcknowledgeLoss ==
  ASSUME LossIInv, IInv', NEW d \in Device, Acknowledge(d) PROVE LossIInv'
<1>1. TypeOK /\ TypeOK' /\ IsFiniteSet(Thrown)
  BY DEF LossIInv, IInv
<1>2. PICK n \in Throw :
        /\ stage[d][n] = "applied"
        /\ Goes(d, n, "done")
        /\ \A e \in Device, m \in Throw :
             value'[e][m] = IF e = d /\ m = n THEN NoRating ELSE value[e][m]
        /\ UNCHANGED << cloud, since, overlapped, staleRead >>
  BY <1>1, AcknowledgeShape
<1>3. Thrown' = Thrown /\ Failed' = Failed
  BY <1>1, <1>2, CountsKept DEF Goes
<1>4. Due' = Due
  BY <1>2, <1>3, SameDue
<1>5. SUFFICES ASSUME ~staleRead PROVE LossInv'
  BY <1>1, <1>2, <1>3 DEF LossIInv
<1>6. LossInv
  BY <1>5 DEF LossIInv
<1>7. RatingDue'
  BY <1>2, <1>4, <1>6 DEF LossInv, RatingDue, rating, Goes
<1>8. ReadsDue'
  <2>1. \A e \in Device : Cloud!Reading(e)' => Cloud!Reading(e)
    BY <1>2, ReadingIs, ReadingIsNext DEF Goes
  <2>2. QED
    BY <1>2, <1>4, <1>6, <2>1 DEF LossInv, ReadsDue
<1>9. RoundsDue'
  BY <1>2, <1>4, <1>6 DEF LossInv, RoundsDue, Goes
<1>10. QED
  BY <1>7, <1>8, <1>9 DEF LossInv

\* A process that dies takes the points to come with its throws, which fail.
LEMMA UnlearnLoss ==
  ASSUME LossIInv, IInv', NEW d \in Device,
         NEW lost \in SUBSET {"asked", "answered", "called"},
         Cloud!Unlearn(d, lost), UNCHANGED << overlapped, staleRead >>
  PROVE  LossIInv'
<1>1. TypeOK /\ TypeOK' /\ IsFiniteSet(Thrown) /\ Due \in Int
  BY DueInt DEF LossIInv, IInv
<1>2. /\ \A e \in Device, m \in Throw :
           /\ e # d => stage'[e][m] = stage[e][m] /\ value'[e][m] = value[e][m]
           /\ e = d /\ stage[e][m] = "applied" =>
                stage'[e][m] = "saved" /\ value'[e][m] = value[e][m]
           /\ e = d /\ stage[e][m] \in lost => stage'[e][m] = "failed"
           /\ e = d /\ stage[e][m] # "applied" /\ stage[e][m] \notin lost =>
                stage'[e][m] = stage[e][m] /\ value'[e][m] = value[e][m]
      /\ UNCHANGED << cloud, since >>
  BY <1>1, UnlearnShape
<1>3. \A e \in Device, m \in Throw :
        /\ stage'[e][m] = "none" <=> stage[e][m] = "none"
        /\ stage[e][m] = "failed" => stage'[e][m] = "failed"
  BY <1>2
<1>4. /\ Thrown' = Thrown /\ IsFiniteSet(Failed')
      /\ Cardinality(Failed) <= Cardinality(Failed')
  BY <1>1, <1>3, MoreFailed
<1>5. /\ Cardinality(Thrown) \in Nat /\ Cardinality(Failed) \in Nat
      /\ Cardinality(Failed') \in Nat /\ overlapped \in Nat
  BY <1>1, <1>4, Sizes, FS_CardinalityType DEF TypeOK
<1>6. Due' \in Int /\ Due' <= Due
  BY <1>4, <1>5 DEF Due
<1>7. (\E m \in Throw : stage[d][m] \in lost) => Due' <= Due - 1
  <2>1. SUFFICES ASSUME NEW m \in Throw, stage[d][m] \in lost PROVE Due' <= Due - 1
    OBVIOUS
  <2>2. stage[d][m] # "failed" /\ stage'[d][m] = "failed"
    BY <1>2, <2>1
  <2>3. Cardinality(Failed) + 1 <= Cardinality(Failed')
    BY <1>1, <1>3, <2>2, OneFails
  <2>4. QED
    BY <1>4, <1>5, <2>3 DEF Due
<1>8. SUFFICES ASSUME ~staleRead PROVE LossInv'
  BY <1>1, <1>4 DEF LossIInv
<1>9. LossInv
  BY <1>8 DEF LossIInv
<1>10. rating' = rating /\ rating \in Nat
  BY <1>1, <1>2, RatingIs DEF rating
<1>11. RatingDue'
  <2>1. Due <= rating + 1 /\ (Settled => Due <= rating)
    BY <1>9 DEF LossInv, RatingDue
  <2>2. Settled' => Due' <= rating
    <3>1. SUFFICES ASSUME Settled', \A m \in Throw : stage[d][m] \notin lost
                   PROVE  Due' <= rating
      BY <1>1, <1>6, <1>7, <1>10, <2>1
    <3>2. \A e \in Device, m \in Throw : stage'[e][m] \in {"none", "done", "failed"}
      BY <1>1, <3>1, ThrownIsNext DEF RoundByRound
    <3>3. \A e \in Device, m \in Throw : stage[e][m] \in {"none", "done", "failed"}
      BY <1>2, <3>1, <3>2
    <3>4. Settled
      BY <1>1, <3>3, ThrownIs DEF RoundByRound
    <3>5. QED
      BY <1>1, <1>6, <1>10, <2>1, <3>4
  <2>3. \A e \in Device, m \in Throw : stage'[e][m] = "applied" => Due' <= rating
    <3>1. \A e \in Device, m \in Throw : stage'[e][m] = "applied" => stage[e][m] = "applied"
      BY <1>2
    <3>2. QED
      BY <1>1, <1>6, <1>9, <1>10, <3>1 DEF LossInv, RatingDue
  <2>4. QED
    BY <1>1, <1>6, <1>10, <2>1, <2>2, <2>3 DEF RatingDue
<1>12. ReadsDue'
  <2>1. SUFFICES ASSUME NEW e \in Device, Cloud!Reading(e)',
                        NEW v \in DOMAIN cloud, v >= since[e]
                 PROVE  Due' <= cloud[v] + 1
    BY <1>2 DEF ReadsDue
  <2>2. Cloud!Reading(e)
    BY <1>2, <2>1, ReadingIs, ReadingIsNext
  <2>3. Due <= cloud[v] + 1 /\ cloud[v] \in Nat
    BY <1>1, <1>9, <2>1, <2>2, RatingIs DEF LossInv, ReadsDue
  <2>4. QED
    BY <1>1, <1>6, <2>3
<1>13. RoundsDue'
  <2>1. SUFFICES ASSUME NEW e \in Device, NEW m \in Throw
                 PROVE  /\ stage'[e][m] = "answered" /\ value'[e][m] # NoRating =>
                             Due' <= value'[e][m] + 1
                        /\ stage'[e][m] \in {"called", "saved", "applied"} =>
                             Due' <= value'[e][m]
    BY DEF RoundsDue
  <2>2. value[e][m] \in Nat \cup {NoRating}
    BY <1>1, ValueIn
  <2>3. stage'[e][m] \in {"answered", "called", "saved", "applied"} =>
          /\ value'[e][m] = value[e][m]
          /\ stage[e][m] = stage'[e][m] \/ (stage[e][m] = "applied" /\ stage'[e][m] = "saved")
    BY <1>2
  <2>4. /\ stage[e][m] = "answered" /\ value[e][m] # NoRating => Due <= value[e][m] + 1
        /\ stage[e][m] \in {"called", "saved", "applied"} =>
             Due <= value[e][m] /\ value[e][m] \in Nat
    <3>1. stage[e][m] \in {"called", "saved", "applied"} => value[e][m] \in Nat
      BY DEF LossIInv, IInv, RoundInv
    <3>2. QED
      BY <1>9, <3>1 DEF LossInv, RoundsDue
  <2>5. QED
    BY <1>1, <1>6, <2>2, <2>3, <2>4
<1>14. QED
  BY <1>11, <1>12, <1>13 DEF LossInv

LEMMA NextLoss == LossIInv /\ [Next]_vars => LossIInv'
<1> SUFFICES ASSUME LossIInv, [Next]_vars PROVE LossIInv'
  OBVIOUS
<1>1. IInv'
  BY NextInv DEF LossIInv
<1>2. CASE UNCHANGED vars
  <2>1. /\ UNCHANGED << cloud, stage, value, version, after, since, known >>
        /\ UNCHANGED << resends, hurried, overlapped, staleRead >>
    BY <1>2 DEF vars, document, history
  <2>2. /\ Thrown' = Thrown /\ Failed' = Failed /\ Settled' = Settled /\ rating' = rating
        /\ \A d \in Device : Cloud!Reading(d)' = Cloud!Reading(d)
    BY <2>1 DEF Thrown, Failed, Throws, Settled, rating, Cloud!Reading, Cloud!In
  <2>3. QED
    BY <1>1, <2>1, <2>2, SameDue DEF LossIInv, LossInv, RatingDue, ReadsDue, RoundsDue
<1>3. ASSUME NEW d \in Device, Resend(d) PROVE LossIInv'
  BY <1>1, <1>3, UnlearnLoss DEF Resend, Cloud!Resend, history
<1>4. ASSUME NEW d \in Device, Kill(d) PROVE LossIInv'
  BY <1>1, <1>4, UnlearnLoss DEF Kill, Cloud!Kill, history
<1>5. QED
  BY <1>1, <1>2, <1>3, <1>4, AskLoss, AnswerLoss, HandleLoss, SaveLoss, ApplyLoss,
     AcknowledgeLoss DEF Next

-----------------------------------------------------------------------------
(* One device.                                                             *)

Own == {"saved", "applied"}

NewestAt(d, n, stages) ==
  stage[d][n] \in stages /\ \A m \in Throw : stage[d][m] \in stages => m <= n

\* What the user of d sees.
Seen(d) == Cloud!View(d, Len(cloud))

\* A round gets on only after the older ones, and the newest does so last.
Rank(s) ==
  IF s = "none" THEN 0 ELSE IF s = "asked" THEN 1 ELSE IF s = "answered" THEN 2
  ELSE IF s = "called" THEN 3 ELSE IF s = "saved" THEN 4 ELSE IF s = "applied" THEN 5 ELSE 6

InTurn(d) ==
  \A n, m \in Throw :
    n < m /\ stage[d][n] # "failed" /\ stage[d][m] # "failed" =>
      Rank(stage[d][m]) <= Rank(stage[d][n])

\* The device knows its own last write from the cloud, or overlays it.
CloudIsOwn(d) ==
  /\ (\A n \in Throw : stage[d][n] \notin Own) =>
       \A v \in DOMAIN cloud : v >= known[d] => cloud[v] = rating
  /\ \A n \in Throw :
       NewestAt(d, n, Own) /\ stage[d][n] = "applied" =>
         version[d][n] = Len(cloud) /\ value[d][n] = rating

\* Answers and writes called climb, in their order, by one point at most.
Climbs(d) ==
  \A n \in Throw :
    /\ stage[d][n] = "answered" /\ value[d][n] # NoRating =>
         /\ value[d][n] <= Seen(d) /\ Seen(d) <= value[d][n] + 1
         /\ \A m \in Throw : stage[d][m] = "called" => value[d][m] <= value[d][n] + 1
         /\ \A m \in Throw :
              n < m /\ stage[d][m] = "answered" /\ value[d][m] # NoRating =>
                value[d][n] <= value[d][m]
    /\ stage[d][n] = "called" =>
         /\ Seen(d) <= value[d][n] /\ value[d][n] <= Seen(d) + 1
         /\ \A m \in Throw : n < m /\ stage[d][m] = "called" => value[d][n] <= value[d][m]

\* The points its user has when no throw made in a hurry, or failed, counts.
Expected == Cardinality(Thrown) - hurried - Cardinality(Failed)

\* What is seen once the writes called are saved has them all, but for one
\* that the open reads make up for; ...
ComingDue(d) ==
  /\ \A n \in Throw : NewestAt(d, n, {"called"}) =>
       /\ Expected <= value[d][n] + 1
       /\ ~Cloud!Reading(d) => Expected <= value[d][n]
  /\ (\A n \in Throw : stage[d][n] # "called") =>
       /\ Expected <= Seen(d) + 1
       /\ ~Cloud!Reading(d) => Expected <= Seen(d)

\* ... so have the answers, ...
AnswersDue(d) ==
  \A n \in Throw :
    stage[d][n] = "answered" /\ value[d][n] # NoRating => Expected <= value[d][n] + 1

\* ... and what a read will see, which waits for the write called before it.
AsksDue(d) ==
  \A n \in Throw : stage[d][n] = "asked" =>
    /\ \A m \in Throw : m = after[d][n] /\ stage[d][m] = "called" =>
         Expected <= value[d][m] + 1
    /\ (\A m \in Throw : stage[d][m] = "called" => m # after[d][n]) =>
         Expected <= Seen(d) + 1

OwnInv(d) ==
  InTurn(d) /\ CloudIsOwn(d) /\ Climbs(d) /\ ComingDue(d) /\ AnswersDue(d) /\ AsksDue(d)

OwnIInv == LossIInv /\ \A d \in Device : OnlyOn(d) => OwnInv(d)

LEMMA SeenNat == ASSUME IInv, NEW d \in Device PROVE Seen(d) \in Nat
<1>1. Len(cloud) \in DOMAIN cloud
  BY RatingIs DEF IInv
<1>2. QED
  BY <1>1, ViewEarned DEF Seen

LEMMA HasNewestAt ==
  ASSUME NEW d \in Device, NEW stages, NEW k \in Throw, stage[d][k] \in stages
  PROVE  \E n \in Throw : NewestAt(d, n, stages)
<1> DEFINE S == Cloud!In(d, stages)
<1>1. S \in SUBSET Throw /\ \A n : n \in S <=> n \in Throw /\ stage[d][n] \in stages
  BY InSubset, InIs
<1>2. k \in S
  BY <1>1
<1> HIDE DEF S
<1>3. Cloud!Newest(S) \in S /\ \A m \in S : m <= Cloud!Newest(S)
  BY <1>1, <1>2, HasNewest
<1>4. NewestAt(d, Cloud!Newest(S), stages)
  BY <1>1, <1>3 DEF NewestAt
<1>5. QED
  BY <1>1, <1>3, <1>4

\* What is seen, round by round, now and after a step.
SeenByRound ==
  \A d \in Device :
    /\ (\A n \in Throw : stage[d][n] \notin Own) => Seen(d) = rating
    /\ \A n \in Throw : NewestAt(d, n, Own) => Seen(d) = value[d][n]

LEMMA SeenIs == SeenByRound
<1>1. SUFFICES ASSUME NEW d \in Device
               PROVE  /\ (\A n \in Throw : stage[d][n] \notin Own) => Seen(d) = rating
                      /\ \A n \in Throw : NewestAt(d, n, Own) => Seen(d) = value[d][n]
  BY DEF SeenByRound
<1> DEFINE S == Cloud!In(d, Own)
<1>2. S \in SUBSET Throw /\ \A n : n \in S <=> n \in Throw /\ stage[d][n] \in Own
  BY InSubset, InIs
<1>3. Seen(d) = IF S = {} THEN rating ELSE value[d][Cloud!Newest(S)]
  BY DEF Seen, Cloud!View, rating, Own
<1> HIDE DEF S
<1>4. (\A n \in Throw : stage[d][n] \notin Own) => S = {}
  BY <1>2
<1>5. ASSUME NEW n \in Throw, NewestAt(d, n, Own) PROVE Seen(d) = value[d][n]
  <2>1. n \in S /\ \A m \in S : m <= n
    BY <1>2, <1>5 DEF NewestAt
  <2>2. Cloud!Newest(S) = n
    BY <1>2, <2>1, NewestIs
  <2>3. QED
    BY <1>3, <2>1, <2>2
<1>6. QED
  BY <1>3, <1>4, <1>5

LEMMA SeenIsNext == SeenByRound'
BY SeenIs, PTL

\* Nothing changes for its user as long as the writes saved stay.
LEMMA SeenKept ==
  ASSUME NEW d \in Device,
         \A n \in Throw : stage'[d][n] \in Own <=> stage[d][n] \in Own,
         \A n \in Throw : stage[d][n] \in Own => value'[d][n] = value[d][n],
         rating' = rating \/ \E n \in Throw : stage[d][n] \in Own
  PROVE  Seen(d)' = Seen(d)
<1>1. CASE \A n \in Throw : stage[d][n] \notin Own
  <2>1. \A n \in Throw : stage'[d][n] \notin Own
    BY <1>1
  <2>2. Seen(d) = rating /\ Seen(d)' = rating'
    BY <1>1, <2>1, SeenIs, SeenIsNext DEF SeenByRound, Own
  <2>3. QED
    BY <1>1, <2>2
<1>2. ASSUME NEW k \in Throw, stage[d][k] \in Own PROVE Seen(d)' = Seen(d)
  <2>1. PICK n \in Throw : NewestAt(d, n, Own)
    BY <1>2, HasNewestAt
  <2>2. NewestAt(d, n, Own)'
    BY <2>1 DEF NewestAt, Own
  <2>3. QED
    BY <2>1, <2>2, SeenIs, SeenIsNext DEF SeenByRound, NewestAt
<1>3. QED
  BY <1>1, <1>2

\* Nothing is thrown elsewhere that was not thrown elsewhere before.
LEMMA OnlyOnIs ==
  TypeOK => \A d \in Device :
              OnlyOn(d) <=> \A e \in Device, n \in Throw : stage[e][n] # "none" => e = d
<1>1. SUFFICES ASSUME TypeOK, NEW d \in Device
               PROVE  OnlyOn(d) <=>
                        \A e \in Device, n \in Throw : stage[e][n] # "none" => e = d
  OBVIOUS
<1>2. \A e \in Device, n \in Throw : << e, n >> \in Thrown <=> stage[e][n] # "none"
  BY <1>1, ThrownIs DEF RoundByRound
<1>3. \A en \in Thrown : \E e \in Device, n \in Throw : en = << e, n >>
  BY <1>1, ThrownIs DEF RoundByRound
<1>4. ASSUME OnlyOn(d), NEW e \in Device, NEW n \in Throw, stage[e][n] # "none" PROVE e = d
  <2>1. << e, n >> \in Thrown
    BY <1>2, <1>4
  <2>2. << e, n >>[1] = d
    BY <1>4, <2>1 DEF OnlyOn
  <2>3. QED
    BY <2>2
<1>5. ASSUME \A e \in Device, n \in Throw : stage[e][n] # "none" => e = d PROVE OnlyOn(d)
  BY <1>2, <1>3, <1>5 DEF OnlyOn
<1>6. QED
  BY <1>4, <1>5

LEMMA ExpectedInt ==
  ASSUME TypeOK, IsFiniteSet(Thrown) PROVE Expected \in Int
BY Sizes DEF Expected

\* A throw in a hurry is not expected to count; any other one is read for.
LEMMA AskOwn ==
  ASSUME LossIInv, LossIInv', NEW d \in Device, OwnInv(d), Ask(d)
  PROVE  OwnInv(d)' /\ Seen(d)' = Seen(d)
<1>1. TypeOK /\ TypeOK' /\ IsFiniteSet(Thrown) /\ Seen(d) \in Nat /\ Expected \in Int
  BY SeenNat, ExpectedInt DEF LossIInv, IInv
<1>2. PICK n \in Throw :
        /\ stage[d][n] = "none"
        /\ \A m \in Throw : stage[d][m] = "none" => n <= m
        /\ Goes(d, n, "asked")
        /\ \A e \in Device, m \in Throw :
             after'[e][m] = IF e = d /\ m = n
                            THEN IF Cloud!In(d, {"called"}) = {} THEN 0
                                 ELSE Cloud!Newest(Cloud!In(d, {"called"}))
                            ELSE after[e][m]
        /\ hurried' = hurried + Count(Cloud!Reading(d))
        /\ UNCHANGED << cloud, value, version, known >>
  BY <1>1, AskShape
<1>3. \A m \in Throw : stage'[d][m] = IF m = n THEN "asked" ELSE stage[d][m]
  BY <1>2 DEF Goes
<1>4. Seen(d)' = Seen(d)
  BY <1>2, <1>3, SeenKept DEF Own, rating
<1>5. InTurn(d)'
  <2>1. \A a, b \in Throw :
          a < b /\ stage'[d][a] # "failed" /\ stage'[d][b] # "failed" =>
            Rank(stage'[d][b]) <= Rank(stage'[d][a])
    BY <1>2, <1>3 DEF OwnInv, InTurn, Rank, Throw
  <2>2. QED
    BY <2>1 DEF InTurn, Rank
<1>6. CloudIsOwn(d)'
  BY <1>2, <1>3 DEF OwnInv, CloudIsOwn, NewestAt, Own, rating
<1>7. Climbs(d)'
  BY <1>2, <1>3, <1>4 DEF OwnInv, Climbs
<1>8. Expected' = IF Cloud!Reading(d) THEN Expected ELSE Expected + 1
  <2>1. Cardinality(Thrown') = Cardinality(Thrown) + 1 /\ Failed' = Failed
    BY <1>1, <1>2, OneMoreThrown
  <2>2. Cardinality(Thrown) \in Nat /\ Cardinality(Failed) \in Nat /\ hurried \in Nat
    BY <1>1, Sizes DEF TypeOK
  <2>3. QED
    BY <1>2, <2>1, <2>2 DEF Expected, Count
<1>9. /\ Cloud!Reading(d)'
      /\ \A m \in Throw : stage[d][m] \in {"asked", "answered"} => Cloud!Reading(d)
  BY <1>3, ReadingIs, ReadingIsNext
<1>10. \A m \in Throw : stage[d][m] = "called" => value[d][m] \in Nat
  BY DEF LossIInv, IInv, RoundInv
<1>11. /\ \A m \in Throw : NewestAt(d, m, {"called"}) => Expected' <= value[d][m] + 1
       /\ (\A m \in Throw : stage[d][m] # "called") => Expected' <= Seen(d) + 1
  <2>1. ASSUME NEW m \in Throw, NewestAt(d, m, {"called"}) PROVE Expected' <= value[d][m] + 1
    <3>1. stage[d][m] = "called" /\ value[d][m] \in Nat
      BY <1>10, <2>1 DEF NewestAt
    <3>2. QED
      BY <1>1, <1>8, <2>1, <3>1 DEF OwnInv, ComingDue
  <2>2. QED
    BY <1>1, <1>8, <2>1 DEF OwnInv, ComingDue
<1>12. ComingDue(d)'
  BY <1>2, <1>3, <1>4, <1>9, <1>11 DEF ComingDue, NewestAt
<1>13. AnswersDue(d)'
  BY <1>2, <1>3, <1>8, <1>9 DEF OwnInv, AnswersDue
<1>14. AsksDue(d)'
  <2>1. SUFFICES ASSUME NEW k \in Throw, stage'[d][k] = "asked"
                 PROVE  /\ \A m \in Throw : m = after'[d][k] /\ stage[d][m] = "called" =>
                             Expected' <= value[d][m] + 1
                        /\ (\A m \in Throw : stage[d][m] = "called" => m # after'[d][k]) =>
                             Expected' <= Seen(d) + 1
    BY <1>2, <1>3, <1>4 DEF AsksDue
  <2>2. CASE k # n
    <3>1. stage[d][k] = "asked" /\ after'[d][k] = after[d][k] /\ Expected' = Expected
      BY <1>2, <1>3, <1>8, <1>9, <2>1, <2>2
    <3>2. QED
      BY <3>1 DEF OwnInv, AsksDue
  <2>3. CASE k = n /\ \E m \in Throw : stage[d][m] = "called"
    <3> DEFINE S == Cloud!In(d, {"called"})
    <3>1. S \in SUBSET Throw /\ \A m : m \in S <=> m \in Throw /\ stage[d][m] = "called"
      BY InSubset, InIs
    <3>2. after'[d][k] = IF S = {} THEN 0 ELSE Cloud!Newest(S)
      BY <1>2, <2>3
    <3> HIDE DEF S
    <3>3. S # {}
      BY <2>3, <3>1
    <3>4. Cloud!Newest(S) \in S /\ \A m \in S : m <= Cloud!Newest(S)
      BY <3>1, <3>3, HasNewest
    <3>5. after'[d][k] = Cloud!Newest(S) /\ NewestAt(d, Cloud!Newest(S), {"called"})
      BY <3>1, <3>2, <3>3, <3>4 DEF NewestAt
    <3>6. QED
      BY <1>11, <3>1, <3>4, <3>5
  <2>4. CASE k = n /\ \A m \in Throw : stage[d][m] # "called"
    BY <1>11, <2>4
  <2>5. QED
    BY <2>2, <2>3, <2>4
<1>15. QED
  BY <1>4, <1>5, <1>6, <1>7, <1>12, <1>13, <1>14 DEF OwnInv

\* An answer is what its user sees.
LEMMA ReplyOwn ==
  ASSUME LossIInv, LossIInv', NEW d \in Device, OwnInv(d),
         NEW seen, seen = NoRating \/ seen = Seen(d), Cloud!Reply(d, seen),
         known' = known \/ \E v \in Nat : v >= known[d] /\ known' = [known EXCEPT ![d] = v],
         hurried' = hurried
  PROVE  OwnInv(d)' /\ Seen(d)' = Seen(d)
<1>1. TypeOK /\ TypeOK' /\ Seen(d) \in Nat /\ NoRating \notin Nat
  BY SeenNat, ConstantsAssumption DEF LossIInv, IInv
<1>2. PICK replied \in SUBSET Throw :
        /\ replied # {}
        /\ \A n \in replied : stage[d][n] = "asked"
        /\ \A n \in replied, m \in Throw :
             stage[d][m] = "asked" /\ m \notin replied => n < m
        /\ \A n \in replied, m \in Throw : stage[d][m] = "called" => m > after[d][n]
        /\ \A e \in Device, m \in Throw :
             /\ stage'[e][m] = IF e = d /\ m \in replied THEN "answered" ELSE stage[e][m]
             /\ value'[e][m] = IF e = d /\ m \in replied THEN seen ELSE value[e][m]
        /\ UNCHANGED << cloud, version, after >>
  BY <1>1, ReplyShape
<1>3. /\ \A m \in Throw :
           /\ m \in replied => stage[d][m] = "asked"
           /\ stage'[d][m] = IF m \in replied THEN "answered" ELSE stage[d][m]
           /\ value'[d][m] = IF m \in replied THEN seen ELSE value[d][m]
      /\ Cloud!Reading(d)
  BY <1>2, ReadingIs
<1>4. Seen(d)' = Seen(d)
  BY <1>2, <1>3, SeenKept DEF Own, rating
<1>5. InTurn(d)'
  <2>1. \A a, b \in Throw :
          a < b /\ stage'[d][a] # "failed" /\ stage'[d][b] # "failed" =>
            Rank(stage'[d][b]) <= Rank(stage'[d][a])
    <3>1. SUFFICES ASSUME NEW a \in Throw, NEW b \in Throw, a < b,
                          stage'[d][a] # "failed", stage'[d][b] # "failed"
                   PROVE  Rank(stage'[d][b]) <= Rank(stage'[d][a])
      OBVIOUS
    <3>2. Rank(stage[d][b]) <= Rank(stage[d][a])
      BY <1>3, <3>1 DEF OwnInv, InTurn
    <3>3. b \in replied /\ stage[d][a] = "asked" => a \in replied
      BY <1>2, <3>1 DEF Throw
    <3>4. QED
      BY <1>3, <3>1, <3>2, <3>3 DEF Rank
  <2>2. QED
    BY <2>1 DEF InTurn, Rank
<1>6. CloudIsOwn(d)'
  <2>1. known'[d] \in Nat /\ known[d] \in Nat /\ known'[d] >= known[d]
    BY <1>1 DEF TypeOK
  <2>2. \A v \in DOMAIN cloud : v \in Nat /\ (v >= known'[d] => v >= known[d])
    BY <1>1, <2>1, RatingIs
  <2>3. QED
    BY <1>2, <1>3, <2>2 DEF OwnInv, CloudIsOwn, NewestAt, Own, rating
<1>7. Expected' = Expected
  BY <1>1, <1>2, CountsKept DEF Expected
<1>8. Climbs(d)'
  <2>1. SUFFICES
          ASSUME NEW n \in Throw
          PROVE
            /\ stage'[d][n] = "answered" /\ value'[d][n] # NoRating =>
                 /\ value'[d][n] <= Seen(d) /\ Seen(d) <= value'[d][n] + 1
                 /\ \A m \in Throw : stage'[d][m] = "called" => value'[d][m] <= value'[d][n] + 1
                 /\ \A m \in Throw :
                      n < m /\ stage'[d][m] = "answered" /\ value'[d][m] # NoRating =>
                        value'[d][n] <= value'[d][m]
            /\ stage'[d][n] = "called" =>
                 /\ Seen(d) <= value'[d][n] /\ value'[d][n] <= Seen(d) + 1
                 /\ \A m \in Throw :
                      n < m /\ stage'[d][m] = "called" => value'[d][n] <= value'[d][m]
    BY <1>4 DEF Climbs
  <2>2. \A m \in Throw : stage'[d][m] = "called" <=> stage[d][m] = "called"
    BY <1>3
  <2>3. CASE n \in replied
    <3>1. \A m \in Throw : stage[d][m] = "called" => value[d][m] <= Seen(d) + 1
      BY DEF OwnInv, Climbs
    <3>2. \A m \in Throw : n < m /\ stage[d][m] # "failed" => Rank(stage[d][m]) <= 1
      BY <1>3, <2>3 DEF OwnInv, InTurn, Rank
    <3>3. \A m \in Throw : n < m /\ stage'[d][m] = "answered" => m \in replied
      BY <1>3, <3>2 DEF Rank
    <3>4. QED
      BY <1>1, <1>3, <2>2, <2>3, <3>1, <3>3
  <2>4. CASE n \notin replied
    <3>1. stage'[d][n] = stage[d][n] /\ value'[d][n] = value[d][n]
      BY <1>3, <2>4
    <3>2. QED
      BY <1>1, <1>3, <2>2, <3>1 DEF OwnInv, Climbs
  <2>5. QED
    BY <2>3, <2>4
<1>9. ComingDue(d)'
  <2>1. Cloud!Reading(d)'
    BY <1>2, <1>3, ReadingIsNext
  <2>2. QED
    BY <1>3, <1>4, <1>7, <2>1 DEF OwnInv, ComingDue, NewestAt
<1>10. AnswersDue(d)'
  <2>1. SUFFICES ASSUME NEW n \in Throw, stage'[d][n] = "answered", value'[d][n] # NoRating
                 PROVE  Expected <= value'[d][n] + 1
    BY <1>7 DEF AnswersDue
  <2>2. CASE n \in replied
    <3>1. \A m \in Throw : stage[d][m] = "called" => m # after[d][n]
      BY <1>2, <2>2 DEF Throw
    <3>2. Expected <= Seen(d) + 1
      BY <1>3, <2>2, <3>1 DEF OwnInv, AsksDue
    <3>3. QED
      BY <1>3, <2>1, <2>2, <3>2
  <2>3. CASE n \notin replied
    BY <1>3, <2>1, <2>3 DEF OwnInv, AnswersDue
  <2>4. QED
    BY <2>2, <2>3
<1>11. AsksDue(d)'
  BY <1>2, <1>3, <1>4, <1>7 DEF OwnInv, AsksDue
<1>12. QED
  BY <1>4, <1>5, <1>6, <1>8, <1>9, <1>10, <1>11 DEF OwnInv

LEMMA AnswerOwn ==
  ASSUME LossIInv, LossIInv', NEW d \in Device, OwnInv(d),
         Answer(d) \/ AnswerFromCache(d) \/ AnswerWithError(d)
  PROVE  OwnInv(d)' /\ Seen(d)' = Seen(d)
<1>1. CASE Answer(d) \/ AnswerFromCache(d)
  <2>1. PICK v \in DOMAIN cloud :
          v >= known[d] /\ Cloud!Reply(d, Cloud!View(d, v)) /\ known' = [known EXCEPT ![d] = v]
    BY <1>1 DEF Answer, Cloud!Answer, AnswerFromCache, Cloud!AnswerFromCache
  <2>2. hurried' = hurried
    BY <1>1 DEF Answer, AnswerFromCache, history
  <2>3. v \in Nat
    BY <2>1, RatingIs DEF LossIInv, IInv
  <2>4. Cloud!View(d, v) = Seen(d)
    <3>1. CASE Cloud!In(d, {"saved", "applied"}) = {}
      <4>1. \A n \in Throw : stage[d][n] \notin Own
        BY <3>1, InIs DEF Own
      <4>2. cloud[v] = rating
        BY <2>1, <4>1 DEF OwnInv, CloudIsOwn
      <4>3. QED
        BY <3>1, <4>2 DEF Cloud!View, Seen, rating
    <3>2. CASE Cloud!In(d, {"saved", "applied"}) # {}
      BY <3>2 DEF Cloud!View, Seen
    <3>3. QED
      BY <3>1, <3>2
  <2>5. QED
    BY <2>1, <2>2, <2>3, <2>4, ReplyOwn
<1>2. CASE AnswerWithError(d)
  BY <1>2, ReplyOwn DEF AnswerWithError, Cloud!AnswerWithError, history
<1>3. QED
  BY <1>1, <1>2

\* The handler's write goes beyond what is seen, and is the newest.
LEMMA HandleErrorOwn ==
  ASSUME LossIInv, LossIInv', NEW d \in Device, OwnInv(d), NEW n \in Throw,
         stage[d][n] = "answered", Goes(d, n, "failed"),
         \A m \in Throw : value'[d][m] = value[d][m],
         UNCHANGED << cloud, version, after, known, hurried >>
  PROVE  OwnInv(d)' /\ Seen(d)' = Seen(d)
<1>1. TypeOK /\ TypeOK' /\ IsFiniteSet(Thrown) /\ Seen(d) \in Nat /\ Expected \in Int
  BY SeenNat, ExpectedInt DEF LossIInv, IInv
<1>2. \A m \in Throw : stage'[d][m] = IF m = n THEN "failed" ELSE stage[d][m]
  BY DEF Goes
<1>3. Seen(d)' = Seen(d)
  BY <1>2, SeenKept DEF Own, rating
<1>4. InTurn(d)'
  BY <1>2 DEF OwnInv, InTurn, Rank
<1>5. CloudIsOwn(d)'
  BY <1>2 DEF OwnInv, CloudIsOwn, NewestAt, Own, rating
<1>6. Climbs(d)'
  BY <1>2, <1>3 DEF OwnInv, Climbs
<1>7. Expected' \in Int /\ Expected' <= Expected - 1
  <2>1. \A e \in Device, m \in Throw :
          /\ stage'[e][m] = "none" <=> stage[e][m] = "none"
          /\ stage[e][m] = "failed" => stage'[e][m] = "failed"
    BY DEF Goes
  <2>2. /\ Thrown' = Thrown /\ IsFiniteSet(Failed')
        /\ Cardinality(Failed) + 1 <= Cardinality(Failed')
    BY <1>1, <1>2, <2>1, OneFails, MoreFailed
  <2>3. /\ Cardinality(Thrown) \in Nat /\ Cardinality(Failed) \in Nat
        /\ Cardinality(Failed') \in Nat /\ hurried \in Nat
    BY <1>1, <2>2, Sizes, FS_CardinalityType DEF TypeOK
  <2>4. QED
    BY <2>2, <2>3 DEF Expected
<1>8. /\ Cloud!Reading(d)
      /\ \A m \in Throw : stage'[d][m] = "called" <=> stage[d][m] = "called"
      /\ \A m \in Throw : stage[d][m] = "called" => value[d][m] \in Nat
      /\ \A m \in Throw : value[d][m] \in Nat \cup {NoRating}
  BY <1>1, <1>2, ReadingIs, ValueIn DEF LossIInv, IInv, RoundInv
<1>9. ComingDue(d)'
  <2>1. /\ \A m \in Throw : NewestAt(d, m, {"called"}) => Expected' <= value[d][m]
        /\ (\A m \in Throw : stage[d][m] # "called") => Expected' <= Seen(d)
    BY <1>1, <1>7, <1>8 DEF OwnInv, ComingDue, NewestAt
  <2>2. \A m \in Throw : NewestAt(d, m, {"called"})' => NewestAt(d, m, {"called"})
    BY <1>8 DEF NewestAt
  <2>3. ASSUME NEW m \in Throw, NewestAt(d, m, {"called"})'
        PROVE  Expected' <= value[d][m] + 1 /\ Expected' <= value[d][m]
    <3>1. value[d][m] \in Nat
      BY <1>8, <2>2, <2>3 DEF NewestAt
    <3>2. QED
      BY <1>7, <2>1, <2>2, <2>3, <3>1
  <2>4. (\A m \in Throw : stage'[d][m] # "called") =>
          Expected' <= Seen(d) + 1 /\ Expected' <= Seen(d)
    BY <1>1, <1>7, <1>8, <2>1
  <2>5. QED
    BY <1>3, <2>3, <2>4 DEF ComingDue
<1>10. AnswersDue(d)'
  <2>1. SUFFICES ASSUME NEW m \in Throw, stage'[d][m] = "answered", value[d][m] # NoRating
                 PROVE  Expected' <= value[d][m] + 1
    BY DEF AnswersDue
  <2>2. Expected <= value[d][m] + 1 /\ value[d][m] \in Nat
    BY <1>2, <1>8, <2>1 DEF OwnInv, AnswersDue
  <2>3. QED
    BY <1>1, <1>7, <2>2
<1>11. AsksDue(d)'
  <2>1. SUFFICES ASSUME NEW k \in Throw, stage'[d][k] = "asked"
                 PROVE  /\ \A m \in Throw : m = after[d][k] /\ stage'[d][m] = "called" =>
                             Expected' <= value[d][m] + 1
                        /\ (\A m \in Throw : stage'[d][m] = "called" => m # after[d][k]) =>
                             Expected' <= Seen(d) + 1
    BY <1>3 DEF AsksDue
  <2>2. stage[d][k] = "asked"
    BY <1>2, <2>1
  <2>3. /\ \A m \in Throw : m = after[d][k] /\ stage[d][m] = "called" =>
             Expected <= value[d][m] + 1
        /\ (\A m \in Throw : stage[d][m] = "called" => m # after[d][k]) =>
             Expected <= Seen(d) + 1
    BY <2>2 DEF OwnInv, AsksDue
  <2>4. QED
    BY <1>1, <1>7, <1>8, <2>3
<1>12. QED
  BY <1>3, <1>4, <1>5, <1>6, <1>9, <1>10, <1>11 DEF OwnInv

LEMMA HandleOwn ==
  ASSUME LossIInv, LossIInv', NEW d \in Device, OwnInv(d), HandleAnswer(d)
  PROVE  OwnInv(d)' /\ Seen(d)' = Seen(d)
<1>1. TypeOK /\ TypeOK' /\ IsFiniteSet(Thrown) /\ Seen(d) \in Nat /\ Expected \in Int
  BY SeenNat, ExpectedInt DEF LossIInv, IInv
<1>2. PICK n \in Throw :
        /\ stage[d][n] = "answered"
        /\ \A m \in Throw : stage[d][m] = "answered" => n <= m
        /\ Goes(d, n, IF value[d][n] = NoRating THEN "failed" ELSE "called")
        /\ \A e \in Device, m \in Throw :
             value'[e][m] = IF e = d /\ m = n /\ value[d][n] # NoRating
                            THEN value[d][n] + 1 ELSE value[e][m]
        /\ UNCHANGED << cloud, version, after, known, hurried >>
  BY <1>1, HandleShape
<1>3. CASE value[d][n] = NoRating
  <2>1. Goes(d, n, "failed")
    BY <1>2, <1>3
  <2>2. QED
    BY <1>2, <1>3, <2>1, HandleErrorOwn
<1>4. CASE value[d][n] # NoRating
  <2>1. /\ \A m \in Throw :
             /\ stage'[d][m] = IF m = n THEN "called" ELSE stage[d][m]
             /\ value'[d][m] = IF m = n THEN value[d][n] + 1 ELSE value[d][m]
        /\ value[d][n] \in Nat
    BY <1>1, <1>2, <1>4, ValueIn DEF Goes
  <2>2. \A m \in Throw : stage[d][m] \in {"called", "saved", "applied"} => m < n
    <3>1. SUFFICES ASSUME NEW m \in Throw, n < m,
                          stage[d][m] \in {"called", "saved", "applied"}
                   PROVE  FALSE
      BY <1>2 DEF Throw
    <3>2. Rank(stage[d][m]) <= Rank(stage[d][n])
      BY <1>2, <3>1 DEF OwnInv, InTurn
    <3>3. QED
      BY <1>2, <3>1, <3>2 DEF Rank
  <2>3. Seen(d)' = Seen(d)
    BY <1>2, <2>1, SeenKept DEF Own, rating
  <2>4. InTurn(d)'
    <3>1. SUFFICES ASSUME NEW a \in Throw, NEW b \in Throw, a < b,
                          stage'[d][a] # "failed", stage'[d][b] # "failed"
                   PROVE  Rank(stage'[d][b]) <= Rank(stage'[d][a])
      BY DEF InTurn, Rank
    <3>2. Rank(stage[d][b]) <= Rank(stage[d][a])
      BY <1>2, <2>1, <3>1 DEF OwnInv, InTurn
    <3>3. b = n /\ stage[d][a] = "answered" => a = n
      BY <1>2, <3>1 DEF Throw
    <3>4. QED
      BY <1>2, <2>1, <3>1, <3>2, <3>3 DEF Rank, Throw
  <2>5. CloudIsOwn(d)'
    BY <1>2, <2>1 DEF OwnInv, CloudIsOwn, NewestAt, Own, rating
  <2>6. Expected' = Expected
    BY <1>1, <1>2, <2>1, <1>4, CountsKept DEF Expected, Goes
  <2>7. Climbs(d)'
    <3>1. SUFFICES
            ASSUME NEW k \in Throw
            PROVE
              /\ stage'[d][k] = "answered" /\ value'[d][k] # NoRating =>
                   /\ value'[d][k] <= Seen(d) /\ Seen(d) <= value'[d][k] + 1
                   /\ \A m \in Throw : stage'[d][m] = "called" => value'[d][m] <= value'[d][k] + 1
                   /\ \A m \in Throw :
                        k < m /\ stage'[d][m] = "answered" /\ value'[d][m] # NoRating =>
                          value'[d][k] <= value'[d][m]
              /\ stage'[d][k] = "called" =>
                   /\ Seen(d) <= value'[d][k] /\ value'[d][k] <= Seen(d) + 1
                   /\ \A m \in Throw :
                        k < m /\ stage'[d][m] = "called" => value'[d][k] <= value'[d][m]
      BY <2>3 DEF Climbs
    <3>2. \A m \in Throw : value[d][m] \in Nat \cup {NoRating}
      BY <1>1, ValueIn
    <3>3. /\ value[d][n] <= Seen(d) /\ Seen(d) <= value[d][n] + 1
          /\ \A m \in Throw : stage[d][m] = "called" => value[d][m] <= value[d][n] + 1
          /\ \A m \in Throw :
               n < m /\ stage[d][m] = "answered" /\ value[d][m] # NoRating =>
                 value[d][n] <= value[d][m]
      BY <1>2, <1>4 DEF OwnInv, Climbs
    <3>4. CASE k = n
      BY <1>1, <2>1, <2>2, <3>3, <3>4 DEF Throw
    <3>5. CASE k # n /\ stage[d][k] = "answered" /\ value[d][k] # NoRating
      <4>1. n < k
        BY <1>2, <3>5 DEF Throw
      <4>2. value[d][n] <= value[d][k] /\ value[d][k] \in Nat
        BY <3>2, <3>3, <3>5, <4>1
      <4>3. QED
        BY <2>1, <3>5, <4>2 DEF OwnInv, Climbs
    <3>6. CASE k # n /\ stage[d][k] = "called"
      BY <2>1, <3>3, <3>6 DEF OwnInv, Climbs
    <3>7. QED
      BY <2>1, <3>4, <3>5, <3>6
  <2>8. Expected <= value[d][n] + 1
    BY <1>2, <1>4 DEF OwnInv, AnswersDue
  <2>9. ComingDue(d)'
    <3>1. \A m \in Throw : NewestAt(d, m, {"called"})' => m = n
      <4>1. SUFFICES ASSUME NEW m \in Throw, NewestAt(d, m, {"called"})' PROVE m = n
        OBVIOUS
      <4>2. stage'[d][m] = "called" /\ n <= m
        BY <2>1, <4>1 DEF NewestAt
      <4>3. QED
        BY <2>1, <2>2, <4>2 DEF Throw
    <3>2. Expected' <= value'[d][n] /\ Expected' <= value'[d][n] + 1 /\ stage'[d][n] = "called"
      BY <1>1, <2>1, <2>6, <2>8
    <3>3. QED
      BY <3>1, <3>2 DEF ComingDue
  <2>10. AnswersDue(d)'
    BY <2>1, <2>6 DEF OwnInv, AnswersDue
  <2>11. AsksDue(d)'
    <3>1. SUFFICES ASSUME NEW k \in Throw, stage'[d][k] = "asked"
                   PROVE  /\ \A m \in Throw : m = after[d][k] /\ stage'[d][m] = "called" =>
                               Expected <= value'[d][m] + 1
                          /\ (\A m \in Throw : stage'[d][m] = "called" => m # after[d][k]) =>
                               Expected <= Seen(d) + 1
      BY <1>2, <2>3, <2>6 DEF AsksDue
    <3>2. stage[d][k] = "asked"
      BY <2>1, <3>1
    <3>3. /\ \A m \in Throw : m = after[d][k] /\ stage[d][m] = "called" =>
               Expected <= value[d][m] + 1
          /\ (\A m \in Throw : stage[d][m] = "called" => m # after[d][k]) =>
               Expected <= Seen(d) + 1
      BY <3>2 DEF OwnInv, AsksDue
    <3>4. QED
      BY <1>1, <2>1, <2>8, <3>3
  <2>12. QED
    BY <2>3, <2>4, <2>5, <2>7, <2>9, <2>10, <2>11 DEF OwnInv
<1>5. QED
  BY <1>3, <1>4

\* Only now its user sees the write, which is no less than what was seen.
LEMMA SaveOwn ==
  ASSUME LossIInv, LossIInv', NEW d \in Device, OwnInv(d), Save(d)
  PROVE  OwnInv(d)' /\ Seen(d)' >= Seen(d)
<1>1. TypeOK /\ TypeOK' /\ IsFiniteSet(Thrown) /\ Seen(d) \in Nat /\ Expected \in Int
  BY SeenNat, ExpectedInt DEF LossIInv, IInv
<1>2. PICK n \in Throw :
        /\ stage[d][n] = "called"
        /\ \A m \in Throw : stage[d][m] = "called" => n <= m
        /\ Goes(d, n, "saved")
        /\ UNCHANGED << cloud, value, version, after, since, known >>
        /\ UNCHANGED << resends, hurried, overlapped, staleRead >>
  BY <1>1, SaveShape
<1>3. \A m \in Throw : stage'[d][m] = IF m = n THEN "saved" ELSE stage[d][m]
  BY <1>2 DEF Goes
<1>4. \A m \in Throw : stage[d][m] \in Own => m < n
  <2>1. SUFFICES ASSUME NEW m \in Throw, n < m, stage[d][m] \in Own PROVE FALSE
    BY <1>2 DEF Own, Throw
  <2>2. Rank(stage[d][m]) <= Rank(stage[d][n])
    BY <1>2, <2>1 DEF OwnInv, InTurn, Own
  <2>3. QED
    BY <1>2, <2>1, <2>2 DEF Rank, Own
<1>5. /\ \A m \in Throw : stage[d][m] = "called" => value[d][m] \in Nat
      /\ \A m \in Throw : value[d][m] \in Nat \cup {NoRating}
  BY <1>1, ValueIn DEF LossIInv, IInv, RoundInv
<1>6. Seen(d)' = value[d][n] /\ Seen(d) <= value[d][n]
  <2>1. NewestAt(d, n, Own)'
    BY <1>3, <1>4 DEF NewestAt, Own, Throw
  <2>2. Seen(d)' = value'[d][n]
    BY <2>1, SeenIsNext DEF SeenByRound
  <2>3. QED
    BY <1>2, <2>2 DEF OwnInv, Climbs
<1>7. InTurn(d)'
  <2>1. SUFFICES ASSUME NEW a \in Throw, NEW b \in Throw, a < b,
                        stage'[d][a] # "failed", stage'[d][b] # "failed"
                 PROVE  Rank(stage'[d][b]) <= Rank(stage'[d][a])
    BY DEF InTurn, Rank
  <2>2. Rank(stage[d][b]) <= Rank(stage[d][a])
    BY <1>2, <1>3, <2>1 DEF OwnInv, InTurn
  <2>3. b = n /\ stage[d][a] = "called" => a = n
    BY <1>2, <2>1 DEF Throw
  <2>4. QED
    BY <1>2, <1>3, <2>1, <2>2, <2>3 DEF Rank, Throw
<1>8. CloudIsOwn(d)'
  <2>1. stage'[d][n] \in Own /\ stage'[d][n] # "applied"
    BY <1>3 DEF Own
  <2>2. ASSUME NEW m \in Throw, NewestAt(d, m, Own)' PROVE m = n
    BY <1>3, <1>4, <2>1, <2>2 DEF NewestAt, Own, Throw
  <2>3. QED
    BY <2>1, <2>2 DEF CloudIsOwn
<1>9. Expected' = Expected
  BY <1>1, <1>2, CountsKept DEF Expected, Goes
<1>10. value[d][n] \in Nat /\ value[d][n] <= Seen(d) + 1
  BY <1>2, <1>5 DEF OwnInv, Climbs
<1>11. Climbs(d)'
  <2>1. SUFFICES
          ASSUME NEW k \in Throw
          PROVE
            /\ stage'[d][k] = "answered" /\ value[d][k] # NoRating =>
                 /\ value[d][k] <= value[d][n] /\ value[d][n] <= value[d][k] + 1
                 /\ \A m \in Throw : stage'[d][m] = "called" => value[d][m] <= value[d][k] + 1
                 /\ \A m \in Throw :
                      k < m /\ stage'[d][m] = "answered" /\ value[d][m] # NoRating =>
                        value[d][k] <= value[d][m]
            /\ stage'[d][k] = "called" =>
                 /\ value[d][n] <= value[d][k] /\ value[d][k] <= value[d][n] + 1
                 /\ \A m \in Throw : k < m /\ stage'[d][m] = "called" => value[d][k] <= value[d][m]
    BY <1>2, <1>6 DEF Climbs
  <2>2. CASE stage'[d][k] = "answered" /\ value[d][k] # NoRating
    <3>1. stage[d][k] = "answered" /\ value[d][k] \in Nat
      BY <1>3, <1>5, <2>2
    <3>2. value[d][k] <= Seen(d) /\ value[d][n] <= value[d][k] + 1
      BY <1>2, <2>2, <3>1 DEF OwnInv, Climbs
    <3>3. QED
      BY <1>1, <1>3, <1>6, <1>10, <2>2, <3>1, <3>2 DEF OwnInv, Climbs
  <2>3. CASE stage'[d][k] = "called"
    <3>1. stage[d][k] = "called" /\ value[d][k] \in Nat /\ n < k
      BY <1>2, <1>3, <1>5, <2>3 DEF Throw
    <3>2. value[d][n] <= value[d][k] /\ value[d][k] <= Seen(d) + 1
      BY <1>2, <3>1 DEF OwnInv, Climbs
    <3>3. QED
      BY <1>1, <1>3, <1>6, <1>10, <2>3, <3>1, <3>2 DEF OwnInv, Climbs
  <2>4. QED
    BY <2>2, <2>3
<1>12. Cloud!Reading(d)' <=> Cloud!Reading(d)
  BY <1>2, <1>3, ReadingIs, ReadingIsNext
<1>13. ComingDue(d)'
  <2>1. ASSUME NEW m \in Throw, NewestAt(d, m, {"called"})'
        PROVE  /\ Expected <= value[d][m] + 1
               /\ ~Cloud!Reading(d) => Expected <= value[d][m]
    <3>1. NewestAt(d, m, {"called"})
      BY <1>2, <1>3, <2>1 DEF NewestAt
    <3>2. QED
      BY <3>1 DEF OwnInv, ComingDue
  <2>2. ASSUME \A m \in Throw : stage'[d][m] # "called"
        PROVE  /\ Expected <= value[d][n] + 1
               /\ ~Cloud!Reading(d) => Expected <= value[d][n]
    <3>1. NewestAt(d, n, {"called"})
      BY <1>2, <1>3, <2>2 DEF NewestAt, Throw
    <3>2. QED
      BY <3>1 DEF OwnInv, ComingDue
  <2>3. QED
    BY <1>2, <1>6, <1>9, <1>12, <2>1, <2>2 DEF ComingDue
<1>14. AnswersDue(d)'
  BY <1>2, <1>3, <1>9 DEF OwnInv, AnswersDue
<1>15. AsksDue(d)'
  <2>1. SUFFICES ASSUME NEW k \in Throw, stage'[d][k] = "asked"
                 PROVE  /\ \A m \in Throw : m = after[d][k] /\ stage'[d][m] = "called" =>
                             Expected <= value[d][m] + 1
                        /\ (\A m \in Throw : stage'[d][m] = "called" => m # after[d][k]) =>
                             Expected <= value[d][n] + 1
    BY <1>2, <1>6, <1>9 DEF AsksDue
  <2>2. stage[d][k] = "asked"
    BY <1>3, <2>1
  <2>3. /\ \A m \in Throw : m = after[d][k] /\ stage[d][m] = "called" =>
             Expected <= value[d][m] + 1
        /\ (\A m \in Throw : stage[d][m] = "called" => m # after[d][k]) =>
             Expected <= Seen(d) + 1
    BY <2>2 DEF OwnInv, AsksDue
  <2>4. QED
    BY <1>1, <1>2, <1>3, <1>6, <1>10, <2>3
<1>16. QED
  BY <1>1, <1>6, <1>7, <1>8, <1>10, <1>11, <1>13, <1>14, <1>15 DEF OwnInv

\* The cloud follows.
LEMMA ApplyOwn ==
  ASSUME LossIInv, LossIInv', NEW d \in Device, OwnInv(d), ApplyWrite(d)
  PROVE  OwnInv(d)' /\ Seen(d)' = Seen(d)
<1>1. TypeOK /\ TypeOK' /\ IsFiniteSet(Thrown)
  BY DEF LossIInv, IInv
<1>2. PICK n \in Throw :
        /\ stage[d][n] = "saved"
        /\ \A m \in Throw : stage[d][m] = "saved" => n <= m
        /\ Goes(d, n, "applied")
        /\ cloud' = Append(cloud, value[d][n])
        /\ \A e \in Device, m \in Throw :
             version'[e][m] = IF e = d /\ m = n THEN Len(cloud) + 1 ELSE version[e][m]
        /\ UNCHANGED << value, after, since, known >>
        /\ UNCHANGED << resends, hurried, overlapped, staleRead >>
  BY <1>1, ApplyShape
<1>3. \A m \in Throw : stage'[d][m] = IF m = n THEN "applied" ELSE stage[d][m]
  BY <1>2 DEF Goes
<1>4. Seen(d)' = Seen(d)
  BY <1>2, <1>3, SeenKept DEF Own
<1>5. InTurn(d)'
  <2>1. SUFFICES ASSUME NEW a \in Throw, NEW b \in Throw, a < b,
                        stage'[d][a] # "failed", stage'[d][b] # "failed"
                 PROVE  Rank(stage'[d][b]) <= Rank(stage'[d][a])
    BY DEF InTurn, Rank
  <2>2. Rank(stage[d][b]) <= Rank(stage[d][a])
    BY <1>2, <1>3, <2>1 DEF OwnInv, InTurn
  <2>3. b = n /\ stage[d][a] = "saved" => a = n
    BY <1>2, <2>1 DEF Throw
  <2>4. QED
    BY <1>2, <1>3, <2>1, <2>2, <2>3 DEF Rank, Throw
<1>6. CloudIsOwn(d)'
  <2>1. Len(cloud') = Len(cloud) + 1 /\ rating' = value[d][n]
    <3>1. cloud \in Seq(Nat) /\ value[d][n] \in Nat
      BY <1>2 DEF LossIInv, IInv, TypeOK, RoundInv
    <3>2. QED
      BY <1>2, <3>1 DEF rating
  <2>2. stage'[d][n] = "applied"
    BY <1>3
  <2>3. ASSUME NEW m \in Throw, NewestAt(d, m, Own)', stage'[d][m] = "applied" PROVE m = n
    <3>1. stage'[d][n] \in Own /\ n <= m
      BY <2>2, <2>3 DEF NewestAt, Own
    <3>2. SUFFICES ASSUME n < m, stage[d][m] = "applied" PROVE FALSE
      BY <1>3, <2>3, <3>1 DEF Throw
    <3>3. Rank(stage[d][m]) <= Rank(stage[d][n])
      BY <1>2, <3>2 DEF OwnInv, InTurn
    <3>4. QED
      BY <1>2, <3>2, <3>3 DEF Rank
  <2>4. version'[d][n] = Len(cloud) + 1
    BY <1>2
  <2>5. QED
    BY <1>2, <2>1, <2>2, <2>3, <2>4 DEF CloudIsOwn, Own
<1>7. Expected' = Expected
  BY <1>1, <1>2, CountsKept DEF Expected, Goes
<1>8. Climbs(d)'
  BY <1>2, <1>3, <1>4 DEF OwnInv, Climbs
<1>9. Cloud!Reading(d)' <=> Cloud!Reading(d)
  BY <1>2, <1>3, ReadingIs, ReadingIsNext
<1>10. \A m \in Throw : stage'[d][m] = "called" <=> stage[d][m] = "called"
  BY <1>2, <1>3
<1>11. ComingDue(d)'
  BY <1>2, <1>4, <1>7, <1>9, <1>10 DEF OwnInv, ComingDue, NewestAt
<1>12. AnswersDue(d)'
  BY <1>2, <1>3, <1>7 DEF OwnInv, AnswersDue
<1>13. AsksDue(d)'
  BY <1>2, <1>3, <1>4, <1>7 DEF OwnInv, AsksDue
<1>14. QED
  BY <1>4, <1>5, <1>6, <1>8, <1>11, <1>12, <1>13 DEF OwnInv

\* When the device forgets its last write, it has it from the cloud.
LEMMA AcknowledgeOwn ==
  ASSUME LossIInv, LossIInv', NEW d \in Device, OwnInv(d), Acknowledge(d)
  PROVE  OwnInv(d)' /\ Seen(d)' = Seen(d)
<1>1. TypeOK /\ TypeOK' /\ IsFiniteSet(Thrown)
  BY DEF LossIInv, IInv
<1>2. PICK n \in Throw :
        /\ stage[d][n] = "applied"
        /\ \A m \in Throw : stage[d][m] = "applied" => n <= m
        /\ Goes(d, n, "done")
        /\ \A e \in Device, m \in Throw :
             /\ value'[e][m] = IF e = d /\ m = n THEN NoRating ELSE value[e][m]
             /\ version'[e][m] = IF e = d /\ m = n THEN 0 ELSE version[e][m]
        /\ \A e \in Device :
             known'[e] = IF e = d THEN Cloud!Larger(known[d], version[d][n]) ELSE known[e]
        /\ UNCHANGED << cloud, after, since >>
        /\ UNCHANGED << resends, hurried, overlapped, staleRead >>
  BY <1>1, AcknowledgeShape
<1>3. \A m \in Throw :
        /\ stage'[d][m] = IF m = n THEN "done" ELSE stage[d][m]
        /\ value'[d][m] = IF m = n THEN NoRating ELSE value[d][m]
        /\ version'[d][m] = IF m = n THEN 0 ELSE version[d][m]
  BY <1>2 DEF Goes
<1>4. \A m \in Throw : m # n /\ stage[d][m] \in Own => n < m
  <2>1. SUFFICES ASSUME NEW m \in Throw, m < n, stage[d][m] \in Own PROVE FALSE
    BY DEF Throw
  <2>2. stage[d][m] = "saved"
    BY <1>2, <2>1 DEF Own, Throw
  <2>3. Rank(stage[d][n]) <= Rank(stage[d][m])
    BY <1>2, <2>1, <2>2 DEF OwnInv, InTurn
  <2>4. QED
    BY <1>2, <2>2, <2>3 DEF Rank
<1>5. \A m \in Throw : NewestAt(d, m, Own)' => m # n /\ NewestAt(d, m, Own)
  BY <1>2, <1>3, <1>4 DEF NewestAt, Own, Throw
<1>6. (\A m \in Throw : stage'[d][m] \notin Own) => NewestAt(d, n, Own)
  BY <1>2, <1>3 DEF NewestAt, Own, Throw
<1>7. NewestAt(d, n, Own) => version[d][n] = Len(cloud) /\ value[d][n] = rating
  BY <1>2 DEF OwnInv, CloudIsOwn
<1>8. Seen(d)' = Seen(d)
  <2>1. ASSUME NEW m \in Throw, NewestAt(d, m, Own)' PROVE Seen(d)' = Seen(d)
    BY <1>3, <1>5, <2>1, SeenIs, SeenIsNext DEF SeenByRound
  <2>2. ASSUME \A m \in Throw : stage'[d][m] \notin Own PROVE Seen(d)' = Seen(d)
    <3>1. Seen(d) = rating
      BY <1>6, <1>7, <2>2, SeenIs DEF SeenByRound
    <3>2. Seen(d)' = rating'
      BY <2>2, SeenIsNext DEF SeenByRound, Own
    <3>3. QED
      BY <1>2, <3>1, <3>2 DEF rating
  <2>3. ASSUME NEW k \in Throw, stage'[d][k] \in Own PROVE \E m \in Throw : NewestAt(d, m, Own)'
    <3>1. PICK m \in Throw : NewestAt(d, m, Own)
      BY <1>2, HasNewestAt DEF Own
    <3>2. k # n /\ n < k /\ stage[d][k] \in Own
      BY <1>3, <1>4, <2>3 DEF Own
    <3>3. m # n
      BY <3>1, <3>2 DEF NewestAt, Throw
    <3>4. NewestAt(d, m, Own)'
      BY <1>3, <3>1, <3>3 DEF NewestAt, Own
    <3>5. QED
      BY <3>4
  <2>4. QED
    BY <2>1, <2>2, <2>3
<1>9. InTurn(d)'
  <2>1. SUFFICES ASSUME NEW a \in Throw, NEW b \in Throw, a < b,
                        stage'[d][a] # "failed", stage'[d][b] # "failed"
                 PROVE  Rank(stage'[d][b]) <= Rank(stage'[d][a])
    BY DEF InTurn, Rank
  <2>2. Rank(stage[d][b]) <= Rank(stage[d][a])
    BY <1>2, <1>3, <2>1 DEF OwnInv, InTurn
  <2>3. b = n /\ stage[d][a] = "applied" => a = n
    BY <1>2, <2>1 DEF Throw
  <2>4. QED
    BY <1>1, <1>2, <1>3, <2>1, <2>2, <2>3, StageIn DEF Rank, Throw, Cloud!Stage
<1>10. CloudIsOwn(d)'
  <2>1. ASSUME \A m \in Throw : stage'[d][m] \notin Own,
               NEW v \in DOMAIN cloud, v >= known'[d]
        PROVE  cloud[v] = rating
    <3>1. version[d][n] = Len(cloud)
      BY <1>6, <1>7, <2>1
    <3>2. known[d] \in Nat /\ known[d] <= Len(cloud) /\ Len(cloud) \in Nat /\ v \in 1..Len(cloud)
      <4>1. known[d] \in 0..Len(cloud)
        BY <1>1 DEF TypeOK
      <4>2. QED
        BY <1>1, <4>1, RatingIs
    <3>3. known'[d] = Len(cloud)
      BY <1>2, <3>1, <3>2 DEF Cloud!Larger
    <3>4. v = Len(cloud)
      BY <2>1, <3>2, <3>3
    <3>5. QED
      BY <3>4 DEF rating
  <2>2. ASSUME NEW m \in Throw, NewestAt(d, m, Own)', stage'[d][m] = "applied"
        PROVE  version'[d][m] = Len(cloud) /\ value'[d][m] = rating
    BY <1>3, <1>5, <2>2 DEF OwnInv, CloudIsOwn
  <2>3. QED
    BY <1>2, <2>1, <2>2 DEF CloudIsOwn, rating, Own
<1>11. Expected' = Expected
  BY <1>1, <1>2, CountsKept DEF Expected, Goes
<1>12. /\ \A m \in Throw : stage'[d][m] \in {"asked", "answered", "called"} =>
            stage'[d][m] = stage[d][m] /\ value'[d][m] = value[d][m]
       /\ \A m \in Throw : stage[d][m] \in {"asked", "answered", "called"} =>
            stage'[d][m] = stage[d][m] /\ value'[d][m] = value[d][m]
  BY <1>2, <1>3
<1>13. Climbs(d)'
  BY <1>8, <1>12 DEF OwnInv, Climbs
<1>14. Cloud!Reading(d)' <=> Cloud!Reading(d)
  BY <1>12, ReadingIs, ReadingIsNext
<1>15. ComingDue(d)'
  BY <1>8, <1>11, <1>12, <1>14 DEF OwnInv, ComingDue, NewestAt
<1>16. AnswersDue(d)'
  BY <1>11, <1>12 DEF OwnInv, AnswersDue
<1>17. AsksDue(d)'
  BY <1>2, <1>8, <1>11, <1>12 DEF OwnInv, AsksDue
<1>18. QED
  BY <1>8, <1>9, <1>10, <1>13, <1>15, <1>16, <1>17 DEF OwnInv

\* Sending again changes nothing for its user, and a process that dies takes
\* with its throws at least the points that were still to come.
LEMMA UnlearnOwn ==
  ASSUME LossIInv, LossIInv', NEW d \in Device, OwnInv(d),
         NEW lost \in SUBSET {"asked", "answered", "called"},
         lost \in {{}, {"asked", "answered", "called"}},
         Cloud!Unlearn(d, lost), hurried' = hurried
  PROVE  OwnInv(d)' /\ Seen(d)' = Seen(d)
<1>1. TypeOK /\ TypeOK' /\ IsFiniteSet(Thrown) /\ Seen(d) \in Nat /\ Expected \in Int
  BY SeenNat, ExpectedInt DEF LossIInv, IInv
<1>2. /\ \A e \in Device, m \in Throw :
           /\ e # d => stage'[e][m] = stage[e][m] /\ value'[e][m] = value[e][m]
           /\ e = d /\ stage[e][m] = "applied" =>
                stage'[e][m] = "saved" /\ value'[e][m] = value[e][m]
           /\ e = d /\ stage[e][m] \in lost => stage'[e][m] = "failed"
           /\ e = d /\ stage[e][m] # "applied" /\ stage[e][m] \notin lost =>
                stage'[e][m] = stage[e][m] /\ value'[e][m] = value[e][m]
      /\ UNCHANGED << cloud, after, since, known >>
  BY <1>1, UnlearnShape
<1>3. \A m \in Throw :
        /\ stage'[d][m] = IF stage[d][m] = "applied" THEN "saved"
                          ELSE IF stage[d][m] \in lost THEN "failed" ELSE stage[d][m]
        /\ stage[d][m] \notin lost => value'[d][m] = value[d][m]
  BY <1>2
<1>4. Seen(d)' = Seen(d)
  BY <1>2, <1>3, SeenKept DEF Own, rating
<1>5. InTurn(d)'
  <2>1. SUFFICES ASSUME NEW a \in Throw, NEW b \in Throw, a < b,
                        stage'[d][a] # "failed", stage'[d][b] # "failed"
                 PROVE  Rank(stage'[d][b]) <= Rank(stage'[d][a])
    BY DEF InTurn, Rank
  <2>2. /\ stage[d][a] # "failed" /\ stage[d][b] # "failed"
        /\ stage'[d][a] = IF stage[d][a] = "applied" THEN "saved" ELSE stage[d][a]
        /\ stage'[d][b] = IF stage[d][b] = "applied" THEN "saved" ELSE stage[d][b]
    BY <1>3, <2>1
  <2>3. Rank(stage[d][b]) <= Rank(stage[d][a])
    BY <2>1, <2>2 DEF OwnInv, InTurn
  <2>4. QED
    BY <2>2, <2>3 DEF Rank
<1>6. CloudIsOwn(d)'
  <2>1. \A m \in Throw : /\ stage'[d][m] # "applied"
                         /\ stage'[d][m] \in Own <=> stage[d][m] \in Own
    BY <1>3 DEF Own
  <2>2. QED
    BY <1>2, <2>1 DEF OwnInv, CloudIsOwn, rating, Own
<1>7. \A e \in Device, m \in Throw :
        /\ stage'[e][m] = "none" <=> stage[e][m] = "none"
        /\ stage[e][m] = "failed" => stage'[e][m] = "failed"
  BY <1>2
<1>8. CASE lost = {}
  <2>1. \A m \in Throw :
          /\ stage'[d][m] \in {"asked", "answered", "called"} \/
             stage[d][m] \in {"asked", "answered", "called"} => stage'[d][m] = stage[d][m]
          /\ value'[d][m] = value[d][m]
    BY <1>3, <1>8
  <2>2. Expected' = Expected
    <3>1. \A e \in Device, m \in Throw : stage'[e][m] = "failed" <=> stage[e][m] = "failed"
      BY <1>2, <1>8
    <3>2. QED
      BY <1>1, <1>7, <3>1, CountsKept DEF Expected
  <2>3. Cloud!Reading(d)' <=> Cloud!Reading(d)
    BY <2>1, ReadingIs, ReadingIsNext
  <2>4. Climbs(d)'
    BY <1>4, <2>1 DEF OwnInv, Climbs
  <2>5. ComingDue(d)'
    BY <1>4, <2>1, <2>2, <2>3 DEF OwnInv, ComingDue, NewestAt
  <2>6. AnswersDue(d)' /\ AsksDue(d)'
    BY <1>2, <1>4, <2>1, <2>2 DEF OwnInv, AnswersDue, AsksDue
  <2>7. QED
    BY <1>4, <1>5, <1>6, <2>4, <2>5, <2>6 DEF OwnInv
<1>9. CASE lost = {"asked", "answered", "called"}
  <2>1. \A m \in Throw :
          /\ stage'[d][m] \notin {"asked", "answered", "called"}
          /\ stage[d][m] \in {"asked", "answered", "called"} =>
               stage[d][m] # "failed" /\ stage'[d][m] = "failed"
    BY <1>3, <1>9
  <2>2. /\ Thrown' = Thrown /\ IsFiniteSet(Failed')
        /\ Cardinality(Failed) <= Cardinality(Failed')
    BY <1>1, <1>7, MoreFailed
  <2>3. /\ Cardinality(Thrown) \in Nat /\ Cardinality(Failed) \in Nat
        /\ Cardinality(Failed') \in Nat /\ hurried \in Nat
    BY <1>1, <2>2, Sizes, FS_CardinalityType DEF TypeOK
  <2>4. /\ Expected' \in Int /\ Expected' <= Expected
        /\ Cardinality(Failed) + 1 <= Cardinality(Failed') => Expected' <= Expected - 1
        /\ Cardinality(Failed) + 2 <= Cardinality(Failed') => Expected' <= Expected - 2
    BY <2>2, <2>3 DEF Expected
  <2>5. ASSUME NEW m \in Throw, stage[d][m] \in {"asked", "answered", "called"}
        PROVE  Expected' <= Expected - 1
    BY <1>1, <1>7, <2>1, <2>4, <2>5, OneFails
  <2>6. ASSUME NEW m \in Throw, stage[d][m] \in {"asked", "answered", "called"},
               NEW k \in Throw, stage[d][k] \in {"asked", "answered", "called"}, m # k
        PROVE  Expected' <= Expected - 2
    <3>1. Cardinality(Failed) + 2 <= Cardinality(Failed')
      BY <1>1, <1>7, <2>1, <2>6, TwoFail
    <3>2. QED
      BY <2>4, <3>1
  <2>7. Expected' <= Seen(d)
    <3>1. CASE \A m \in Throw : stage[d][m] # "called"
      <4>1. Expected <= Seen(d) + 1 /\ (~Cloud!Reading(d) => Expected <= Seen(d))
        BY <3>1 DEF OwnInv, ComingDue
      <4>2. Cloud!Reading(d) => Expected' <= Expected - 1
        BY <2>5, ReadingIs
      <4>3. QED
        BY <1>1, <2>4, <4>1, <4>2
    <3>2. ASSUME NEW k \in Throw, stage[d][k] = "called" PROVE Expected' <= Seen(d)
      <4>1. PICK n \in Throw : NewestAt(d, n, {"called"})
        BY <3>2, HasNewestAt
      <4>2. stage[d][n] = "called" /\ value[d][n] \in Nat /\ value[d][n] <= Seen(d) + 1
        <5>1. stage[d][n] = "called"
          BY <4>1 DEF NewestAt
        <5>2. QED
          BY <5>1 DEF LossIInv, IInv, RoundInv, OwnInv, Climbs
      <4>3. Expected <= value[d][n] + 1 /\ (~Cloud!Reading(d) => Expected <= value[d][n])
        BY <4>1 DEF OwnInv, ComingDue
      <4>4. Expected' <= Expected - 1
        BY <2>5, <4>2
      <4>5. ASSUME Cloud!Reading(d) PROVE Expected' <= Expected - 2
        <5>1. PICK m \in Throw : stage[d][m] \in {"asked", "answered"}
          BY <4>5, ReadingIs
        <5>2. m # n
          BY <4>2, <5>1
        <5>3. QED
          BY <2>6, <4>2, <5>1, <5>2
      <4>6. QED
        BY <1>1, <2>4, <4>2, <4>3, <4>4, <4>5
    <3>3. QED
      BY <3>1, <3>2
  <2>8. Climbs(d)' /\ AnswersDue(d)' /\ AsksDue(d)'
    BY <2>1 DEF Climbs, AnswersDue, AsksDue
  <2>9. ComingDue(d)'
    <3>1. \A m \in Throw : ~NewestAt(d, m, {"called"})'
      BY <2>1 DEF NewestAt
    <3>2. QED
      BY <1>1, <1>4, <2>4, <2>7, <3>1 DEF ComingDue
  <2>10. QED
    BY <1>4, <1>5, <1>6, <2>8, <2>9 DEF OwnInv
<1>10. QED
  BY <1>8, <1>9

LEMMA OnlyOnIsNext ==
  TypeOK' => \A d \in Device :
               OnlyOn(d)' <=> \A e \in Device, n \in Throw : stage'[e][n] # "none" => e = d
<1>1. (TypeOK => \A d \in Device :
         OnlyOn(d) <=> \A e \in Device, n \in Throw : stage[e][n] # "none" => e = d)'
  BY OnlyOnIs, PTL
<1>2. QED
  BY <1>1 DEF Throw

\* What is thrown stays thrown.
LEMMA OnlyOnBefore ==
  ASSUME TypeOK, TypeOK', NEW d \in Device, OnlyOn(d)',
         \A e \in Device, n \in Throw : stage'[e][n] = "none" => stage[e][n] = "none"
  PROVE  OnlyOn(d)
BY OnlyOnIs, OnlyOnIsNext

\* Nothing happens to device d.
LEMMA SameOwn ==
  ASSUME NEW d \in Device, OwnInv(d),
         \A m \in Throw : /\ stage'[d][m] = stage[d][m] /\ value'[d][m] = value[d][m]
                          /\ version'[d][m] = version[d][m] /\ after'[d][m] = after[d][m],
         cloud' = cloud, known'[d] = known[d], Expected' = Expected
  PROVE  OwnInv(d)' /\ Seen(d)' = Seen(d)
<1>1. Seen(d)' = Seen(d)
  BY SeenKept DEF rating
<1>2. Cloud!Reading(d)' <=> Cloud!Reading(d)
  BY ReadingIs, ReadingIsNext
<1>3. InTurn(d)'
  BY DEF OwnInv, InTurn, Rank
<1>4. CloudIsOwn(d)'
  BY DEF OwnInv, CloudIsOwn, NewestAt, rating, Own
<1>5. Climbs(d)'
  BY <1>1 DEF OwnInv, Climbs
<1>6. ComingDue(d)'
  BY <1>1, <1>2 DEF OwnInv, ComingDue, NewestAt
<1>7. AnswersDue(d)' /\ AsksDue(d)'
  BY <1>1 DEF OwnInv, AnswersDue, AsksDue
<1>8. QED
  BY <1>1, <1>3, <1>4, <1>5, <1>6, <1>7 DEF OwnInv

\* A device that throws nothing can do nothing but die.
LEMMA DeadOwn ==
  ASSUME LossIInv, LossIInv', NEW d \in Device, NEW e \in Device, d # e, OwnInv(e),
         \A m \in Throw : stage'[d][m] = "none",
         NEW lost \in SUBSET {"asked", "answered", "called"},
         Cloud!Unlearn(d, lost), hurried' = hurried
  PROVE  OwnInv(e)' /\ Seen(e)' = Seen(e)
<1>1. TypeOK /\ TypeOK'
  BY DEF LossIInv, IInv
<1>2. /\ \A c \in Device, m \in Throw :
           /\ c # d => stage'[c][m] = stage[c][m] /\ value'[c][m] = value[c][m]
           /\ c = d /\ stage[c][m] = "applied" =>
                stage'[c][m] = "saved" /\ value'[c][m] = value[c][m]
           /\ c = d /\ stage[c][m] \in lost => stage'[c][m] = "failed"
           /\ c = d /\ stage[c][m] # "applied" /\ stage[c][m] \notin lost =>
                stage'[c][m] = stage[c][m] /\ value'[c][m] = value[c][m]
           /\ version'[c][m] = IF c = d THEN 0 ELSE version[c][m]
      /\ UNCHANGED << cloud, after, since, known >>
  BY <1>1, UnlearnShape
<1>3. \A c \in Device, m \in Throw : stage'[c][m] = stage[c][m]
  BY <1>2
<1>4. Expected' = Expected
  BY <1>1, <1>3, CountsKept DEF Expected
<1>5. QED
  BY <1>2, <1>4, SameOwn

\* All other actions show that it throws.
LEMMA ActsOnThrow ==
  ASSUME TypeOK, NEW d \in Device,
         \/ Ask(d) \/ Answer(d) \/ AnswerFromCache(d) \/ AnswerWithError(d)
         \/ HandleAnswer(d) \/ Save(d) \/ ApplyWrite(d) \/ Acknowledge(d)
  PROVE  /\ \E n \in Throw : stage'[d][n] # "none"
         /\ \A e \in Device, n \in Throw : stage'[e][n] = "none" => stage[e][n] = "none"
<1> DEFINE Goal == /\ \E n \in Throw : stage'[d][n] # "none"
                   /\ \A e \in Device, n \in Throw :
                        stage'[e][n] = "none" => stage[e][n] = "none"
<1>1. ASSUME NEW n \in Throw, NEW s, s # "none", Goes(d, n, s) PROVE Goal
  BY <1>1 DEF Goes
<1>2. ASSUME NEW seen, Cloud!Reply(d, seen) PROVE Goal
  <2>1. PICK replied \in SUBSET Throw :
          /\ replied # {}
          /\ \A e \in Device, m \in Throw :
               stage'[e][m] = IF e = d /\ m \in replied THEN "answered" ELSE stage[e][m]
    BY <1>2, ReplyShape
  <2>2. QED
    BY <2>1
<1>3. CASE Ask(d)
  <2>1. PICK n \in Throw : Goes(d, n, "asked")
    BY <1>3, AskShape
  <2>2. QED
    BY <1>1, <2>1
<1>4. CASE Answer(d) \/ AnswerFromCache(d) \/ AnswerWithError(d)
  BY <1>2, <1>4 DEF Answer, Cloud!Answer, AnswerFromCache, Cloud!AnswerFromCache,
     AnswerWithError, Cloud!AnswerWithError
<1>5. CASE HandleAnswer(d)
  <2>1. PICK n \in Throw : Goes(d, n, IF value[d][n] = NoRating THEN "failed" ELSE "called")
    BY <1>5, HandleShape
  <2>2. QED
    BY <1>1, <2>1
<1>6. CASE Save(d)
  <2>1. PICK n \in Throw : Goes(d, n, "saved")
    BY <1>6, SaveShape
  <2>2. QED
    BY <1>1, <2>1
<1>7. CASE ApplyWrite(d)
  <2>1. PICK n \in Throw : Goes(d, n, "applied")
    BY <1>7, ApplyShape
  <2>2. QED
    BY <1>1, <2>1
<1>8. CASE Acknowledge(d)
  <2>1. PICK n \in Throw : Goes(d, n, "done")
    BY <1>8, AcknowledgeShape
  <2>2. QED
    BY <1>1, <2>1
<1>9. QED
  BY <1>3, <1>4, <1>5, <1>6, <1>7, <1>8

LEMMA UnlearnKeepsThrows ==
  ASSUME TypeOK, NEW d \in Device, NEW lost \in SUBSET {"asked", "answered", "called"},
         Cloud!Unlearn(d, lost)
  PROVE  \A e \in Device, n \in Throw : stage'[e][n] = "none" => stage[e][n] = "none"
BY UnlearnShape

LEMMA InitOwn == Init => OwnIInv
<1> SUFFICES ASSUME Init PROVE OwnIInv
  OBVIOUS
<1>1. LossIInv /\ TypeOK
  BY InitLoss DEF LossIInv, IInv
<1>2. cloud = << 0 >> /\ \A d \in Device, n \in Throw : stage[d][n] = "none"
  BY DEF Init, Cloud!Begin, Cloud!Round, Throw
<1>3. Expected = 0
  <2>1. Thrown = {} /\ Failed = {}
    BY <1>1, <1>2, ThrownIs DEF RoundByRound
  <2>2. QED
    BY <2>1, FS_EmptySet DEF Expected, Init
<1>4. SUFFICES ASSUME NEW d \in Device PROVE OwnInv(d)
  BY <1>1 DEF OwnIInv
<1>5. rating = 0 /\ \A v \in DOMAIN cloud : cloud[v] = 0
  BY <1>2 DEF rating
<1>6. Seen(d) = 0
  BY <1>2, <1>5, SeenIs DEF SeenByRound, Own
<1>7. InTurn(d)
  BY <1>2 DEF InTurn, Rank
<1>8. CloudIsOwn(d)
  BY <1>2, <1>5 DEF CloudIsOwn
<1>9. ComingDue(d)
  BY <1>2, <1>3, <1>6 DEF ComingDue, NewestAt
<1>10. Climbs(d) /\ AnswersDue(d) /\ AsksDue(d)
  BY <1>2 DEF Climbs, AnswersDue, AsksDue
<1>11. QED
  BY <1>7, <1>8, <1>9, <1>10 DEF OwnInv

\* A step keeps the invariant, and nobody who throws alone sees less after it.
LEMMA NextOwn ==
  OwnIInv /\ [Next]_vars =>
    /\ OwnIInv'
    /\ \A d \in Device : OnlyOn(d)' => Seen(d)' >= Seen(d)
<1> SUFFICES ASSUME OwnIInv, [Next]_vars
             PROVE  /\ OwnIInv'
                    /\ \A d \in Device : OnlyOn(d)' => Seen(d)' >= Seen(d)
  OBVIOUS
<1>1. LossIInv /\ LossIInv' /\ TypeOK /\ TypeOK'
  BY NextLoss DEF OwnIInv, LossIInv, IInv
<1>2. \A d \in Device : Seen(d) \in Nat
  BY <1>1, SeenNat DEF LossIInv
<1>3. SUFFICES ASSUME NEW e \in Device, OnlyOn(e)' PROVE OwnInv(e)' /\ Seen(e)' >= Seen(e)
  BY <1>1 DEF OwnIInv
<1>4. ASSUME OwnInv(e)' /\ Seen(e)' = Seen(e) PROVE OwnInv(e)' /\ Seen(e)' >= Seen(e)
  BY <1>2, <1>4
<1>5. \A d \in Device, m \in Throw : d # e => stage'[d][m] = "none"
  BY <1>1, <1>3, OnlyOnIsNext
<1>6. ASSUME \A d \in Device, n \in Throw : stage'[d][n] = "none" => stage[d][n] = "none"
      PROVE  OwnInv(e)
  BY <1>1, <1>3, <1>6, OnlyOnBefore DEF OwnIInv
<1>7. CASE UNCHANGED vars
  <2>1. /\ UNCHANGED << cloud, stage, value, version, after, since, known >>
        /\ UNCHANGED << resends, hurried, overlapped, staleRead >>
    BY <1>7 DEF vars, document, history
  <2>2. Expected' = Expected
    BY <1>1, <2>1, CountsKept DEF Expected
  <2>3. OwnInv(e)
    BY <1>6, <2>1
  <2>4. QED
    BY <1>4, <2>1, <2>2, <2>3, SameOwn
<1>8. ASSUME NEW d \in Device,
             \/ Ask(d) \/ Answer(d) \/ AnswerFromCache(d) \/ AnswerWithError(d)
             \/ HandleAnswer(d) \/ Save(d) \/ ApplyWrite(d) \/ Acknowledge(d)
      PROVE  OwnInv(e)' /\ Seen(e)' >= Seen(e)
  <2>1. d = e /\ OwnInv(e)
    BY <1>1, <1>5, <1>6, <1>8, ActsOnThrow
  <2>2. QED
    BY <1>1, <1>4, <1>8, <2>1, AskOwn, AnswerOwn, HandleOwn, SaveOwn, ApplyOwn, AcknowledgeOwn
<1>9. ASSUME NEW d \in Device, NEW lost \in SUBSET {"asked", "answered", "called"},
             lost \in {{}, {"asked", "answered", "called"}},
             Cloud!Unlearn(d, lost), hurried' = hurried
      PROVE  OwnInv(e)' /\ Seen(e)' >= Seen(e)
  <2>1. OwnInv(e)
    BY <1>1, <1>6, <1>9, UnlearnKeepsThrows
  <2>2. OwnInv(e)' /\ Seen(e)' = Seen(e)
    BY <1>1, <1>5, <1>9, <2>1, UnlearnOwn, DeadOwn
  <2>3. QED
    BY <1>4, <2>2
<1>10. ASSUME NEW d \in Device, Resend(d) PROVE OwnInv(e)' /\ Seen(e)' >= Seen(e)
  BY <1>9, <1>10 DEF Resend, Cloud!Resend, history
<1>11. ASSUME NEW d \in Device, Kill(d) PROVE OwnInv(e)' /\ Seen(e)' >= Seen(e)
  BY <1>9, <1>11 DEF Kill, Cloud!Kill, history
<1>12. QED
  BY <1>7, <1>8, <1>10, <1>11 DEF Next

-----------------------------------------------------------------------------
\* The strengthened invariant holds in every reachable state.
THEOREM Invariant == Spec => []IInv
<1>1. QED
  BY InitInv, NextInv, PTL DEF Spec

\* The variables keep their types.
THEOREM TypeCorrect == Spec => []TypeOK
<1>1. IInv => TypeOK
  BY DEF IInv
<1>2. QED
  BY <1>1, Invariant, PTL

\* On any number of devices, for any number of throws, resent writes, stale
\* answers and kills: the rating is never more than what was earned.
THEOREM PointsAreEarned == Spec => []RatingEarned
<1>1. IInv => RatingEarned
  BY DEF IInv, TypeOK, CloudInv, RatingEarned, rating, Points
<1>2. QED
  BY <1>1, Invariant, PTL

\* Of any devices, throws, errors, kills and writes sent again: points are lost
\* only to throws that overlapped another one and to those that failed, unless a
\* cache was outdated.
THEOREM LossIsExcused == Spec => []LossExcused
<1>1. LossIInv => LossExcused
  <2> SUFFICES ASSUME LossIInv, Settled, ~staleRead
               PROVE  Cardinality(Thrown) - rating <= overlapped + Cardinality(Failed)
    BY DEF LossExcused
  <2>1. TypeOK /\ IsFiniteSet(Thrown) /\ Due <= rating
    BY DEF LossIInv, IInv, LossInv, RatingDue
  <2>2. /\ Cardinality(Thrown) \in Nat /\ Cardinality(Failed) \in Nat
        /\ overlapped \in Nat /\ rating \in Nat
    BY <2>1, Sizes, RatingIs DEF TypeOK
  <2>3. QED
    BY <2>1, <2>2 DEF Due
<1>2. QED
  BY <1>1, InitLoss, NextLoss, PTL DEF Spec

\* While one device does all the throwing, its user loses points only to
\* throws made in a hurry, and to those that failed.
THEOREM LossOnlyInAHurry == Spec => []LossOnlyInHurry
<1>1. OwnIInv => LossOnlyInHurry
  <2> SUFFICES ASSUME OwnIInv, NEW d \in Device, OnlyOn(d),
                      Cloud!In(d, {"asked", "answered", "called"}) = {}
               PROVE  Cardinality(Thrown) - Cloud!View(d, Len(cloud)) <=
                        hurried + Cardinality(Failed)
    BY DEF LossOnlyInHurry
  <2>1. TypeOK /\ IsFiniteSet(Thrown) /\ Seen(d) \in Nat
    BY SeenNat DEF OwnIInv, LossIInv, IInv
  <2>2. \A n \in Throw : stage[d][n] \notin {"asked", "answered", "called"}
    BY InIs
  <2>3. Expected <= Seen(d)
    BY <2>2, ReadingIs DEF OwnIInv, OwnInv, ComingDue
  <2>4. Cardinality(Thrown) \in Nat /\ Cardinality(Failed) \in Nat /\ hurried \in Nat
    BY <2>1, Sizes DEF TypeOK
  <2>5. QED
    BY <2>1, <2>3, <2>4 DEF Expected, Seen
<1>2. QED
  BY <1>1, InitOwn, NextOwn, PTL DEF Spec

\* And never sees the rating fall.
THEOREM OwnViewOnlyRises == Spec => OwnViewNeverFalls
<1>1. OwnIInv /\ [Next]_vars =>
        [\A d \in Device :
           OnlyOn(d)' => Cloud!View(d, Len(cloud))' >= Cloud!View(d, Len(cloud))]_vars
  BY NextOwn DEF Seen
<1>2. QED
  BY <1>1, InitOwn, NextOwn, PTL DEF Spec, OwnViewNeverFalls
=============================================================================

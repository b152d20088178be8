------------------------------ MODULE EcoRating ------------------------------
(***************************************************************************)
(* The rating of one user, the field "rating" of a document of "ecoUsers", *)
(* and what throwing trash away does to it on the devices the user is      *)
(* signed in on: MapViewController.didUnwindFromRatingUser reads the       *)
(* document and writes the value it read plus one in the completion        *)
(* handler, without a transaction.  A throw is a round of CloudDocument.   *)
(***************************************************************************)
EXTENDS Integers, Sequences, FiniteSets

CONSTANTS
  Device,     \* the devices on which the user is signed in
  NoRating,   \* a failed read
  MaxThrows,  \* bound: how often trash is thrown away, on all devices
  MaxResends  \* bound: how often applied writes are sent again

ASSUME ConstantsAssumption ==
  /\ NoRating \notin Nat
  /\ MaxThrows \in Nat
  /\ MaxResends \in Nat

VARIABLES cloud, stage, value, version, after, since, known  \* see CloudDocument

VARIABLES
  resends,     \* how often applied writes were sent again
  hurried,     \* history: throws while the device had a read in flight
  overlapped,  \* history: throws while anything was in flight anywhere
  staleRead    \* history: some cache answered with an outdated rating

document == << cloud, stage, value, version, after, since, known >>

history == << hurried, overlapped, staleRead >>

vars == << document, resends, history >>

Cloud == INSTANCE CloudDocument WITH
  MaxRounds <- MaxThrows, Value <- Nat, NoValue <- NoRating

Init ==
  /\ Cloud!Begin(0)
  /\ resends = 0
  /\ hurried = 0
  /\ overlapped = 0
  /\ staleRead = FALSE

-----------------------------------------------------------------------------
\* The throws whose rounds are at one of these stages.
Throws(stages) ==
  {dn \in Device \X (1..MaxThrows) : stage[dn[1]][dn[2]] \in stages}

Thrown == Throws(Cloud!Stage \ {"none"})
Credited == Throws({"saved", "applied", "done"})
Failed == Throws({"failed"})

Settled == Thrown = Throws({"done", "failed"})

rating == cloud[Len(cloud)]

Count(condition) == IF condition THEN 1 ELSE 0

\* A throw that counts: the map screen asks for the user's document.
Ask(d) ==
  /\ Cardinality(Thrown) < MaxThrows
  /\ Cloud!Ask(d)
  /\ hurried' = hurried + Count(Cloud!Reading(d))
  /\ overlapped' = overlapped + Count(~Settled)
  /\ UNCHANGED << resends, staleRead >>

Answer(d) == Cloud!Answer(d) /\ UNCHANGED << resends, history >>

AnswerFromCache(d) ==
  /\ Cloud!AnswerFromCache(d)
  /\ staleRead' = (staleRead \/ \E n \in Cloud!In(d, {"asked"}) :
                     stage'[d][n] = "answered" /\ value'[d][n] # Cloud!View(d, Len(cloud)))
  /\ UNCHANGED << resends, hurried, overlapped >>

AnswerWithError(d) == Cloud!AnswerWithError(d) /\ UNCHANGED << resends, history >>

Handle(d, gain) ==
  /\ \E n \in 1..MaxThrows :
       /\ Cloud!IsOldest(n, Cloud!In(d, {"answered"}))
       /\ Cloud!HandleAnswer(d, IF value[d][n] = NoRating THEN 0 ELSE value[d][n] + gain)
  /\ UNCHANGED << resends, history >>

\* Mutants of HandleAnswer: two points, or none, for a throw; ...
HandleAnswerTwice(d) == Handle(d, 2)

HandleAnswerUnchanged(d) == Handle(d, 0)

\* ... a failed read is never handled; ...
HandleAnswerButError(d) ==
  /\ \A n \in Cloud!In(d, {"answered"}) : value[d][n] # NoRating
  /\ Handle(d, 1)

\* ... a failed read is written; ...
HandleAnswerUnchecked(d) ==
  /\ \E n \in 1..MaxThrows :
       /\ Cloud!IsOldest(n, Cloud!In(d, {"answered"}))
       /\ stage' = [stage EXCEPT ![d][n] = "called"]
       /\ value' = [value EXCEPT ![d][n] = IF @ = NoRating THEN @ ELSE @ + 1]
  /\ UNCHANGED << cloud, version, after, since, known, resends, history >>

\* ... handlers run in any order, as on a concurrent queue.
HandleAnswerConcurrently(d) ==
  /\ \E n \in Cloud!In(d, {"answered"}) :
       /\ value[d][n] # NoRating
       /\ stage' = [stage EXCEPT ![d][n] = "called"]
       /\ value' = [value EXCEPT ![d][n] = @ + 1]
  /\ UNCHANGED << cloud, version, after, since, known, resends, history >>

\* The completion handler: write the rating that was read plus one.
HandleAnswer(d) == Handle(d, 1)

Save(d) == Cloud!Save(d) /\ UNCHANGED << resends, history >>
ApplyWrite(d) == Cloud!ApplyWrite(d) /\ UNCHANGED << resends, history >>
Acknowledge(d) == Cloud!Acknowledge(d) /\ UNCHANGED << resends, history >>

Resend(d) ==
  /\ resends < MaxResends
  /\ Cloud!Resend(d)
  /\ resends' = resends + 1
  /\ UNCHANGED history

Kill(d) ==
  /\ Cloud!In(d, {"applied"}) # {} => resends < MaxResends
  /\ Cloud!Kill(d)
  /\ resends' = resends + Count(Cloud!In(d, {"applied"}) # {})
  /\ UNCHANGED history

Next == \E d \in Device :
  \/ Ask(d)
  \/ Answer(d)
  \/ AnswerFromCache(d)
  \/ AnswerWithError(d)
  \/ HandleAnswer(d)
  \/ Save(d)
  \/ ApplyWrite(d)
  \/ Acknowledge(d)
  \/ Resend(d)
  \/ Kill(d)

\* The client eventually answers, saves, sends and learns; the main queue runs
\* its handlers.  Nobody has to throw anything away.  That saved writes are sent
\* and acknowledged also after Kill assumes that a process that died is started
\* again in the end, as by FirestoreClient!Restart: in an app that stays closed
\* they wait on the disk (see ThrowTrash, where a closed app does nothing).
Fairness == \A d \in Device :
  /\ WF_vars(Answer(d))
  /\ WF_vars(HandleAnswer(d))
  /\ WF_vars(Save(d))
  /\ WF_vars(ApplyWrite(d))
  /\ WF_vars(Acknowledge(d))

Spec == Init /\ [][Next]_vars

FairSpec == Spec /\ Fairness

-----------------------------------------------------------------------------
\* The types of the variables.
TypeOK ==
  /\ cloud \in Seq(Nat) /\ cloud # << >>
  /\ stage \in [Device -> [1..MaxThrows -> Cloud!Stage]]
  /\ value \in [Device -> [1..MaxThrows -> Nat \cup {NoRating}]]
  /\ version \in [Device -> [1..MaxThrows -> 0..Len(cloud)]]
  /\ after \in [Device -> [1..MaxThrows -> Nat]]
  /\ since \in [Device -> 1..Len(cloud)]
  /\ known \in [Device -> 0..Len(cloud)]
  /\ resends \in 0..MaxResends
  /\ hurried \in Nat
  /\ overlapped \in Nat
  /\ staleRead \in BOOLEAN

\* No interleaving of reads, delayed handlers, writes and resent writes of
\* several devices ever credits more points than throws whose write is safe.
RatingEarned == rating <= Cardinality(Credited)

\* A point is lost only if its throw overlapped another one, failed or died
\* with its process, unless a device answered itself from an outdated cache:
\* that one may undo any number of points.
LossExcused ==
  Settled /\ ~staleRead =>
    Cardinality(Thrown) - rating <= overlapped + Cardinality(Failed)

OnlyOn(d) == \A dn \in Thrown : dn[1] = d

\* As long as one device does all the throwing, neither pending nor resent
\* writes are a reason to lose a point, only a throw made before the read of
\* an earlier one was handled.
LossOnlyInHurry ==
  \A d \in Device :
    OnlyOn(d) /\ Cloud!In(d, {"asked", "answered", "called"}) = {} =>
      Cardinality(Thrown) - Cloud!View(d, Len(cloud)) <= hurried + Cardinality(Failed)

\* And its user never sees the rating fall, although the cloud's falls when
\* writes are sent again, and for all the reads that a burst of throws piles
\* up in front of the completion handler.
OwnViewNeverFalls ==
  [][\A d \in Device :
       OnlyOn(d)' => Cloud!View(d, Len(cloud))' >= Cloud!View(d, Len(cloud))]_vars

\* Whatever is in flight lands: every throw is credited or has failed.
ThrowsSettle == []<>Settled
=============================================================================

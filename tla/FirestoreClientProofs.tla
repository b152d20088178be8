----------------------- MODULE FirestoreClientProofs -----------------------
(***************************************************************************)
(* Proofs about FirestoreClient for any length of the write pipeline, any  *)
(* number of gets, changes from elsewhere and faults.                      *)
(*                                                                         *)
(* The assertions of the online state tracker are inductive. That results  *)
(* belong to the writes they are taken for is not: what is on the way in   *)
(* both directions, results and writes, must make up the pipeline, and the *)
(* pipeline is what fits of the mutation queue, so that removing its first *)
(* write pulls in exactly the next one (WriteInv).                         *)
(*                                                                         *)
(* That no answer is older than the open gets rests on what the watch      *)
(* stream carries: as long as a get is open that has not been shown        *)
(* anything, and all requests are answered, what follows the last response *)
(* is not older than the open gets (FreshInv); which gets are where, and   *)
(* how many responses are on the way, GetsInv and WatchInv say.            *)
(*                                                                         *)
(* That the client implements CloudDocument rests on the order of the      *)
(* gets: those that the mutation queue holds, those about to be written,   *)
(* those answered and those that still wait are older each than the next,  *)
(* and each of these places holds them in their order (PhaseInv). Then     *)
(* every round is in one stage, and a step of the client moves the rounds  *)
(* as one step of the document does, or not at all.                        *)
(***************************************************************************)
EXTENDS FirestoreClient, SequenceTheorems, FiniteSetTheorems, TLAPS

USE ConstantsAssumption

-----------------------------------------------------------------------------
(* The online state tracker.                                               *)

LEMMA TrackerInit == Init => TrackerAsserts
BY DEF Init, TrackerAsserts

LEMMA TrackerKept ==
  ASSUME TrackerAsserts, UNCHANGED << online, failures, timer, watch >>
  PROVE  TrackerAsserts'
BY DEF TrackerAsserts

\* A stopped stream has no timer, so that starting it sets the only one.
LEMMA TrackerStart ==
  ASSUME TrackerAsserts, watch = "stopped", StartWatchStream, UNCHANGED failures
  PROVE  TrackerAsserts'
BY DEF TrackerAsserts, StartWatchStream

LEMMA TrackerRestart == ASSUME RestartStreams PROVE TrackerAsserts'
BY DEF TrackerAsserts, RestartStreams

LEMMA TrackerStep ==
  ASSUME TrackerAsserts, [Next]_vars
  PROVE  TrackerAsserts'
<1>1. CASE GetDocument \/ HandleEvent \/ AddListener \/ RemoveListener \/ WriteMutations
  BY <1>1, TrackerKept DEF GetDocument, HandleEvent, AddListener, RemoveListener,
                           WriteMutations, watching
<1>2. CASE AddFirstListener
  <2>1. CASE watch = "stopped" /\ StartWatchStream
    BY <1>2, <2>1, TrackerStart DEF AddFirstListener
  <2>2. CASE UNCHANGED << online, timer >> /\ watch' = watch
    BY <1>2, <2>2, TrackerKept DEF AddFirstListener
  <2>3. QED
    BY <1>2, <2>1, <2>2 DEF AddFirstListener
<1>3. CASE RemoveLastListener
  BY <1>3 DEF RemoveLastListener, TrackerAsserts
<1>4. CASE OnWatchStreamOpen
  BY <1>4 DEF OnWatchStreamOpen, TrackerAsserts
<1>5. CASE OnTargetResponse \/ OnWatchSnapshot
  BY <1>5 DEF OnTargetResponse, OnWatchSnapshot, Online, TrackerAsserts
<1>6. CASE OnWatchStreamClose
  BY <1>6 DEF OnWatchStreamClose, GoOffline, TrackerAsserts
<1>7. CASE OnlineStateTimeout
  BY <1>7 DEF OnlineStateTimeout, GoOffline, TrackerAsserts
<1>8. CASE OnWriteStreamHandshakeComplete \/ OnWriteStreamMutationResult \/ OnWriteStreamClose
  BY <1>8, TrackerKept DEF OnWriteStreamHandshakeComplete, OnWriteStreamMutationResult,
                           OnWriteStreamClose, watching
<1>9. CASE RestartNetwork \/ Restart
  BY <1>9, TrackerRestart DEF RestartNetwork, Restart
<1>10. CASE BackendTakesRequest \/ BackendSendsSnapshot \/ BackendApplies \/ WriteElsewhere
  BY <1>10, TrackerKept DEF BackendTakesRequest, BackendSendsSnapshot, BackendApplies,
                            WriteElsewhere, watching
<1>11. CASE UNCHANGED vars
  BY <1>11, TrackerKept DEF vars, watching
<1>12. QED
  BY <1>1, <1>2, <1>3, <1>4, <1>5, <1>6, <1>7, <1>8, <1>9, <1>10, <1>11 DEF Next

\* The assertions of the online state tracker can never fail: no order of
\* broken streams, gets, messages and timeouts arms a second timer, or lets one
\* fire in another state than Unknown.
THEOREM TrackerNeverFails == Spec => []TrackerAsserts
BY TrackerInit, TrackerStep, PTL DEF Spec

-----------------------------------------------------------------------------
(* The write stream.  What the elements of a sequence are does not matter. *)

IsSeq(s) == s \in Seq(ToSet(s))

\* s is the stretch of t behind its first elements.
Continues(s, t, first) == \A i \in DOMAIN s : s[i] = t[first + i]

\* Writes and results on the way make up the pipeline.
WriteInv ==
  /\ IsSeq(cloud) /\ IsSeq(queue) /\ IsSeq(sent) /\ IsSeq(results)
  /\ piped = Fitting(queue)
  /\ IF write = "open" THEN Len(results) + Len(sent) = piped
                       ELSE results = << >> /\ sent = << >>
  /\ Continues(sent, queue, Len(results))
  /\ \A i \in DOMAIN results : results[i] \in DOMAIN cloud
  /\ AckMatches

LEMMA SeqHas ==
  ASSUME NEW s, IsSeq(s)
  PROVE  Len(s) \in Nat /\ DOMAIN s = 1..Len(s)
BY LenProperties DEF IsSeq

LEMMA SeqOfAny ==
  ASSUME NEW S, NEW s \in Seq(S)
  PROVE  IsSeq(s)
<1>1. Len(s) \in Nat /\ DOMAIN s = 1..Len(s) /\ s \in [1..Len(s) -> S]
  BY LenProperties
<1>2. s \in [1..Len(s) -> ToSet(s)]
  BY <1>1 DEF ToSet
<1>3. Seq(ToSet(s)) = UNION {[1..n -> ToSet(s)] : n \in Nat}
  BY SeqDef
<1>4. QED
  BY <1>1, <1>2, <1>3 DEF IsSeq

LEMMA SeqAppend ==
  ASSUME NEW s, IsSeq(s), NEW e
  PROVE  /\ IsSeq(Append(s, e))
         /\ Len(Append(s, e)) = Len(s) + 1
         /\ \A i \in 1..Len(s) : Append(s, e)[i] = s[i]
         /\ Append(s, e)[Len(s) + 1] = e
<1> DEFINE S == ToSet(s) \cup {e}
<1>1. s \in Seq(S)
  <2>1. ToSet(s) \subseteq S
    OBVIOUS
  <2>2. QED
    BY <2>1, SeqMonotonic DEF IsSeq
<1>2. e \in S
  OBVIOUS
<1> HIDE DEF S
<1>3. QED
  <2>1. Append(s, e) \in Seq(S)
    BY <1>1, <1>2, AppendProperties
  <2>2. IsSeq(Append(s, e))
    BY <2>1, SeqOfAny
  <2>3. QED
    BY <1>1, <1>2, <2>2, AppendProperties

LEMMA SeqTail ==
  ASSUME NEW s, IsSeq(s), s # << >>
  PROVE  /\ IsSeq(Tail(s))
         /\ Len(s) \in Nat \ {0}
         /\ Len(Tail(s)) = Len(s) - 1
         /\ \A i \in 1..Len(Tail(s)) : Tail(s)[i] = s[i + 1]
         /\ Head(s) = s[1]
<1>1. s \in Seq(ToSet(s))
  BY DEF IsSeq
<1>2. QED
  <2>1. Tail(s) \in Seq(ToSet(s))
    BY <1>1, HeadTailProperties
  <2>2. IsSeq(Tail(s))
    BY <2>1, SeqOfAny
  <2>3. Len(s) \in Nat \ {0}
    BY <1>1, EmptySeq
  <2>4. Head(s) = s[1]
    BY <1>1, <2>3
  <2>5. QED
    BY <1>1, <2>2, <2>3, <2>4, HeadTailProperties

LEMMA SeqEmpty == IsSeq(<< >>) /\ Len(<< >>) = 0
BY EmptySeq, SeqOfAny

LEMMA SeqPart ==
  ASSUME NEW s, IsSeq(s), NEW m \in Nat \ {0}, NEW n \in 0..Len(s), m <= n + 1
  PROVE  /\ IsSeq(SubSeq(s, m, n))
         /\ Len(SubSeq(s, m, n)) = n - m + 1
         /\ \A i \in 1..Len(SubSeq(s, m, n)) : SubSeq(s, m, n)[i] = s[m + i - 1]
<1>1. Len(s) \in Nat /\ DOMAIN s = 1..Len(s)
  BY SeqHas
<1>2. \A i \in m..n : s[i] \in ToSet(s)
  BY <1>1 DEF ToSet
<1>3. /\ SubSeq(s, m, n) \in Seq(ToSet(s))
      /\ Len(SubSeq(s, m, n)) = IF m <= n THEN n - m + 1 ELSE 0
      /\ \A i \in 1..n - m + 1 : SubSeq(s, m, n)[i] = s[m + i - 1]
  BY <1>1, <1>2, SubSeqProperties
<1>4. QED
  <2>1. IsSeq(SubSeq(s, m, n))
    BY <1>3, SeqOfAny
  <2>2. Len(SubSeq(s, m, n)) = n - m + 1
    BY <1>1, <1>3
  <2>3. QED
    BY <1>3, <2>1, <2>2

LEMMA SeqConcat ==
  ASSUME NEW s, IsSeq(s), NEW t, IsSeq(t)
  PROVE  /\ IsSeq(s \o t)
         /\ Len(s \o t) = Len(s) + Len(t)
         /\ \A i \in 1..Len(s) + Len(t) :
              (s \o t)[i] = IF i <= Len(s) THEN s[i] ELSE t[i - Len(s)]
<1> DEFINE S == ToSet(s) \cup ToSet(t)
<1>1. s \in Seq(S) /\ t \in Seq(S)
  <2>1. ToSet(s) \subseteq S /\ ToSet(t) \subseteq S
    OBVIOUS
  <2>2. QED
    BY <2>1, SeqMonotonic DEF IsSeq
<1> HIDE DEF S
<1>2. QED
  BY <1>1, ConcatProperties, SeqOfAny

LEMMA FittingIs ==
  ASSUME NEW s, IsSeq(s)
  PROVE  Fitting(s) \in 0..Len(s) /\ Fitting(s) \in 0..MaxPendingWrites
BY SeqHas DEF Fitting

-----------------------------------------------------------------------------
(* Writes and results on the way.                                          *)

LEMMA WriteInit == Init => WriteInv
<1> SUFFICES ASSUME Init PROVE WriteInv
  OBVIOUS
<1>1. IsSeq(cloud)
  <2>1. cloud \in Seq({0})
    BY DEF Init
  <2>2. QED
    BY <2>1, SeqOfAny
<1>2. IsSeq(queue) /\ IsSeq(sent) /\ IsSeq(results)
  BY SeqEmpty DEF Init
<1>3. piped = Fitting(queue)
  BY DEF Init, Fitting
<1>4. QED
  BY <1>1, <1>2, <1>3, SeqEmpty DEF Init, WriteInv, AckMatches, Continues

LEMMA WriteKept ==
  ASSUME WriteInv, UNCHANGED << cloud, queue, writing >>
  PROVE  WriteInv'
BY DEF WriteInv, AckMatches, Continues, IsSeq, ToSet, Fitting, writing

\* The cloud may get any new version.
LEMMA WriteCloudGrows ==
  ASSUME WriteInv, NEW x, cloud' = Append(cloud, x), UNCHANGED << queue, writing >>
  PROVE  WriteInv'
<1>1. /\ IsSeq(cloud') /\ Len(cloud') = Len(cloud) + 1
      /\ \A v \in 1..Len(cloud) : cloud'[v] = cloud[v]
  BY SeqAppend DEF WriteInv
<1>2. /\ DOMAIN cloud = 1..Len(cloud) /\ DOMAIN cloud' = 1..Len(cloud') /\ Len(cloud) \in Nat
  BY <1>1, SeqHas DEF WriteInv
<1>3. \A i \in DOMAIN results' : results'[i] \in DOMAIN cloud' /\ cloud'[results'[i]] = cloud[results[i]]
  BY <1>1, <1>2 DEF WriteInv, writing
<1>4. AckMatches'
  BY <1>3 DEF WriteInv, AckMatches, writing
<1>5. QED
  <2>1. /\ IsSeq(queue)' /\ IsSeq(sent)' /\ IsSeq(results)' /\ (piped = Fitting(queue))'
        /\ Continues(sent, queue, Len(results))'
        /\ (IF write = "open" THEN Len(results) + Len(sent) = piped
                              ELSE results = << >> /\ sent = << >>)'
    BY DEF WriteInv, Continues, IsSeq, ToSet, Fitting, writing
  <2>2. QED
    BY <1>1, <1>3, <1>4, <2>1 DEF WriteInv

\* The stream is closed, with everything on the way.
LEMMA WriteClosed ==
  ASSUME WriteInv, sent' = << >>, results' = << >>, write' # "open",
         piped' = Fitting(queue), UNCHANGED << cloud, queue >>
  PROVE  WriteInv'
<1>1. IsSeq(sent') /\ IsSeq(results')
  BY SeqEmpty
<1>2. QED
  BY <1>1 DEF WriteInv, AckMatches, Continues, IsSeq, ToSet, Fitting

LEMMA WriteOpened ==
  ASSUME WriteInv, OnWriteStreamHandshakeComplete
  PROVE  WriteInv'
<1>1. /\ write = "starting" /\ write' = "open" /\ sent' = SubSeq(queue, 1, piped)
      /\ results = << >>
      /\ UNCHANGED << cloud, queue, piped, results >>
  BY DEF OnWriteStreamHandshakeComplete, store, WriteInv
<1>2. piped \in 0..Len(queue) /\ IsSeq(queue)
  BY FittingIs DEF WriteInv
<1>3. /\ IsSeq(sent') /\ Len(sent') = piped
      /\ \A i \in 1..Len(sent') : sent'[i] = queue[i]
  <2>1. /\ IsSeq(SubSeq(queue, 1, piped)) /\ Len(SubSeq(queue, 1, piped)) = piped - 1 + 1
        /\ \A i \in 1..Len(SubSeq(queue, 1, piped)) : SubSeq(queue, 1, piped)[i] = queue[1 + i - 1]
    BY <1>2, SeqPart
  <2>2. QED
    BY <1>1, <1>2, <2>1
<1>4. DOMAIN sent' = 1..Len(sent') /\ Len(sent') \in Nat
  BY <1>3, SeqHas
<1>5. Len(results') = 0
  BY <1>1, SeqEmpty
<1>6. Continues(sent', queue', Len(results'))
  <2>1. ASSUME NEW i \in DOMAIN sent' PROVE sent'[i] = queue'[Len(results') + i]
    <3>1. i \in 1..Len(sent') /\ i \in Nat
      BY <1>4
    <3>2. Len(results') + i = i
      BY <1>5, <3>1
    <3>3. sent'[i] = queue[i] /\ queue' = queue
      BY <1>1, <1>3, <3>1
    <3>4. QED
      BY <3>2, <3>3
  <2>2. QED
    BY <2>1 DEF Continues
<1>7. Len(results') + Len(sent') = piped'
  BY <1>1, <1>2, <1>3, <1>5
<1>8. QED
  BY <1>1, <1>3, <1>6, <1>7 DEF WriteInv, AckMatches, Continues, IsSeq, ToSet, Fitting

LEMMA WriteApplied ==
  ASSUME WriteInv, BackendApplies
  PROVE  WriteInv'
<1>1. /\ sent # << >> /\ sent' = Tail(sent)
      /\ cloud' = Append(cloud, Head(sent))
      /\ results' = Append(results, Len(cloud) + 1)
      /\ UNCHANGED << queue, piped, write >>
  BY DEF BackendApplies, store
<1>2. write = "open" /\ Len(results) + Len(sent) = piped
  BY <1>1 DEF WriteInv
<1>3. /\ IsSeq(sent') /\ Len(sent) \in Nat \ {0} /\ Len(sent') = Len(sent) - 1
      /\ \A i \in 1..Len(sent') : sent'[i] = sent[i + 1]
      /\ Head(sent) = sent[1]
  BY <1>1, SeqTail DEF WriteInv
<1>4. /\ IsSeq(cloud') /\ Len(cloud') = Len(cloud) + 1
      /\ \A v \in 1..Len(cloud) : cloud'[v] = cloud[v]
      /\ cloud'[Len(cloud) + 1] = Head(sent)
  BY <1>1, SeqAppend DEF WriteInv
<1>5. /\ IsSeq(results') /\ Len(results') = Len(results) + 1
      /\ \A i \in 1..Len(results) : results'[i] = results[i]
      /\ results'[Len(results) + 1] = Len(cloud) + 1
  BY <1>1, SeqAppend DEF WriteInv
<1>6. /\ Len(cloud) \in Nat /\ DOMAIN cloud = 1..Len(cloud)
      /\ Len(results) \in Nat /\ DOMAIN results = 1..Len(results)
      /\ DOMAIN sent = 1..Len(sent)
  BY SeqHas DEF WriteInv
<1>7. DOMAIN sent' = 1..Len(sent') /\ DOMAIN cloud' = 1..Len(cloud') /\ DOMAIN results' = 1..Len(results')
  BY <1>3, <1>4, <1>5, SeqHas
<1>8. Continues(sent', queue', Len(results'))
  <2> SUFFICES ASSUME NEW i \in DOMAIN sent' PROVE sent'[i] = queue'[Len(results') + i]
    BY DEF Continues
  <2>1. i + 1 \in DOMAIN sent /\ sent'[i] = sent[i + 1] /\ i \in Nat
    BY <1>3, <1>6, <1>7
  <2>2. sent[i + 1] = queue[Len(results) + (i + 1)]
    BY <2>1 DEF WriteInv, Continues
  <2>3. Len(results) + (i + 1) = Len(results') + i
    BY <1>5, <1>6, <2>1
  <2>4. QED
    BY <1>1, <2>1, <2>2, <2>3
<1>9. ASSUME NEW i \in DOMAIN results'
      PROVE  results'[i] \in DOMAIN cloud' /\ i <= piped' /\ cloud'[results'[i]] = queue'[i]
  <2>1. CASE i \in DOMAIN results
    <3>1. /\ results'[i] = results[i] /\ results[i] \in DOMAIN cloud
          /\ i <= piped /\ cloud[results[i]] = queue[i]
      BY <2>1, <1>5, <1>6 DEF WriteInv, AckMatches
    <3>2. results[i] \in DOMAIN cloud' /\ cloud'[results[i]] = cloud[results[i]]
      BY <3>1, <1>4, <1>6, <1>7
    <3>3. QED
      BY <3>1, <3>2, <1>1
  <2>2. CASE i = Len(results) + 1
    <3>1. 1 \in DOMAIN sent /\ sent[1] = queue[Len(results) + 1]
      BY <1>3, <1>6 DEF WriteInv, Continues
    <3>2. results'[i] = Len(cloud) + 1 /\ Len(cloud) + 1 \in DOMAIN cloud'
      BY <2>2, <1>4, <1>5, <1>6, <1>7
    <3>3. i <= piped
      BY <2>2, <1>2, <1>3, <1>6
    <3>4. QED
      BY <2>2, <3>1, <3>2, <3>3, <1>1, <1>3, <1>4
  <2>3. QED
    BY <2>1, <2>2, <1>5, <1>6, <1>7
<1>10. Len(results') + Len(sent') = piped'
  BY <1>1, <1>2, <1>3, <1>5, <1>6
<1>11. AckMatches'
  BY <1>9 DEF AckMatches
<1>12. IsSeq(queue)' /\ piped' = Fitting(queue)' /\ write' = "open"
  BY <1>1, <1>2 DEF WriteInv, IsSeq, ToSet, Fitting
<1>13. QED
  BY <1>3, <1>4, <1>5, <1>8, <1>9, <1>10, <1>11, <1>12 DEF WriteInv

LEMMA Sums ==
  ASSUME NEW a \in Nat, NEW b \in Nat, NEW k \in Nat, NEW p \in Nat, a + b = k, k <= p
  PROVE  /\ k + 1 \in Nat \ {0} /\ k + 1 <= p + 1
         /\ p - (k + 1) + 1 = p - k /\ p - k \in Nat
         /\ a + (b + (p - k)) = p
         /\ \A i \in 1..b + (p - k) :
              i <= b \/ (i - b \in 1..p - k /\ (k + 1) + (i - b) - 1 = a + i)
OBVIOUS

\* A stretch of a sequence is continued by the next stretch of it.
LEMMA SeqContinued ==
  ASSUME NEW s, IsSeq(s), NEW t, IsSeq(t),
         NEW from \in Nat, NEW kept \in Nat, NEW upto \in 0..Len(t), kept <= upto,
         from + Len(s) = kept,
         Continues(s, t, from)
  PROVE  LET u == s \o SubSeq(t, kept + 1, upto) IN
           IsSeq(u) /\ from + Len(u) = upto /\ Continues(u, t, from)
<1> DEFINE more == SubSeq(t, kept + 1, upto)
           u == s \o more
<1>1. /\ Len(s) \in Nat /\ DOMAIN s = 1..Len(s)
      /\ Len(t) \in Nat /\ upto \in Nat
  BY SeqHas
<1>2. /\ kept + 1 \in Nat \ {0} /\ kept + 1 <= upto + 1
      /\ upto - (kept + 1) + 1 = upto - kept /\ upto - kept \in Nat
      /\ from + (Len(s) + (upto - kept)) = upto
      /\ \A i \in 1..Len(s) + (upto - kept) :
           \/ i <= Len(s)
           \/ i - Len(s) \in 1..upto - kept /\ (kept + 1) + (i - Len(s)) - 1 = from + i
  BY <1>1, Sums
<1>3. /\ IsSeq(more) /\ Len(more) = upto - (kept + 1) + 1
      /\ \A i \in 1..Len(more) : more[i] = t[(kept + 1) + i - 1]
  <2> DEFINE m == kept + 1
  <2>1. m \in Nat \ {0} /\ m <= upto + 1
    BY <1>2
  <2> HIDE DEF m
  <2>2. /\ IsSeq(SubSeq(t, m, upto)) /\ Len(SubSeq(t, m, upto)) = upto - m + 1
        /\ \A i \in 1..Len(SubSeq(t, m, upto)) : SubSeq(t, m, upto)[i] = t[m + i - 1]
    BY <2>1, SeqPart
  <2>3. QED
    BY <2>2 DEF m
<1>4. Len(more) = upto - kept
  BY <1>2, <1>3
<1> HIDE DEF more
<1>5. /\ IsSeq(u) /\ Len(u) = Len(s) + Len(more)
      /\ \A i \in 1..Len(s) + Len(more) :
           u[i] = IF i <= Len(s) THEN s[i] ELSE more[i - Len(s)]
  BY <1>3, SeqConcat
<1> HIDE DEF u
<1>6. Len(u) = Len(s) + (upto - kept) /\ DOMAIN u = 1..Len(s) + (upto - kept)
  BY <1>4, <1>5, SeqHas
<1>7. from + Len(u) = upto
  BY <1>2, <1>6
<1>8. ASSUME NEW i \in DOMAIN u PROVE u[i] = t[from + i]
  <2>1. i \in 1..Len(s) + (upto - kept) /\ i \in 1..Len(s) + Len(more)
    BY <1>4, <1>6
  <2>2. CASE i <= Len(s)
    <3>1. u[i] = s[i]
      BY <1>5, <2>1, <2>2
    <3>2. i \in DOMAIN s
      BY <1>1, <2>1, <2>2
    <3>3. QED
      BY <3>1, <3>2 DEF Continues
  <2>3. CASE ~(i <= Len(s))
    <3>1. i - Len(s) \in 1..Len(more) /\ (kept + 1) + (i - Len(s)) - 1 = from + i
      BY <1>2, <1>4, <2>1, <2>3
    <3>2. u[i] = more[i - Len(s)]
      BY <1>5, <2>1, <2>3
    <3>3. more[i - Len(s)] = t[(kept + 1) + (i - Len(s)) - 1]
      BY <1>3, <3>1
    <3>4. QED
      BY <3>1, <3>2, <3>3
  <2>4. QED
    BY <2>2, <2>3
<1>9. Continues(u, t, from)
  BY <1>8 DEF Continues
<1>10. IsSeq(u) /\ from + Len(u) = upto /\ Continues(u, t, from)
  BY <1>5, <1>7, <1>9
<1>11. QED
  BY <1>10 DEF u, more

\* Filling the pipeline up keeps what is on the way in step with the queue.
LEMMA Filled ==
  ASSUME NEW batches, IsSeq(batches), NEW kept, kept \in 0..Fitting(batches),
         IsSeq(sent), IsSeq(results'),
         write = "open" => Len(results') + Len(sent) = kept,
         write # "open" => sent = << >>,
         Continues(sent, batches, Len(results')),
         FillWritePipeline(batches, kept)
  PROVE  /\ IsSeq(sent') /\ piped' = Fitting(batches)
         /\ write' = "open" <=> write = "open"
         /\ IF write' = "open" THEN Len(results') + Len(sent') = piped' ELSE sent' = << >>
         /\ Continues(sent', batches, Len(results'))
<1>1. /\ piped' = Fitting(batches)
      /\ write' = "open" <=> write = "open"
      /\ write = "open" => sent' = sent \o SubSeq(batches, kept + 1, piped')
      /\ write # "open" => sent' = sent
  BY DEF FillWritePipeline
<1>2. CASE write # "open"
  BY <1>1, <1>2
<1>3. CASE write = "open"
  <2>1. Fitting(batches) \in 0..Len(batches) /\ Len(batches) \in Nat
    BY FittingIs, SeqHas
  <2>2. kept \in Nat /\ piped' \in 0..Len(batches) /\ kept <= piped'
    BY <1>1, <2>1
  <2>3. Len(results') \in Nat
    BY SeqHas
  <2>4. /\ IsSeq(sent') /\ Len(results') + Len(sent') = piped'
        /\ Continues(sent', batches, Len(results'))
    <3> DEFINE u == sent \o SubSeq(batches, kept + 1, piped')
    <3>1. /\ IsSeq(u) /\ Len(results') + Len(u) = piped'
          /\ Continues(u, batches, Len(results'))
      BY <1>3, <2>2, <2>3, SeqContinued
    <3>2. sent' = u
      BY <1>1, <1>3
    <3> HIDE DEF u
    <3>3. QED
      BY <3>1, <3>2
  <2>5. QED
    BY <1>1, <1>3, <2>4
<1>4. QED
  BY <1>2, <1>3

LEMMA WriteSaved ==
  ASSUME WriteInv, WriteMutations
  PROVE  WriteInv'
<1>1. /\ queue' = Append(queue, Head(tasks).get)
      /\ FillWritePipeline(queue', piped)
      /\ UNCHANGED << cloud, results >>
  BY DEF WriteMutations
<1>2. /\ IsSeq(queue') /\ Len(queue') = Len(queue) + 1
      /\ \A i \in 1..Len(queue) : queue'[i] = queue[i]
  BY <1>1, SeqAppend DEF WriteInv
<1>3. /\ piped \in 0..Len(queue) /\ Len(queue) \in Nat
      /\ DOMAIN sent = 1..Len(sent) /\ Len(sent) \in Nat
      /\ DOMAIN results = 1..Len(results) /\ Len(results) \in Nat
  BY SeqHas, FittingIs DEF WriteInv
<1>4. piped \in 0..Fitting(queue')
  BY <1>2, <1>3 DEF WriteInv, Fitting
<1>5. Continues(sent, queue', Len(results'))
  <2> SUFFICES ASSUME NEW i \in DOMAIN sent PROVE sent[i] = queue'[Len(results') + i]
    BY DEF Continues
  <2>1. sent[i] = queue[Len(results) + i]
    BY DEF WriteInv, Continues
  <2>2. Len(results) + Len(sent) = piped
    BY <1>3, SeqEmpty DEF WriteInv
  <2>3. Len(results) + i \in 1..Len(queue)
    BY <1>3, <2>2
  <2>4. QED
    BY <1>1, <1>2, <2>1, <2>3
<1>6. /\ IsSeq(sent') /\ piped' = Fitting(queue')
      /\ write' = "open" <=> write = "open"
      /\ IF write' = "open" THEN Len(results') + Len(sent') = piped' ELSE sent' = << >>
      /\ Continues(sent', queue', Len(results'))
  <2>1. /\ IsSeq(sent) /\ IsSeq(results')
        /\ write = "open" => Len(results') + Len(sent) = piped
        /\ write # "open" => sent = << >>
    BY <1>1 DEF WriteInv
  <2>2. QED
    BY <1>1, <1>2, <1>4, <1>5, <2>1, Filled
<1>7. ASSUME NEW i \in DOMAIN results'
      PROVE  results'[i] \in DOMAIN cloud' /\ i <= piped' /\ cloud'[results'[i]] = queue'[i]
  <2>1. results[i] \in DOMAIN cloud /\ i <= piped /\ cloud[results[i]] = queue[i]
    BY <1>1 DEF WriteInv, AckMatches
  <2>2. i \in 1..Len(queue) /\ piped <= piped'
    BY <1>1, <1>2, <1>3, <1>4, <1>6, <2>1, FittingIs
  <2>3. piped' \in Nat
    BY <1>2, <1>6, FittingIs
  <2>4. i <= piped'
    BY <1>1, <1>3, <2>1, <2>2, <2>3
  <2>5. QED
    BY <1>1, <1>2, <2>1, <2>2, <2>4
<1>8. AckMatches'
  BY <1>7 DEF AckMatches
<1>9. IsSeq(cloud)' /\ IsSeq(results)' /\ (piped = Fitting(queue))'
      /\ (write # "open" => results = << >>)'
  BY <1>1, <1>6 DEF WriteInv, IsSeq, ToSet, Fitting
<1>10. QED
  BY <1>2, <1>6, <1>7, <1>8, <1>9 DEF WriteInv

LEMMA WriteAcknowledged ==
  ASSUME WriteInv, OnWriteStreamMutationResult
  PROVE  WriteInv'
<1>1. /\ results # << >> /\ results' = Tail(results) /\ queue' = Tail(queue)
      /\ FillWritePipeline(queue', piped - 1)
      /\ UNCHANGED cloud
  BY DEF OnWriteStreamMutationResult
<1>2. write = "open" /\ Len(results) + Len(sent) = piped
  BY <1>1 DEF WriteInv
<1>3. /\ IsSeq(results') /\ Len(results) \in Nat \ {0} /\ Len(results') = Len(results) - 1
      /\ \A i \in 1..Len(results') : results'[i] = results[i + 1]
  BY <1>1, SeqTail DEF WriteInv
<1>4. /\ piped \in 0..Len(queue) /\ Len(queue) \in Nat
      /\ DOMAIN sent = 1..Len(sent) /\ Len(sent) \in Nat
      /\ DOMAIN results = 1..Len(results) /\ DOMAIN results' = 1..Len(results')
  BY <1>3, SeqHas, FittingIs DEF WriteInv
<1>5. Len(queue) \in Nat \ {0} /\ queue # << >>
  BY <1>2, <1>3, <1>4, SeqEmpty
<1>6. /\ IsSeq(queue') /\ Len(queue') = Len(queue) - 1
      /\ \A i \in 1..Len(queue') : queue'[i] = queue[i + 1]
  BY <1>1, <1>5, SeqTail DEF WriteInv
<1>7. piped - 1 \in 0..Fitting(queue')
  BY <1>2, <1>3, <1>4, <1>6 DEF WriteInv, Fitting
<1>8. Continues(sent, queue', Len(results'))
  <2> SUFFICES ASSUME NEW i \in DOMAIN sent PROVE sent[i] = queue'[Len(results') + i]
    BY DEF Continues
  <2>1. sent[i] = queue[Len(results) + i]
    BY DEF WriteInv, Continues
  <2>2. Len(results') + i \in 1..Len(queue') /\ (Len(results') + i) + 1 = Len(results) + i
    BY <1>2, <1>3, <1>4, <1>6
  <2>3. QED
    BY <1>6, <2>1, <2>2
<1>9. /\ IsSeq(sent') /\ piped' = Fitting(queue')
      /\ write' = "open" <=> write = "open"
      /\ IF write' = "open" THEN Len(results') + Len(sent') = piped' ELSE sent' = << >>
      /\ Continues(sent', queue', Len(results'))
  <2>1. IsSeq(sent) /\ Len(results') + Len(sent) = piped - 1
    BY <1>2, <1>3, <1>4 DEF WriteInv
  <2>2. QED
    BY <1>1, <1>2, <1>3, <1>6, <1>7, <1>8, <2>1, Filled
<1>10. ASSUME NEW i \in DOMAIN results'
       PROVE  results'[i] \in DOMAIN cloud' /\ i <= piped' /\ cloud'[results'[i]] = queue'[i]
  <2>1. i \in Nat \ {0} /\ i + 1 \in DOMAIN results /\ results'[i] = results[i + 1]
    BY <1>3, <1>4
  <2>2. /\ results[i + 1] \in DOMAIN cloud /\ i + 1 <= piped
        /\ cloud[results[i + 1]] = queue[i + 1]
    BY <2>1 DEF WriteInv, AckMatches
  <2>3. piped - 1 <= piped' /\ piped' \in Nat
    BY <1>6, <1>7, <1>9, FittingIs
  <2>4. i <= piped' /\ i \in 1..Len(queue')
    BY <1>4, <1>6, <2>1, <2>2, <2>3
  <2>5. QED
    BY <1>1, <1>6, <2>1, <2>2, <2>4
<1>11. AckMatches'
  BY <1>10 DEF AckMatches
<1>12. IsSeq(cloud)' /\ (piped = Fitting(queue))' /\ write' = "open"
  BY <1>1, <1>2, <1>9 DEF WriteInv, IsSeq, ToSet, Fitting
<1>13. QED
  BY <1>3, <1>6, <1>9, <1>10, <1>11, <1>12 DEF WriteInv

LEMMA WriteStep ==
  ASSUME WriteInv, [Next]_vars
  PROVE  WriteInv'
<1>1. CASE GetDocument \/ HandleEvent \/ AddFirstListener \/ AddListener
           \/ RemoveListener \/ RemoveLastListener
  BY <1>1, WriteKept DEF GetDocument, HandleEvent, AddFirstListener, AddListener,
       RemoveListener, RemoveLastListener, Unlisten, store
<1>2. CASE OnWatchStreamOpen \/ OnTargetResponse \/ OnWatchSnapshot
           \/ OnWatchStreamClose \/ OnlineStateTimeout
  BY <1>2, WriteKept DEF OnWatchStreamOpen, OnTargetResponse, OnWatchSnapshot,
       OnWatchStreamClose, OnlineStateTimeout, store
<1>3. CASE WriteMutations
  BY <1>3, WriteSaved
<1>4. CASE OnWriteStreamHandshakeComplete
  BY <1>4, WriteOpened
<1>5. CASE OnWriteStreamMutationResult
  BY <1>5, WriteAcknowledged
<1>6. CASE OnWriteStreamClose
  <2>1. /\ sent' = << >> /\ results' = << >> /\ write' # "open"
        /\ UNCHANGED << cloud, queue, piped >>
    BY <1>6 DEF OnWriteStreamClose, store
  <2>2. QED
    BY <2>1, WriteClosed DEF WriteInv
<1>7. CASE RestartNetwork \/ Restart
  <2>1. RestartStreams /\ UNCHANGED << cloud, queue >>
    BY <1>7 DEF RestartNetwork, Restart, store
  <2>2. QED
    BY <2>1, WriteClosed DEF RestartStreams
<1>8. CASE BackendTakesRequest \/ BackendSendsSnapshot
  BY <1>8, WriteKept DEF BackendTakesRequest, BackendSendsSnapshot, store
<1>9. CASE BackendApplies
  BY <1>9, WriteApplied
<1>10. CASE WriteElsewhere
  BY <1>10, WriteCloudGrows DEF WriteElsewhere, store
<1>11. CASE UNCHANGED vars
  BY <1>11, WriteKept DEF vars, store
<1>12. QED
  BY <1>1, <1>2, <1>3, <1>4, <1>5, <1>6, <1>7, <1>8, <1>9, <1>10, <1>11 DEF Next

\* No result is ever taken for another write than the one it belongs to, for
\* any number of gets and faults and any length of the pipeline.
THEOREM ResultsMatchWrites == Spec => []AckMatches
<1>1. WriteInv => AckMatches
  BY DEF WriteInv
<1>2. QED
  BY <1>1, WriteInit, WriteStep, PTL DEF Spec

-----------------------------------------------------------------------------
(* Selections.                                                             *)

\* A rank is a place in the order.
LEMMA RankIs ==
  ASSUME NEW P \in SUBSET Int, IsFiniteSet(P), NEW p \in P
  PROVE  Rank(p, P) \in 1..Cardinality(P)
<1> DEFINE T == {q \in P : q <= p}
<1>1. IsFiniteSet(T) /\ Cardinality(T) <= Cardinality(P)
  BY FS_Subset
<1>2. p \in T
  OBVIOUS
<1> HIDE DEF T
<1>3. Cardinality(T) \in Nat /\ Cardinality(P) \in Nat
  BY <1>1, FS_CardinalityType
<1>4. Cardinality(T) # 0
  BY <1>1, <1>2, FS_EmptySet
<1>5. Rank(p, P) = Cardinality(T)
  BY DEF Rank, T
<1>6. QED
  BY <1>1, <1>3, <1>4, <1>5

LEMMA RankGrows ==
  ASSUME NEW P \in SUBSET Int, IsFiniteSet(P), NEW p \in P, NEW q \in P, p < q
  PROVE  Rank(p, P) < Rank(q, P)
<1> DEFINE S == {r \in P : r <= q}
           T == {r \in P : r <= p}
<1>1. IsFiniteSet(S) /\ IsFiniteSet(T)
  BY FS_Subset
<1>2. T \subseteq S /\ q \in S /\ q \notin T
  <2>1. p \in Int /\ q \in Int /\ \A r \in P : r \in Int
    OBVIOUS
  <2>2. \A r \in P : r <= p => r <= q
    BY <2>1
  <2>3. q <= q /\ ~(q <= p)
    BY <2>1
  <2>4. QED
    BY <2>2, <2>3
<1> HIDE DEF S, T
<1>3. Cardinality(T) <= Cardinality(S) /\ Cardinality(S) # Cardinality(T)
  BY <1>1, <1>2, FS_Subset
<1>4. Cardinality(T) \in Nat /\ Cardinality(S) \in Nat
  BY <1>1, FS_CardinalityType
<1>5. Rank(p, P) = Cardinality(T) /\ Rank(q, P) = Cardinality(S)
  BY DEF Rank, S, T
<1>6. QED
  BY <1>3, <1>4, <1>5

\* There is a member at every place.
LEMMA NthIs ==
  ASSUME NEW P \in SUBSET Int, IsFiniteSet(P), NEW n \in 1..Cardinality(P)
  PROVE  Nth(n, P) \in P /\ Rank(Nth(n, P), P) = n
<1> DEFINE N == 1..Cardinality(P)
           f == [p \in P |-> Rank(p, P)]
<1>1. Cardinality(P) \in Nat
  BY FS_CardinalityType
<1>2. IsFiniteSet(N) /\ Cardinality(N) = Cardinality(P)
  BY <1>1, FS_Interval
<1>3. f \in [P -> N]
  BY RankIs
<1>4. ASSUME NEW p \in P, NEW q \in P, Rank(p, P) = Rank(q, P) PROVE p = q
  <2>1. ~(p < q) /\ ~(q < p)
    <3>1. Rank(p, P) \in Int /\ Rank(q, P) \in Int
      BY RankIs
    <3>2. QED
      BY <1>4, <3>1, RankGrows
  <2>2. QED
    BY <2>1
<1>5. f \in Injection(P, N)
  BY <1>3, <1>4 DEF Injection, IsInjective
<1> HIDE DEF N
<1>6. f \in Surjection(P, N)
  BY <1>2, <1>5, FS_Injection
<1>7. \E p \in P : f[p] = n
  BY <1>6 DEF Surjection, N
<1>8. \E p \in P : Rank(p, P) = n
  BY <1>7
<1>9. QED
  BY <1>8 DEF Nth

LEMMA NthOfRank ==
  ASSUME NEW P \in SUBSET Int, IsFiniteSet(P), NEW p \in P
  PROVE  Nth(Rank(p, P), P) = p
<1> DEFINE q == Nth(Rank(p, P), P)
<1>1. q \in P /\ Rank(q, P) = Rank(p, P)
  BY RankIs, NthIs
<1>2. Rank(q, P) \in Int
  BY <1>1, RankIs
<1> HIDE DEF q
<1>3. ~(p < q) /\ ~(q < p)
  BY <1>1, <1>2, RankGrows
<1>4. p \in Int /\ q \in Int
  BY <1>1
<1>5. q = p
  BY <1>3, <1>4
<1>6. QED
  BY <1>5 DEF q

LEMMA NthGrows ==
  ASSUME NEW P \in SUBSET Int, IsFiniteSet(P),
         NEW m \in 1..Cardinality(P), NEW n \in 1..Cardinality(P), m < n
  PROVE  Nth(m, P) < Nth(n, P)
<1>1. /\ Nth(m, P) \in P /\ Rank(Nth(m, P), P) = m
      /\ Nth(n, P) \in P /\ Rank(Nth(n, P), P) = n
  BY NthIs
<1>2. m \in Int /\ n \in Int
  OBVIOUS
<1>3. ~(Nth(n, P) < Nth(m, P)) /\ Nth(n, P) # Nth(m, P)
  <2>1. ASSUME Nth(n, P) < Nth(m, P) PROVE n < m
    <3>1. Rank(Nth(n, P), P) < Rank(Nth(m, P), P)
      BY <1>1, <2>1, RankGrows
    <3>2. QED
      BY <1>1, <3>1
  <2>2. Nth(n, P) # Nth(m, P)
    BY <1>1, <1>2
  <2>3. QED
    BY <1>2, <2>1, <2>2
<1>4. Nth(m, P) \in Int /\ Nth(n, P) \in Int
  BY <1>1
<1>5. QED
  BY <1>3, <1>4

\* What is picked of a sequence keeps its elements and their order.
LEMMA PickedIs ==
  ASSUME NEW S, NEW s \in Seq(S), NEW P \in SUBSET DOMAIN s
  PROVE  /\ Picked(s, P) \in Seq(S)
         /\ Len(Picked(s, P)) = Cardinality(P) /\ Cardinality(P) \in Nat
         /\ P \in SUBSET Int /\ IsFiniteSet(P)
         /\ \A n \in 1..Cardinality(P) : /\ Nth(n, P) \in P
                                         /\ Picked(s, P)[n] = s[Nth(n, P)]
<1>1. Len(s) \in Nat /\ DOMAIN s = 1..Len(s) /\ s \in [1..Len(s) -> S]
  BY LenProperties
<1>2. P \in SUBSET Int
  BY <1>1
<1>3. IsFiniteSet(P)
  <2>1. IsFiniteSet(1..Len(s))
    BY <1>1, FS_Interval
  <2>2. QED
    BY <1>1, <2>1, FS_Subset
<1>4. Cardinality(P) \in Nat
  BY <1>3, FS_CardinalityType
<1>5. \A n \in 1..Cardinality(P) : Nth(n, P) \in P
  BY <1>2, <1>3, NthIs
<1>6. \A n \in 1..Cardinality(P) : s[Nth(n, P)] \in S
  BY <1>1, <1>5
<1>7. Picked(s, P) \in [1..Cardinality(P) -> S]
  BY <1>6 DEF Picked
<1>8. Picked(s, P) \in Seq(S)
  BY <1>4, <1>7, SeqDef
<1>9. DOMAIN Picked(s, P) = 1..Cardinality(P)
  BY <1>7
<1>10. Len(Picked(s, P)) = Cardinality(P)
  BY <1>4, <1>8, <1>9, LenProperties
<1>11. \A n \in 1..Cardinality(P) : Picked(s, P)[n] = s[Nth(n, P)]
  BY DEF Picked
<1>12. QED
  BY <1>2, <1>3, <1>4, <1>5, <1>8, <1>10, <1>11

-----------------------------------------------------------------------------
(* Types.  The client asks the stream for nothing that it does not count.   *)

Event == [get : Get, seen : Int \cup {NoDocument}]

Task == [op : {"listen", "unlisten", "write"}, get : Get]

AppTypes ==
  /\ gets \in 0..MaxGets
  /\ events \in Seq(Event)
  /\ muted \in SUBSET Get
  /\ failed \in SUBSET Get /\ after \in [Get -> 0..MaxGets]

ViewTypes ==
  /\ tasks \in Seq(Task)
  /\ listeners \in Seq(Get) /\ raised \in SUBSET Get /\ current \in BOOLEAN

WatchTypes ==
  /\ online \in {"unknown", "online", "offline"}
  /\ failures \in {0, 1} /\ timer \in BOOLEAN
  /\ watch \in {"stopped", "starting", "open"}
  /\ requests \in Seq({"watch", "unwatch"})
  /\ told \in Nat \cup {NotWatching} /\ changes \in Seq(Nat)

WriteTypes ==
  /\ queue \in Seq(Get)
  /\ piped \in 0..MaxPendingWrites /\ write \in {"stopped", "starting", "open"}
  /\ sent \in Seq(Get)
  /\ faults \in 0..MaxFaults

CloudTypes ==
  /\ cloud \in Seq(Int) /\ cloud # << >>
  /\ cached \in 0..Len(cloud) /\ results \in Seq(1..Len(cloud))
  /\ since \in 1..Len(cloud) /\ known \in 0..Len(cloud)

Responses == {p \in DOMAIN changes : changes[p] = Response}

\* What the client and the backend know of each other.
WatchInv ==
  /\ watch # "open" => requests = << >> /\ changes = << >> /\ told = NotWatching
  /\ watch = "stopped" => online = "unknown"
  /\ pending = Len(requests) + Cardinality(Responses)
  /\ \A p \in DOMAIN changes : changes[p] <= Len(cloud)

Types == AppTypes /\ ViewTypes /\ WatchTypes /\ WriteTypes /\ CloudTypes

TypeInv == Types /\ WatchInv /\ TrackerAsserts /\ WriteInv

LEMMA ResponsesCounted ==
  ASSUME NEW c, c \in Seq(Nat)
  PROVE  /\ IsFiniteSet({p \in DOMAIN c : c[p] = Response})
         /\ Cardinality({p \in DOMAIN c : c[p] = Response}) \in Nat
<1>1. DOMAIN c = 1..Len(c) /\ Len(c) \in Nat
  BY LenProperties
<1>2. IsFiniteSet(1..Len(c))
  BY <1>1, FS_Interval
<1>3. IsFiniteSet({p \in DOMAIN c : c[p] = Response})
  BY <1>1, <1>2, FS_Subset
<1>4. QED
  BY <1>3, FS_CardinalityType

LEMMA TypesAreTypeOK == TypeInv => TypeOK
<1>1. SUFFICES ASSUME TypeInv PROVE TypeOK
  OBVIOUS
<1>2. pending \in Nat
  <2>1. Len(requests) \in Nat
    BY <1>1, LenProperties DEF TypeInv, Types, WatchTypes
  <2>2. Cardinality(Responses) \in Nat
    BY <1>1, ResponsesCounted DEF TypeInv, Types, WatchTypes, Responses
  <2>3. QED
    BY <1>1, <2>1, <2>2 DEF TypeInv, WatchInv
<1>3. QED
  BY <1>1, <1>2 DEF TypeInv, Types, AppTypes, ViewTypes, WatchTypes, WriteTypes,
                    CloudTypes, TypeOK, Event, Task

LEMMA TypesInit == Init => TypeInv
<1>1. SUFFICES ASSUME Init PROVE TypeInv
  OBVIOUS
<1>2. AppTypes
  BY <1>1 DEF Init, AppTypes
<1>3. ViewTypes /\ WatchTypes
  <2>1. ViewTypes
    <3>1. << >> \in Seq(Task) /\ << >> \in Seq(Get)
      BY EmptySeq
    <3>2. QED
      BY <1>1, <3>1 DEF Init, ViewTypes
  <2>2. << >> \in Seq({"watch", "unwatch"}) /\ << >> \in Seq(Nat)
    BY EmptySeq
  <2>3. WatchTypes
    BY <1>1, <2>2 DEF Init, WatchTypes
  <2>4. QED
    BY <2>1, <2>3
<1>4. WriteTypes
  BY <1>1 DEF Init, WriteTypes
<1>5. CloudTypes
  <2>1. cloud = << 0 >> /\ Len(cloud) = 1 /\ cloud \in Seq(Int) /\ cloud # << >>
    BY <1>1 DEF Init
  <2>2. QED
    BY <1>1, <2>1 DEF Init, CloudTypes
<1>6. WatchInv
  <2>1. /\ requests = << >> /\ changes = << >> /\ pending = 0 /\ watch = "stopped"
        /\ told = NotWatching /\ online = "unknown"
    BY <1>1 DEF Init
  <2>2. Responses = {} /\ Len(requests) = 0
    BY <2>1 DEF Responses
  <2>3. Cardinality(Responses) = 0
    BY <2>2, FS_EmptySet
  <2>4. QED
    BY <2>1, <2>2, <2>3 DEF WatchInv
<1>7. QED
  BY <1>1, <1>2, <1>3, <1>4, <1>5, <1>6, TrackerInit, WriteInit DEF TypeInv, Types

-----------------------------------------------------------------------------
(* The groups of variables, when they are left alone.                       *)

LEMMA AppTypesKept ==
  ASSUME AppTypes, UNCHANGED << gets, events, muted, failed, after >>
  PROVE  AppTypes'
BY DEF AppTypes

LEMMA ViewTypesKept ==
  ASSUME ViewTypes, UNCHANGED << tasks, listeners, raised, current >>
  PROVE  ViewTypes'
BY DEF ViewTypes

LEMMA WatchTypesKept ==
  ASSUME WatchTypes, UNCHANGED << online, failures, timer, watch, requests, told, changes >>
  PROVE  WatchTypes'
BY DEF WatchTypes

LEMMA WriteTypesKept ==
  ASSUME WriteTypes, UNCHANGED << queue, piped, write, sent, faults >>
  PROVE  WriteTypes'
BY DEF WriteTypes

LEMMA CloudTypesKept ==
  ASSUME CloudTypes, UNCHANGED << cloud, cached, results, since, known >>
  PROVE  CloudTypes'
BY DEF CloudTypes

LEMMA WatchInvKept ==
  ASSUME WatchInv, UNCHANGED << cloud, online, watch, pending, requests, told, changes >>
  PROVE  WatchInv'
BY DEF WatchInv, Responses

-----------------------------------------------------------------------------
(* Snapshots.                                                               *)

\* What is shown is a value of the document, or that there is none.
LEMMA LocalViewType ==
  ASSUME CloudTypes, NEW version \in 0..Len(cloud), NEW batches \in Seq(Get)
  PROVE  LocalView(version, batches) \in Int \cup {NoDocument}
<1>1. CASE version = 0
  BY <1>1 DEF LocalView
<1>2. CASE version # 0 /\ batches = << >>
  <2>1. version \in 1..Len(cloud) /\ cloud \in Seq(Int)
    BY <1>2 DEF CloudTypes
  <2>2. cloud[version] \in Int
    BY <2>1, ElementOfSeq
  <2>3. QED
    BY <1>2, <2>2 DEF LocalView
<1>3. CASE version # 0 /\ batches # << >>
  <2>1. Len(batches) \in Nat \ {0}
    BY <1>3, EmptySeq
  <2>2. batches[Len(batches)] \in Get
    BY <2>1, ElementOfSeq
  <2>3. QED
    BY <1>3, <2>2 DEF LocalView, Last, Get
<1>4. QED
  BY <1>1, <1>2, <1>3

LEMMA RaiseTypes ==
  ASSUME CloudTypes, events \in Seq(Event), raised \in SUBSET Get,
         NEW to \in Seq(Get), NEW version \in 0..Len(cloud), NEW batches \in Seq(Get),
         Raise(to, version, batches)
  PROVE  events' \in Seq(Event) /\ raised' \in SUBSET Get
<1> DEFINE more == [i \in DOMAIN to |-> [get |-> to[i], seen |-> LocalView(version, batches)]]
<1>1. Len(to) \in Nat /\ DOMAIN to = 1..Len(to) /\ to \in [1..Len(to) -> Get]
  BY LenProperties
<1>2. LocalView(version, batches) \in Int \cup {NoDocument}
  BY LocalViewType
<1>3. more \in [1..Len(to) -> Event]
  BY <1>1, <1>2 DEF Event
<1>4. more \in Seq(Event)
  BY <1>1, <1>3, SeqDef
<1>5. events' = events \o more
  BY DEF Raise
<1>6. events' \in Seq(Event)
  BY <1>4, <1>5, ConcatProperties
<1>7. ToSet(to) \subseteq Get
  BY <1>1 DEF ToSet
<1>8. QED
  BY <1>6, <1>7 DEF Raise

\* Listeners are picked in order.
LEMMA ListenersOfIs ==
  ASSUME ViewTypes, NEW some
  PROVE  /\ ListenersOf(some) \in Seq(Get)
         /\ ToSet(ListenersOf(some)) = ToSet(listeners) \cap some
<1> DEFINE P == {p \in DOMAIN listeners : listeners[p] \in some}
           chosen == Picked(listeners, P)
<1>1. listeners \in Seq(Get) /\ P \in SUBSET DOMAIN listeners
  BY DEF ViewTypes
<1>2. ListenersOf(some) = chosen
  BY DEF ListenersOf
<1>3. \A p \in P : p \in DOMAIN listeners /\ listeners[p] \in some
  OBVIOUS
<1>4. \A p \in DOMAIN listeners : listeners[p] \in some => p \in P
  OBVIOUS
<1> HIDE DEF P
<1>5. /\ chosen \in Seq(Get) /\ Len(chosen) = Cardinality(P) /\ Cardinality(P) \in Nat
      /\ P \in SUBSET Int /\ IsFiniteSet(P)
      /\ \A n \in 1..Cardinality(P) : Nth(n, P) \in P /\ chosen[n] = listeners[Nth(n, P)]
  BY <1>1, PickedIs
<1> HIDE DEF chosen
<1>6. DOMAIN chosen = 1..Cardinality(P)
  BY <1>5, LenProperties
<1>7. \A n \in DOMAIN chosen : chosen[n] \in ToSet(listeners) \cap some
  BY <1>3, <1>5, <1>6 DEF ToSet
<1>8. ASSUME NEW p \in DOMAIN listeners, listeners[p] \in some
      PROVE  \E n \in DOMAIN chosen : chosen[n] = listeners[p]
  <2>1. p \in P
    BY <1>4, <1>8
  <2>2. Rank(p, P) \in 1..Cardinality(P) /\ Nth(Rank(p, P), P) = p
    BY <2>1, <1>5, RankIs, NthOfRank
  <2>3. QED
    BY <2>2, <1>5, <1>6
<1>9. ToSet(chosen) = ToSet(listeners) \cap some
  BY <1>7, <1>8 DEF ToSet
<1>10. QED
  BY <1>2, <1>5, <1>9

LEMMA WaitingIs ==
  ASSUME ViewTypes
  PROVE  Waiting \in Seq(Get) /\ ToSet(Waiting) = ToSet(listeners) \ raised
<1>1. ToSet(listeners) \subseteq Get
  <2>1. listeners \in [1..Len(listeners) -> Get] /\ DOMAIN listeners = 1..Len(listeners)
    BY LenProperties DEF ViewTypes
  <2>2. QED
    BY <2>1 DEF ToSet
<1>2. QED
  BY <1>1, ListenersOfIs DEF Waiting

LEMMA RefreshIs ==
  ASSUME CloudTypes, ViewTypes, events \in Seq(Event), queue \in Seq(Get),
         NEW version \in 0..Len(cloud), NEW batches \in Seq(Get),
         Refresh(version, batches)
  PROVE  events' \in Seq(Event) /\ raised' = raised
<1> DEFINE to == IF LocalView(version, batches) # LocalView(cached, queue)
                 THEN ListenersOf(raised) ELSE << >>
<1>1. to \in Seq(Get) /\ ToSet(to) \subseteq raised
  <2>1. << >> \in Seq(Get) /\ ToSet(<< >>) = {}
    BY DEF ToSet
  <2>2. QED
    BY <2>1, ListenersOfIs
<1>2. Raise(to, version, batches)
  BY DEF Refresh
<1> HIDE DEF to
<1>3. events' \in Seq(Event)
  BY <1>1, <1>2, RaiseTypes DEF ViewTypes
<1>4. raised' = raised
  BY <1>1, <1>2 DEF Raise
<1>5. QED
  BY <1>3, <1>4

-----------------------------------------------------------------------------
(* The main queue.                                                          *)

LEMMA TaskGets ==
  ASSUME tasks \in Seq(Task), NEW p \in DOMAIN tasks
  PROVE  tasks[p] \in Task /\ tasks[p].get \in Get
<1>1. tasks[p] \in Task
  BY LenProperties, ElementOfSeq
<1>2. QED
  BY <1>1 DEF Task

\* A finite set of gets has a latest.
LEMMA LatestIs ==
  ASSUME NEW S \in SUBSET Get, S # {}
  PROVE  Max(S) \in S /\ \A g \in S : g <= Max(S)
<1>1. IsFiniteSet(Get) /\ Get \subseteq Int
  BY FS_Interval DEF Get
<1>2. IsFiniteSet(S) /\ S \in SUBSET Int
  BY <1>1, FS_Subset
<1>3. Cardinality(S) \in Nat /\ Cardinality(S) # 0
  BY <1>2, FS_EmptySet, FS_CardinalityType
<1> DEFINE n == Cardinality(S)
           last == Nth(n, S)
<1>4. n \in 1..Cardinality(S)
  BY <1>3
<1>5. last \in S /\ Rank(last, S) = Cardinality(S)
  BY <1>2, <1>4, NthIs
<1>6. ASSUME NEW g \in S PROVE g <= last
  <2>1. CASE last < g
    <3>1. Rank(last, S) < Rank(g, S) /\ Rank(g, S) \in 1..Cardinality(S)
      BY <1>2, <1>5, <2>1, RankGrows, RankIs
    <3>2. QED
      BY <3>1, <1>3, <1>5
  <2>2. last \in Int /\ g \in Int
    BY <1>2, <1>5
  <2>3. QED
    BY <2>1, <2>2
<1> HIDE DEF last
<1>7. \A g \in S : last >= g
  BY <1>6, <1>2, <1>5
<1>8. QED
  <2>1. Max(S) \in S /\ \A g \in S : Max(S) >= g
    BY <1>5, <1>7 DEF Max
  <2>2. QED
    BY <2>1, <1>2

LEMMA UnsavedAreGets == ASSUME ViewTypes PROVE UnsavedWrites \in SUBSET Get
<1>1. \A p \in DOMAIN tasks : tasks[p].get \in Get
  BY TaskGets DEF ViewTypes
<1>2. QED
  BY <1>1 DEF UnsavedWrites, ToSet

LEMMA GetDocumentTypes ==
  ASSUME Types, GetDocument
  PROVE  AppTypes' /\ ViewTypes' /\ CloudTypes'
<1>1. /\ gets < MaxGets /\ gets' = gets + 1
      /\ tasks' = Append(tasks, [op |-> "listen", get |-> gets + 1])
      /\ after' = [after EXCEPT ![gets + 1] =
                     IF UnsavedWrites = {} THEN 0 ELSE Max(UnsavedWrites)]
      /\ since' = IF Open = {} THEN Len(cloud) ELSE since
      /\ UNCHANGED << cloud, events, muted, listeners, raised, current, cached, results,
                      failed, known >>
  BY DEF GetDocument, store, writing
<1>2. gets \in Nat /\ gets + 1 \in 1..MaxGets /\ gets + 1 \in 0..MaxGets
  BY <1>1 DEF Types, AppTypes
<1>3. AppTypes'
  <2>1. (IF UnsavedWrites = {} THEN 0 ELSE Max(UnsavedWrites)) \in 0..MaxGets
    <3>1. CASE UnsavedWrites = {}
      BY <3>1
    <3>2. CASE UnsavedWrites # {}
      <4>1. Max(UnsavedWrites) \in Get
        BY <3>2, UnsavedAreGets, LatestIs DEF Types
      <4>2. QED
        BY <3>2, <4>1 DEF Get
    <3>3. QED
      BY <3>1, <3>2
  <2>2. after' \in [Get -> 0..MaxGets]
    BY <1>1, <2>1 DEF Types, AppTypes
  <2>3. QED
    BY <1>1, <1>2, <2>2 DEF Types, AppTypes
<1>4. ViewTypes'
  <2>1. [op |-> "listen", get |-> gets + 1] \in Task
    BY <1>2 DEF Task, Get
  <2>2. tasks' \in Seq(Task)
    BY <1>1, <2>1, AppendProperties DEF Types, ViewTypes
  <2>3. QED
    BY <1>1, <2>2 DEF Types, ViewTypes
<1>5. CloudTypes'
  <2>1. Len(cloud) \in Nat \ {0}
    BY EmptySeq DEF Types, CloudTypes
  <2>2. since' \in 1..Len(cloud)
    BY <1>1, <2>1 DEF Types, CloudTypes
  <2>3. QED
    BY <1>1, <2>2 DEF Types, CloudTypes
<1>6. QED
  BY <1>3, <1>4, <1>5

LEMMA HandleEventTypes ==
  ASSUME Types, HandleEvent
  PROVE  AppTypes' /\ ViewTypes'
<1> DEFINE e == Head(events)
<1>1. /\ events # << >> /\ events' = Tail(events)
      /\ UNCHANGED << gets, listeners, raised, current, after >>
  BY DEF HandleEvent
<1>2. e \in Event /\ Tail(events) \in Seq(Event)
  BY <1>1, HeadTailProperties DEF Types, AppTypes
<1>3. e.get \in Get
  BY <1>2 DEF Event
<1>4. CASE e.get \in muted
  <2>1. UNCHANGED << muted, tasks, failed >>
    BY <1>4 DEF HandleEvent
  <2>2. QED
    BY <1>1, <1>2, <2>1 DEF Types, AppTypes, ViewTypes
<1>5. CASE e.get \notin muted
  <2> DEFINE off == << [op |-> "unlisten", get |-> e.get] >>
             then == IF e.seen = NoDocument THEN << >> ELSE << [op |-> "write", get |-> e.get] >>
  <2>1. /\ muted' = muted \cup {e.get}
        /\ tasks' = tasks \o off \o then
        /\ failed' = IF e.seen = NoDocument THEN failed \cup {e.get} ELSE failed
    BY <1>5 DEF HandleEvent
  <2>2. [op |-> "unlisten", get |-> e.get] \in Task /\ [op |-> "write", get |-> e.get] \in Task
    BY <1>3 DEF Task
  <2>3. off \in Seq(Task) /\ then \in Seq(Task)
    BY <2>2
  <2> HIDE DEF off, then
  <2>4. tasks \in Seq(Task)
    BY DEF Types, ViewTypes
  <2>5. tasks \o off \in Seq(Task)
    BY <2>3, <2>4, ConcatProperties
  <2>6. tasks' \in Seq(Task)
    BY <2>1, <2>3, <2>5, ConcatProperties
  <2> HIDE DEF e
  <2>7. AppTypes'
    BY <1>1, <1>2, <1>3, <2>1 DEF Types, AppTypes
  <2>8. ViewTypes'
    BY <1>1, <2>6 DEF Types, ViewTypes
  <2>9. QED
    BY <2>7, <2>8
<1>6. QED
  BY <1>4, <1>5

-----------------------------------------------------------------------------
(* The worker queue.                                                        *)

LEMMA NextTaskIs ==
  ASSUME ViewTypes, NEW op, NextTask(op)
  PROVE  /\ Head(tasks) \in Task /\ Head(tasks).get \in Get /\ Head(tasks).op = op
         /\ tasks # << >> /\ tasks' = Tail(tasks) /\ tasks' \in Seq(Task)
<1>1. Head(tasks) \in Task /\ Tail(tasks) \in Seq(Task)
  BY HeadTailProperties DEF ViewTypes, NextTask
<1>2. QED
  BY <1>1 DEF NextTask, Task

\* What was shown is noted.
LEMMA NoteType ==
  ASSUME CloudTypes, NEW version \in 0..Len(cloud), Note(version)
  PROVE  known' \in 0..Len(cloud)
BY DEF Note, CloudTypes

\* The groups that no listener is in.
LEMMA CloudTypesKnown ==
  ASSUME CloudTypes, known' \in 0..Len(cloud), UNCHANGED << cloud, cached, results, since >>
  PROVE  CloudTypes'
BY DEF CloudTypes

LEMMA AddFirstListenerTypes ==
  ASSUME Types, AddFirstListener
  PROVE  AppTypes' /\ ViewTypes' /\ CloudTypes'
<1> DEFINE to == IF online = "offline" THEN listeners' ELSE << >>
<1>1. /\ NextTask("listen") /\ listeners' = << Head(tasks).get >> /\ current' = FALSE
      /\ Raise(to, cached, queue) /\ Note(cached)
      /\ UNCHANGED << gets, muted, failed, after, cloud, cached, results, since >>
  BY DEF AddFirstListener, store, writing
<1>2. Head(tasks).get \in Get /\ tasks' \in Seq(Task)
  BY <1>1, NextTaskIs DEF Types
<1>3. listeners' \in Seq(Get) /\ << >> \in Seq(Get)
  BY <1>1, <1>2
<1>4. to \in Seq(Get)
  BY <1>3
<1> HIDE DEF to
<1>5. cached \in 0..Len(cloud)
  BY DEF Types, CloudTypes
<1>6. events' \in Seq(Event) /\ raised' \in SUBSET Get
  BY <1>1, <1>4, <1>5, RaiseTypes DEF Types, AppTypes, ViewTypes, WriteTypes
<1>7. AppTypes' /\ ViewTypes'
  BY <1>1, <1>2, <1>3, <1>6 DEF Types, AppTypes, ViewTypes
<1>8. known' \in 0..Len(cloud)
  BY <1>1, <1>5, NoteType DEF Types
<1>9. QED
  BY <1>1, <1>7, <1>8, CloudTypesKnown DEF Types

LEMMA AddListenerTypes ==
  ASSUME Types, AddListener
  PROVE  AppTypes' /\ ViewTypes' /\ CloudTypes'
<1> DEFINE to == IF current \/ online = "offline" THEN << Head(tasks).get >> ELSE << >>
<1>1. /\ NextTask("listen") /\ listeners' = Append(listeners, Head(tasks).get)
      /\ Raise(to, cached, queue) /\ Note(cached)
      /\ UNCHANGED << gets, muted, failed, after, current, cloud, cached, results, since >>
  BY DEF AddListener, store, writing
<1>2. Head(tasks).get \in Get /\ tasks' \in Seq(Task)
  BY <1>1, NextTaskIs DEF Types
<1>3. listeners' \in Seq(Get)
  BY <1>1, <1>2, AppendProperties DEF Types, ViewTypes
<1>4. to \in Seq(Get)
  <2>1. << Head(tasks).get >> \in Seq(Get) /\ << >> \in Seq(Get)
    BY <1>2
  <2>2. QED
    BY <2>1
<1> HIDE DEF to
<1>5. cached \in 0..Len(cloud)
  BY DEF Types, CloudTypes
<1>6. events' \in Seq(Event) /\ raised' \in SUBSET Get
  BY <1>1, <1>4, <1>5, RaiseTypes DEF Types, AppTypes, ViewTypes, WriteTypes
<1>7. AppTypes' /\ ViewTypes'
  BY <1>1, <1>2, <1>3, <1>6 DEF Types, AppTypes, ViewTypes
<1>8. known' \in 0..Len(cloud)
  BY <1>1, <1>5, NoteType DEF Types
<1>9. QED
  BY <1>1, <1>7, <1>8, CloudTypesKnown DEF Types

LEMMA UnlistenTypes ==
  ASSUME Types, Unlisten, current' \in BOOLEAN
  PROVE  AppTypes' /\ ViewTypes' /\ CloudTypes'
<1>1. /\ NextTask("unlisten")
      /\ listeners' = ListenersOf(Get \ {Head(tasks).get})
      /\ UNCHANGED << gets, events, muted, failed, after, raised, cloud, cached, results,
                      since, known >>
  BY DEF Unlisten, app, store, writing, history
<1>2. tasks' \in Seq(Task) /\ listeners' \in Seq(Get)
  BY <1>1, NextTaskIs, ListenersOfIs DEF Types
<1>3. QED
  BY <1>1, <1>2 DEF Types, AppTypes, ViewTypes, CloudTypes

-----------------------------------------------------------------------------
(* The write stream.                                                        *)

LEMMA FillTypes ==
  ASSUME WriteTypes, WriteInv, NEW batches \in Seq(Get), NEW kept \in Nat,
         FillWritePipeline(batches, kept)
  PROVE  /\ piped' \in 0..MaxPendingWrites /\ write' \in {"stopped", "starting", "open"}
         /\ sent' \in Seq(Get)
<1>1. piped' = Fitting(batches) /\ Fitting(batches) \in 0..Len(batches)
      /\ Fitting(batches) \in 0..MaxPendingWrites
  BY SeqOfAny, FittingIs DEF FillWritePipeline
<1>2. CASE write = "open"
  <2>1. sent' = sent \o SubSeq(batches, kept + 1, piped') /\ write' = write
    BY <1>2 DEF FillWritePipeline
  <2>2. Len(batches) \in Nat /\ piped' \in Int /\ kept + 1 \in Int
    BY <1>1, LenProperties
  <2>3. \A i \in kept + 1 .. piped' : i \in 1..Len(batches)
    BY <1>1, <2>2
  <2>4. \A i \in kept + 1 .. piped' : batches[i] \in Get
    BY <2>3, ElementOfSeq
  <2>5. SubSeq(batches, kept + 1, piped') \in Seq(Get)
    BY <2>2, <2>4, SubSeqProperties
  <2>6. sent' \in Seq(Get)
    BY <2>1, <2>5, ConcatProperties DEF WriteTypes
  <2>7. QED
    BY <1>1, <2>1, <2>6 DEF WriteTypes
<1>3. CASE write # "open"
  <2>1. UNCHANGED sent /\ write' \in {write, "starting"}
    BY <1>3 DEF FillWritePipeline
  <2>2. QED
    BY <1>1, <2>1 DEF WriteTypes
<1>4. QED
  BY <1>2, <1>3

LEMMA NewerOfIs ==
  ASSUME NEW version \in Nat, cached \in Nat
  PROVE  /\ NewerOf(version) \in {cached, version}
         /\ NewerOf(version) >= cached /\ NewerOf(version) >= version
BY DEF NewerOf, Max

LEMMA WriteMutationsTypes ==
  ASSUME Types, WriteInv, WriteMutations
  PROVE  AppTypes' /\ ViewTypes' /\ WriteTypes' /\ CloudTypes'
<1>1. /\ NextTask("write") /\ queue' = Append(queue, Head(tasks).get)
      /\ Refresh(cached, queue') /\ FillWritePipeline(queue', piped)
      /\ UNCHANGED << gets, muted, failed, after, listeners, current, faults, cloud,
                      cached, results, since, known >>
  BY DEF WriteMutations, history
<1>2. Head(tasks).get \in Get /\ tasks' \in Seq(Task)
  BY <1>1, NextTaskIs DEF Types
<1>3. queue' \in Seq(Get)
  BY <1>1, <1>2, AppendProperties DEF Types, WriteTypes
<1>4. cached \in 0..Len(cloud) /\ piped \in Nat /\ queue \in Seq(Get)
  BY DEF Types, CloudTypes, WriteTypes
<1>5. events' \in Seq(Event) /\ raised' = raised
  BY <1>1, <1>3, <1>4, RefreshIs DEF Types, AppTypes
<1>6. /\ piped' \in 0..MaxPendingWrites /\ write' \in {"stopped", "starting", "open"}
      /\ sent' \in Seq(Get)
  BY <1>1, <1>3, <1>4, FillTypes DEF Types
<1>7. QED
  BY <1>1, <1>2, <1>3, <1>5, <1>6 DEF Types, AppTypes, ViewTypes, WriteTypes, CloudTypes

LEMMA ResultTypes ==
  ASSUME Types, WriteInv, OnWriteStreamMutationResult
  PROVE  AppTypes' /\ ViewTypes' /\ WriteTypes' /\ CloudTypes'
<1> DEFINE version == Head(results)
<1>1. /\ results # << >> /\ results' = Tail(results) /\ queue' = Tail(queue)
      /\ cached' = NewerOf(version) /\ Refresh(cached', queue')
      /\ known' = Max({known, version})
      /\ FillWritePipeline(queue', piped - 1)
      /\ UNCHANGED << gets, muted, failed, after, tasks, listeners, current, faults, cloud,
                      since >>
  BY DEF OnWriteStreamMutationResult
<1>2. /\ cloud \in Seq(Int) /\ cached \in 0..Len(cloud) /\ known \in 0..Len(cloud)
      /\ results \in Seq(1..Len(cloud)) /\ queue \in Seq(Get) /\ Len(cloud) \in Nat
  BY LenProperties DEF Types, CloudTypes, WriteTypes
<1>3. version \in 1..Len(cloud) /\ results' \in Seq(1..Len(cloud)) /\ Len(results) \in Nat \ {0}
  BY <1>1, <1>2, HeadTailProperties, EmptySeq
<1> HIDE DEF version
<1>4. cached' \in 0..Len(cloud)
  <2>1. NewerOf(version) \in {cached, version}
    BY <1>2, <1>3, NewerOfIs
  <2>2. cached' = cached \/ cached' = version
    BY <1>1, <2>1
  <2>3. QED
    BY <1>2, <1>3, <2>2
<1>5. known' \in 0..Len(cloud)
  <2>1. known \in Int /\ version \in Int
    BY <1>2, <1>3
  <2>2. Max({known, version}) \in {known, version}
    BY <2>1 DEF Max
  <2>3. known' = known \/ known' = version
    BY <1>1, <2>2
  <2>4. QED
    BY <1>2, <1>3, <2>3
<1>6. piped - 1 \in Nat /\ queue # << >>
  <2>1. 1 \in DOMAIN results
    BY <1>2, <1>3, LenProperties
  <2>2. 1 <= piped /\ piped = Fitting(queue)
    BY <2>1 DEF WriteInv, AckMatches
  <2>3. piped \in Nat /\ piped \in 0..Len(queue)
    BY <1>2, <2>2, SeqOfAny, FittingIs DEF Types, WriteTypes
  <2>4. QED
    BY <2>2, <2>3, EmptySeq
<1>7. queue' \in Seq(Get)
  BY <1>1, <1>2, <1>6, HeadTailProperties
<1>8. events' \in Seq(Event) /\ raised' = raised
  BY <1>1, <1>2, <1>4, <1>7, RefreshIs DEF Types, AppTypes
<1>9. /\ piped' \in 0..MaxPendingWrites /\ write' \in {"stopped", "starting", "open"}
      /\ sent' \in Seq(Get)
  BY <1>1, <1>6, <1>7, FillTypes DEF Types
<1>10. QED
  BY <1>1, <1>2, <1>3, <1>4, <1>5, <1>7, <1>8, <1>9
     DEF Types, AppTypes, ViewTypes, WriteTypes, CloudTypes

LEMMA WriteStreamTypes ==
  ASSUME Types, WriteInv, OnWriteStreamHandshakeComplete \/ OnWriteStreamClose
  PROVE  WriteTypes' /\ CloudTypes'
<1>1. CASE OnWriteStreamHandshakeComplete
  <2>1. /\ write' = "open" /\ sent' = SubSeq(queue, 1, piped)
        /\ UNCHANGED << queue, piped, faults, cloud, cached, results, since, known >>
    BY <1>1 DEF OnWriteStreamHandshakeComplete, store, history
  <2>2. queue \in Seq(Get) /\ piped = Fitting(queue) /\ Len(queue) \in Nat
    BY LenProperties DEF Types, WriteTypes, WriteInv
  <2>3. piped \in 0..Len(queue)
    BY <2>2, SeqOfAny, FittingIs
  <2>4. \A i \in 1..piped : i \in 1..Len(queue)
    BY <2>2, <2>3
  <2>5. \A i \in 1..piped : queue[i] \in Get
    BY <2>2, <2>4, ElementOfSeq
  <2>6. sent' \in Seq(Get)
    BY <2>1, <2>2, <2>3, <2>5, SubSeqProperties
  <2>7. QED
    BY <2>1, <2>6 DEF Types, WriteTypes, CloudTypes
<1>2. CASE OnWriteStreamClose
  <2>1. /\ sent' = << >> /\ results' = << >> /\ write' \in {"stopped", "starting"}
        /\ faults' = faults \/ (faults < MaxFaults /\ faults' = faults + 1)
        /\ UNCHANGED << queue, piped, cloud, cached, since, known >>
    BY <1>2 DEF OnWriteStreamClose, store, history
  <2>2. faults' \in 0..MaxFaults
    BY <2>1 DEF Types, WriteTypes
  <2>3. << >> \in Seq(Get) /\ << >> \in Seq(1..Len(cloud))
    BY EmptySeq
  <2>4. QED
    BY <2>1, <2>2, <2>3 DEF Types, WriteTypes, CloudTypes
<1>3. QED
  BY <1>1, <1>2

-----------------------------------------------------------------------------
(* The watch stream.                                                        *)

LEMMA ResponsesAppended ==
  ASSUME NEW c, c \in Seq(Nat), NEW x \in Nat
  PROVE  Cardinality({p \in DOMAIN Append(c, x) : Append(c, x)[p] = Response}) =
         Cardinality({p \in DOMAIN c : c[p] = Response}) + IF x = Response THEN 1 ELSE 0
<1> DEFINE R == {p \in DOMAIN c : c[p] = Response}
           T == {p \in DOMAIN Append(c, x) : Append(c, x)[p] = Response}
<1>1. /\ Append(c, x) \in Seq(Nat) /\ Len(Append(c, x)) = Len(c) + 1
      /\ \A i \in 1..Len(c) : Append(c, x)[i] = c[i]
      /\ Append(c, x)[Len(c) + 1] = x
  BY AppendProperties
<1>2. /\ DOMAIN c = 1..Len(c) /\ Len(c) \in Nat
      /\ DOMAIN Append(c, x) = 1..Len(Append(c, x))
  BY <1>1, LenProperties
<1>3. DOMAIN Append(c, x) = 1..Len(c) + 1
  BY <1>1, <1>2
<1>4. IsFiniteSet(R) /\ Cardinality(R) \in Nat
  BY ResponsesCounted
<1>5. CASE x = Response
  <2>1. T = R \cup {Len(c) + 1}
    BY <1>1, <1>2, <1>3, <1>5
  <2>2. Len(c) + 1 \notin R
    BY <1>2
  <2> HIDE DEF R, T
  <2>3. Cardinality(T) = Cardinality(R) + 1
    BY <1>4, <2>1, <2>2, FS_AddElement
  <2>4. QED
    BY <2>3, <1>5 DEF R, T
<1>6. CASE x # Response
  <2>1. T = R
    BY <1>1, <1>2, <1>3, <1>6
  <2> HIDE DEF R, T
  <2>2. Cardinality(T) = Cardinality(R) + 0
    BY <2>1, <1>4
  <2>3. QED
    BY <2>2, <1>6 DEF R, T
<1>7. QED
  BY <1>5, <1>6

LEMMA ResponsesTail ==
  ASSUME NEW c, c \in Seq(Nat), c # << >>
  PROVE  Cardinality({p \in DOMAIN Tail(c) : Tail(c)[p] = Response}) =
         Cardinality({p \in DOMAIN c : c[p] = Response}) - IF Head(c) = Response THEN 1 ELSE 0
<1> DEFINE R == {p \in DOMAIN c : c[p] = Response}
           T == {p \in DOMAIN Tail(c) : Tail(c)[p] = Response}
           f == [p \in T |-> p + 1]
<1>1. /\ Tail(c) \in Seq(Nat) /\ Len(Tail(c)) = Len(c) - 1
      /\ \A i \in 1..Len(Tail(c)) : Tail(c)[i] = c[i + 1]
      /\ Len(c) \in Nat \ {0} /\ Head(c) = c[1]
  BY HeadTailProperties, EmptySeq
<1>2. DOMAIN c = 1..Len(c) /\ DOMAIN Tail(c) = 1..Len(c) - 1
  BY <1>1, LenProperties
<1>3. IsFiniteSet(R) /\ IsFiniteSet(T) /\ Cardinality(R) \in Nat
  BY <1>1, ResponsesCounted
<1>4. \A p \in T : p \in Nat /\ p + 1 \in R \ {1}
  BY <1>1, <1>2
<1>5. \A q \in R \ {1} : q - 1 \in T /\ (q - 1) + 1 = q
  BY <1>1, <1>2
<1>6. R \ {1} = IF Head(c) = Response THEN R \ {1} ELSE R
  BY <1>1
<1>7. Head(c) = Response => 1 \in R
  BY <1>1, <1>2
<1> HIDE DEF R, T
<1>8. f \in Bijection(T, R \ {1})
  <2>1. f \in [T -> R \ {1}]
    BY <1>4
  <2>2. \A p, q \in T : f[p] = f[q] => p = q
    BY <1>4
  <2>3. \A q \in R \ {1} : \E p \in T : f[p] = q
    BY <1>5
  <2>4. QED
    BY <2>1, <2>2, <2>3 DEF Bijection, Injection, Surjection, IsInjective
<1>9. Cardinality(R \ {1}) = Cardinality(T)
  <2>1. ExistsBijection(T, R \ {1})
    BY <1>8 DEF ExistsBijection
  <2>2. QED
    BY <1>3, <2>1, FS_Bijection
<1>10. Cardinality(R \ {1}) = IF Head(c) = Response THEN Cardinality(R) - 1 ELSE Cardinality(R)
  BY <1>3, <1>6, <1>7, FS_RemoveElement
<1>11. Cardinality(T) = Cardinality(R) - IF Head(c) = Response THEN 1 ELSE 0
  BY <1>3, <1>9, <1>10
<1>12. QED
  BY <1>11 DEF R, T

\* A request more is one that is waited for.
LEMMA RequestMade ==
  ASSUME WatchTypes, WatchInv, watch = "open",
         NEW r \in {"watch", "unwatch"}, requests' = Append(requests, r), pending' = pending + 1,
         UNCHANGED << cloud, online, failures, timer, watch, told, changes >>
  PROVE  WatchTypes' /\ WatchInv'
<1>1. /\ requests' \in Seq({"watch", "unwatch"}) /\ Len(requests') = Len(requests) + 1
      /\ Len(requests) \in Nat
  BY AppendProperties, LenProperties DEF WatchTypes
<1>2. Responses' = Responses /\ Cardinality(Responses) \in Nat
  BY ResponsesCounted DEF Responses, WatchTypes
<1>3. pending' = Len(requests') + Cardinality(Responses')
  BY <1>1, <1>2 DEF WatchInv
<1>4. WatchTypes'
  BY <1>1 DEF WatchTypes
<1>5. WatchInv'
  BY <1>3 DEF WatchInv
<1>6. QED
  BY <1>4, <1>5

\* A stream that is not open has nothing on the way.
LEMMA NothingPending ==
  ASSUME WatchTypes, WatchInv, requests = << >>, changes = << >>
  PROVE  pending = 0
<1>1. Responses = {}
  BY DEF Responses
<1>2. Cardinality(Responses) = 0 /\ Len(requests) = 0
  BY <1>1, FS_EmptySet
<1>3. QED
  BY <1>2 DEF WatchInv

LEMMA NothingOnTheWay ==
  ASSUME requests' = << >>, changes' = << >>, told' = NotWatching, pending' = 0,
         watch' \in {"stopped", "starting"}, watch' = "stopped" => online' = "unknown",
         online' \in {"unknown", "online", "offline"}, failures' \in {0, 1}, timer' \in BOOLEAN
  PROVE  WatchTypes' /\ WatchInv'
<1>1. Responses' = {} /\ Len(requests') = 0
  BY DEF Responses
<1>2. Cardinality(Responses') = 0
  BY <1>1, FS_EmptySet
<1>3. << >> \in Seq({"watch", "unwatch"}) /\ << >> \in Seq(Nat)
  BY EmptySeq
<1>4. WatchTypes'
  BY <1>3 DEF WatchTypes
<1>5. pending' = Len(requests') + Cardinality(Responses')
  BY <1>1, <1>2
<1>6. WatchInv'
  BY <1>5 DEF WatchInv
<1>7. QED
  BY <1>4, <1>6

LEMMA AddFirstListenerWatch ==
  ASSUME WatchTypes, WatchInv, AddFirstListener
  PROVE  WatchTypes' /\ WatchInv'
<1>1. UNCHANGED << cloud, failures, told, changes >>
  BY DEF AddFirstListener
<1>2. CASE watch = "stopped" /\ StartWatchStream /\ UNCHANGED requests
  <2>1. /\ watch' = "starting" /\ pending' = 0
        /\ \/ online' = "unknown" /\ timer' = TRUE
           \/ UNCHANGED << online, timer >>
    BY <1>2 DEF StartWatchStream
  <2>2. requests' = << >> /\ changes' = << >> /\ told' = NotWatching
    BY <1>1, <1>2 DEF WatchInv
  <2>3. /\ online' \in {"unknown", "online", "offline"} /\ failures' \in {0, 1}
        /\ timer' \in BOOLEAN
    BY <1>1, <2>1 DEF WatchTypes
  <2>4. QED
    BY <2>1, <2>2, <2>3, NothingOnTheWay
<1>3. CASE watch = "starting" /\ UNCHANGED << watch, online, pending, timer, requests >>
  BY <1>1, <1>3, WatchTypesKept, WatchInvKept
<1>4. CASE /\ watch = "open" /\ requests' = Append(requests, "watch")
           /\ pending' = pending + 1 /\ UNCHANGED << watch, online, timer >>
  BY <1>1, <1>4, RequestMade
<1>5. QED
  BY <1>2, <1>3, <1>4 DEF AddFirstListener

LEMMA RemoveLastListenerWatch ==
  ASSUME WatchTypes, WatchInv, RemoveLastListener
  PROVE  WatchTypes' /\ WatchInv'
<1>1. UNCHANGED << cloud, watch, told, changes >>
  BY DEF RemoveLastListener, Unlisten
<1>2. CASE watch = "open"
  <2>1. /\ requests' = Append(requests, "unwatch") /\ pending' = pending + 1
        /\ UNCHANGED << online, failures, timer >>
    BY <1>2 DEF RemoveLastListener
  <2>2. QED
    BY <1>1, <1>2, <2>1, RequestMade
<1>3. CASE watch # "open"
  <2>1. /\ online' = "unknown" /\ failures' = 0 /\ timer' = FALSE
        /\ UNCHANGED << requests, pending >>
    BY <1>3 DEF RemoveLastListener
  <2>2. requests = << >> /\ changes = << >> /\ told = NotWatching /\ pending = 0
    BY <1>3, NothingPending DEF WatchInv
  <2>3. watch' \in {"stopped", "starting"}
    BY <1>1, <1>3 DEF WatchTypes
  <2>4. QED
    BY <1>1, <2>1, <2>2, <2>3, NothingOnTheWay
<1>4. QED
  BY <1>2, <1>3

LEMMA OnWatchStreamOpenWatch ==
  ASSUME WatchTypes, WatchInv, OnWatchStreamOpen
  PROVE  WatchTypes' /\ WatchInv'
<1>1. /\ watch = "starting" /\ watch' = "open"
      /\ requests' = IF listeners = << >> THEN << >> ELSE << "watch" >>
      /\ pending' = Len(requests')
      /\ UNCHANGED << cloud, online, failures, timer, told, changes >>
  BY DEF OnWatchStreamOpen
<1>2. changes' = << >> /\ changes = << >>
  BY <1>1 DEF WatchInv
<1>3. Responses' = {}
  BY <1>2 DEF Responses
<1>4. Cardinality(Responses') = 0
  BY <1>3, FS_EmptySet
<1>5. requests' \in Seq({"watch", "unwatch"}) /\ Len(requests') \in Nat
  <2>1. CASE requests' = << >>
    BY <2>1
  <2>2. CASE requests' = << "watch" >>
    BY <2>2
  <2>3. QED
    BY <1>1, <2>1, <2>2
<1>6. WatchTypes'
  BY <1>1, <1>5 DEF WatchTypes
<1>7. WatchInv'
  BY <1>1, <1>2, <1>4, <1>5 DEF WatchInv
<1>8. QED
  BY <1>6, <1>7

\* A message less.
LEMMA ChangeTaken ==
  ASSUME WatchTypes, WatchInv, changes # << >>, changes' = Tail(changes), Online,
         pending' = pending - IF Head(changes) = Response THEN 1 ELSE 0,
         UNCHANGED << cloud, watch, requests, told >>
  PROVE  WatchTypes' /\ WatchInv'
<1>1. /\ changes \in Seq(Nat) /\ Tail(changes) \in Seq(Nat)
      /\ Len(Tail(changes)) = Len(changes) - 1
      /\ \A i \in 1..Len(Tail(changes)) : Tail(changes)[i] = changes[i + 1]
      /\ Len(changes) \in Nat \ {0}
  BY HeadTailProperties, EmptySeq DEF WatchTypes
<1>2. DOMAIN changes = 1..Len(changes) /\ DOMAIN changes' = 1..Len(changes) - 1
  BY <1>1, LenProperties
<1>3. /\ Cardinality(Responses') = Cardinality(Responses) -
                                   IF Head(changes) = Response THEN 1 ELSE 0
      /\ Cardinality(Responses) \in Nat /\ Len(requests) \in Nat
  BY <1>1, ResponsesTail, ResponsesCounted, LenProperties DEF Responses, WatchTypes
<1>4. pending' = Len(requests') + Cardinality(Responses')
  BY <1>3 DEF WatchInv
<1>5. \A p \in DOMAIN changes' : changes'[p] <= Len(cloud')
  BY <1>1, <1>2 DEF WatchInv
<1>6. online' = "online" /\ failures' = 0 /\ timer' = FALSE
  BY DEF Online
<1>7. watch = "open"
  BY DEF WatchInv
<1>8. WatchTypes'
  BY <1>1, <1>6 DEF WatchTypes
<1>9. WatchInv'
  BY <1>4, <1>5, <1>7 DEF WatchInv
<1>10. QED
  BY <1>8, <1>9

LEMMA OnWatchStreamCloseWatch ==
  ASSUME WatchTypes, OnWatchStreamClose
  PROVE  WatchTypes' /\ WatchInv'
<1>1. requests' = << >> /\ changes' = << >> /\ told' = NotWatching /\ pending' = 0
  BY DEF OnWatchStreamClose
<1>2. /\ watch' \in {"stopped", "starting"}
      /\ watch' = "stopped" => online' = "unknown"
      /\ online' \in {"unknown", "online", "offline"} /\ failures' \in {0, 1}
      /\ timer' \in BOOLEAN
  BY DEF OnWatchStreamClose, GoOffline, WatchTypes
<1>3. QED
  BY <1>1, <1>2, NothingOnTheWay

LEMMA OnlineStateTimeoutWatch ==
  ASSUME WatchTypes, WatchInv, TrackerAsserts, OnlineStateTimeout
  PROVE  WatchTypes' /\ WatchInv'
<1>1. /\ timer /\ timer' = FALSE /\ online' = "offline"
      /\ UNCHANGED << cloud, failures, watch, pending, requests, told, changes >>
  BY DEF OnlineStateTimeout, GoOffline
<1>2. watch # "stopped"
  BY <1>1 DEF TrackerAsserts
<1>3. QED
  BY <1>1, <1>2 DEF WatchTypes, WatchInv, Responses

LEMMA RestartStreamsWatch ==
  ASSUME RestartStreams
  PROVE  WatchTypes' /\ WatchInv'
<1>1. /\ requests' = << >> /\ changes' = << >> /\ told' = NotWatching /\ pending' = 0
      /\ online' = "unknown" /\ failures' = 0 /\ watch' \in {"stopped", "starting"}
      /\ timer' \in BOOLEAN
  BY DEF RestartStreams
<1>2. QED
  BY <1>1, NothingOnTheWay

LEMMA BackendTakesRequestWatch ==
  ASSUME WatchTypes, WatchInv, BackendTakesRequest
  PROVE  WatchTypes' /\ WatchInv'
<1>1. /\ requests # << >> /\ requests' = Tail(requests)
      /\ told' \in {0, NotWatching} /\ changes' = Append(changes, Response)
      /\ UNCHANGED << cloud, online, failures, timer, watch, pending >>
  BY DEF BackendTakesRequest
<1>2. /\ requests' \in Seq({"watch", "unwatch"}) /\ Len(requests') = Len(requests) - 1
      /\ Len(requests) \in Nat
  BY <1>1, HeadTailProperties, LenProperties DEF WatchTypes
<1>3. Response \in Nat /\ changes \in Seq(Nat)
  BY DEF Response, WatchTypes
<1>4. /\ changes' \in Seq(Nat) /\ Len(changes') = Len(changes) + 1
      /\ \A i \in 1..Len(changes) : changes'[i] = changes[i]
      /\ changes'[Len(changes) + 1] = Response
  BY <1>1, <1>3, AppendProperties
<1>5. /\ DOMAIN changes = 1..Len(changes) /\ Len(changes) \in Nat
      /\ DOMAIN changes' = 1..Len(changes')
  BY <1>3, <1>4, LenProperties
<1>6. /\ Cardinality(Responses') = Cardinality(Responses) + 1
      /\ Cardinality(Responses) \in Nat
  BY <1>1, <1>3, ResponsesAppended, ResponsesCounted DEF Responses
<1>7. pending' = Len(requests') + Cardinality(Responses')
  BY <1>1, <1>2, <1>6 DEF WatchInv
<1>8. watch = "open"
  BY <1>1 DEF WatchInv
<1>9. WatchTypes'
  BY <1>1, <1>2, <1>4 DEF WatchTypes
<1>10. \A p \in DOMAIN changes' : changes'[p] <= Len(cloud')
  <2>1. ASSUME NEW p \in DOMAIN changes' PROVE changes'[p] <= Len(cloud')
    <3>1. CASE p \in DOMAIN changes
      BY <1>1, <1>4, <1>5, <3>1 DEF WatchInv
    <3>2. CASE p = Len(changes) + 1
      BY <1>1, <1>4, <3>2 DEF Response
    <3>3. QED
      BY <2>1, <3>1, <3>2, <1>4, <1>5
  <2>2. QED
    BY <2>1
<1>11. WatchInv'
  BY <1>1, <1>7, <1>8, <1>10 DEF WatchInv
<1>12. QED
  BY <1>9, <1>11

LEMMA BackendSendsSnapshotWatch ==
  ASSUME WatchTypes, WatchInv, CloudTypes, BackendSendsSnapshot
  PROVE  WatchTypes' /\ WatchInv'
<1>1. /\ told # NotWatching /\ told' = Len(cloud) /\ changes' = Append(changes, Len(cloud))
      /\ UNCHANGED << cloud, online, failures, timer, watch, pending, requests >>
  BY DEF BackendSendsSnapshot
<1>2. changes \in Seq(Nat) /\ Len(cloud) \in Nat /\ Len(cloud) # Response
  BY EmptySeq DEF WatchTypes, CloudTypes, Response
<1>3. /\ changes' \in Seq(Nat) /\ Len(changes') = Len(changes) + 1
      /\ \A i \in 1..Len(changes) : changes'[i] = changes[i]
      /\ changes'[Len(changes) + 1] = Len(cloud)
  BY <1>1, <1>2, AppendProperties
<1>4. /\ DOMAIN changes = 1..Len(changes) /\ Len(changes) \in Nat
      /\ DOMAIN changes' = 1..Len(changes')
  BY <1>2, <1>3, LenProperties
<1>5. /\ Cardinality(Responses') = Cardinality(Responses)
      /\ Cardinality(Responses) \in Nat
  <2> DEFINE x == Len(cloud)
  <2>1. x \in Nat /\ x # Response /\ changes' = Append(changes, x)
    BY <1>1, <1>2
  <2> HIDE DEF x
  <2>2. Cardinality(Responses') = Cardinality(Responses) + IF x = Response THEN 1 ELSE 0
    BY <1>2, <2>1, ResponsesAppended DEF Responses
  <2>3. Cardinality(Responses) \in Nat
    BY <1>2, ResponsesCounted DEF Responses
  <2>4. QED
    BY <2>1, <2>2, <2>3
<1>6. watch = "open"
  BY <1>1 DEF WatchInv
<1>7. WatchTypes'
  BY <1>1, <1>2, <1>3 DEF WatchTypes
<1>8. \A p \in DOMAIN changes' : changes'[p] <= Len(cloud')
  <2>1. ASSUME NEW p \in DOMAIN changes' PROVE changes'[p] <= Len(cloud')
    <3>1. CASE p \in DOMAIN changes
      BY <1>1, <1>3, <1>4, <3>1 DEF WatchInv
    <3>2. CASE p = Len(changes) + 1
      BY <1>1, <1>2, <1>3, <3>2
    <3>3. QED
      BY <2>1, <3>1, <3>2, <1>3, <1>4
  <2>2. QED
    BY <2>1
<1>9. WatchInv'
  BY <1>1, <1>5, <1>6, <1>8 DEF WatchInv
<1>10. QED
  BY <1>7, <1>9

\* The document changes, which makes nothing known.
LEMMA CloudGrows ==
  ASSUME WatchTypes, WatchInv, CloudTypes, NEW x \in Int, cloud' = Append(cloud, x),
         UNCHANGED << watching, cached, since, known >>
  PROVE  /\ WatchTypes' /\ WatchInv'
         /\ cloud' \in Seq(Int) /\ Len(cloud') = Len(cloud) + 1 /\ Len(cloud) \in Nat \ {0}
         /\ \A v \in 1..Len(cloud) : cloud'[v] = cloud[v]
         /\ cloud' # << >> /\ cached' \in 0..Len(cloud') /\ since' \in 1..Len(cloud')
         /\ known' \in 0..Len(cloud')
<1>1. /\ cloud' \in Seq(Int) /\ Len(cloud') = Len(cloud) + 1
      /\ \A v \in 1..Len(cloud) : cloud'[v] = cloud[v]
  BY AppendProperties DEF CloudTypes
<1>2. Len(cloud) \in Nat \ {0} /\ cloud' # << >>
  <2>1. Len(cloud) \in Nat \ {0}
    BY EmptySeq DEF CloudTypes
  <2>2. Len(cloud') # 0
    BY <1>1, <2>1
  <2>3. QED
    BY <2>1, <2>2
<1>3. /\ cached' \in 0..Len(cloud') /\ since' \in 1..Len(cloud')
      /\ known' \in 0..Len(cloud')
  BY <1>1, <1>2 DEF CloudTypes
<1>4. WatchTypes'
  BY WatchTypesKept DEF watching
<1>5. WatchInv'
  <2>1. \A p \in DOMAIN changes : changes[p] \in Nat
    BY LenProperties, ElementOfSeq DEF WatchTypes
  <2>2. \A p \in DOMAIN changes' : changes'[p] <= Len(cloud')
    BY <1>1, <1>2, <2>1 DEF WatchInv, watching
  <2>3. QED
    BY <2>2 DEF WatchInv, Responses, watching
<1>6. QED
  BY <1>1, <1>2, <1>3, <1>4, <1>5

LEMMA BackendAppliesTypes ==
  ASSUME Types, WatchInv, BackendApplies
  PROVE  WatchTypes' /\ WatchInv' /\ WriteTypes' /\ CloudTypes'
<1>1. /\ sent # << >> /\ sent' = Tail(sent) /\ cloud' = Append(cloud, Head(sent))
      /\ results' = Append(results, Len(cloud) + 1)
      /\ UNCHANGED << watching, queue, piped, write, faults, cached, since, known >>
  BY DEF BackendApplies, store, history
<1>2. Head(sent) \in Int /\ sent' \in Seq(Get)
  <2>1. Head(sent) \in Get /\ sent' \in Seq(Get)
    BY <1>1, HeadTailProperties DEF Types, WriteTypes
  <2>2. QED
    BY <2>1 DEF Get
<1>3. /\ WatchTypes' /\ WatchInv'
      /\ cloud' \in Seq(Int) /\ Len(cloud') = Len(cloud) + 1 /\ Len(cloud) \in Nat \ {0}
      /\ cloud' # << >> /\ cached' \in 0..Len(cloud') /\ since' \in 1..Len(cloud')
      /\ known' \in 0..Len(cloud')
  BY <1>1, <1>2, CloudGrows DEF Types
<1>4. results' \in Seq(1..Len(cloud'))
  <2>1. results \in Seq(1..Len(cloud)) /\ 1..Len(cloud) \subseteq 1..Len(cloud')
    BY <1>3 DEF Types, CloudTypes
  <2>2. results \in Seq(1..Len(cloud'))
    BY <2>1, SeqMonotonic
  <2>3. Len(cloud) + 1 \in 1..Len(cloud')
    BY <1>3
  <2>4. QED
    BY <1>1, <2>2, <2>3, AppendProperties
<1>5. WriteTypes'
  BY <1>1, <1>2 DEF Types, WriteTypes
<1>6. QED
  BY <1>3, <1>4, <1>5 DEF CloudTypes

LEMMA WriteElsewhereTypes ==
  ASSUME Types, WatchInv, WriteElsewhere
  PROVE  WatchTypes' /\ WatchInv' /\ WriteTypes' /\ CloudTypes'
<1>1. /\ cloud' = Append(cloud, -1 - ChangesElsewhere)
      /\ UNCHANGED << watching, results, sent, queue, piped, write, faults, cached, since, known >>
  BY DEF WriteElsewhere, store, history, writing
<1>2. -1 - ChangesElsewhere \in Int
  <2>1. DOMAIN cloud = 1..Len(cloud) /\ Len(cloud) \in Nat
    BY LenProperties DEF Types, CloudTypes
  <2>2. IsFiniteSet(1..Len(cloud))
    BY <2>1, FS_Interval
  <2>3. IsFiniteSet({i \in DOMAIN cloud : cloud[i] \in Elsewhere})
    BY <2>1, <2>2, FS_Subset
  <2>4. ChangesElsewhere \in Nat
    BY <2>3, FS_CardinalityType DEF ChangesElsewhere
  <2>5. QED
    BY <2>4
<1> DEFINE x == -1 - ChangesElsewhere
<1> HIDE DEF x
<1>3. /\ WatchTypes' /\ WatchInv'
      /\ cloud' \in Seq(Int) /\ Len(cloud') = Len(cloud) + 1 /\ Len(cloud) \in Nat \ {0}
      /\ cloud' # << >> /\ cached' \in 0..Len(cloud') /\ since' \in 1..Len(cloud')
      /\ known' \in 0..Len(cloud')
  <2>1. x \in Int /\ cloud' = Append(cloud, x)
    BY <1>1, <1>2 DEF x
  <2>2. QED
    BY <1>1, <2>1, CloudGrows DEF Types
<1>4. results' \in Seq(1..Len(cloud'))
  <2>1. results \in Seq(1..Len(cloud)) /\ 1..Len(cloud) \subseteq 1..Len(cloud')
    BY <1>3 DEF Types, CloudTypes
  <2>2. QED
    BY <1>1, <2>1, SeqMonotonic
<1>5. WriteTypes'
  BY <1>1, WriteTypesKept DEF Types
<1>6. QED
  BY <1>3, <1>4, <1>5 DEF CloudTypes

\* The client goes offline.
LEMMA GoOfflineTypes ==
  ASSUME Types, GoOffline,
         UNCHANGED << gets, muted, failed, after, tasks, listeners, cloud, cached, results, since >>
  PROVE  AppTypes' /\ ViewTypes' /\ CloudTypes'
<1> DEFINE to == IF current THEN listeners ELSE Waiting
<1>1. current' = FALSE /\ Raise(to, cached, queue) /\ Note(cached)
  BY DEF GoOffline
<1>2. to \in Seq(Get)
  BY WaitingIs DEF Types, ViewTypes
<1> HIDE DEF to
<1>3. cached \in 0..Len(cloud)
  BY DEF Types, CloudTypes
<1>4. events' \in Seq(Event) /\ raised' \in SUBSET Get
  BY <1>1, <1>2, <1>3, RaiseTypes DEF Types, AppTypes, ViewTypes, WriteTypes
<1>5. AppTypes' /\ ViewTypes'
  BY <1>1, <1>4 DEF Types, AppTypes, ViewTypes
<1>6. known' \in 0..Len(cloud)
  BY <1>1, <1>3, NoteType DEF Types
<1>7. QED
  BY <1>5, <1>6, CloudTypesKnown DEF Types

LEMMA OnWatchStreamCloseTypes ==
  ASSUME Types, OnWatchStreamClose
  PROVE  AppTypes' /\ ViewTypes' /\ WriteTypes' /\ CloudTypes'
<1>1. /\ UNCHANGED << gets, muted, failed, after, tasks, listeners, cloud, cached, results, since >>
      /\ UNCHANGED << queue, piped, write, sent >>
      /\ faults' = faults \/ (faults < MaxFaults /\ faults' = faults + 1)
      /\ GoOffline \/ UNCHANGED << current, events, raised, known >>
  BY DEF OnWatchStreamClose, store, writing
<1>2. faults' \in 0..MaxFaults
  BY <1>1 DEF Types, WriteTypes
<1>3. WriteTypes'
  BY <1>1, <1>2 DEF Types, WriteTypes
<1>4. CASE GoOffline
  BY <1>1, <1>3, <1>4, GoOfflineTypes
<1>5. CASE UNCHANGED << current, events, raised, known >>
  BY <1>1, <1>3, <1>5, AppTypesKept, ViewTypesKept, CloudTypesKept DEF Types
<1>6. QED
  BY <1>1, <1>4, <1>5

LEMMA OnlineStateTimeoutTypes ==
  ASSUME Types, OnlineStateTimeout
  PROVE  AppTypes' /\ ViewTypes' /\ WriteTypes' /\ CloudTypes'
<1>1. /\ UNCHANGED << gets, muted, failed, after, tasks, listeners, cloud, cached, results, since >>
      /\ UNCHANGED << queue, piped, write, sent, faults >>
      /\ GoOffline
  BY DEF OnlineStateTimeout, store, writing
<1>2. QED
  BY <1>1, GoOfflineTypes, WriteTypesKept DEF Types

LEMMA OnTargetResponseWatch ==
  ASSUME WatchTypes, WatchInv, OnTargetResponse
  PROVE  WatchTypes' /\ WatchInv'
<1>1. /\ changes # << >> /\ changes' = Tail(changes) /\ Online /\ Head(changes) = Response
      /\ pending' = pending - 1 /\ UNCHANGED << cloud, watch, requests, told >>
  BY DEF OnTargetResponse
<1>2. pending' = pending - IF Head(changes) = Response THEN 1 ELSE 0
  BY <1>1
<1>3. QED
  BY <1>1, <1>2, ChangeTaken

LEMMA OnWatchSnapshotWatch ==
  ASSUME WatchTypes, WatchInv, OnWatchSnapshot
  PROVE  WatchTypes' /\ WatchInv'
<1>1. /\ changes # << >> /\ changes' = Tail(changes) /\ Online /\ Head(changes) # Response
      /\ pending' = pending /\ UNCHANGED << cloud, watch, requests, told >>
  BY DEF OnWatchSnapshot
<1>2. pending \in Nat
  <2>1. Len(requests) \in Nat /\ Cardinality(Responses) \in Nat
    BY ResponsesCounted, LenProperties DEF WatchTypes, Responses
  <2>2. QED
    BY <2>1 DEF WatchInv
<1>3. pending' = pending - IF Head(changes) = Response THEN 1 ELSE 0
  BY <1>1, <1>2
<1>4. QED
  BY <1>1, <1>3, ChangeTaken

LEMMA OnWatchSnapshotTypes ==
  ASSUME Types, WatchInv, OnWatchSnapshot
  PROVE  AppTypes' /\ ViewTypes' /\ WriteTypes' /\ CloudTypes'
<1>1. /\ changes # << >> /\ Head(changes) # Response
      /\ UNCHANGED << gets, muted, failed, after, tasks, listeners, cloud, results, since,
                      queue, piped, write, sent, faults >>
  BY DEF OnWatchSnapshot, writing
<1>2. WriteTypes'
  BY <1>1, WriteTypesKept DEF Types
<1>3. CASE IsActiveTarget
  <2> DEFINE version == Head(changes)
  <2>1. /\ cached' = NewerOf(version) /\ current' = TRUE /\ Note(cached')
        /\ IF current THEN Refresh(cached', queue) ELSE Raise(listeners, cached', queue)
    BY <1>3 DEF OnWatchSnapshot
  <2>2. version \in Nat /\ version <= Len(cloud)
    <3>1. changes \in Seq(Nat) /\ Len(changes) \in Nat \ {0} /\ Head(changes) \in Nat
      BY <1>1, HeadTailProperties, EmptySeq DEF Types, WatchTypes
    <3>2. 1 \in DOMAIN changes /\ Head(changes) = changes[1]
      BY <3>1, LenProperties
    <3>3. QED
      BY <3>1, <3>2 DEF WatchInv
  <2> HIDE DEF version
  <2>3. cached \in 0..Len(cloud) /\ Len(cloud) \in Nat /\ queue \in Seq(Get)
    BY LenProperties DEF Types, CloudTypes, WriteTypes
  <2>4. cached' \in 0..Len(cloud)
    <3>1. NewerOf(version) \in {cached, version}
      BY <2>2, <2>3, NewerOfIs
    <3>2. cached' = cached \/ cached' = version
      BY <2>1, <3>1
    <3>3. QED
      BY <2>2, <2>3, <3>2
  <2>5. events' \in Seq(Event) /\ raised' \in SUBSET Get
    <3>1. CASE current
      <4>1. Refresh(cached', queue)
        BY <2>1, <3>1
      <4>2. QED
        BY <4>1, <2>3, <2>4, RefreshIs DEF Types, AppTypes, ViewTypes
    <3>2. CASE ~current
      <4>1. Raise(listeners, cached', queue)
        BY <2>1, <3>2
      <4>2. QED
        BY <4>1, <2>3, <2>4, RaiseTypes DEF Types, AppTypes, ViewTypes
    <3>3. QED
      BY <3>1, <3>2
  <2>6. known' \in 0..Len(cloud)
    BY <2>1, <2>4, NoteType DEF Types
  <2>7. AppTypes' /\ ViewTypes'
    BY <1>1, <2>1, <2>5 DEF Types, AppTypes, ViewTypes
  <2>8. CloudTypes'
    BY <1>1, <2>4, <2>6 DEF Types, CloudTypes
  <2>9. QED
    BY <1>2, <2>7, <2>8
<1>4. CASE ~IsActiveTarget
  <2>1. UNCHANGED << cached, current, events, raised, known >>
    BY <1>4 DEF OnWatchSnapshot
  <2>2. QED
    BY <1>1, <1>2, <2>1, AppTypesKept, ViewTypesKept, CloudTypesKept DEF Types
<1>5. QED
  BY <1>3, <1>4

-----------------------------------------------------------------------------
(* The network and the process.                                             *)

LEMMA RestartStreamsTypes ==
  ASSUME Types, RestartStreams, UNCHANGED << cloud, queue, cached, since, known >>
  PROVE  WriteTypes' /\ CloudTypes'
<1>1. /\ sent' = << >> /\ results' = << >> /\ piped' = Fitting(queue)
      /\ write' \in {"stopped", "starting"}
      /\ faults < MaxFaults /\ faults' = faults + 1
  BY DEF RestartStreams
<1>2. piped' \in 0..MaxPendingWrites
  BY <1>1, SeqOfAny, FittingIs DEF Types, WriteTypes
<1>3. << >> \in Seq(Get) /\ << >> \in Seq(1..Len(cloud)) /\ faults' \in 0..MaxFaults
  BY <1>1, EmptySeq DEF Types, WriteTypes
<1>4. QED
  BY <1>1, <1>2, <1>3 DEF Types, WriteTypes, CloudTypes

LEMMA RestartTypes ==
  ASSUME Types, Restart
  PROVE  AppTypes' /\ ViewTypes'
<1>1. /\ tasks' = << >> /\ listeners' = << >> /\ raised' = {} /\ current' = FALSE
      /\ events' = << >> /\ muted' = 1..gets
      /\ failed' = failed \cup Open \cup UnsavedWrites
      /\ UNCHANGED << gets, after >>
  BY DEF Restart
<1>2. UnsavedWrites \in SUBSET Get
  BY UnsavedAreGets DEF Types
<1>3. Open \in SUBSET Get
  <2>1. \A p \in DOMAIN tasks : tasks[p].get \in Get
    BY TaskGets DEF Types, ViewTypes
  <2>2. \A p \in DOMAIN events : events[p].get \in Get
    <3>1. \A p \in DOMAIN events : events[p] \in Event
      BY LenProperties, ElementOfSeq DEF Types, AppTypes
    <3>2. QED
      BY <3>1 DEF Event
  <2>3. \A p \in DOMAIN listeners : listeners[p] \in Get
    BY LenProperties, ElementOfSeq DEF Types, ViewTypes
  <2>4. QED
    BY <2>1, <2>2, <2>3 DEF Open, ToSet
<1>4. << >> \in Seq(Event) /\ << >> \in Seq(Task) /\ << >> \in Seq(Get) /\ 1..gets \in SUBSET Get
  <2>1. 1..gets \in SUBSET Get
    BY DEF Types, AppTypes, Get
  <2>2. QED
    BY <2>1, EmptySeq
<1>5. AppTypes'
  BY <1>1, <1>2, <1>3, <1>4 DEF Types, AppTypes
<1>6. ViewTypes'
  BY <1>1, <1>4 DEF ViewTypes
<1>7. QED
  BY <1>5, <1>6

LEMMA TypesStep ==
  ASSUME TypeInv, [Next]_vars
  PROVE  TypeInv'
<1>1. Types /\ WatchInv /\ TrackerAsserts /\ WriteInv
  BY DEF TypeInv
<1>2. AppTypes /\ ViewTypes /\ WatchTypes /\ WriteTypes /\ CloudTypes
  BY <1>1 DEF Types
<1>3. TrackerAsserts' /\ WriteInv'
  BY <1>1, TrackerStep, WriteStep
<1>4. AppTypes' /\ ViewTypes' /\ WriteTypes' /\ CloudTypes' /\ WatchTypes' /\ WatchInv'
  <2>1. CASE GetDocument
    <3>1. /\ UNCHANGED << online, failures, timer, watch, pending, requests, told, changes >>
          /\ UNCHANGED << cloud, queue, piped, write, sent, faults >>
      BY <2>1 DEF GetDocument, watching, writing, store
    <3>2. QED
      BY <1>1, <1>2, <2>1, <3>1, GetDocumentTypes, WatchTypesKept, WatchInvKept, WriteTypesKept
  <2>2. CASE HandleEvent
    <3>1. /\ UNCHANGED << online, failures, timer, watch, pending, requests, told, changes >>
          /\ UNCHANGED << cloud, cached, results, since, known >>
          /\ UNCHANGED << queue, piped, write, sent, faults >>
      BY <2>2 DEF HandleEvent, watching, writing, store
    <3>2. QED
      BY <1>1, <1>2, <2>2, <3>1, HandleEventTypes, WatchTypesKept, WatchInvKept,
         WriteTypesKept, CloudTypesKept
  <2>3. CASE AddFirstListener
    <3>1. UNCHANGED << queue, piped, write, sent, faults >>
      BY <2>3 DEF AddFirstListener, writing, store
    <3>2. QED
      BY <1>1, <1>2, <2>3, <3>1, AddFirstListenerTypes, AddFirstListenerWatch, WriteTypesKept
  <2>4. CASE AddListener
    <3>1. /\ UNCHANGED << online, failures, timer, watch, pending, requests, told, changes >>
          /\ UNCHANGED << cloud, queue, piped, write, sent, faults >>
      BY <2>4 DEF AddListener, watching, writing, store
    <3>2. QED
      BY <1>1, <1>2, <2>4, <3>1, AddListenerTypes, WatchTypesKept, WatchInvKept, WriteTypesKept
  <2>5. CASE RemoveListener
    <3>1. /\ UNCHANGED << online, failures, timer, watch, pending, requests, told, changes >>
          /\ UNCHANGED << cloud, queue, piped, write, sent, faults, current >>
          /\ Unlisten /\ current' \in BOOLEAN
      BY <1>2, <2>5 DEF RemoveListener, Unlisten, watching, writing, store, ViewTypes
    <3>2. QED
      BY <1>1, <1>2, <3>1, UnlistenTypes, WatchTypesKept, WatchInvKept, WriteTypesKept
  <2>6. CASE RemoveLastListener
    <3>1. /\ UNCHANGED << queue, piped, write, sent, faults >>
          /\ Unlisten /\ current' \in BOOLEAN
      BY <2>6 DEF RemoveLastListener, Unlisten, writing, store
    <3>2. QED
      BY <1>1, <1>2, <2>6, <3>1, UnlistenTypes, RemoveLastListenerWatch, WriteTypesKept
  <2>7. CASE WriteMutations
    <3>1. UNCHANGED << cloud, online, failures, timer, watch, pending, requests, told, changes >>
      BY <2>7 DEF WriteMutations, watching
    <3>2. QED
      BY <1>1, <1>2, <2>7, <3>1, WriteMutationsTypes, WatchTypesKept, WatchInvKept
  <2>8. CASE OnWatchStreamOpen
    <3>1. /\ UNCHANGED << gets, events, muted, failed, after >>
          /\ UNCHANGED << tasks, listeners, raised, current >>
          /\ UNCHANGED << cloud, cached, results, since, known >>
          /\ UNCHANGED << queue, piped, write, sent, faults >>
      BY <2>8 DEF OnWatchStreamOpen, app, views, writing, store, history
    <3>2. QED
      BY <1>1, <1>2, <2>8, <3>1, OnWatchStreamOpenWatch, AppTypesKept, ViewTypesKept,
         CloudTypesKept, WriteTypesKept
  <2>9. CASE OnTargetResponse
    <3>1. /\ UNCHANGED << gets, events, muted, failed, after >>
          /\ UNCHANGED << tasks, listeners, raised, current >>
          /\ UNCHANGED << cloud, cached, results, since, known >>
          /\ UNCHANGED << queue, piped, write, sent, faults >>
      BY <2>9 DEF OnTargetResponse, app, views, writing, store, history
    <3>2. QED
      BY <1>1, <1>2, <2>9, <3>1, OnTargetResponseWatch, AppTypesKept, ViewTypesKept,
         CloudTypesKept, WriteTypesKept
  <2>10. CASE OnWatchSnapshot
    BY <1>1, <1>2, <2>10, OnWatchSnapshotWatch, OnWatchSnapshotTypes
  <2>11. CASE OnWatchStreamClose
    BY <1>1, <1>2, <2>11, OnWatchStreamCloseWatch, OnWatchStreamCloseTypes
  <2>12. CASE OnlineStateTimeout
    BY <1>1, <1>2, <2>12, OnlineStateTimeoutWatch, OnlineStateTimeoutTypes
  <2>13. CASE OnWriteStreamHandshakeComplete \/ OnWriteStreamClose
    <3>1. /\ UNCHANGED << gets, events, muted, failed, after >>
          /\ UNCHANGED << tasks, listeners, raised, current >>
          /\ UNCHANGED << cloud, online, failures, timer, watch, pending, requests, told, changes >>
      BY <2>13 DEF OnWriteStreamHandshakeComplete, OnWriteStreamClose, app, views, watching, history
    <3>2. QED
      BY <1>1, <1>2, <2>13, <3>1, WriteStreamTypes, AppTypesKept, ViewTypesKept,
         WatchTypesKept, WatchInvKept
  <2>14. CASE OnWriteStreamMutationResult
    <3>1. UNCHANGED << cloud, online, failures, timer, watch, pending, requests, told, changes >>
      BY <2>14 DEF OnWriteStreamMutationResult, watching
    <3>2. QED
      BY <1>1, <1>2, <2>14, <3>1, ResultTypes, WatchTypesKept, WatchInvKept
  <2>15. CASE RestartNetwork
    <3>1. /\ UNCHANGED << gets, events, muted, failed, after >>
          /\ UNCHANGED << tasks, listeners, raised, current >>
          /\ UNCHANGED << cloud, queue, cached, since, known >>
          /\ RestartStreams
      BY <2>15 DEF RestartNetwork, app, store, history
    <3>2. QED
      BY <1>1, <1>2, <3>1, RestartStreamsTypes, RestartStreamsWatch, AppTypesKept, ViewTypesKept
  <2>16. CASE Restart
    <3>1. RestartStreams /\ UNCHANGED << cloud, queue, cached, since, known >>
      BY <2>16 DEF Restart, store
    <3>2. QED
      BY <1>1, <1>2, <2>16, <3>1, RestartTypes, RestartStreamsTypes, RestartStreamsWatch
  <2>17. CASE BackendTakesRequest \/ BackendSendsSnapshot
    <3>1. /\ UNCHANGED << gets, events, muted, failed, after >>
          /\ UNCHANGED << tasks, listeners, raised, current >>
          /\ UNCHANGED << cloud, cached, results, since, known >>
          /\ UNCHANGED << queue, piped, write, sent, faults >>
      BY <2>17 DEF BackendTakesRequest, BackendSendsSnapshot, app, views, writing, store, history
    <3>2. QED
      BY <1>1, <1>2, <2>17, <3>1, BackendTakesRequestWatch, BackendSendsSnapshotWatch,
         AppTypesKept, ViewTypesKept, CloudTypesKept, WriteTypesKept
  <2>18. CASE BackendApplies \/ WriteElsewhere
    <3>1. /\ UNCHANGED << gets, events, muted, failed, after >>
          /\ UNCHANGED << tasks, listeners, raised, current >>
      BY <2>18 DEF BackendApplies, WriteElsewhere, app, views, history
    <3>2. QED
      BY <1>1, <1>2, <2>18, <3>1, BackendAppliesTypes, WriteElsewhereTypes, AppTypesKept,
         ViewTypesKept
  <2>19. CASE UNCHANGED vars
    <3>1. /\ UNCHANGED << gets, events, muted, failed, after >>
          /\ UNCHANGED << tasks, listeners, raised, current >>
          /\ UNCHANGED << cloud, cached, results, since, known >>
          /\ UNCHANGED << queue, piped, write, sent, faults >>
          /\ UNCHANGED << online, failures, timer, watch, pending, requests, told, changes >>
      BY <2>19 DEF vars, app, views, watching, writing, store, history
    <3>2. QED
      BY <1>1, <1>2, <3>1, AppTypesKept, ViewTypesKept, WatchTypesKept, WatchInvKept,
         CloudTypesKept, WriteTypesKept
  <2>20. QED
    BY <2>1, <2>2, <2>3, <2>4, <2>5, <2>6, <2>7, <2>8, <2>9, <2>10, <2>11, <2>12, <2>13,
       <2>14, <2>15, <2>16, <2>17, <2>18, <2>19 DEF Next
<1>5. QED
  BY <1>3, <1>4 DEF TypeInv, Types

\* The variables have their types: in particular no message of the backend runs
\* ahead of the document, no result is missing its write, and the client never
\* waits for fewer responses than are on the way.
THEOREM TypeCorrect == Spec => []TypeOK
BY TypesInit, TypesStep, TypesAreTypeOK, PTL DEF Spec

-----------------------------------------------------------------------------
(* Where a get is.                                                          *)

\* The gets that some tasks, or some events, are about.
GetsOf(s) == {t.get : t \in ToSet(s)}

\* The gets of the tasks of one kind.
OpsOf(op, s) == {t.get : t \in {u \in ToSet(s) : u.op = op}}

\* No other task is about a get that is still to be listened for.
ListensOnce(s) ==
  \A p, q \in DOMAIN s : IsListen(s[p]) /\ s[q].get = s[p].get => p = q

\* A get is in the task that adds its listener, then among the listeners, with
\* an event once it was raised; whoever is muted is on the way out.
GetsInv ==
  /\ GetsOf(tasks) \cup ToSet(listeners) \cup raised \cup muted \subseteq 1..gets
  /\ GetsOf(events) \subseteq raised
  /\ OpsOf("listen", tasks) \cap (ToSet(listeners) \cup raised \cup muted) = {}
  /\ OpsOf("unlisten", tasks) \subseteq muted \cap raised
  /\ ToSet(listeners) \cap muted \subseteq raised
  /\ ToSet(listeners) \cap raised \subseteq
       OpsOf("unlisten", tasks) \cup (GetsOf(events) \ muted)
  /\ ListensOnce(tasks)

LEMMA ToSetEmpty == ToSet(<< >>) = {}
BY DEF ToSet

LEMMA ToSetAppended ==
  ASSUME NEW S, NEW s \in Seq(S), NEW x \in S
  PROVE  ToSet(Append(s, x)) = ToSet(s) \cup {x}
<1>1. /\ Append(s, x) \in Seq(S) /\ Len(Append(s, x)) = Len(s) + 1
      /\ \A i \in 1..Len(s) : Append(s, x)[i] = s[i]
      /\ Append(s, x)[Len(s) + 1] = x
  BY AppendProperties
<1>2. /\ DOMAIN s = 1..Len(s) /\ Len(s) \in Nat
      /\ DOMAIN Append(s, x) = 1..Len(Append(s, x))
  BY <1>1, LenProperties
<1>3. DOMAIN Append(s, x) = 1..Len(s) + 1
  BY <1>1, <1>2
<1>4. \A i \in DOMAIN Append(s, x) : Append(s, x)[i] \in ToSet(s) \cup {x}
  <2>1. ASSUME NEW i \in DOMAIN Append(s, x) PROVE Append(s, x)[i] \in ToSet(s) \cup {x}
    <3>1. CASE i \in 1..Len(s)
      BY <1>1, <1>2, <3>1 DEF ToSet
    <3>2. CASE i = Len(s) + 1
      BY <1>1, <3>2
    <3>3. QED
      BY <1>2, <1>3, <3>1, <3>2
  <2>2. QED
    BY <2>1
<1>5. \A i \in DOMAIN s : i \in DOMAIN Append(s, x) /\ Append(s, x)[i] = s[i]
  BY <1>1, <1>2, <1>3
<1>6. Len(s) + 1 \in DOMAIN Append(s, x)
  BY <1>2, <1>3
<1>7. QED
  BY <1>1, <1>4, <1>5, <1>6 DEF ToSet

LEMMA ToSetTail ==
  ASSUME NEW S, NEW s \in Seq(S), s # << >>
  PROVE  ToSet(s) = {Head(s)} \cup ToSet(Tail(s))
<1>1. /\ Tail(s) \in Seq(S) /\ Len(Tail(s)) = Len(s) - 1
      /\ \A i \in 1..Len(Tail(s)) : Tail(s)[i] = s[i + 1]
      /\ Len(s) \in Nat \ {0} /\ Head(s) = s[1]
  BY HeadTailProperties, EmptySeq
<1>2. DOMAIN s = 1..Len(s) /\ DOMAIN Tail(s) = 1..Len(s) - 1
  BY <1>1, LenProperties
<1>3. \A i \in DOMAIN Tail(s) : i + 1 \in DOMAIN s /\ Tail(s)[i] = s[i + 1]
  BY <1>1, <1>2
<1>4. ASSUME NEW i \in DOMAIN s PROVE s[i] \in {Head(s)} \cup ToSet(Tail(s))
  <2>1. CASE i = 1
    BY <1>1, <2>1
  <2>2. CASE i # 1
    <3>1. i - 1 \in DOMAIN Tail(s) /\ Tail(s)[i - 1] = s[(i - 1) + 1] /\ (i - 1) + 1 = i
      BY <1>2, <1>3, <2>2
    <3>2. QED
      BY <3>1 DEF ToSet
  <2>3. QED
    BY <2>1, <2>2
<1>5. 1 \in DOMAIN s
  BY <1>1, <1>2
<1>6. QED
  BY <1>1, <1>3, <1>4, <1>5 DEF ToSet

LEMMA ToSetConcat ==
  ASSUME NEW S, NEW s \in Seq(S), NEW t \in Seq(S)
  PROVE  ToSet(s \o t) = ToSet(s) \cup ToSet(t)
<1>1. /\ s \o t \in Seq(S) /\ Len(s \o t) = Len(s) + Len(t)
      /\ \A i \in 1..Len(s) + Len(t) :
           (s \o t)[i] = IF i <= Len(s) THEN s[i] ELSE t[i - Len(s)]
  BY ConcatProperties
<1>2. /\ DOMAIN s = 1..Len(s) /\ Len(s) \in Nat /\ DOMAIN t = 1..Len(t) /\ Len(t) \in Nat
      /\ DOMAIN (s \o t) = 1..Len(s \o t)
  BY <1>1, LenProperties
<1>3. DOMAIN (s \o t) = 1..Len(s) + Len(t)
  BY <1>1, <1>2
<1>4. ASSUME NEW i \in DOMAIN (s \o t) PROVE (s \o t)[i] \in ToSet(s) \cup ToSet(t)
  <2>1. CASE i <= Len(s)
    <3>1. (s \o t)[i] = s[i] /\ i \in DOMAIN s
      BY <1>1, <1>2, <1>3, <2>1
    <3>2. QED
      BY <3>1 DEF ToSet
  <2>2. CASE ~(i <= Len(s))
    <3>1. (s \o t)[i] = t[i - Len(s)] /\ i - Len(s) \in DOMAIN t
      BY <1>1, <1>2, <1>3, <2>2
    <3>2. QED
      BY <3>1 DEF ToSet
  <2>3. QED
    BY <2>1, <2>2
<1>5. \A i \in DOMAIN s : i \in DOMAIN (s \o t) /\ (s \o t)[i] = s[i]
  BY <1>1, <1>2, <1>3
<1>6. ASSUME NEW i \in DOMAIN t
      PROVE  Len(s) + i \in DOMAIN (s \o t) /\ (s \o t)[Len(s) + i] = t[i]
  <2>1. Len(s) + i \in 1..Len(s) + Len(t) /\ ~(Len(s) + i <= Len(s)) /\ (Len(s) + i) - Len(s) = i
    BY <1>2
  <2>2. QED
    BY <1>1, <1>3, <2>1
<1>7. ToSet(s \o t) \subseteq ToSet(s) \cup ToSet(t)
  BY <1>4 DEF ToSet
<1>8. ToSet(s) \subseteq ToSet(s \o t)
  BY <1>5 DEF ToSet
<1>9. ToSet(t) \subseteq ToSet(s \o t)
  BY <1>6 DEF ToSet
<1>10. QED
  BY <1>7, <1>8, <1>9

\* What a task more, or a task less, is about.
LEMMA OpsAppended ==
  ASSUME NEW s \in Seq(Task), NEW t \in Task
  PROVE  /\ GetsOf(Append(s, t)) = GetsOf(s) \cup {t.get}
         /\ \A op : OpsOf(op, Append(s, t)) = OpsOf(op, s) \cup IF t.op = op THEN {t.get} ELSE {}
<1>1. ToSet(Append(s, t)) = ToSet(s) \cup {t}
  BY ToSetAppended
<1>2. QED
  BY <1>1 DEF GetsOf, OpsOf

LEMMA OpsTail ==
  ASSUME NEW s \in Seq(Task), s # << >>
  PROVE  /\ GetsOf(s) = GetsOf(Tail(s)) \cup {Head(s).get}
         /\ \A op : OpsOf(op, s) = OpsOf(op, Tail(s)) \cup
                                   IF Head(s).op = op THEN {Head(s).get} ELSE {}
<1>1. ToSet(s) = {Head(s)} \cup ToSet(Tail(s))
  BY ToSetTail
<1>2. QED
  BY <1>1 DEF GetsOf, OpsOf

LEMMA OpsAreGets ==
  ASSUME NEW s
  PROVE  \A op : OpsOf(op, s) \subseteq GetsOf(s)
BY DEF OpsOf, GetsOf

LEMMA ListensOnceAppended ==
  ASSUME NEW s \in Seq(Task), ListensOnce(s), NEW t \in Task,
         t.get \notin IF IsListen(t) THEN GetsOf(s) ELSE OpsOf("listen", s)
  PROVE  ListensOnce(Append(s, t))
<1>1. /\ Append(s, t) \in Seq(Task) /\ Len(Append(s, t)) = Len(s) + 1
      /\ \A i \in 1..Len(s) : Append(s, t)[i] = s[i]
      /\ Append(s, t)[Len(s) + 1] = t
  BY AppendProperties
<1>2. /\ DOMAIN s = 1..Len(s) /\ Len(s) \in Nat
      /\ DOMAIN Append(s, t) = 1..Len(Append(s, t))
  BY <1>1, LenProperties
<1>3. DOMAIN Append(s, t) = 1..Len(s) + 1
  BY <1>1, <1>2
<1>4. ASSUME NEW p \in DOMAIN Append(s, t), NEW q \in DOMAIN Append(s, t),
             IsListen(Append(s, t)[p]), Append(s, t)[q].get = Append(s, t)[p].get
      PROVE  p = q
  <2>1. CASE p \in DOMAIN s /\ q \in DOMAIN s
    BY <1>1, <1>2, <1>4, <2>1 DEF ListensOnce
  <2>2. CASE p \in DOMAIN s /\ q = Len(s) + 1
    <3>1. IsListen(s[p]) /\ t.get = s[p].get /\ s[p] \in ToSet(s)
      BY <1>1, <1>2, <1>4, <2>2 DEF ToSet
    <3>2. t.get \in OpsOf("listen", s) /\ t.get \in GetsOf(s)
      BY <3>1 DEF OpsOf, GetsOf, IsListen
    <3>3. QED
      BY <3>2
  <2>3. CASE p = Len(s) + 1 /\ q \in DOMAIN s
    <3>1. IsListen(t) /\ t.get = s[q].get /\ s[q] \in ToSet(s)
      BY <1>1, <1>2, <1>4, <2>3 DEF ToSet
    <3>2. t.get \in GetsOf(s)
      BY <3>1 DEF GetsOf
    <3>3. QED
      BY <3>1, <3>2
  <2>4. CASE p = Len(s) + 1 /\ q = Len(s) + 1
    BY <2>4
  <2>5. QED
    BY <1>2, <1>3, <2>1, <2>2, <2>3, <2>4
<1>5. QED
  BY <1>4 DEF ListensOnce

LEMMA ListensOnceTail ==
  ASSUME NEW s \in Seq(Task), ListensOnce(s), s # << >>
  PROVE  /\ ListensOnce(Tail(s))
         /\ IsListen(Head(s)) => Head(s).get \notin GetsOf(Tail(s))
<1>1. /\ Tail(s) \in Seq(Task) /\ Len(Tail(s)) = Len(s) - 1
      /\ \A i \in 1..Len(Tail(s)) : Tail(s)[i] = s[i + 1]
      /\ Len(s) \in Nat \ {0} /\ Head(s) = s[1]
  BY HeadTailProperties, EmptySeq
<1>2. DOMAIN s = 1..Len(s) /\ DOMAIN Tail(s) = 1..Len(s) - 1
  BY <1>1, LenProperties
<1>3. \A i \in DOMAIN Tail(s) : i + 1 \in DOMAIN s /\ Tail(s)[i] = s[i + 1] /\ i + 1 # 1
  BY <1>1, <1>2
<1>4. ListensOnce(Tail(s))
  <2>1. ASSUME NEW p \in DOMAIN Tail(s), NEW q \in DOMAIN Tail(s),
               IsListen(Tail(s)[p]), Tail(s)[q].get = Tail(s)[p].get
        PROVE  p = q
    <3>1. p + 1 = q + 1
      BY <1>3, <2>1 DEF ListensOnce
    <3>2. QED
      BY <1>2, <3>1
  <2>2. QED
    BY <2>1 DEF ListensOnce
<1>5. ASSUME IsListen(Head(s)), NEW i \in DOMAIN Tail(s), Tail(s)[i].get = Head(s).get
      PROVE  FALSE
  <2>1. 1 \in DOMAIN s /\ IsListen(s[1]) /\ s[i + 1].get = s[1].get
    BY <1>1, <1>2, <1>3, <1>5
  <2>2. QED
    BY <1>3, <2>1 DEF ListensOnce
<1>6. QED
  BY <1>4, <1>5 DEF GetsOf, ToSet

\* Whom a snapshot was raised for has an event.
LEMMA RaiseGets ==
  ASSUME CloudTypes, events \in Seq(Event),
         NEW to \in Seq(Get), NEW version \in 0..Len(cloud), NEW batches \in Seq(Get),
         Raise(to, version, batches)
  PROVE  /\ GetsOf(events') = GetsOf(events) \cup ToSet(to)
         /\ raised' = raised \cup ToSet(to)
<1> DEFINE more == [i \in DOMAIN to |-> [get |-> to[i], seen |-> LocalView(version, batches)]]
<1>1. Len(to) \in Nat /\ DOMAIN to = 1..Len(to) /\ to \in [1..Len(to) -> Get]
  BY LenProperties
<1>2. LocalView(version, batches) \in Int \cup {NoDocument}
  BY LocalViewType
<1>3. more \in [1..Len(to) -> Event]
  BY <1>1, <1>2 DEF Event
<1>4. more \in Seq(Event)
  BY <1>1, <1>3, SeqDef
<1>5. events' = events \o more /\ raised' = raised \cup ToSet(to)
  BY DEF Raise
<1>6. GetsOf(more) = ToSet(to)
  <2>1. DOMAIN more = DOMAIN to /\ \A i \in DOMAIN more : more[i].get = to[i]
    OBVIOUS
  <2> HIDE DEF more
  <2>2. QED
    BY <2>1 DEF GetsOf, ToSet
<1> HIDE DEF more
<1>7. ToSet(events') = ToSet(events) \cup ToSet(more)
  BY <1>4, <1>5, ToSetConcat
<1>8. QED
  BY <1>5, <1>6, <1>7 DEF GetsOf

LEMMA GetsInit == Init => GetsInv
<1>1. SUFFICES ASSUME Init PROVE GetsInv
  OBVIOUS
<1>2. tasks = << >> /\ listeners = << >> /\ events = << >> /\ raised = {} /\ muted = {}
  BY <1>1 DEF Init
<1>3. ToSet(tasks) = {} /\ ToSet(listeners) = {} /\ ToSet(events) = {}
  BY <1>2, ToSetEmpty
<1>4. GetsOf(tasks) = {} /\ GetsOf(events) = {} /\ \A op : OpsOf(op, tasks) = {}
  BY <1>3 DEF GetsOf, OpsOf
<1>5. ListensOnce(tasks)
  BY <1>2 DEF ListensOnce
<1>6. QED
  BY <1>2, <1>3, <1>4, <1>5 DEF GetsInv

LEMMA GetsKept ==
  ASSUME GetsInv, UNCHANGED << gets, events, muted, tasks, listeners, raised >>
  PROVE  GetsInv'
BY DEF GetsInv, GetsOf, OpsOf, ListensOnce, IsListen, ToSet

\* A snapshot for listeners changes nothing about who is on the way out.
LEMMA GetsRaised ==
  ASSUME GetsInv, NEW to, ToSet(to) \subseteq ToSet(listeners),
         GetsOf(events') = GetsOf(events) \cup ToSet(to), raised' = raised \cup ToSet(to),
         GetsOf(tasks') \subseteq GetsOf(tasks),
         \A op \in {"listen", "unlisten"} : OpsOf(op, tasks') = OpsOf(op, tasks),
         ListensOnce(tasks'),
         UNCHANGED << gets, muted, listeners >>
  PROVE  GetsInv'
<1>1. /\ GetsOf(tasks') \cup ToSet(listeners') \cup raised' \cup muted' \subseteq 1..gets'
      /\ GetsOf(events') \subseteq raised'
  BY DEF GetsInv
<1>2. /\ OpsOf("listen", tasks') \cap (ToSet(listeners') \cup raised' \cup muted') = {}
      /\ OpsOf("unlisten", tasks') \subseteq muted' \cap raised'
      /\ ToSet(listeners') \cap muted' \subseteq raised'
  BY DEF GetsInv
<1>3. ToSet(listeners') \cap raised' \subseteq
        OpsOf("unlisten", tasks') \cup (GetsOf(events') \ muted')
  <2>1. ASSUME NEW g \in ToSet(listeners), g \in raised \cup ToSet(to)
        PROVE  g \in OpsOf("unlisten", tasks') \cup (GetsOf(events') \ muted)
    <3>1. CASE g \in raised
      BY <2>1, <3>1 DEF GetsInv
    <3>2. CASE g \notin raised
      BY <2>1, <3>2 DEF GetsInv
    <3>3. QED
      BY <3>1, <3>2
  <2>2. QED
    BY <2>1
<1>4. QED
  BY <1>1, <1>2, <1>3 DEF GetsInv

LEMMA GetDocumentGets ==
  ASSUME Types, GetsInv, GetDocument
  PROVE  GetsInv'
<1> DEFINE t == [op |-> "listen", get |-> gets + 1]
<1>1. /\ gets < MaxGets /\ gets' = gets + 1 /\ tasks' = Append(tasks, t)
      /\ UNCHANGED << events, muted, listeners, raised >>
  BY DEF GetDocument
<1>2. gets \in Nat /\ gets + 1 \in Get /\ tasks \in Seq(Task)
  BY <1>1 DEF Types, AppTypes, ViewTypes, Get
<1>3. t \in Task /\ t.op = "listen" /\ t.get = gets + 1 /\ IsListen(t)
  BY <1>2 DEF Task, IsListen
<1> HIDE DEF t
<1>4. /\ GetsOf(tasks') = GetsOf(tasks) \cup {gets + 1}
      /\ \A op : OpsOf(op, tasks') = OpsOf(op, tasks) \cup IF t.op = op THEN {t.get} ELSE {}
  BY <1>1, <1>2, <1>3, OpsAppended
<1>5. /\ OpsOf("listen", tasks') = OpsOf("listen", tasks) \cup {gets + 1}
      /\ OpsOf("unlisten", tasks') = OpsOf("unlisten", tasks)
  BY <1>3, <1>4
<1>6. gets + 1 \notin GetsOf(tasks) \cup ToSet(listeners) \cup raised \cup muted
  BY <1>2 DEF GetsInv
<1>7. ListensOnce(tasks')
  <2>1. t.get \notin IF IsListen(t) THEN GetsOf(tasks) ELSE OpsOf("listen", tasks)
    BY <1>3, <1>6
  <2>2. QED
    BY <1>1, <1>2, <1>3, <2>1, ListensOnceAppended DEF GetsInv
<1>8. GetsOf(tasks') \cup ToSet(listeners') \cup raised' \cup muted' \subseteq 1..gets'
  <2>1. \A g \in 1..gets : g \in 1..gets'
    BY <1>1, <1>2
  <2>2. gets + 1 \in 1..gets'
    BY <1>1, <1>2
  <2>3. QED
    BY <1>1, <1>4, <2>1, <2>2 DEF GetsInv
<1>9. QED
  BY <1>1, <1>5, <1>6, <1>7, <1>8 DEF GetsInv

LEMMA HandleEventGets ==
  ASSUME Types, GetsInv, HandleEvent
  PROVE  GetsInv'
<1> DEFINE e == Head(events)
<1>1. /\ events # << >> /\ events' = Tail(events)
      /\ UNCHANGED << gets, listeners, raised >>
  BY DEF HandleEvent
<1>2. e \in Event /\ events \in Seq(Event) /\ tasks \in Seq(Task) /\ e.get \in Get
  <2>1. e \in Event
    BY <1>1, HeadTailProperties DEF Types, AppTypes
  <2>2. QED
    BY <2>1 DEF Types, AppTypes, ViewTypes, Event
<1>3. GetsOf(events) = {e.get} \cup GetsOf(events')
  <2>1. ToSet(events) = {e} \cup ToSet(events')
    BY <1>1, <1>2, ToSetTail
  <2> HIDE DEF e
  <2>2. QED
    BY <2>1 DEF GetsOf
<1>4. e.get \in raised /\ e.get \in 1..gets
  BY <1>3 DEF GetsInv
<1>5. CASE e.get \in muted
  <2>1. UNCHANGED << muted, tasks >>
    BY <1>5 DEF HandleEvent
  <2> HIDE DEF e
  <2>2. GetsOf(events') \ muted = GetsOf(events) \ muted
    BY <1>3, <1>5
  <2>3. /\ GetsOf(tasks') = GetsOf(tasks) /\ \A op : OpsOf(op, tasks') = OpsOf(op, tasks)
        /\ ListensOnce(tasks') /\ ToSet(listeners') = ToSet(listeners)
    BY <1>1, <2>1 DEF GetsInv
  <2>4. QED
    BY <1>1, <1>3, <2>1, <2>2, <2>3 DEF GetsInv
<1>6. CASE e.get \notin muted
  <2> DEFINE off == [op |-> "unlisten", get |-> e.get]
             save == [op |-> "write", get |-> e.get]
  <2>1. /\ muted' = muted \cup {e.get}
        /\ tasks' = tasks \o << off >> \o IF e.seen = NoDocument THEN << >> ELSE << save >>
    BY <1>6 DEF HandleEvent
  <2>2. /\ off \in Task /\ off.op = "unlisten" /\ off.get = e.get /\ ~IsListen(off)
        /\ save \in Task /\ save.op = "write" /\ save.get = e.get /\ ~IsListen(save)
    BY <1>2 DEF Task, IsListen
  <2> HIDE DEF e, off, save
  <2> DEFINE once == Append(tasks, off)
             twice == Append(once, save)
  <2>3. once \in Seq(Task)
    BY <1>2, <2>2, AppendProperties
  <2>4. tasks \o << off >> = once /\ once \o << save >> = twice /\ once \o << >> = once
    BY <1>2, <2>2, <2>3, AppendIsConcat, ConcatEmptySeq
  <2>5. tasks' = once \/ tasks' = twice
    BY <2>1, <2>4
  <2>6. /\ GetsOf(once) = GetsOf(tasks) \cup {e.get}
        /\ OpsOf("listen", once) = OpsOf("listen", tasks)
        /\ OpsOf("unlisten", once) = OpsOf("unlisten", tasks) \cup {e.get}
    <3>1. /\ GetsOf(once) = GetsOf(tasks) \cup {off.get}
          /\ \A op : OpsOf(op, once) = OpsOf(op, tasks) \cup IF off.op = op THEN {off.get} ELSE {}
      BY <1>2, <2>2, OpsAppended
    <3> HIDE DEF once
    <3>2. QED
      BY <2>2, <3>1
  <2>7. e.get \notin OpsOf("listen", tasks)
    BY <1>4 DEF GetsInv
  <2>8. ListensOnce(once)
    <3>1. off.get \notin IF IsListen(off) THEN GetsOf(tasks) ELSE OpsOf("listen", tasks)
      BY <2>2, <2>7
    <3>2. QED
      BY <1>2, <2>2, <3>1, ListensOnceAppended DEF GetsInv
  <2> HIDE DEF once
  <2>9. /\ GetsOf(twice) = GetsOf(once) \cup {e.get}
        /\ OpsOf("listen", twice) = OpsOf("listen", once)
        /\ OpsOf("unlisten", twice) = OpsOf("unlisten", once)
    <3>1. /\ GetsOf(twice) = GetsOf(once) \cup {save.get}
          /\ \A op : OpsOf(op, twice) = OpsOf(op, once) \cup IF save.op = op THEN {save.get} ELSE {}
      BY <2>2, <2>3, OpsAppended
    <3> HIDE DEF twice
    <3>2. QED
      BY <2>2, <3>1
  <2>10. ListensOnce(twice)
    <3>1. save.get \notin IF IsListen(save) THEN GetsOf(once) ELSE OpsOf("listen", once)
      BY <2>2, <2>6, <2>7
    <3>2. QED
      BY <2>2, <2>3, <2>8, <3>1, ListensOnceAppended
  <2> HIDE DEF twice
  <2>11. /\ GetsOf(tasks') = GetsOf(tasks) \cup {e.get}
         /\ OpsOf("listen", tasks') = OpsOf("listen", tasks)
         /\ OpsOf("unlisten", tasks') = OpsOf("unlisten", tasks) \cup {e.get}
         /\ ListensOnce(tasks')
    <3>1. CASE tasks' = once
      BY <3>1, <2>6, <2>8
    <3>2. CASE tasks' = twice
      BY <3>2, <2>6, <2>9, <2>10
    <3>3. QED
      BY <2>5, <3>1, <3>2
  <2>12. /\ GetsOf(tasks') \cup ToSet(listeners') \cup raised' \cup muted' \subseteq 1..gets'
         /\ GetsOf(events') \subseteq raised'
    BY <1>1, <1>3, <1>4, <2>1, <2>11 DEF GetsInv
  <2>13. /\ OpsOf("listen", tasks') \cap (ToSet(listeners') \cup raised' \cup muted') = {}
         /\ OpsOf("unlisten", tasks') \subseteq muted' \cap raised'
         /\ ToSet(listeners') \cap muted' \subseteq raised'
    <3>1. OpsOf("listen", tasks') \cap (ToSet(listeners') \cup raised' \cup muted') = {}
      BY <1>1, <2>1, <2>7, <2>11 DEF GetsInv
    <3>2. OpsOf("unlisten", tasks') \subseteq muted' \cap raised'
      BY <1>1, <1>4, <2>1, <2>11 DEF GetsInv
    <3>3. ToSet(listeners') \cap muted' \subseteq raised'
      BY <1>1, <1>4, <2>1 DEF GetsInv
    <3>4. QED
      BY <3>1, <3>2, <3>3
  <2>14. ToSet(listeners') \cap raised' \subseteq
           OpsOf("unlisten", tasks') \cup (GetsOf(events') \ muted')
    BY <1>1, <1>3, <2>1, <2>11 DEF GetsInv
  <2>15. QED
    BY <2>11, <2>12, <2>13, <2>14 DEF GetsInv
<1>7. QED
  BY <1>5, <1>6

\* The head of the tasks is taken.
LEMMA TaskTaken ==
  ASSUME ViewTypes, GetsInv, NEW op, NextTask(op)
  PROVE  /\ GetsOf(tasks) = GetsOf(tasks') \cup {Head(tasks).get}
         /\ OpsOf(op, tasks) = OpsOf(op, tasks') \cup {Head(tasks).get}
         /\ \A other : other # op => OpsOf(other, tasks) = OpsOf(other, tasks')
         /\ ListensOnce(tasks')
         /\ op = "listen" => Head(tasks).get \notin GetsOf(tasks')
<1>1. tasks \in Seq(Task) /\ tasks # << >> /\ tasks' = Tail(tasks) /\ Head(tasks).op = op
  BY DEF ViewTypes, NextTask
<1>2. /\ GetsOf(tasks) = GetsOf(tasks') \cup {Head(tasks).get}
      /\ \A o : OpsOf(o, tasks) = OpsOf(o, tasks') \cup
                                  IF Head(tasks).op = o THEN {Head(tasks).get} ELSE {}
  BY <1>1, OpsTail
<1>3. /\ ListensOnce(tasks')
      /\ IsListen(Head(tasks)) => Head(tasks).get \notin GetsOf(tasks')
  BY <1>1, ListensOnceTail DEF GetsInv
<1>4. /\ OpsOf(op, tasks) = OpsOf(op, tasks') \cup {Head(tasks).get}
      /\ \A other : other # op => OpsOf(other, tasks) = OpsOf(other, tasks')
  <2>1. OpsOf(op, tasks) = OpsOf(op, tasks') \cup IF Head(tasks).op = op THEN {Head(tasks).get} ELSE {}
    BY <1>2
  <2>2. OpsOf(op, tasks) = OpsOf(op, tasks') \cup {Head(tasks).get}
    BY <1>1, <2>1
  <2>3. ASSUME NEW other, other # op PROVE OpsOf(other, tasks) = OpsOf(other, tasks')
    <3>1. OpsOf(other, tasks) = OpsOf(other, tasks') \cup
                                IF Head(tasks).op = other THEN {Head(tasks).get} ELSE {}
      BY <1>2
    <3>2. QED
      BY <1>1, <2>3, <3>1
  <2>4. QED
    BY <2>2, <2>3
<1>5. op = "listen" => Head(tasks).get \notin GetsOf(tasks')
  BY <1>1, <1>3 DEF IsListen
<1>6. QED
  BY <1>2, <1>3, <1>4, <1>5

\* Who is added was neither listening nor muted, nor is he again to be added.
LEMMA ListenerAddedGets ==
  ASSUME ViewTypes, GetsInv, NextTask("listen"),
         ToSet(listeners') = ToSet(listeners) \cup {Head(tasks).get},
         NEW to, ToSet(to) \subseteq {Head(tasks).get},
         GetsOf(events') = GetsOf(events) \cup ToSet(to), raised' = raised \cup ToSet(to),
         UNCHANGED << gets, muted >>
  PROVE  GetsInv'
<1> DEFINE g == Head(tasks).get
<1>1. /\ GetsOf(tasks) = GetsOf(tasks') \cup {g}
      /\ OpsOf("listen", tasks) = OpsOf("listen", tasks') \cup {g}
      /\ OpsOf("unlisten", tasks) = OpsOf("unlisten", tasks')
      /\ ListensOnce(tasks') /\ g \notin GetsOf(tasks')
  BY TaskTaken
<1>2. ToSet(listeners') = ToSet(listeners) \cup {g} /\ ToSet(to) \subseteq {g}
  OBVIOUS
<1> HIDE DEF g
<1>3. g \notin ToSet(listeners) \cup raised \cup muted
  BY <1>1 DEF GetsInv
<1>4. g \notin OpsOf("listen", tasks')
  BY <1>1, OpsAreGets
<1>5. /\ GetsOf(tasks') \cup ToSet(listeners') \cup raised' \cup muted' \subseteq 1..gets'
      /\ GetsOf(events') \subseteq raised'
  BY <1>1, <1>2 DEF GetsInv
<1>6. /\ OpsOf("listen", tasks') \cap (ToSet(listeners') \cup raised' \cup muted') = {}
      /\ OpsOf("unlisten", tasks') \subseteq muted' \cap raised'
      /\ ToSet(listeners') \cap muted' \subseteq raised'
  BY <1>1, <1>2, <1>3, <1>4 DEF GetsInv
<1>7. ToSet(listeners') \cap raised' \subseteq
        OpsOf("unlisten", tasks') \cup (GetsOf(events') \ muted')
  BY <1>1, <1>2, <1>3 DEF GetsInv
<1>8. QED
  BY <1>1, <1>5, <1>6, <1>7 DEF GetsInv

LEMMA AddFirstListenerGets ==
  ASSUME Types, GetsInv, AddFirstListener
  PROVE  GetsInv'
<1> DEFINE g == Head(tasks).get
           to == IF online = "offline" THEN listeners' ELSE << >>
<1>1. /\ NextTask("listen") /\ listeners = << >> /\ listeners' = << g >>
      /\ Raise(to, cached, queue) /\ UNCHANGED << gets, muted >>
  BY DEF AddFirstListener
<1>2. g \in Get
  BY <1>1, NextTaskIs DEF Types
<1>3. ToSet(listeners) = {} /\ ToSet(listeners') = {g}
  <2>1. ToSet(<< g >>) = {g}
    BY DEF ToSet
  <2>2. QED
    BY <1>1, <2>1, ToSetEmpty
<1>4. to \in Seq(Get) /\ ToSet(to) \subseteq {g}
  <2>1. << g >> \in Seq(Get) /\ << >> \in Seq(Get)
    BY <1>2
  <2>2. QED
    BY <1>1, <1>3, <2>1, ToSetEmpty
<1> HIDE DEF to
<1>5. GetsOf(events') = GetsOf(events) \cup ToSet(to) /\ raised' = raised \cup ToSet(to)
  <2>1. cached \in 0..Len(cloud)
    BY DEF Types, CloudTypes
  <2>2. QED
    BY <1>1, <1>4, <2>1, RaiseGets DEF Types, AppTypes, WriteTypes
<1>6. QED
  BY <1>1, <1>3, <1>4, <1>5, ListenerAddedGets DEF Types

LEMMA AddListenerGets ==
  ASSUME Types, GetsInv, AddListener
  PROVE  GetsInv'
<1> DEFINE g == Head(tasks).get
           to == IF current \/ online = "offline" THEN << g >> ELSE << >>
<1>1. /\ NextTask("listen") /\ listeners' = Append(listeners, g)
      /\ Raise(to, cached, queue) /\ UNCHANGED << gets, muted >>
  BY DEF AddListener
<1>2. g \in Get
  BY <1>1, NextTaskIs DEF Types
<1>3. ToSet(listeners') = ToSet(listeners) \cup {g}
  BY <1>1, <1>2, ToSetAppended DEF Types, ViewTypes
<1>4. to \in Seq(Get) /\ ToSet(to) \subseteq {g}
  <2>1. << g >> \in Seq(Get) /\ << >> \in Seq(Get) /\ ToSet(<< g >>) = {g}
    BY <1>2 DEF ToSet
  <2>2. QED
    BY <2>1, ToSetEmpty
<1> HIDE DEF to
<1>5. GetsOf(events') = GetsOf(events) \cup ToSet(to) /\ raised' = raised \cup ToSet(to)
  <2>1. cached \in 0..Len(cloud)
    BY DEF Types, CloudTypes
  <2>2. QED
    BY <1>1, <1>4, <2>1, RaiseGets DEF Types, AppTypes, WriteTypes
<1>6. QED
  BY <1>1, <1>3, <1>4, <1>5, ListenerAddedGets DEF Types

LEMMA UnlistenIs ==
  ASSUME Types, Unlisten
  PROVE  ToSet(listeners') = ToSet(listeners) \ {Head(tasks).get}
<1>1. ToSet(listeners) \subseteq Get
  <2>1. listeners \in [1..Len(listeners) -> Get] /\ DOMAIN listeners = 1..Len(listeners)
    BY LenProperties DEF Types, ViewTypes
  <2>2. QED
    BY <2>1 DEF ToSet
<1>2. QED
  BY <1>1, ListenersOfIs DEF Unlisten, Types

LEMMA UnlistenGets ==
  ASSUME Types, GetsInv, Unlisten
  PROVE  GetsInv'
<1> DEFINE g == Head(tasks).get
<1>1. /\ NextTask("unlisten") /\ UNCHANGED << gets, events, muted, raised >>
      /\ ToSet(listeners') = ToSet(listeners) \ {g}
  BY UnlistenIs DEF Unlisten, app
<1>2. /\ GetsOf(tasks) = GetsOf(tasks') \cup {g}
      /\ OpsOf("unlisten", tasks) = OpsOf("unlisten", tasks') \cup {g}
      /\ OpsOf("listen", tasks) = OpsOf("listen", tasks')
      /\ ListensOnce(tasks')
  BY <1>1, TaskTaken DEF Types
<1> HIDE DEF g
<1>3. /\ GetsOf(tasks') \cup ToSet(listeners') \cup raised' \cup muted' \subseteq 1..gets'
      /\ GetsOf(events') \subseteq raised'
  BY <1>1, <1>2 DEF GetsInv
<1>4. /\ OpsOf("listen", tasks') \cap (ToSet(listeners') \cup raised' \cup muted') = {}
      /\ OpsOf("unlisten", tasks') \subseteq muted' \cap raised'
      /\ ToSet(listeners') \cap muted' \subseteq raised'
  BY <1>1, <1>2 DEF GetsInv
<1>5. ToSet(listeners') \cap raised' \subseteq
        OpsOf("unlisten", tasks') \cup (GetsOf(events') \ muted')
  BY <1>1, <1>2 DEF GetsInv
<1>6. QED
  BY <1>2, <1>3, <1>4, <1>5 DEF GetsInv

\* A changed view is shown to listeners that were shown one before.
LEMMA RefreshGets ==
  ASSUME CloudTypes, ViewTypes, events \in Seq(Event), queue \in Seq(Get),
         NEW version \in 0..Len(cloud), NEW batches \in Seq(Get),
         Refresh(version, batches)
  PROVE  \E to : /\ ToSet(to) \subseteq ToSet(listeners) \cap raised
                 /\ GetsOf(events') = GetsOf(events) \cup ToSet(to)
                 /\ raised' = raised \cup ToSet(to)
<1> DEFINE to == IF LocalView(version, batches) # LocalView(cached, queue)
                 THEN ListenersOf(raised) ELSE << >>
<1>1. to \in Seq(Get) /\ ToSet(to) \subseteq ToSet(listeners) \cap raised
  <2>1. << >> \in Seq(Get)
    OBVIOUS
  <2>2. QED
    BY <2>1, ListenersOfIs, ToSetEmpty
<1>2. Raise(to, version, batches)
  BY DEF Refresh
<1> HIDE DEF to
<1>3. GetsOf(events') = GetsOf(events) \cup ToSet(to) /\ raised' = raised \cup ToSet(to)
  BY <1>1, <1>2, RaiseGets
<1>4. QED
  BY <1>1, <1>3

LEMMA WriteMutationsGets ==
  ASSUME Types, GetsInv, WriteMutations
  PROVE  GetsInv'
<1>1. /\ NextTask("write") /\ queue' = Append(queue, Head(tasks).get)
      /\ Refresh(cached, queue') /\ UNCHANGED << gets, muted, listeners >>
  BY DEF WriteMutations
<1>2. cached \in 0..Len(cloud) /\ queue' \in Seq(Get)
  <2>1. Head(tasks).get \in Get
    BY <1>1, NextTaskIs DEF Types
  <2>2. QED
    BY <1>1, <2>1, AppendProperties DEF Types, WriteTypes, CloudTypes
<1>3. PICK to : /\ ToSet(to) \subseteq ToSet(listeners) \cap raised
                /\ GetsOf(events') = GetsOf(events) \cup ToSet(to)
                /\ raised' = raised \cup ToSet(to)
  BY <1>1, <1>2, RefreshGets DEF Types, AppTypes, WriteTypes
<1>4. /\ GetsOf(tasks') \subseteq GetsOf(tasks)
      /\ \A op \in {"listen", "unlisten"} : OpsOf(op, tasks') = OpsOf(op, tasks)
      /\ ListensOnce(tasks')
  BY <1>1, TaskTaken DEF Types
<1>5. QED
  BY <1>1, <1>3, <1>4, GetsRaised

\* A snapshot that takes no task.
LEMMA SnapshotGets ==
  ASSUME GetsInv, NEW to, ToSet(to) \subseteq ToSet(listeners),
         GetsOf(events') = GetsOf(events) \cup ToSet(to), raised' = raised \cup ToSet(to),
         UNCHANGED << gets, muted, tasks, listeners >>
  PROVE  GetsInv'
<1>1. /\ GetsOf(tasks') = GetsOf(tasks) /\ \A op : OpsOf(op, tasks') = OpsOf(op, tasks)
      /\ ListensOnce(tasks')
  BY DEF GetsInv
<1>2. QED
  BY <1>1, GetsRaised

LEMMA ResultGets ==
  ASSUME Types, WriteInv, GetsInv, OnWriteStreamMutationResult
  PROVE  GetsInv'
<1>1. /\ Refresh(cached', queue') /\ UNCHANGED << gets, muted, tasks, listeners, cloud >>
  BY DEF OnWriteStreamMutationResult
<1>2. cached' \in 0..Len(cloud) /\ queue' \in Seq(Get)
  <2>1. WriteTypes' /\ CloudTypes'
    BY ResultTypes
  <2>2. QED
    BY <1>1, <2>1 DEF WriteTypes, CloudTypes
<1>3. PICK to : /\ ToSet(to) \subseteq ToSet(listeners) \cap raised
                /\ GetsOf(events') = GetsOf(events) \cup ToSet(to)
                /\ raised' = raised \cup ToSet(to)
  BY <1>1, <1>2, RefreshGets DEF Types, AppTypes, WriteTypes
<1>4. QED
  BY <1>1, <1>3, SnapshotGets

LEMMA OnWatchSnapshotGets ==
  ASSUME Types, WatchInv, GetsInv, OnWatchSnapshot
  PROVE  GetsInv'
<1>1. UNCHANGED << gets, muted, tasks, listeners, cloud, queue >>
  BY DEF OnWatchSnapshot
<1>2. CASE ~IsActiveTarget
  <2>1. UNCHANGED << events, raised >>
    BY <1>2 DEF OnWatchSnapshot
  <2>2. QED
    BY <1>1, <2>1, GetsKept
<1>3. CASE IsActiveTarget
  <2>1. cached' \in 0..Len(cloud) /\ queue \in Seq(Get)
    <3>1. WriteTypes' /\ CloudTypes'
      BY OnWatchSnapshotTypes
    <3>2. QED
      BY <1>1, <3>1 DEF WriteTypes, CloudTypes
  <2>2. \E to : /\ ToSet(to) \subseteq ToSet(listeners)
                /\ GetsOf(events') = GetsOf(events) \cup ToSet(to)
                /\ raised' = raised \cup ToSet(to)
    <3>1. CASE current
      <4>1. Refresh(cached', queue)
        BY <1>3, <3>1 DEF OnWatchSnapshot
      <4>2. PICK to : /\ ToSet(to) \subseteq ToSet(listeners) \cap raised
                      /\ GetsOf(events') = GetsOf(events) \cup ToSet(to)
                      /\ raised' = raised \cup ToSet(to)
        BY <2>1, <4>1, RefreshGets DEF Types, AppTypes, WriteTypes
      <4>3. QED
        BY <4>2
    <3>2. CASE ~current
      <4>1. Raise(listeners, cached', queue)
        BY <1>3, <3>2 DEF OnWatchSnapshot
      <4>2. /\ GetsOf(events') = GetsOf(events) \cup ToSet(listeners)
            /\ raised' = raised \cup ToSet(listeners)
        BY <2>1, <4>1, RaiseGets DEF Types, AppTypes, ViewTypes
      <4>3. QED
        BY <4>2
    <3>3. QED
      BY <3>1, <3>2
  <2>3. QED
    BY <1>1, <2>2, SnapshotGets
<1>4. QED
  BY <1>2, <1>3

LEMMA GoOfflineGets ==
  ASSUME Types, GetsInv, GoOffline, UNCHANGED << gets, muted, tasks, listeners >>
  PROVE  GetsInv'
<1> DEFINE to == IF current THEN listeners ELSE Waiting
<1>1. Raise(to, cached, queue)
  BY DEF GoOffline
<1>2. to \in Seq(Get) /\ ToSet(to) \subseteq ToSet(listeners)
  BY WaitingIs DEF Types, ViewTypes
<1> HIDE DEF to
<1>3. cached \in 0..Len(cloud) /\ queue \in Seq(Get)
  BY DEF Types, CloudTypes, WriteTypes
<1>4. GetsOf(events') = GetsOf(events) \cup ToSet(to) /\ raised' = raised \cup ToSet(to)
  BY <1>1, <1>2, <1>3, RaiseGets DEF Types, AppTypes
<1>5. QED
  BY <1>2, <1>4, SnapshotGets

LEMMA RestartGets ==
  ASSUME Types, Restart
  PROVE  GetsInv'
<1>1. /\ tasks' = << >> /\ listeners' = << >> /\ raised' = {} /\ events' = << >>
      /\ muted' = 1..gets /\ gets' = gets
  BY DEF Restart
<1>2. ToSet(tasks') = {} /\ ToSet(listeners') = {} /\ ToSet(events') = {}
  BY <1>1, ToSetEmpty
<1>3. GetsOf(tasks') = {} /\ GetsOf(events') = {} /\ \A op : OpsOf(op, tasks') = {}
  BY <1>2 DEF GetsOf, OpsOf
<1>4. ListensOnce(tasks')
  BY <1>1 DEF ListensOnce
<1>5. QED
  BY <1>1, <1>2, <1>3, <1>4 DEF GetsInv

LEMMA GetsStep ==
  ASSUME TypeInv, GetsInv, [Next]_vars
  PROVE  GetsInv'
<1>1. Types /\ WatchInv /\ WriteInv
  BY DEF TypeInv
<1>2. CASE GetDocument \/ HandleEvent
  BY <1>1, <1>2, GetDocumentGets, HandleEventGets
<1>3. CASE AddFirstListener \/ AddListener
  BY <1>1, <1>3, AddFirstListenerGets, AddListenerGets
<1>4. CASE RemoveListener \/ RemoveLastListener
  BY <1>1, <1>4, UnlistenGets DEF RemoveListener, RemoveLastListener
<1>5. CASE WriteMutations \/ OnWriteStreamMutationResult
  BY <1>1, <1>5, WriteMutationsGets, ResultGets
<1>6. CASE OnWatchSnapshot
  BY <1>1, <1>6, OnWatchSnapshotGets
<1>7. CASE OnWatchStreamClose \/ OnlineStateTimeout
  <2>1. /\ UNCHANGED << gets, muted, tasks, listeners >>
        /\ GoOffline \/ UNCHANGED << events, raised >>
    BY <1>7 DEF OnWatchStreamClose, OnlineStateTimeout
  <2>2. QED
    BY <1>1, <2>1, GoOfflineGets, GetsKept
<1>8. CASE Restart
  BY <1>1, <1>8, RestartGets
<1>9. CASE OnWatchStreamOpen \/ OnTargetResponse \/ OnWriteStreamHandshakeComplete
           \/ OnWriteStreamClose
  BY <1>9, GetsKept DEF OnWatchStreamOpen, OnTargetResponse, OnWriteStreamHandshakeComplete,
                        OnWriteStreamClose, app, views
<1>10. CASE RestartNetwork \/ BackendTakesRequest \/ BackendSendsSnapshot \/ BackendApplies
            \/ WriteElsewhere
  BY <1>10, GetsKept DEF RestartNetwork, BackendTakesRequest, BackendSendsSnapshot,
                         BackendApplies, WriteElsewhere, app, views
<1>11. CASE UNCHANGED vars
  BY <1>11, GetsKept DEF vars, app, views
<1>12. QED
  BY <1>2, <1>3, <1>4, <1>5, <1>6, <1>7, <1>8, <1>9, <1>10, <1>11 DEF Next

-----------------------------------------------------------------------------
(* Freshness.                                                               *)

\* A listener is on the way out if its removal comes before anybody is added.
Leaves(g, s) ==
  \E p \in DOMAIN s : /\ s[p].op = "unlisten" /\ s[p].get = g
                      /\ \A q \in 1..p - 1 : ~IsListen(s[q])

Staying == {g \in ToSet(listeners) : ~Leaves(g, tasks)}

\* What the target says when all requests are answered: the changes that
\* follow the last response are not older than the open gets.
ChangesAreFresh ==
  requests = << >> =>
    \A p \in DOMAIN changes : changes[p] >= since \/ \E q \in Responses : q >= p

FreshInv ==
  Staying # {} => (current => cached >= since) /\ ChangesAreFresh

LEMMA LeavesAppended ==
  ASSUME NEW s \in Seq(Task), NEW t \in Task, NEW g, Leaves(g, s)
  PROVE  Leaves(g, Append(s, t))
<1>1. /\ Append(s, t) \in Seq(Task) /\ Len(Append(s, t)) = Len(s) + 1
      /\ \A i \in 1..Len(s) : Append(s, t)[i] = s[i]
  BY AppendProperties
<1>2. /\ DOMAIN s = 1..Len(s) /\ Len(s) \in Nat
      /\ DOMAIN Append(s, t) = 1..Len(s) + 1
  BY <1>1, LenProperties
<1>3. PICK p \in DOMAIN s : /\ s[p].op = "unlisten" /\ s[p].get = g
                            /\ \A q \in 1..p - 1 : ~IsListen(s[q])
  BY DEF Leaves
<1>4. p \in DOMAIN Append(s, t) /\ Append(s, t)[p] = s[p]
  BY <1>1, <1>2
<1>5. \A q \in 1..p - 1 : Append(s, t)[q] = s[q]
  BY <1>1, <1>2
<1>6. QED
  BY <1>3, <1>4, <1>5 DEF Leaves

LEMMA LeavesTail ==
  ASSUME NEW s \in Seq(Task), s # << >>, NEW g, Leaves(g, s),
         Head(s).op # "unlisten" \/ Head(s).get # g
  PROVE  ~IsListen(Head(s)) /\ Leaves(g, Tail(s))
<1>1. /\ Tail(s) \in Seq(Task) /\ Len(Tail(s)) = Len(s) - 1
      /\ \A i \in 1..Len(Tail(s)) : Tail(s)[i] = s[i + 1]
      /\ Len(s) \in Nat \ {0} /\ Head(s) = s[1]
  BY HeadTailProperties, EmptySeq
<1>2. DOMAIN s = 1..Len(s) /\ DOMAIN Tail(s) = 1..Len(s) - 1
  BY <1>1, LenProperties
<1>3. PICK p \in DOMAIN s : /\ s[p].op = "unlisten" /\ s[p].get = g
                            /\ \A q \in 1..p - 1 : ~IsListen(s[q])
  BY DEF Leaves
<1>4. p # 1
  BY <1>1, <1>3
<1>5. ~IsListen(Head(s))
  BY <1>1, <1>2, <1>3, <1>4
<1>6. p - 1 \in DOMAIN Tail(s) /\ Tail(s)[p - 1] = s[p]
  <2>1. p - 1 \in 1..Len(Tail(s)) /\ (p - 1) + 1 = p
    BY <1>1, <1>2, <1>4
  <2>2. QED
    BY <1>1, <1>2, <2>1
<1>7. \A q \in 1..(p - 1) - 1 : ~IsListen(Tail(s)[q])
  <2>1. ASSUME NEW q \in 1..(p - 1) - 1 PROVE ~IsListen(Tail(s)[q])
    <3>1. q \in 1..Len(Tail(s)) /\ q + 1 \in 1..p - 1
      BY <1>1, <1>2
    <3>2. Tail(s)[q] = s[q + 1]
      BY <1>1, <3>1
    <3>3. QED
      BY <1>3, <3>1, <3>2
  <2>2. QED
    BY <2>1
<1>8. QED
  BY <1>3, <1>5, <1>6, <1>7 DEF Leaves

LEMMA LeavesIsUnlistened ==
  ASSUME NEW s \in Seq(Task), NEW g
  PROVE  /\ Leaves(g, s) => g \in OpsOf("unlisten", s)
         /\ OpsOf("listen", s) = {} /\ g \in OpsOf("unlisten", s) => Leaves(g, s)
<1>1. DOMAIN s = 1..Len(s) /\ Len(s) \in Nat
  BY LenProperties
<1>2. \A p \in DOMAIN s : s[p] \in ToSet(s)
  BY DEF ToSet
<1>3. Leaves(g, s) => g \in OpsOf("unlisten", s)
  BY <1>2 DEF Leaves, OpsOf
<1>4. ASSUME OpsOf("listen", s) = {}, g \in OpsOf("unlisten", s) PROVE Leaves(g, s)
  <2>1. PICK p \in DOMAIN s : s[p].op = "unlisten" /\ s[p].get = g
    BY <1>4 DEF OpsOf, ToSet
  <2>2. \A q \in DOMAIN s : ~IsListen(s[q])
    BY <1>2, <1>4 DEF OpsOf, IsListen
  <2>3. \A q \in 1..p - 1 : q \in DOMAIN s
    BY <1>1
  <2>4. QED
    BY <2>1, <2>2, <2>3 DEF Leaves
<1>5. QED
  BY <1>3, <1>4

LEMMA ListensAreOps ==
  ASSUME NEW s, NEW op
  PROVE  {t.get : t \in {u \in ToSet(s) : u.op = op}} = OpsOf(op, s)
BY DEF OpsOf

LEMMA OpenIs ==
  Open = OpsOf("listen", tasks) \cup (ToSet(listeners) \ raised) \cup (GetsOf(events) \ muted)
<1>1. {u \in ToSet(tasks) : IsListen(u)} = {u \in ToSet(tasks) : u.op = "listen"}
  BY DEF IsListen
<1>2. QED
  BY <1>1 DEF Open, OpsOf, GetsOf

\* Nobody stays when there is no open get.
LEMMA NobodyStays ==
  ASSUME ViewTypes, GetsInv, Open = {}
  PROVE  \A g \in ToSet(listeners) : Leaves(g, tasks)
<1>1. /\ OpsOf("listen", tasks) = {} /\ ToSet(listeners) \subseteq raised
      /\ GetsOf(events) \subseteq muted
  BY OpenIs
<1>2. ToSet(listeners) \subseteq OpsOf("unlisten", tasks)
  BY <1>1 DEF GetsInv
<1>3. QED
  BY <1>1, <1>2, LeavesIsUnlistened DEF ViewTypes

LEMMA FreshInit == Init => FreshInv
<1>1. SUFFICES ASSUME Init PROVE FreshInv
  OBVIOUS
<1>2. ToSet(listeners) = {}
  BY <1>1, ToSetEmpty DEF Init
<1>3. QED
  BY <1>2 DEF FreshInv, Staying

LEMMA FreshKept ==
  ASSUME FreshInv, Staying' \subseteq Staying,
         UNCHANGED << current, cached, since, requests, changes >>
  PROVE  FreshInv'
BY DEF FreshInv, ChangesAreFresh, Responses

LEMMA StayingKept ==
  ASSUME UNCHANGED << listeners, tasks >>
  PROVE  Staying' = Staying
BY DEF Staying, Leaves, IsListen, ToSet

LEMMA NobodyListens ==
  ASSUME listeners' = << >>
  PROVE  FreshInv'
<1>1. ToSet(listeners') = {}
  BY ToSetEmpty
<1>2. QED
  BY <1>1 DEF FreshInv, Staying

LEMMA GetDocumentFresh ==
  ASSUME Types, GetsInv, FreshInv, GetDocument
  PROVE  FreshInv'
<1> DEFINE t == [op |-> "listen", get |-> gets + 1]
<1>1. /\ gets < MaxGets /\ tasks' = Append(tasks, t)
      /\ since' = IF Open = {} THEN Len(cloud) ELSE since
      /\ UNCHANGED << listeners, current, cached, requests, changes >>
  BY DEF GetDocument, watching, store
<1>2. t \in Task /\ tasks \in Seq(Task)
  BY <1>1 DEF Types, AppTypes, ViewTypes, Task, Get
<1> HIDE DEF t
<1>3. ToSet(listeners') = ToSet(listeners)
  BY <1>1
<1>4. \A g : Leaves(g, tasks) => Leaves(g, tasks')
  BY <1>1, <1>2, LeavesAppended
<1>5. CASE Open = {}
  <2>1. \A g \in ToSet(listeners) : Leaves(g, tasks)
    BY <1>5, NobodyStays DEF Types
  <2>2. Staying' = {}
    BY <1>3, <1>4, <2>1 DEF Staying
  <2>3. QED
    BY <2>2 DEF FreshInv
<1>6. CASE Open # {}
  <2>1. Staying' \subseteq Staying
    BY <1>3, <1>4 DEF Staying
  <2>2. QED
    BY <1>1, <1>6, <2>1, FreshKept
<1>7. QED
  BY <1>5, <1>6

LEMMA HandleEventFresh ==
  ASSUME Types, FreshInv, HandleEvent
  PROVE  FreshInv'
<1> DEFINE e == Head(events)
<1>1. events # << >> /\ UNCHANGED << listeners, current, cached, since, requests, changes >>
  BY DEF HandleEvent, watching, store
<1>2. CASE e.get \in muted
  <2>1. UNCHANGED tasks
    BY <1>2 DEF HandleEvent
  <2>2. QED
    BY <1>1, <2>1, StayingKept, FreshKept
<1>3. CASE e.get \notin muted
  <2> DEFINE off == [op |-> "unlisten", get |-> e.get]
             save == [op |-> "write", get |-> e.get]
  <2>1. tasks' = tasks \o << off >> \o IF e.seen = NoDocument THEN << >> ELSE << save >>
    BY <1>3 DEF HandleEvent
  <2>2. e.get \in Get /\ tasks \in Seq(Task)
    <3>1. e \in Event
      BY <1>1, HeadTailProperties DEF Types, AppTypes
    <3>2. QED
      BY <3>1 DEF Types, ViewTypes, Event
  <2>3. off \in Task /\ save \in Task
    BY <2>2 DEF Task
  <2> HIDE DEF e, off, save
  <2> DEFINE once == Append(tasks, off)
             twice == Append(once, save)
  <2>4. once \in Seq(Task)
    BY <2>2, <2>3, AppendProperties
  <2>5. tasks \o << off >> = once /\ once \o << save >> = twice /\ once \o << >> = once
    BY <2>2, <2>3, <2>4, AppendIsConcat, ConcatEmptySeq
  <2>6. tasks' = once \/ tasks' = twice
    BY <2>1, <2>5
  <2>7. \A g : Leaves(g, tasks) => Leaves(g, once)
    BY <2>2, <2>3, LeavesAppended
  <2> HIDE DEF once
  <2>8. \A g : Leaves(g, once) => Leaves(g, twice)
    BY <2>3, <2>4, LeavesAppended
  <2> HIDE DEF twice
  <2>9. \A g : Leaves(g, tasks) => Leaves(g, tasks')
    BY <2>6, <2>7, <2>8
  <2>10. Staying' \subseteq Staying
    BY <1>1, <2>9 DEF Staying
  <2>11. QED
    BY <1>1, <2>10, FreshKept
<1>4. QED
  BY <1>2, <1>3

\* Everybody stays while the next task adds a listener.
LEMMA EverybodyStays ==
  ASSUME ViewTypes, NextTask("listen")
  PROVE  Staying = ToSet(listeners)
<1>1. tasks \in Seq(Task) /\ tasks # << >> /\ Head(tasks).op = "listen"
  BY DEF ViewTypes, NextTask
<1>2. ASSUME NEW g, Leaves(g, tasks) PROVE FALSE
  <2>1. ~IsListen(Head(tasks))
    BY <1>1, <1>2, LeavesTail
  <2>2. QED
    BY <1>1, <2>1 DEF IsListen
<1>3. QED
  BY <1>2 DEF Staying

LEMMA AddFirstListenerFresh ==
  ASSUME Types, WatchInv, FreshInv, AddFirstListener
  PROVE  FreshInv'
<1>1. current' = FALSE /\ UNCHANGED changes
  BY DEF AddFirstListener
<1>2. watch = "open" => requests' = Append(requests, "watch")
  BY DEF AddFirstListener
<1>3. ChangesAreFresh'
  <2>1. CASE watch = "open"
    <3>1. requests' \in Seq({"watch", "unwatch"}) /\ Len(requests') = Len(requests) + 1
          /\ Len(requests) \in Nat
      BY <1>2, <2>1, AppendProperties, LenProperties DEF Types, WatchTypes
    <3>2. requests' # << >>
      BY <3>1
    <3>3. QED
      BY <3>2 DEF ChangesAreFresh
  <2>2. CASE watch # "open"
    <3>1. changes' = << >>
      BY <1>1, <2>2 DEF WatchInv
    <3>2. QED
      BY <3>1 DEF ChangesAreFresh
  <2>3. QED
    BY <2>1, <2>2
<1>4. QED
  BY <1>1, <1>3 DEF FreshInv

\* The view another listener is added to is fresh.
LEMMA SharedViewIsFresh ==
  ASSUME Types, FreshInv, AddListener
  PROVE  /\ current => cached >= since
         /\ ChangesAreFresh
<1>1. NextTask("listen") /\ listeners # << >>
  BY DEF AddListener
<1>2. Staying = ToSet(listeners)
  BY <1>1, EverybodyStays DEF Types
<1>3. ToSet(listeners) # {}
  <2>1. Len(listeners) \in Nat \ {0} /\ DOMAIN listeners = 1..Len(listeners)
    BY <1>1, EmptySeq, LenProperties DEF Types, ViewTypes
  <2>2. 1 \in DOMAIN listeners
    BY <2>1
  <2>3. QED
    BY <2>2 DEF ToSet
<1>4. QED
  BY <1>2, <1>3 DEF FreshInv

LEMMA AddListenerFresh ==
  ASSUME Types, FreshInv, AddListener
  PROVE  FreshInv'
<1>1. UNCHANGED << current, cached, since, requests, changes >>
  BY DEF AddListener, watching, store
<1>2. (current' => cached' >= since') /\ ChangesAreFresh'
  BY <1>1, SharedViewIsFresh DEF ChangesAreFresh, Responses
<1>3. QED
  BY <1>2 DEF FreshInv

LEMMA RemoveListenerFresh ==
  ASSUME Types, FreshInv, RemoveListener
  PROVE  FreshInv'
<1> DEFINE g == Head(tasks).get
<1>1. /\ Unlisten /\ NextTask("unlisten")
      /\ UNCHANGED << current, cached, since, requests, changes >>
  BY DEF RemoveListener, Unlisten, watching, store, history
<1>2. ToSet(listeners') = ToSet(listeners) \ {g}
  BY <1>1, UnlistenIs
<1>3. tasks \in Seq(Task) /\ tasks # << >> /\ tasks' = Tail(tasks)
  BY <1>1 DEF Types, ViewTypes, NextTask
<1>4. \A h : h # g /\ Leaves(h, tasks) => Leaves(h, tasks')
  BY <1>3, LeavesTail
<1> HIDE DEF g
<1>5. Staying' \subseteq Staying
  BY <1>2, <1>4 DEF Staying
<1>6. QED
  BY <1>1, <1>5, FreshKept

LEMMA WriteMutationsFresh ==
  ASSUME Types, FreshInv, WriteMutations
  PROVE  FreshInv'
<1>1. /\ NextTask("write")
      /\ UNCHANGED << listeners, current, cached, since, requests, changes >>
  BY DEF WriteMutations, watching, history
<1>2. /\ tasks \in Seq(Task) /\ tasks # << >> /\ tasks' = Tail(tasks)
      /\ Head(tasks).op = "write"
  BY <1>1 DEF Types, ViewTypes, NextTask
<1>3. \A h : Leaves(h, tasks) => Leaves(h, tasks')
  BY <1>2, LeavesTail
<1>4. Staying' \subseteq Staying
  BY <1>1, <1>3 DEF Staying
<1>5. QED
  BY <1>1, <1>4, FreshKept

LEMMA OnWatchStreamOpenFresh ==
  ASSUME Types, WatchInv, FreshInv, OnWatchStreamOpen
  PROVE  FreshInv'
<1>1. /\ watch = "starting" /\ UNCHANGED << listeners, tasks, current, cached, since, changes >>
  BY DEF OnWatchStreamOpen, views, store, history
<1>2. changes' = << >>
  BY <1>1 DEF WatchInv
<1>3. ChangesAreFresh'
  BY <1>2 DEF ChangesAreFresh
<1>4. QED
  BY <1>1, <1>3, StayingKept DEF FreshInv

\* Taking a message off the stream keeps the rest fresh.
LEMMA RestIsFresh ==
  ASSUME WatchTypes, ChangesAreFresh, changes # << >>, changes' = Tail(changes),
         UNCHANGED << requests, since >>
  PROVE  ChangesAreFresh'
<1>1. /\ Tail(changes) \in Seq(Nat) /\ Len(Tail(changes)) = Len(changes) - 1
      /\ \A i \in 1..Len(Tail(changes)) : Tail(changes)[i] = changes[i + 1]
      /\ Len(changes) \in Nat \ {0}
  BY HeadTailProperties, EmptySeq DEF WatchTypes
<1>2. DOMAIN changes = 1..Len(changes) /\ DOMAIN changes' = 1..Len(changes) - 1
  BY <1>1, LenProperties DEF WatchTypes
<1>3. ASSUME requests' = << >>, NEW p \in DOMAIN changes'
      PROVE  changes'[p] >= since' \/ \E q \in Responses' : q >= p
  <2>1. p + 1 \in DOMAIN changes /\ changes'[p] = changes[p + 1]
    BY <1>1, <1>2
  <2>2. CASE changes[p + 1] >= since
    BY <2>1, <2>2
  <2>3. CASE \E q \in Responses : q >= p + 1
    <3>1. PICK q \in Responses : q >= p + 1
      BY <2>3
    <3>2. q \in 1..Len(changes) /\ changes[q] = Response
      BY <1>2 DEF Responses
    <3>3. q - 1 \in DOMAIN changes' /\ (q - 1) + 1 = q /\ q - 1 >= p
      BY <1>2, <3>1, <3>2
    <3>4. changes'[q - 1] = Response
      BY <1>1, <1>2, <3>2, <3>3
    <3>5. q - 1 \in Responses'
      BY <3>3, <3>4 DEF Responses
    <3>6. QED
      BY <3>3, <3>5
  <2>4. QED
    BY <1>3, <2>1, <2>2, <2>3 DEF ChangesAreFresh
<1>4. QED
  BY <1>3 DEF ChangesAreFresh

LEMMA OnTargetResponseFresh ==
  ASSUME Types, FreshInv, OnTargetResponse
  PROVE  FreshInv'
<1>1. /\ changes # << >> /\ changes' = Tail(changes)
      /\ UNCHANGED << listeners, tasks, current, cached, since, requests >>
  BY DEF OnTargetResponse, views, store, history
<1>2. Staying' = Staying
  BY <1>1, StayingKept
<1>3. ChangesAreFresh => ChangesAreFresh'
  BY <1>1, RestIsFresh DEF Types
<1>4. QED
  BY <1>1, <1>2, <1>3 DEF FreshInv

\* An active target has answered everything, so that its snapshot is fresh.
LEMMA SnapshotIsFresh ==
  ASSUME Types, WatchInv, FreshInv, OnWatchSnapshot, IsActiveTarget, Staying # {}
  PROVE  cached' >= since
<1>1. changes # << >> /\ cached' = NewerOf(Head(changes)) /\ pending = 0
  BY DEF OnWatchSnapshot, IsActiveTarget
<1>2. requests = << >> /\ Responses = {}
  <2>1. Len(requests) \in Nat /\ IsFiniteSet(Responses) /\ Cardinality(Responses) \in Nat
    BY ResponsesCounted, LenProperties DEF Types, WatchTypes, Responses
  <2>2. Len(requests) = 0 /\ Cardinality(Responses) = 0
    BY <1>1, <2>1 DEF WatchInv
  <2>3. requests = << >>
    BY <2>2, EmptySeq DEF Types, WatchTypes
  <2>4. QED
    BY <2>1, <2>2, <2>3, FS_EmptySet
<1>3. 1 \in DOMAIN changes /\ Head(changes) = changes[1] /\ Head(changes) \in Nat
  <2>1. /\ Len(changes) \in Nat \ {0} /\ DOMAIN changes = 1..Len(changes)
        /\ Head(changes) \in Nat
    BY <1>1, HeadTailProperties, EmptySeq, LenProperties DEF Types, WatchTypes
  <2>2. QED
    BY <2>1 DEF Types, WatchTypes
<1>4. Head(changes) >= since
  BY <1>2, <1>3 DEF FreshInv, ChangesAreFresh
<1>5. cached \in Nat /\ since \in Nat
  BY DEF Types, CloudTypes
<1>6. NewerOf(Head(changes)) >= Head(changes) /\ NewerOf(Head(changes)) \in Nat
  BY <1>3, <1>5, NewerOfIs
<1>7. QED
  BY <1>1, <1>3, <1>4, <1>5, <1>6

LEMMA OnWatchSnapshotFresh ==
  ASSUME Types, WatchInv, FreshInv, OnWatchSnapshot
  PROVE  FreshInv'
<1>1. /\ changes # << >> /\ changes' = Tail(changes)
      /\ UNCHANGED << listeners, tasks, since, requests >>
  BY DEF OnWatchSnapshot
<1>2. Staying' = Staying
  BY <1>1, StayingKept
<1>3. ChangesAreFresh => ChangesAreFresh'
  BY <1>1, RestIsFresh DEF Types
<1>4. CASE IsActiveTarget
  <2>1. Staying # {} => cached' >= since
    BY <1>4, SnapshotIsFresh
  <2>2. QED
    BY <1>1, <1>2, <1>3, <2>1 DEF FreshInv
<1>5. CASE ~IsActiveTarget
  <2>1. UNCHANGED << cached, current >>
    BY <1>5 DEF OnWatchSnapshot
  <2>2. QED
    BY <1>1, <1>2, <1>3, <2>1 DEF FreshInv
<1>6. QED
  BY <1>4, <1>5

\* Without anything on the way, only the view can be outdated.
LEMMA StreamGoneFresh ==
  ASSUME FreshInv, changes' = << >>, current' => current,
         UNCHANGED << listeners, tasks, cached, since >>
  PROVE  FreshInv'
<1>1. Staying' = Staying
  BY StayingKept
<1>2. ChangesAreFresh'
  BY DEF ChangesAreFresh
<1>3. QED
  BY <1>1, <1>2 DEF FreshInv

LEMMA ViewGoneFresh ==
  ASSUME FreshInv, current' = FALSE,
         UNCHANGED << listeners, tasks, since, requests, changes >>
  PROVE  FreshInv'
<1>1. Staying' = Staying
  BY StayingKept
<1>2. QED
  BY <1>1 DEF FreshInv, ChangesAreFresh, Responses

LEMMA ResultFresh ==
  ASSUME Types, FreshInv, OnWriteStreamMutationResult
  PROVE  FreshInv'
<1>1. /\ results # << >> /\ cached' = NewerOf(Head(results))
      /\ UNCHANGED << listeners, tasks, current, since, requests, changes >>
  BY DEF OnWriteStreamMutationResult, watching
<1>2. Head(results) \in Nat /\ cached \in Nat /\ since \in Nat
  <2>1. Head(results) \in 1..Len(cloud)
    BY <1>1, HeadTailProperties DEF Types, CloudTypes
  <2>2. QED
    BY <2>1 DEF Types, CloudTypes
<1>3. cached' >= cached /\ cached' \in Nat
  BY <1>1, <1>2, NewerOfIs
<1>4. Staying' = Staying
  BY <1>1, StayingKept
<1>5. QED
  BY <1>1, <1>2, <1>3, <1>4 DEF FreshInv, ChangesAreFresh, Responses

LEMMA BackendTakesRequestFresh ==
  ASSUME Types, FreshInv, BackendTakesRequest
  PROVE  FreshInv'
<1>1. /\ changes' = Append(changes, Response)
      /\ UNCHANGED << listeners, tasks, current, cached, since >>
  BY DEF BackendTakesRequest, views, store, history
<1>2. /\ changes' \in Seq(Nat) /\ Len(changes') = Len(changes) + 1 /\ Len(changes) \in Nat
      /\ changes'[Len(changes) + 1] = Response
  <2>1. changes \in Seq(Nat) /\ Response \in Nat
    BY DEF Types, WatchTypes, Response
  <2>2. QED
    BY <1>1, <2>1, AppendProperties, LenProperties
<1>3. DOMAIN changes' = 1..Len(changes) + 1
  BY <1>2, LenProperties
<1>4. Len(changes) + 1 \in Responses' /\ \A p \in DOMAIN changes' : Len(changes) + 1 >= p
  BY <1>2, <1>3 DEF Responses
<1>5. ChangesAreFresh'
  BY <1>4 DEF ChangesAreFresh
<1>6. QED
  BY <1>1, <1>5, StayingKept DEF FreshInv

LEMMA BackendSendsSnapshotFresh ==
  ASSUME Types, FreshInv, BackendSendsSnapshot
  PROVE  FreshInv'
<1>1. /\ changes' = Append(changes, Len(cloud))
      /\ UNCHANGED << listeners, tasks, current, cached, since, requests >>
  BY DEF BackendSendsSnapshot, views, store, history
<1>2. changes \in Seq(Nat) /\ Len(cloud) \in Nat /\ since \in 1..Len(cloud)
  BY LenProperties DEF Types, WatchTypes, CloudTypes
<1>3. /\ changes' \in Seq(Nat) /\ Len(changes') = Len(changes) + 1
      /\ \A i \in 1..Len(changes) : changes'[i] = changes[i]
      /\ changes'[Len(changes) + 1] = Len(cloud)
  BY <1>1, <1>2, AppendProperties
<1>4. /\ DOMAIN changes = 1..Len(changes) /\ Len(changes) \in Nat
      /\ DOMAIN changes' = 1..Len(changes) + 1
  BY <1>2, <1>3, LenProperties
<1>5. Responses \subseteq Responses'
  BY <1>3, <1>4 DEF Responses
<1>6. ChangesAreFresh => ChangesAreFresh'
  <2>1. ASSUME ChangesAreFresh, requests' = << >>, NEW p \in DOMAIN changes'
        PROVE  changes'[p] >= since' \/ \E q \in Responses' : q >= p
    <3>1. CASE p \in DOMAIN changes
      <4>1. changes[p] >= since \/ \E q \in Responses : q >= p
        BY <1>1, <2>1, <3>1 DEF ChangesAreFresh
      <4>2. QED
        BY <1>1, <1>3, <1>4, <1>5, <3>1, <4>1
    <3>2. CASE p = Len(changes) + 1
      BY <1>1, <1>2, <1>3, <3>2
    <3>3. QED
      BY <1>4, <3>1, <3>2
  <2>2. QED
    BY <2>1 DEF ChangesAreFresh
<1>7. QED
  BY <1>1, <1>6, StayingKept DEF FreshInv

LEMMA FreshStep ==
  ASSUME TypeInv, GetsInv, FreshInv, [Next]_vars
  PROVE  FreshInv'
<1>1. Types /\ WatchInv /\ WriteInv
  BY DEF TypeInv
<1>2. CASE GetDocument \/ HandleEvent
  BY <1>1, <1>2, GetDocumentFresh, HandleEventFresh
<1>3. CASE AddFirstListener \/ AddListener
  BY <1>1, <1>3, AddFirstListenerFresh, AddListenerFresh
<1>4. CASE RemoveListener
  BY <1>1, <1>4, RemoveListenerFresh
<1>5. CASE RemoveLastListener \/ Restart
  BY <1>5, NobodyListens DEF RemoveLastListener, IsLast, Restart
<1>6. CASE WriteMutations \/ OnWriteStreamMutationResult
  BY <1>1, <1>6, WriteMutationsFresh, ResultFresh
<1>7. CASE OnWatchStreamOpen \/ OnTargetResponse \/ OnWatchSnapshot
  BY <1>1, <1>7, OnWatchStreamOpenFresh, OnTargetResponseFresh, OnWatchSnapshotFresh
<1>8. CASE OnWatchStreamClose
  <2>1. changes' = << >> /\ (current' => current)
        /\ UNCHANGED << listeners, tasks, cached, since >>
    BY <1>8 DEF OnWatchStreamClose, GoOffline, store
  <2>2. QED
    BY <2>1, StreamGoneFresh
<1>9. CASE OnlineStateTimeout
  BY <1>9, ViewGoneFresh DEF OnlineStateTimeout, GoOffline
<1>10. CASE RestartNetwork
  <2>1. changes' = << >> /\ (current' => current)
        /\ UNCHANGED << listeners, tasks, cached, since >>
    BY <1>10 DEF RestartNetwork, RestartStreams, store, history
  <2>2. QED
    BY <2>1, StreamGoneFresh
<1>11. CASE OnWriteStreamHandshakeComplete \/ OnWriteStreamClose \/ BackendApplies \/ WriteElsewhere
  <2>1. UNCHANGED << listeners, tasks, current, cached, since, requests, changes >>
    BY <1>11 DEF OnWriteStreamHandshakeComplete, OnWriteStreamClose, BackendApplies,
                 WriteElsewhere, views, watching, store, history
  <2>2. QED
    BY <2>1, StayingKept, FreshKept
<1>12. CASE BackendTakesRequest \/ BackendSendsSnapshot
  BY <1>1, <1>12, BackendTakesRequestFresh, BackendSendsSnapshotFresh
<1>13. CASE UNCHANGED vars
  <2>1. UNCHANGED << listeners, tasks, current, cached, since, requests, changes >>
    BY <1>13 DEF vars, views, watching, store, history
  <2>2. QED
    BY <2>1, StayingKept, FreshKept
<1>14. QED
  BY <1>2, <1>3, <1>4, <1>5, <1>6, <1>7, <1>8, <1>9, <1>10, <1>11, <1>12, <1>13 DEF Next

\* A listener that waits is not on the way out.
LEMMA WaitingStay ==
  ASSUME ViewTypes, GetsInv, NEW g \in ToSet(listeners), g \notin raised
  PROVE  g \in Staying
<1>1. g \notin OpsOf("unlisten", tasks)
  BY DEF GetsInv
<1>2. QED
  BY <1>1, LeavesIsUnlistened DEF ViewTypes, Staying

LEMMA AnswersAreFresh ==
  ASSUME TypeInv, GetsInv, FreshInv, [Next]_vars, ~(raised' \subseteq raised), online' # "offline"
  PROVE  known' >= since
<1>1. Types /\ WatchInv /\ WriteInv
  BY DEF TypeInv
<1>2. raised' # raised
  OBVIOUS
<1>3. CASE AddFirstListener
  <2>1. CASE online = "offline"
    <3>1. watch # "stopped" /\ online' = online
      BY <1>1, <1>3, <2>1 DEF WatchInv, AddFirstListener
    <3>2. QED
      BY <2>1, <3>1
  <2>2. CASE online # "offline"
    <3>1. Raise(<< >>, cached, queue)
      BY <1>3, <2>2 DEF AddFirstListener
    <3>2. QED
      BY <1>2, <3>1, ToSetEmpty DEF Raise
  <2>3. QED
    BY <2>1, <2>2
<1>4. CASE AddListener
  <2>1. /\ Note(cached) /\ UNCHANGED online
        /\ Raise(IF current \/ online = "offline" THEN << Head(tasks).get >> ELSE << >>,
                 cached, queue)
    BY <1>4 DEF AddListener, watching
  <2>2. CASE current
    <3>1. cached >= since
      BY <1>1, <1>4, <2>2, SharedViewIsFresh
    <3>2. QED
      BY <1>2, <2>1, <3>1 DEF Note
  <2>3. CASE ~current
    <3>1. Raise(<< >>, cached, queue)
      BY <2>1, <2>3
    <3>2. QED
      BY <1>2, <3>1, ToSetEmpty DEF Raise
  <2>4. QED
    BY <2>2, <2>3
<1>5. CASE WriteMutations
  <2>1. Refresh(cached, queue') /\ queue' \in Seq(Get)
    <3>1. WriteTypes'
      BY <1>1, <1>5, WriteMutationsTypes
    <3>2. QED
      BY <1>5, <3>1 DEF WriteMutations, WriteTypes
  <2>2. raised' = raised
    BY <1>1, <2>1, RefreshIs DEF Types, AppTypes, CloudTypes, WriteTypes
  <2>3. QED
    BY <1>2, <2>2
<1>6. CASE OnWriteStreamMutationResult
  <2>1. Refresh(cached', queue') /\ queue' \in Seq(Get) /\ cached' \in 0..Len(cloud)
    <3>1. WriteTypes' /\ CloudTypes'
      BY <1>1, <1>6, ResultTypes
    <3>2. QED
      BY <1>6, <3>1 DEF OnWriteStreamMutationResult, WriteTypes, CloudTypes
  <2>2. raised' = raised
    BY <1>1, <2>1, RefreshIs DEF Types, AppTypes, CloudTypes, WriteTypes
  <2>3. QED
    BY <1>2, <2>2
<1>7. CASE OnWatchSnapshot
  <2>1. CASE ~IsActiveTarget
    BY <1>2, <1>7, <2>1 DEF OnWatchSnapshot
  <2>2. CASE IsActiveTarget
    <3>1. Note(cached') /\ IF current THEN Refresh(cached', queue) ELSE Raise(listeners, cached', queue)
      BY <1>7, <2>2 DEF OnWatchSnapshot
    <3>2. CASE current
      <4>1. cached' \in 0..Len(cloud) /\ queue \in Seq(Get)
        <5>1. CloudTypes' /\ cloud' = cloud
          BY <1>1, <1>7, OnWatchSnapshotTypes DEF OnWatchSnapshot
        <5>2. QED
          BY <1>1, <5>1 DEF CloudTypes, Types, WriteTypes
      <4>2. raised' = raised
        BY <1>1, <3>1, <3>2, <4>1, RefreshIs DEF Types, AppTypes
      <4>3. QED
        BY <1>2, <4>2
    <3>3. CASE ~current
      <4>1. raised' = raised \cup ToSet(listeners)
        BY <3>1, <3>3 DEF Raise
      <4>2. PICK g \in ToSet(listeners) : g \notin raised
        BY <4>1
      <4>3. g \in Staying
        BY <1>1, <4>2, WaitingStay DEF Types
      <4>4. cached' >= since
        BY <1>1, <1>7, <2>2, <4>3, SnapshotIsFresh
      <4>5. QED
        BY <1>2, <3>1, <4>4 DEF Note
    <3>4. QED
      BY <3>2, <3>3
  <2>3. QED
    BY <2>1, <2>2
<1>8. CASE OnWatchStreamClose \/ OnlineStateTimeout
  BY <1>2, <1>8 DEF OnWatchStreamClose, OnlineStateTimeout, GoOffline
<1>9. CASE Restart
  BY <1>9 DEF Restart
<1>10. CASE GetDocument \/ HandleEvent \/ RemoveListener \/ RemoveLastListener
            \/ OnWatchStreamOpen \/ OnTargetResponse \/ OnWriteStreamHandshakeComplete
  BY <1>2, <1>10 DEF GetDocument, HandleEvent, RemoveListener, RemoveLastListener, Unlisten,
       OnWatchStreamOpen, OnTargetResponse, OnWriteStreamHandshakeComplete, views
<1>11. CASE OnWriteStreamClose \/ RestartNetwork \/ BackendTakesRequest
            \/ BackendSendsSnapshot \/ BackendApplies \/ WriteElsewhere
  BY <1>2, <1>11 DEF OnWriteStreamClose, RestartNetwork, BackendTakesRequest,
       BackendSendsSnapshot, BackendApplies, WriteElsewhere, views
<1>12. CASE UNCHANGED vars
  BY <1>2, <1>12 DEF vars, views
<1>13. QED
  BY <1>3, <1>4, <1>5, <1>6, <1>7, <1>8, <1>9, <1>10, <1>11, <1>12 DEF Next

\* Unless it is offline, the client never answers a get with a document older
\* than the gets that are open, for any number of gets, changes and faults.
THEOREM FreshAnswers == Spec => FreshUnlessOffline
<1> DEFINE FreshStepOf == ~(raised' \subseteq raised) /\ online' # "offline" => known' >= since
<1>1. Init => TypeInv /\ GetsInv /\ FreshInv
  BY TypesInit, GetsInit, FreshInit
<1>2. TypeInv /\ GetsInv /\ FreshInv /\ [Next]_vars => (TypeInv /\ GetsInv /\ FreshInv)'
  BY TypesStep, GetsStep, FreshStep
<1>3. TypeInv /\ GetsInv /\ FreshInv /\ [Next]_vars => [FreshStepOf]_vars
  BY AnswersAreFresh
<1>4. QED
  BY <1>1, <1>2, <1>3, PTL DEF Spec, FreshUnlessOffline

-----------------------------------------------------------------------------
(* The order of the gets.                                                   *)

Before(S, T) == \A g \in S, h \in T : g < h

Ascending(s) == \A p, q \in DOMAIN s : p < q => s[p] < s[q]

Listening == ToSet(listeners)

ToListen == OpsOf("listen", tasks)

ToWrite == OpsOf("write", tasks)

\* Listeners are added, and writes are made, in the order of the gets.
TasksAscend(s) ==
  \A p, q \in DOMAIN s :
    p < q /\ s[p].op = s[q].op /\ s[p].op # "unlisten" => s[p].get < s[q].get

\* A listener is added after the writes that its get has to see.
TasksAfter(s, last) ==
  \A p, q \in DOMAIN s :
    p < q /\ s[p].op = "listen" /\ s[q].op = "write" => last[s[p].get] < s[q].get

\* The first events of some gets are in their order.
EventsAscend(s, some) ==
  \A q \in DOMAIN s : \A h \in some :
    h < s[q].get => \E p \in 1..q - 1 : s[p].get = h

OrderInv ==
  /\ Before(muted, Asked \cup Answered) /\ Before(Answered, Asked)
  /\ Before(Listening \ raised, ToListen) /\ Ascending(listeners)
  /\ TasksAscend(tasks)
  /\ EventsAscend(events, Answered)

WritesInv ==
  /\ ToWrite \cup ToSet(queue) \cup failed \subseteq muted
  /\ failed \cap (ToWrite \cup ToSet(queue)) = {}
  /\ Before(ToSet(queue), ToWrite) /\ Ascending(queue)

AfterInv ==
  /\ \A n \in Get : after[n] \in muted \cup {0}
  /\ \A n \in Listening \ raised, m \in ToWrite : after[n] < m
  /\ TasksAfter(tasks, after)

KnownInv == known <= cached

\* Nobody waits for a view that is synced or offline.
ShownInv == current \/ online = "offline" => Listening \subseteq raised

PhaseInv == OrderInv /\ WritesInv /\ AfterInv /\ KnownInv /\ ShownInv

LEMMA AskedIs ==
  /\ Asked = ToListen \cup (Listening \ raised)
  /\ Answered = GetsOf(events) \ muted
  /\ UnsavedWrites = ToWrite
  /\ Open = Asked \cup Answered
<1>1. /\ {u \in ToSet(tasks) : IsListen(u)} = {u \in ToSet(tasks) : u.op = "listen"}
      /\ {u \in ToSet(tasks) : IsWrite(u)} = {u \in ToSet(tasks) : u.op = "write"}
  BY DEF IsListen, IsWrite
<1>2. QED
  BY <1>1 DEF Asked, Answered, UnsavedWrites, Open, ToListen, ToWrite, Listening, OpsOf, GetsOf

LEMMA PhasesAreGets ==
  ASSUME Types, GetsInv
  PROVE  /\ Asked \cup Answered \cup ToListen \cup ToWrite \cup Listening \cup raised \cup muted
              \cup GetsOf(events) \subseteq 1..gets
         /\ gets \in 0..MaxGets /\ gets \in Nat /\ 1..gets \subseteq Get
         /\ \A g \in 1..gets : g \in Int
<1>1. /\ ToListen \subseteq GetsOf(tasks) /\ ToWrite \subseteq GetsOf(tasks)
      /\ GetsOf(tasks) \cup Listening \cup raised \cup muted \subseteq 1..gets
      /\ GetsOf(events) \subseteq raised
  BY OpsAreGets DEF ToListen, ToWrite, Listening, GetsInv
<1>2. gets \in 0..MaxGets /\ gets \in Nat /\ 1..gets \subseteq Get
  BY DEF Types, AppTypes, Get
<1>3. QED
  BY <1>1, <1>2, AskedIs

LEMMA TasksAppended ==
  ASSUME NEW s \in Seq(Task), NEW t \in Task, NEW last,
         TasksAscend(s), TasksAfter(s, last),
         t.op # "unlisten" => \A g \in OpsOf(t.op, s) : g < t.get,
         t.op = "write" => \A n \in OpsOf("listen", s) : last[n] < t.get
  PROVE  TasksAscend(Append(s, t)) /\ TasksAfter(Append(s, t), last)
<1>1. /\ Append(s, t) \in Seq(Task) /\ Len(Append(s, t)) = Len(s) + 1
      /\ \A i \in 1..Len(s) : Append(s, t)[i] = s[i]
      /\ Append(s, t)[Len(s) + 1] = t
  BY AppendProperties
<1>2. /\ DOMAIN s = 1..Len(s) /\ Len(s) \in Nat
      /\ DOMAIN Append(s, t) = 1..Len(Append(s, t))
  BY <1>1, LenProperties
<1>3. DOMAIN Append(s, t) = 1..Len(s) + 1
  BY <1>1, <1>2
<1> DEFINE u == Append(s, t)
<1>4. /\ \A p \in DOMAIN s : u[p] = s[p]
      /\ u[Len(s) + 1] = t
      /\ \A p, q \in DOMAIN u : p < q => p \in DOMAIN s /\ (q \in DOMAIN s \/ q = Len(s) + 1)
  BY <1>1, <1>2, <1>3
<1> HIDE DEF u
<1>5. \A p \in DOMAIN s : s[p].get \in OpsOf(s[p].op, s)
  BY DEF OpsOf, ToSet
<1>6. ASSUME NEW p \in DOMAIN u, NEW q \in DOMAIN u, p < q,
             u[p].op = u[q].op, u[p].op # "unlisten"
      PROVE  u[p].get < u[q].get
  <2>1. p \in DOMAIN s /\ u[p] = s[p]
    BY <1>4, <1>6
  <2>2. CASE q \in DOMAIN s
    BY <1>4, <1>6, <2>1, <2>2 DEF TasksAscend
  <2>3. CASE q = Len(s) + 1
    <3>1. u[q] = t /\ s[p].op = t.op /\ t.op # "unlisten"
      BY <1>4, <1>6, <2>1, <2>3
    <3>2. s[p].get \in OpsOf(t.op, s)
      BY <1>5, <2>1, <3>1
    <3>3. QED
      BY <2>1, <3>1, <3>2
  <2>4. QED
    BY <1>4, <1>6, <2>2, <2>3
<1>7. ASSUME NEW p \in DOMAIN u, NEW q \in DOMAIN u, p < q,
             u[p].op = "listen", u[q].op = "write"
      PROVE  last[u[p].get] < u[q].get
  <2>1. p \in DOMAIN s /\ u[p] = s[p]
    BY <1>4, <1>7
  <2>2. CASE q \in DOMAIN s
    BY <1>4, <1>7, <2>1, <2>2 DEF TasksAfter
  <2>3. CASE q = Len(s) + 1
    <3>1. u[q] = t /\ s[p].op = "listen" /\ t.op = "write"
      BY <1>4, <1>7, <2>1, <2>3
    <3>2. s[p].get \in OpsOf("listen", s)
      BY <1>5, <2>1, <3>1
    <3>3. QED
      BY <2>1, <3>1, <3>2
  <2>4. QED
    BY <1>4, <1>7, <2>2, <2>3
<1>8. TasksAscend(u)
  BY <1>6 DEF TasksAscend
<1>9. TasksAfter(u, last)
  BY <1>7 DEF TasksAfter
<1>10. QED
  BY <1>8, <1>9 DEF u

LEMMA TasksTail ==
  ASSUME NEW s \in Seq(Task), s # << >>, NEW last, TasksAscend(s), TasksAfter(s, last)
  PROVE  /\ TasksAscend(Tail(s)) /\ TasksAfter(Tail(s), last)
         /\ Head(s).op # "unlisten" => \A g \in OpsOf(Head(s).op, Tail(s)) : Head(s).get < g
         /\ Head(s).op = "listen" => \A m \in OpsOf("write", Tail(s)) : last[Head(s).get] < m
<1> DEFINE u == Tail(s)
<1>1. /\ Tail(s) \in Seq(Task) /\ Len(Tail(s)) = Len(s) - 1
      /\ \A i \in 1..Len(Tail(s)) : Tail(s)[i] = s[i + 1]
      /\ Len(s) \in Nat \ {0} /\ Head(s) = s[1]
  BY HeadTailProperties, EmptySeq
<1>2. DOMAIN s = 1..Len(s) /\ DOMAIN Tail(s) = 1..Len(s) - 1
  BY <1>1, LenProperties
<1>3. /\ \A i \in DOMAIN u : i + 1 \in DOMAIN s /\ u[i] = s[i + 1] /\ 1 < i + 1
      /\ \A i, j \in DOMAIN u : i < j => i + 1 < j + 1
      /\ 1 \in DOMAIN s
  BY <1>1, <1>2
<1> HIDE DEF u
<1>4. TasksAscend(u)
  BY <1>3 DEF TasksAscend
<1>5. TasksAfter(u, last)
  BY <1>3 DEF TasksAfter
<1>6. ASSUME Head(s).op # "unlisten", NEW g \in OpsOf(Head(s).op, u) PROVE Head(s).get < g
  <2>1. PICK i \in DOMAIN u : u[i].op = Head(s).op /\ u[i].get = g
    BY <1>6 DEF OpsOf, ToSet
  <2>2. s[i + 1].op = s[1].op /\ s[i + 1].get = g
    BY <1>1, <1>3, <2>1
  <2>3. QED
    BY <1>1, <1>3, <1>6, <2>1, <2>2 DEF TasksAscend
<1>7. ASSUME Head(s).op = "listen", NEW m \in OpsOf("write", u) PROVE last[Head(s).get] < m
  <2>1. PICK i \in DOMAIN u : u[i].op = "write" /\ u[i].get = m
    BY <1>7 DEF OpsOf, ToSet
  <2>2. s[i + 1].op = "write" /\ s[i + 1].get = m
    BY <1>3, <2>1
  <2>3. QED
    BY <1>1, <1>3, <1>7, <2>1, <2>2 DEF TasksAfter
<1>8. QED
  BY <1>4, <1>5, <1>6, <1>7 DEF u

LEMMA AscendingAppended ==
  ASSUME NEW S, NEW s \in Seq(S), NEW x \in S, Ascending(s), \A y \in ToSet(s) : y < x
  PROVE  Ascending(Append(s, x))
<1>1. /\ Append(s, x) \in Seq(S) /\ Len(Append(s, x)) = Len(s) + 1
      /\ \A i \in 1..Len(s) : Append(s, x)[i] = s[i]
      /\ Append(s, x)[Len(s) + 1] = x
  BY AppendProperties
<1>2. /\ DOMAIN s = 1..Len(s) /\ Len(s) \in Nat
      /\ DOMAIN Append(s, x) = 1..Len(Append(s, x))
  BY <1>1, LenProperties
<1>3. DOMAIN Append(s, x) = 1..Len(s) + 1
  BY <1>1, <1>2
<1> DEFINE u == Append(s, x)
<1>4. /\ \A p \in DOMAIN s : u[p] = s[p]
      /\ u[Len(s) + 1] = x
      /\ \A p, q \in DOMAIN u : p < q => p \in DOMAIN s /\ (q \in DOMAIN s \/ q = Len(s) + 1)
  BY <1>1, <1>2, <1>3
<1> HIDE DEF u
<1>5. \A p \in DOMAIN s : s[p] < x
  BY DEF ToSet
<1>6. Ascending(u)
  BY <1>4, <1>5 DEF Ascending
<1>7. QED
  BY <1>6 DEF u

LEMMA AscendingTail ==
  ASSUME NEW S, NEW s \in Seq(S), s # << >>, Ascending(s)
  PROVE  Ascending(Tail(s)) /\ \A y \in ToSet(Tail(s)) : Head(s) < y
<1> DEFINE u == Tail(s)
<1>1. /\ Tail(s) \in Seq(S) /\ Len(Tail(s)) = Len(s) - 1
      /\ \A i \in 1..Len(Tail(s)) : Tail(s)[i] = s[i + 1]
      /\ Len(s) \in Nat \ {0} /\ Head(s) = s[1]
  BY HeadTailProperties, EmptySeq
<1>2. DOMAIN s = 1..Len(s) /\ DOMAIN Tail(s) = 1..Len(s) - 1
  BY <1>1, LenProperties
<1>3. /\ \A i \in DOMAIN u : i + 1 \in DOMAIN s /\ u[i] = s[i + 1] /\ 1 < i + 1
      /\ \A i, j \in DOMAIN u : i < j => i + 1 < j + 1
      /\ 1 \in DOMAIN s
  BY <1>1, <1>2
<1> HIDE DEF u
<1>4. Ascending(u)
  BY <1>3 DEF Ascending
<1>5. \A i \in DOMAIN u : Head(s) < u[i]
  BY <1>1, <1>3 DEF Ascending
<1>6. \A y \in ToSet(u) : Head(s) < y
  BY <1>5 DEF ToSet
<1>7. QED
  BY <1>4, <1>6 DEF u

LEMMA ListenersAscend ==
  ASSUME ViewTypes, NEW some, Ascending(listeners)
  PROVE  Ascending(ListenersOf(some))
<1> DEFINE P == {p \in DOMAIN listeners : listeners[p] \in some}
           chosen == Picked(listeners, P)
<1>1. listeners \in Seq(Get) /\ P \in SUBSET DOMAIN listeners
  BY DEF ViewTypes
<1>2. ListenersOf(some) = chosen
  BY DEF ListenersOf
<1> HIDE DEF P
<1>3. /\ chosen \in Seq(Get) /\ Len(chosen) = Cardinality(P) /\ Cardinality(P) \in Nat
      /\ P \in SUBSET Int /\ IsFiniteSet(P)
      /\ \A n \in 1..Cardinality(P) : Nth(n, P) \in P /\ chosen[n] = listeners[Nth(n, P)]
  BY <1>1, PickedIs
<1> HIDE DEF chosen
<1>4. DOMAIN chosen = 1..Cardinality(P)
  BY <1>3, LenProperties
<1>5. ASSUME NEW m \in DOMAIN chosen, NEW n \in DOMAIN chosen, m < n
      PROVE  chosen[m] < chosen[n]
  <2>1. Nth(m, P) < Nth(n, P)
    BY <1>3, <1>4, <1>5, NthGrows
  <2>2. Nth(m, P) \in DOMAIN listeners /\ Nth(n, P) \in DOMAIN listeners
    BY <1>1, <1>3, <1>4
  <2>3. listeners[Nth(m, P)] < listeners[Nth(n, P)]
    BY <2>1, <2>2 DEF Ascending
  <2>4. QED
    BY <1>3, <1>4, <2>3
<1>6. QED
  BY <1>2, <1>5 DEF Ascending

\* The events that are left, when the one that is taken is of nobody.
LEMMA EventsTail ==
  ASSUME NEW s \in Seq(Event), s # << >>, NEW some, NEW less, less \subseteq some,
         EventsAscend(s, some), Head(s).get \notin less
  PROVE  EventsAscend(Tail(s), less)
<1> DEFINE u == Tail(s)
<1>1. /\ Tail(s) \in Seq(Event) /\ Len(Tail(s)) = Len(s) - 1
      /\ \A i \in 1..Len(Tail(s)) : Tail(s)[i] = s[i + 1]
      /\ Len(s) \in Nat \ {0} /\ Head(s) = s[1]
  BY HeadTailProperties, EmptySeq
<1>2. DOMAIN s = 1..Len(s) /\ DOMAIN u = 1..Len(s) - 1
  BY <1>1, LenProperties
<1>3. ASSUME NEW q \in DOMAIN u, NEW h \in less, h < u[q].get
      PROVE  \E p \in 1..q - 1 : u[p].get = h
  <2>1. q + 1 \in DOMAIN s /\ u[q] = s[q + 1] /\ h \in some
    BY <1>1, <1>2
  <2>2. PICK p \in 1..(q + 1) - 1 : s[p].get = h
    BY <1>3, <2>1 DEF EventsAscend
  <2>3. p # 1
    BY <1>1, <1>3, <2>2
  <2>4. p - 1 \in 1..q - 1 /\ u[p - 1] = s[p]
    <3>1. p - 1 \in 1..q - 1 /\ p - 1 \in 1..Len(Tail(s)) /\ (p - 1) + 1 = p
      BY <1>1, <1>2, <2>2, <2>3
    <3>2. QED
      BY <1>1, <3>1
  <2>5. QED
    BY <2>2, <2>4
<1>4. QED
  BY <1>3 DEF EventsAscend

\* Later events are of the same gets, or of later ones in their order.
LEMMA EventsConcat ==
  ASSUME NEW s \in Seq(Event), NEW t \in Seq(Event), NEW some, NEW more \in SUBSET Int,
         EventsAscend(s, some), some \subseteq GetsOf(s), more \subseteq some \cup GetsOf(t),
         Ascending([i \in DOMAIN t |-> t[i].get]),
         GetsOf(s) \subseteq Int, Before(GetsOf(s), more \ GetsOf(s)),
         \A g \in more \cap GetsOf(s) : g \in some
  PROVE  EventsAscend(s \o t, more)
<1> DEFINE u == s \o t
<1>1. /\ s \o t \in Seq(Event) /\ Len(s \o t) = Len(s) + Len(t)
      /\ \A i \in 1..Len(s) + Len(t) :
           (s \o t)[i] = IF i <= Len(s) THEN s[i] ELSE t[i - Len(s)]
  BY ConcatProperties
<1>2. /\ DOMAIN s = 1..Len(s) /\ Len(s) \in Nat /\ DOMAIN t = 1..Len(t) /\ Len(t) \in Nat
      /\ DOMAIN u = 1..Len(s) + Len(t)
  BY <1>1, LenProperties
<1>3. /\ \A i \in DOMAIN s : i \in DOMAIN u /\ u[i] = s[i]
      /\ \A i \in DOMAIN t : Len(s) + i \in DOMAIN u /\ u[Len(s) + i] = t[i]
      /\ \A i \in DOMAIN u : i \in DOMAIN s \/ i - Len(s) \in DOMAIN t
  <2>1. \A i \in DOMAIN t : Len(s) + i \in 1..Len(s) + Len(t) /\ ~(Len(s) + i <= Len(s))
                            /\ (Len(s) + i) - Len(s) = i
    BY <1>2
  <2>2. QED
    BY <1>1, <1>2, <2>1
<1> HIDE DEF u
<1>4. ASSUME NEW q \in DOMAIN u, NEW h \in more, h < u[q].get
      PROVE  \E p \in 1..q - 1 : u[p].get = h
  <2>1. CASE q \in DOMAIN s
    <3>1. u[q] = s[q] /\ s[q].get \in GetsOf(s)
      BY <1>3, <2>1 DEF GetsOf, ToSet
    <3>2. h \in GetsOf(s)
      <4>1. h \in Int /\ s[q].get \in Int /\ ~(s[q].get < h)
        BY <1>4, <3>1
      <4>2. QED
        BY <3>1, <4>1 DEF Before
    <3>3. h \in some
      BY <3>2
    <3>4. PICK p \in 1..q - 1 : s[p].get = h
      BY <1>4, <2>1, <3>1, <3>3 DEF EventsAscend
    <3>5. p \in DOMAIN s
      BY <1>2, <2>1
    <3>6. QED
      BY <1>3, <3>4, <3>5
  <2>2. CASE q \notin DOMAIN s
    <3> DEFINE i == q - Len(s)
    <3>1. i \in DOMAIN t /\ Len(s) + i = q
      BY <1>2, <1>3, <2>2
    <3> HIDE DEF i
    <3>2. u[q] = t[i]
      BY <1>3, <3>1
    <3>3. CASE h \in GetsOf(s)
      <4>1. PICK p \in DOMAIN s : s[p].get = h
        BY <3>3 DEF GetsOf, ToSet
      <4>2. p \in 1..q - 1 /\ u[p] = s[p]
        BY <1>2, <1>3, <3>1
      <4>3. QED
        BY <4>1, <4>2
    <3>4. CASE h \notin GetsOf(s)
      <4>1. h \in GetsOf(t)
        BY <3>4
      <4>2. PICK j \in DOMAIN t : t[j].get = h
        BY <4>1 DEF GetsOf, ToSet
      <4>3. ~(i < j) /\ i # j
        <5>1. t[j].get < t[i].get
          BY <1>4, <3>2, <4>2
        <5>2. t[j].get \in Int /\ t[i].get \in Int
          <6>1. t[j] \in Event /\ t[i] \in Event
            BY <1>2, <3>1, ElementOfSeq
          <6>2. QED
            BY <6>1 DEF Event, Get
        <5>3. i < j => t[i].get < t[j].get
          BY <3>1 DEF Ascending
        <5>4. QED
          BY <5>1, <5>2, <5>3
      <4>4. Len(s) + j \in 1..q - 1 /\ u[Len(s) + j] = t[j]
        BY <1>2, <1>3, <3>1, <4>3
      <4>5. QED
        BY <4>2, <4>4
    <3>5. QED
      BY <3>3, <3>4
  <2>3. QED
    BY <2>1, <2>2
<1>5. EventsAscend(u, more)
  BY <1>4 DEF EventsAscend
<1>6. QED
  BY <1>5 DEF u

-----------------------------------------------------------------------------
(* How the steps move gets from phase to phase.                             *)

LEMMA PhasesNext ==
  /\ Asked' = ToListen' \cup (Listening' \ raised')
  /\ Answered' = GetsOf(events') \ muted'
  /\ UnsavedWrites' = ToWrite'
<1>1. ( /\ Asked = ToListen \cup (Listening \ raised)
        /\ Answered = GetsOf(events) \ muted
        /\ UnsavedWrites = ToWrite
        /\ Open = Asked \cup Answered )'
  BY AskedIs, PTL
<1>2. QED
  BY <1>1

\* An answer is of a get that asked, and does not change which gets are open.
LEMMA RaisedPhases ==
  ASSUME Types, GetsInv, OrderInv, NEW to \in Seq(Get), Ascending(to),
         ToSet(to) \subseteq ToListen \cup Listening,
         NEW version \in 0..Len(cloud), NEW batches \in Seq(Get),
         Raise(to, version, batches), muted' = muted
  PROVE  /\ Answered' = Answered \cup (ToSet(to) \ raised)
         /\ ToSet(to) \ raised \subseteq Asked
         /\ raised' = raised \cup ToSet(to)
         /\ EventsAscend(events', Answered')
<1> DEFINE t == [i \in DOMAIN to |-> [get |-> to[i], seen |-> LocalView(version, batches)]]
<1>1. events \in Seq(Event) /\ events' = events \o t /\ raised' = raised \cup ToSet(to)
  BY DEF Types, AppTypes, Raise
<1>2. t \in Seq(Event)
  <2>1. LocalView(version, batches) \in Int \cup {NoDocument}
    BY LocalViewType DEF Types
  <2>2. to \in [1..Len(to) -> Get] /\ Len(to) \in Nat /\ DOMAIN to = 1..Len(to)
    BY LenProperties
  <2>3. t \in [1..Len(to) -> Event]
    BY <2>1, <2>2 DEF Event
  <2>4. QED
    BY <2>2, <2>3, IsASeq
<1>3. DOMAIN t = DOMAIN to /\ \A i \in DOMAIN to : t[i].get = to[i]
  OBVIOUS
<1> HIDE DEF t
<1>4. [i \in DOMAIN t |-> t[i].get] = [i \in DOMAIN to |-> to[i]]
  BY <1>3
<1>5. Ascending([i \in DOMAIN t |-> t[i].get])
  BY <1>4 DEF Ascending
<1>6. GetsOf(events') = GetsOf(events) \cup ToSet(to)
  BY <1>1, RaiseGets DEF Types
<1>7. GetsOf(t) = ToSet(to)
  BY <1>3 DEF GetsOf, ToSet
<1>8. Asked \cup GetsOf(events) \cup muted \subseteq 1..gets /\ \A g \in 1..gets : g \in Int
  BY PhasesAreGets
<1>9. ToSet(to) \cap raised \subseteq muted \cup Answered
  BY AskedIs DEF GetsInv, ToListen, Listening
<1>10. ToSet(to) \ raised \subseteq Asked \ muted
  BY AskedIs DEF GetsInv, ToListen, Listening
<1>11. Answered' = Answered \cup (ToSet(to) \ raised)
  <2>1. Answered = GetsOf(events) \ muted /\ Answered' = GetsOf(events') \ muted'
    BY AskedIs, PhasesNext
  <2>2. QED
    BY <1>6, <1>9, <1>10, <2>1
<1>12. GetsOf(events) \subseteq muted \cup Answered /\ Answered \subseteq GetsOf(events)
       /\ GetsOf(events) \subseteq raised
  BY AskedIs DEF GetsInv
<1>13. Answered' \in SUBSET Int /\ Answered' \subseteq Answered \cup GetsOf(t)
       /\ GetsOf(events) \subseteq Int
  BY <1>7, <1>8, <1>10, <1>11, <1>12
<1>14. Before(GetsOf(events), Answered' \ GetsOf(events))
  <2>1. Answered' \ GetsOf(events) \subseteq Asked
    BY <1>10, <1>11, <1>12
  <2>2. Before(muted, Asked \cup Answered) /\ Before(Answered, Asked)
    BY DEF OrderInv
  <2>3. QED
    BY <1>12, <2>1, <2>2 DEF Before
<1>15. \A g \in Answered' \cap GetsOf(events) : g \in Answered
  BY <1>10, <1>11, <1>12
<1>16. EventsAscend(events \o t, Answered')
  <2>1. EventsAscend(events, Answered)
    BY DEF OrderInv
  <2>2. QED
    BY <1>1, <1>2, <1>5, <1>12, <1>13, <1>14, <1>15, <2>1, EventsConcat
<1>17. QED
  BY <1>1, <1>10, <1>11, <1>16

\* The listeners, and those among them that wait, are in order.
LEMMA ListenersAreInOrder ==
  ASSUME Types, OrderInv
  PROVE  /\ Ascending(listeners) /\ Ascending(Waiting)
         /\ \A some : Ascending(ListenersOf(some))
<1>1. Ascending(listeners)
  BY DEF OrderInv
<1>2. \A some : Ascending(ListenersOf(some))
  BY <1>1, ListenersAscend DEF Types
<1>3. QED
  BY <1>1, <1>2 DEF Waiting

\* A snapshot is shown to all who wait, or to none of them.
LEMMA ShownPhases ==
  ASSUME Types, GetsInv, OrderInv, NEW to \in Seq(Get), Ascending(to),
         ToSet(to) \subseteq Listening,
         Listening \ raised \subseteq ToSet(to) \/ ToSet(to) \subseteq raised,
         NEW version \in 0..Len(cloud), NEW batches \in Seq(Get),
         Raise(to, version, batches), ToListen' = ToListen, TasksAscend(tasks'),
         UNCHANGED << muted, listeners >>
  PROVE  /\ OrderInv' /\ Listening' = Listening
         /\ Asked' = Asked \ ToSet(to)
         /\ Answered' = Answered \cup (ToSet(to) \ raised)
         /\ ToSet(to) \subseteq raised => Asked' = Asked /\ Answered' = Answered
         /\ ~(ToSet(to) \subseteq raised) => Asked' = ToListen
<1>1. /\ Answered' = Answered \cup (ToSet(to) \ raised)
      /\ ToSet(to) \ raised \subseteq Asked
      /\ raised' = raised \cup ToSet(to)
      /\ EventsAscend(events', Answered')
  BY RaisedPhases
<1>2. Listening' = Listening
  BY DEF Listening
<1>3. /\ Asked = ToListen \cup (Listening \ raised)
      /\ Asked' = ToListen \cup (Listening \ (raised \cup ToSet(to)))
      /\ ToListen \cap (Listening \cup raised) = {}
  BY <1>1, <1>2, AskedIs, PhasesNext DEF GetsInv, ToListen, Listening
<1>4. /\ Asked' = Asked \ ToSet(to)
      /\ ToSet(to) \subseteq raised => Asked' = Asked /\ Answered' = Answered
      /\ ~(ToSet(to) \subseteq raised) => Asked' = ToListen
  BY <1>1, <1>3
<1>5. Before(muted, Asked' \cup Answered')
  <2>1. Asked' \cup Answered' \subseteq Asked \cup Answered
    BY <1>1, <1>4
  <2>2. QED
    BY <2>1 DEF OrderInv, Before
<1>6. Before(Answered', Asked')
  <2>1. CASE ToSet(to) \subseteq raised
    BY <1>4, <2>1 DEF OrderInv
  <2>2. CASE ~(ToSet(to) \subseteq raised)
    <3>1. Asked' = ToListen /\ Answered' \subseteq Answered \cup (Listening \ raised)
      BY <1>1, <1>4, <2>2
    <3>2. Before(Answered, ToListen) /\ Before(Listening \ raised, ToListen)
      BY <1>3 DEF OrderInv, Before
    <3>3. QED
      BY <3>1, <3>2 DEF Before
  <2>3. QED
    BY <2>1, <2>2
<1>7. Before(Listening' \ raised', ToListen')
  <2>1. Listening' \ raised' \subseteq Listening \ raised
    BY <1>1, <1>2
  <2>2. QED
    BY <2>1 DEF OrderInv, Before
<1>8. QED
  BY <1>1, <1>2, <1>4, <1>5, <1>6, <1>7 DEF OrderInv

\* A refreshed view is shown to nobody who waits.
LEMMA RefreshPhases ==
  ASSUME Types, GetsInv, OrderInv,
         NEW version \in 0..Len(cloud), NEW batches \in Seq(Get),
         Refresh(version, batches), ToListen' = ToListen, TasksAscend(tasks'),
         UNCHANGED << muted, listeners >>
  PROVE  /\ OrderInv' /\ Listening' = Listening /\ raised' = raised
         /\ Asked' = Asked /\ Answered' = Answered
<1> DEFINE to == IF LocalView(version, batches) # LocalView(cached, queue)
                 THEN ListenersOf(raised) ELSE << >>
<1>1. Raise(to, version, batches)
  BY DEF Refresh
<1>2. to \in Seq(Get) /\ ToSet(to) \subseteq Listening \cap raised /\ Ascending(to)
  <2>1. /\ ListenersOf(raised) \in Seq(Get)
        /\ ToSet(ListenersOf(raised)) \subseteq Listening \cap raised
        /\ Ascending(ListenersOf(raised))
    BY ListenersOfIs, ListenersAreInOrder DEF Types, Listening
  <2>2. << >> \in Seq(Get) /\ ToSet(<< >>) = {} /\ Ascending(<< >>)
    BY ToSetEmpty DEF Ascending
  <2>3. QED
    BY <2>1, <2>2
<1> HIDE DEF to
<1>3. ToSet(to) \subseteq raised /\ ToSet(to) \subseteq Listening
  BY <1>2
<1>4. OrderInv' /\ Listening' = Listening /\ Asked' = Asked /\ Answered' = Answered
  BY <1>1, <1>2, <1>3, ShownPhases
<1>5. raised' = raised
  BY <1>1, <1>3 DEF Raise
<1>6. QED
  BY <1>4, <1>5

\* What the tasks know of the writes, when nothing is called or added.
LEMMA AfterKept ==
  ASSUME AfterInv, muted \subseteq muted', ToWrite' \subseteq ToWrite,
         Listening' \ raised' \subseteq Listening \ raised, TasksAfter(tasks', after),
         UNCHANGED after
  PROVE  AfterInv'
BY DEF AfterInv

LEMMA WritesKept ==
  ASSUME WritesInv, UNCHANGED << tasks, queue, failed, muted >>
  PROVE  WritesInv'
<1>1. ToWrite' = ToWrite
  BY DEF ToWrite
<1>2. QED
  BY <1>1 DEF WritesInv

LEMMA GetDocumentPhases ==
  ASSUME Types, GetsInv, PhaseInv, GetDocument
  PROVE  /\ PhaseInv'
         /\ Asked' = Asked \cup {gets + 1} /\ Answered' = Answered /\ ToWrite' = ToWrite
<1> DEFINE g == gets + 1
           t == [op |-> "listen", get |-> g]
<1>1. /\ gets < MaxGets /\ gets' = g /\ tasks' = Append(tasks, t)
      /\ after' = [after EXCEPT ![g] = IF UnsavedWrites = {} THEN 0 ELSE Max(UnsavedWrites)]
      /\ UNCHANGED << events, muted, listeners, raised, current, online, cached, queue,
                      failed, known >>
  BY DEF GetDocument, watching, store, writing
<1>2. /\ Asked \cup Answered \cup ToListen \cup ToWrite \cup Listening \cup raised \cup muted
           \cup GetsOf(events) \subseteq 1..gets
      /\ gets \in 0..MaxGets /\ gets \in Nat
  BY PhasesAreGets
<1>3. g \in Get /\ t \in Task /\ t.op = "listen" /\ t.get = g /\ \A h \in 1..gets : h < g
  BY <1>1, <1>2 DEF Get, Task
<1> HIDE DEF t
<1>4. tasks \in Seq(Task) /\ OpsOf("listen", tasks) \subseteq 1..gets
  BY <1>2 DEF Types, ViewTypes, ToListen
<1>5. /\ ToListen' = ToListen \cup {g} /\ ToWrite' = ToWrite /\ Listening' = Listening
  <2>1. \A op : OpsOf(op, tasks') = OpsOf(op, tasks) \cup IF t.op = op THEN {t.get} ELSE {}
    BY <1>1, <1>3, <1>4, OpsAppended
  <2>2. /\ OpsOf("listen", tasks') = OpsOf("listen", tasks) \cup {g}
        /\ OpsOf("write", tasks') = OpsOf("write", tasks)
    BY <1>3, <2>1
  <2>3. QED
    BY <1>1, <2>2 DEF ToListen, ToWrite, Listening
<1>6. TasksAscend(tasks') /\ TasksAfter(tasks', after)
  <2>1. \A h \in OpsOf("listen", tasks) : h < t.get
    BY <1>3, <1>4
  <2>2. TasksAscend(tasks) /\ TasksAfter(tasks, after)
    BY DEF PhaseInv, OrderInv, AfterInv
  <2>3. QED
    BY <1>1, <1>3, <1>4, <2>1, <2>2, TasksAppended
<1>7. Asked' = Asked \cup {g} /\ Answered' = Answered
  BY <1>1, <1>5, AskedIs, PhasesNext
<1> HIDE DEF g
<1>8. OrderInv'
  <2>1. Before(muted', Asked' \cup Answered') /\ Before(Answered', Asked')
    BY <1>1, <1>2, <1>3, <1>7 DEF PhaseInv, OrderInv, Before
  <2>2. Before(Listening' \ raised', ToListen')
    BY <1>1, <1>2, <1>3, <1>5 DEF PhaseInv, OrderInv, Before
  <2>3. EventsAscend(events', Answered') /\ Ascending(listeners')
    BY <1>1, <1>7 DEF PhaseInv, OrderInv
  <2>4. QED
    BY <1>6, <2>1, <2>2, <2>3 DEF OrderInv
<1>9. WritesInv'
  BY <1>1, <1>5 DEF PhaseInv, WritesInv
<1>10. AfterInv'
  <2>1. after \in [Get -> 0..MaxGets]
    BY DEF Types, AppTypes
  <2>2. \A h \in Get : h # g => after'[h] = after[h]
    BY <1>1, <2>1
  <2>3. after'[g] = IF UnsavedWrites = {} THEN 0 ELSE Max(UnsavedWrites)
    BY <1>1, <1>3, <2>1
  <2>4. after'[g] \in muted \cup {0}
    <3>1. UnsavedWrites = ToWrite /\ ToWrite \subseteq muted /\ ToWrite \subseteq Get
      BY <1>2, AskedIs, PhasesAreGets DEF PhaseInv, WritesInv
    <3>2. UnsavedWrites # {} => Max(UnsavedWrites) \in UnsavedWrites
      BY <3>1, LatestIs
    <3>3. QED
      BY <2>3, <3>1, <3>2
  <2>5. \A n \in Get : after'[n] \in muted' \cup {0}
    BY <1>1, <2>2, <2>4 DEF PhaseInv, AfterInv
  <2>6. \A n \in Listening' \ raised', m \in ToWrite' : after'[n] < m
    <3>1. \A n \in Listening : n \in Get /\ n # g
      BY <1>2, <1>3, PhasesAreGets
    <3>2. QED
      BY <1>1, <1>5, <2>2, <3>1 DEF PhaseInv, AfterInv
  <2>7. TasksAfter(tasks', after')
    <3>1. tasks' \in Seq(Task)
      BY <1>1, <1>3, <1>4, AppendProperties
    <3>2. ASSUME NEW p \in DOMAIN tasks', NEW q \in DOMAIN tasks', p < q,
                 tasks'[p].op = "listen", tasks'[q].op = "write"
          PROVE  after'[tasks'[p].get] < tasks'[q].get
      <4>1. /\ Len(tasks) \in Nat /\ DOMAIN tasks' = 1..Len(tasks) + 1 /\ DOMAIN tasks = 1..Len(tasks)
            /\ \A i \in 1..Len(tasks) : tasks'[i] = tasks[i]
        <5>1. /\ Len(tasks') = Len(tasks) + 1
              /\ \A i \in 1..Len(tasks) : tasks'[i] = tasks[i]
          BY <1>1, <1>3, <1>4, AppendProperties
        <5>2. QED
          BY <1>4, <3>1, <5>1, LenProperties
      <4>2. p \in DOMAIN tasks /\ tasks'[p] = tasks[p]
        BY <3>2, <4>1
      <4>3. tasks[p].get \in OpsOf("listen", tasks)
        BY <3>2, <4>2 DEF OpsOf, ToSet
      <4>4. tasks[p].get \in Get /\ tasks[p].get # g
        BY <1>2, <1>3, <1>4, <4>3, PhasesAreGets
      <4>5. after[tasks'[p].get] < tasks'[q].get
        BY <1>6, <3>2 DEF TasksAfter
      <4>6. QED
        BY <2>2, <4>2, <4>4, <4>5
    <3>3. QED
      BY <3>2 DEF TasksAfter
  <2>8. QED
    BY <2>5, <2>6, <2>7 DEF AfterInv
<1>11. KnownInv' /\ ShownInv'
  BY <1>1, <1>5 DEF PhaseInv, KnownInv, ShownInv
<1>12. QED
  BY <1>5, <1>7, <1>8, <1>9, <1>10, <1>11 DEF PhaseInv, g

\* The oldest event of a get that is not muted is the next one.
LEMMA HandledIs ==
  ASSUME Types, GetsInv, OrderInv, HandleEvent
  PROVE  /\ events \in Seq(Event) /\ events # << >> /\ events' = Tail(events)
         /\ Head(events) \in Event /\ Head(events).get \in 1..gets
         /\ GetsOf(events) = {Head(events).get} \cup GetsOf(events')
         /\ \A h \in Answered : Head(events).get <= h
         /\ Head(events).get \notin muted => Head(events).get \in Answered
<1> DEFINE e == Head(events)
<1>1. events \in Seq(Event) /\ events # << >> /\ events' = Tail(events)
  BY DEF Types, AppTypes, HandleEvent
<1>2. /\ Len(events) \in Nat \ {0} /\ e = events[1] /\ DOMAIN events = 1..Len(events)
      /\ e \in Event
  BY <1>1, HeadTailProperties, EmptySeq, LenProperties
<1>3. ToSet(events) = {e} \cup ToSet(events')
  BY <1>1, ToSetTail
<1> HIDE DEF e
<1>4. GetsOf(events) = {e.get} \cup GetsOf(events')
  BY <1>3 DEF GetsOf
<1>5. /\ GetsOf(events) \subseteq 1..gets /\ Answered = GetsOf(events) \ muted
      /\ \A g \in 1..gets : g \in Int
  BY PhasesAreGets, AskedIs
<1>6. ASSUME NEW h \in Answered PROVE e.get <= h
  <2>1. ~(h < e.get)
    <3>1. EventsAscend(events, Answered)
      BY DEF OrderInv
    <3>2. 1 \in DOMAIN events
      BY <1>2
    <3>3. h < events[1].get => \E p \in 1..1 - 1 : events[p].get = h
      BY <1>6, <3>1, <3>2 DEF EventsAscend
    <3>4. QED
      BY <1>2, <3>3
  <2>2. h \in Int /\ e.get \in Int
    BY <1>4, <1>5
  <2>3. QED
    BY <2>1, <2>2
<1>7. QED
  BY <1>1, <1>2, <1>4, <1>5, <1>6 DEF e

\* The next event is dropped, or taken by its get.
LEMMA HandleEventPhases ==
  ASSUME Types, GetsInv, OrderInv, WritesInv, AfterInv, HandleEvent, NEW g, g = Head(events).get
  PROVE  /\ Listening' = Listening /\ ToListen' = ToListen /\ Asked' = Asked
         /\ TasksAscend(tasks') /\ TasksAfter(tasks', after)
         /\ \/ /\ g \in muted /\ Answered' = Answered /\ ToWrite' = ToWrite
               /\ UNCHANGED << muted, failed >>
            \/ /\ g \in Answered /\ Answered' = Answered \ {g} /\ muted' = muted \cup {g}
               /\ \/ /\ Head(events).seen = NoDocument
                     /\ ToWrite' = ToWrite /\ failed' = failed \cup {g}
                  \/ /\ Head(events).seen # NoDocument
                     /\ ToWrite' = ToWrite \cup {g} /\ failed' = failed
<1> DEFINE e == Head(events)
<1>1. /\ events \in Seq(Event) /\ e \in Event /\ g = e.get /\ g \in 1..gets
      /\ GetsOf(events) = {g} \cup GetsOf(events')
      /\ g \notin muted => g \in Answered
      /\ g \in Get
  BY HandledIs, PhasesAreGets
<1>2. UNCHANGED << gets, listeners, raised >>
  BY DEF HandleEvent
<1>3. Listening' = Listening
  BY <1>2 DEF Listening
<1>4. Answered = GetsOf(events) \ muted /\ Answered' = GetsOf(events') \ muted'
      /\ Asked = ToListen \cup (Listening \ raised)
      /\ Asked' = ToListen' \cup (Listening' \ raised')
  BY AskedIs, PhasesNext
<1>5. /\ tasks \in Seq(Task) /\ TasksAscend(tasks) /\ TasksAfter(tasks, after)
  BY DEF Types, ViewTypes, OrderInv, AfterInv
<1>6. CASE g \in muted
  <2>1. UNCHANGED << muted, tasks, failed >>
    BY <1>1, <1>6 DEF HandleEvent
  <2> HIDE DEF e
  <2>2. ToListen' = ToListen /\ ToWrite' = ToWrite
    BY <2>1 DEF ToListen, ToWrite
  <2>3. Answered' = Answered
    BY <1>1, <1>4, <1>6, <2>1
  <2>4. Asked' = Asked
    BY <1>2, <1>3, <1>4, <2>2
  <2>5. TasksAscend(tasks') /\ TasksAfter(tasks', after)
    BY <1>5, <2>1
  <2>6. QED
    BY <1>3, <1>6, <2>1, <2>2, <2>3, <2>4, <2>5
<1>7. CASE g \notin muted
  <2> DEFINE off == [op |-> "unlisten", get |-> g]
             save == [op |-> "write", get |-> g]
  <2>1. /\ muted' = muted \cup {g}
        /\ tasks' = tasks \o << off >> \o IF e.seen = NoDocument THEN << >> ELSE << save >>
        /\ failed' = IF e.seen = NoDocument THEN failed \cup {g} ELSE failed
    BY <1>1, <1>7 DEF HandleEvent
  <2>2. /\ off \in Task /\ off.op = "unlisten"
        /\ save \in Task /\ save.op = "write" /\ save.get = g
    BY <1>1 DEF Task
  <2> HIDE DEF e, off, save
  <2> DEFINE once == Append(tasks, off)
             twice == Append(once, save)
  <2>3. once \in Seq(Task)
    BY <1>5, <2>2, AppendProperties
  <2>4. tasks \o << off >> = once /\ once \o << save >> = twice /\ once \o << >> = once
    BY <1>5, <2>2, <2>3, AppendIsConcat, ConcatEmptySeq
  <2>5. tasks' = IF e.seen = NoDocument THEN once ELSE twice
    BY <2>1, <2>4
  <2>6. /\ OpsOf("listen", once) = OpsOf("listen", tasks)
        /\ OpsOf("write", once) = OpsOf("write", tasks)
    <3>1. \A op : OpsOf(op, once) = OpsOf(op, tasks) \cup IF off.op = op THEN {off.get} ELSE {}
      BY <1>5, <2>2, OpsAppended
    <3> HIDE DEF once
    <3>2. QED
      BY <2>2, <3>1
  <2>7. TasksAscend(once) /\ TasksAfter(once, after)
    BY <1>5, <2>2, TasksAppended
  <2> HIDE DEF once
  <2>8. /\ OpsOf("listen", twice) = OpsOf("listen", tasks)
        /\ OpsOf("write", twice) = OpsOf("write", tasks) \cup {g}
    <3>1. \A op : OpsOf(op, twice) = OpsOf(op, once) \cup IF save.op = op THEN {save.get} ELSE {}
      BY <2>2, <2>3, OpsAppended
    <3> HIDE DEF twice
    <3>2. QED
      BY <2>2, <2>6, <3>1
  <2>9. TasksAscend(twice) /\ TasksAfter(twice, after)
    <3>1. \A h \in OpsOf("write", once) : h < save.get
      <4>1. Before(muted, Answered) /\ ToWrite \subseteq muted
        BY DEF OrderInv, WritesInv, Before
      <4>2. QED
        BY <1>1, <1>7, <2>2, <2>6, <4>1 DEF Before, ToWrite
    <3>2. \A n \in OpsOf("listen", once) : after[n] < save.get
      <4>1. \A n \in ToListen : after[n] \in muted \cup {0}
        BY PhasesAreGets DEF AfterInv
      <4>2. Before(muted, Answered) /\ g > 0
        BY <1>1 DEF OrderInv, Before, Get
      <4>3. QED
        BY <1>1, <1>7, <2>2, <2>6, <4>1, <4>2 DEF Before, ToListen
    <3>3. QED
      BY <2>2, <2>3, <2>7, <3>1, <3>2, TasksAppended
  <2> HIDE DEF twice
  <2>10. /\ ToListen' = ToListen /\ TasksAscend(tasks') /\ TasksAfter(tasks', after)
         /\ ToWrite' = IF e.seen = NoDocument THEN ToWrite ELSE ToWrite \cup {g}
    <3>1. CASE e.seen = NoDocument
      BY <2>5, <2>6, <2>7, <3>1 DEF ToListen, ToWrite
    <3>2. CASE e.seen # NoDocument
      BY <2>5, <2>8, <2>9, <3>2 DEF ToListen, ToWrite
    <3>3. QED
      BY <3>1, <3>2
  <2>11. Answered' = Answered \ {g} /\ g \in Answered
    BY <1>1, <1>4, <1>7, <2>1
  <2>12. Asked' = Asked
    BY <1>2, <1>3, <1>4, <2>10
  <2>13. QED
    BY <1>3, <2>1, <2>10, <2>11, <2>12 DEF e
<1>8. QED
  BY <1>6, <1>7

LEMMA HandleEventPhaseInv ==
  ASSUME Types, GetsInv, PhaseInv, HandleEvent
  PROVE  PhaseInv'
<1> DEFINE e == Head(events)
           g == e.get
<1>1. OrderInv /\ WritesInv /\ AfterInv /\ KnownInv /\ ShownInv
  BY DEF PhaseInv
<1>2. UNCHANGED << gets, listeners, raised, current, online, cached, queue, after, known >>
  BY DEF HandleEvent, watching, writing, store
<1>3. /\ Listening' = Listening /\ ToListen' = ToListen /\ Asked' = Asked
      /\ TasksAscend(tasks') /\ TasksAfter(tasks', after)
      /\ \/ /\ g \in muted /\ Answered' = Answered /\ ToWrite' = ToWrite
            /\ UNCHANGED << muted, failed >>
         \/ /\ g \in Answered /\ Answered' = Answered \ {g} /\ muted' = muted \cup {g}
            /\ \/ /\ e.seen = NoDocument
                  /\ ToWrite' = ToWrite /\ failed' = failed \cup {g}
               \/ /\ e.seen # NoDocument
                  /\ ToWrite' = ToWrite \cup {g} /\ failed' = failed
  BY <1>1, HandleEventPhases
<1>4. \A h \in Answered : g <= h
  BY <1>1, HandledIs
<1>5. /\ events \in Seq(Event) /\ events # << >> /\ events' = Tail(events)
  BY <1>1, HandledIs
<1>6. /\ Asked \cup Answered \cup ToWrite \cup Listening \cup muted \subseteq 1..gets
      /\ 1..gets \subseteq Get /\ \A h \in 1..gets : h \in Int
  BY PhasesAreGets
<1>7. EventsAscend(events', Answered')
  <2>1. Answered' \subseteq Answered /\ g \notin Answered'
    <3>1. g \in muted => g \notin Answered
      BY AskedIs
    <3>2. QED
      BY <1>3, <3>1
  <2>2. EventsAscend(events, Answered)
    BY <1>1 DEF OrderInv
  <2>3. QED
    BY <1>5, <2>1, <2>2, EventsTail
<1> HIDE DEF e, g
<1>8. OrderInv'
  <2>1. Before(muted', Asked' \cup Answered')
    <3>1. CASE g \in muted /\ Answered' = Answered /\ UNCHANGED muted
      BY <1>1, <1>3, <3>1 DEF OrderInv
    <3>2. CASE g \in Answered /\ Answered' = Answered \ {g} /\ muted' = muted \cup {g}
      <4>1. ASSUME NEW h \in Asked' \cup Answered' PROVE g < h
        <5>1. CASE h \in Asked
          BY <1>1, <3>2, <5>1 DEF OrderInv, Before
        <5>2. CASE h \in Answered'
          <6>1. h \in Answered /\ h # g /\ g <= h
            BY <1>4, <3>2, <5>2
          <6>2. h \in Int /\ g \in Int
            BY <1>6, <3>2, <6>1
          <6>3. QED
            BY <6>1, <6>2
        <5>3. QED
          BY <1>3, <4>1, <5>1, <5>2
      <4>2. Before(muted, Asked' \cup Answered')
        BY <1>1, <1>3, <3>2 DEF OrderInv, Before
      <4>3. QED
        BY <3>2, <4>1, <4>2 DEF Before
    <3>3. QED
      BY <1>3, <3>1, <3>2
  <2>2. Before(Answered', Asked')
    BY <1>1, <1>3 DEF OrderInv, Before
  <2>3. Before(Listening' \ raised', ToListen') /\ Ascending(listeners')
    BY <1>1, <1>2, <1>3 DEF OrderInv
  <2>4. QED
    BY <1>3, <1>7, <2>1, <2>2, <2>3 DEF OrderInv
<1>9. WritesInv'
  <2>1. queue' = queue
    BY <1>2
  <2>2. CASE ToWrite' = ToWrite /\ UNCHANGED << muted, failed >>
    BY <1>1, <2>1, <2>2 DEF WritesInv
  <2>3. CASE g \in Answered /\ muted' = muted \cup {g}
    <3>1. g \notin muted /\ \A h \in ToSet(queue) : h < g
      <4>1. ToSet(queue) \subseteq muted /\ Before(muted, Answered)
        BY <1>1 DEF WritesInv, OrderInv, Before
      <4>2. QED
        BY <2>3, <4>1, AskedIs DEF Before
    <3>2. ToWrite' \cup ToSet(queue') \cup failed' \subseteq muted'
      BY <1>1, <1>3, <2>1, <2>3 DEF WritesInv
    <3>3. failed' \cap (ToWrite' \cup ToSet(queue')) = {}
      <4>1. g \notin failed /\ g \notin ToWrite /\ g \notin ToSet(queue)
            /\ failed \cap (ToWrite \cup ToSet(queue)) = {}
        BY <1>1, <3>1 DEF WritesInv
      <4>2. QED
        BY <1>3, <2>1, <2>3, <3>1, <4>1
    <3>4. Before(ToSet(queue'), ToWrite')
      BY <1>1, <1>3, <2>1, <2>3, <3>1 DEF WritesInv, Before
    <3>5. QED
      BY <1>1, <2>1, <3>2, <3>3, <3>4 DEF WritesInv
  <2>4. QED
    BY <1>3, <2>2, <2>3
<1>10. AfterInv'
  <2>1. \A n \in Get : after'[n] \in muted' \cup {0}
    BY <1>1, <1>2, <1>3 DEF AfterInv
  <2>2. ASSUME NEW n \in Listening' \ raised', NEW m \in ToWrite' PROVE after'[n] < m
    <3>1. n \in Listening \ raised /\ n \in Get /\ after' = after
      BY <1>2, <1>3, <1>6
    <3>2. CASE m \in ToWrite
      BY <1>1, <3>1, <3>2 DEF AfterInv
    <3>3. CASE m \notin ToWrite
      <4>1. m = g /\ g \in Answered
        BY <1>3, <2>2, <3>3
      <4>2. after[n] \in muted \cup {0} /\ g > 0
        BY <1>1, <1>6, <3>1, <4>1 DEF AfterInv
      <4>3. QED
        BY <1>1, <3>1, <4>1, <4>2 DEF OrderInv, Before
    <3>4. QED
      BY <3>2, <3>3
  <2>3. TasksAfter(tasks', after')
    BY <1>2, <1>3
  <2>4. QED
    BY <2>1, <2>2, <2>3 DEF AfterInv
<1>11. KnownInv' /\ ShownInv'
  BY <1>1, <1>2, <1>3 DEF KnownInv, ShownInv
<1>12. QED
  BY <1>8, <1>9, <1>10, <1>11 DEF PhaseInv

\* A listener is added behind all others, and answered unless others wait.
LEMMA ListenPhases ==
  ASSUME Types, GetsInv, OrderInv, AfterInv, NextTask("listen"),
         NEW g, g = Head(tasks).get, listeners' = Append(listeners, g),
         NEW to, to = << >> \/ (to = << g >> /\ Listening \subseteq raised),
         Raise(to, cached, queue), UNCHANGED muted
  PROVE  /\ OrderInv'
         /\ g \in Get /\ g \in Asked \ raised /\ \A h \in ToListen : g <= h
         /\ to \in Seq(Get) /\ ToSet(to) \subseteq {g}
         /\ Listening' = Listening \cup {g} /\ ToWrite' = ToWrite
         /\ ToListen = ToListen' \cup {g}
         /\ TasksAfter(tasks', after) /\ \A m \in ToWrite : after[g] < m
         /\ Answered' = Answered \cup ToSet(to) /\ Asked' = Asked \ ToSet(to)
         /\ raised' = raised \cup ToSet(to)
<1>1. /\ tasks \in Seq(Task) /\ tasks # << >> /\ tasks' = Tail(tasks)
      /\ Head(tasks).op = "listen" /\ g \in Get /\ listeners \in Seq(Get)
      /\ cached \in 0..Len(cloud) /\ queue \in Seq(Get)
  BY NextTaskIs DEF Types, ViewTypes, CloudTypes, WriteTypes
<1>2. /\ ToListen = ToListen' \cup {g} /\ ToWrite' = ToWrite /\ g \notin ToListen'
  <2>1. /\ OpsOf("listen", tasks) = OpsOf("listen", tasks') \cup {Head(tasks).get}
        /\ \A other : other # "listen" => OpsOf(other, tasks) = OpsOf(other, tasks')
        /\ Head(tasks).get \notin GetsOf(tasks')
    BY TaskTaken DEF Types
  <2>2. OpsOf("listen", tasks') \subseteq GetsOf(tasks')
    BY OpsAreGets
  <2>3. QED
    BY <2>1, <2>2 DEF ToListen, ToWrite
<1>3. /\ TasksAscend(tasks') /\ TasksAfter(tasks', after)
      /\ \A h \in ToListen' : g < h
      /\ \A m \in ToWrite : after[g] < m
  <2>1. TasksAscend(tasks) /\ TasksAfter(tasks, after)
    BY DEF OrderInv, AfterInv
  <2>2. /\ TasksAscend(Tail(tasks)) /\ TasksAfter(Tail(tasks), after)
        /\ \A h \in OpsOf("listen", Tail(tasks)) : g < h
        /\ \A m \in OpsOf("write", Tail(tasks)) : after[g] < m
    BY <1>1, <2>1, TasksTail
  <2>3. QED
    BY <1>1, <1>2, <2>2 DEF ToListen, ToWrite
<1>4. Listening' = Listening \cup {g}
  BY <1>1, ToSetAppended DEF Listening
<1>5. g \notin Listening \cup raised \cup muted /\ g \in ToListen /\ g \in Asked
  BY <1>2, AskedIs DEF GetsInv, ToListen, Listening
<1>6. to \in Seq(Get) /\ ToSet(to) \subseteq {g} /\ Ascending(to)
      /\ (ToSet(to) = {} \/ (ToSet(to) = {g} /\ Listening \subseteq raised))
  <2>1. CASE to = << >>
    BY <2>1, ToSetEmpty DEF Ascending
  <2>2. CASE to = << g >> /\ Listening \subseteq raised
    BY <1>1, <2>2 DEF Ascending, ToSet
  <2>3. QED
    BY <2>1, <2>2
<1>7. /\ Answered' = Answered \cup (ToSet(to) \ raised)
      /\ raised' = raised \cup ToSet(to)
      /\ EventsAscend(events', Answered')
  BY <1>1, <1>5, <1>6, RaisedPhases
<1>8. Answered' = Answered \cup ToSet(to)
  BY <1>5, <1>6, <1>7
<1>9. /\ Asked = ToListen \cup (Listening \ raised)
      /\ Asked' = ToListen' \cup ((Listening \cup {g}) \ (raised \cup ToSet(to)))
  BY <1>4, <1>7, AskedIs, PhasesNext
<1>10. Asked' = Asked \ ToSet(to)
  BY <1>2, <1>5, <1>6, <1>9
<1>11. Before(muted', Asked' \cup Answered')
  <2>1. Asked' \cup Answered' \subseteq Asked \cup Answered
    BY <1>5, <1>6, <1>8, <1>10
  <2>2. QED
    BY <2>1 DEF OrderInv, Before
<1>12. Before(Answered', Asked')
  <2>1. CASE ToSet(to) = {}
    BY <1>8, <1>10, <2>1 DEF OrderInv
  <2>2. CASE ToSet(to) = {g} /\ Listening \subseteq raised
    <3>1. Asked' \subseteq ToListen' /\ Asked' \subseteq Asked
      BY <1>9, <1>10, <2>2
    <3>2. Before(Answered, Asked)
      BY DEF OrderInv
    <3>3. QED
      BY <1>3, <1>8, <2>2, <3>1, <3>2 DEF Before
  <2>3. QED
    BY <1>6, <2>1, <2>2
<1>13. Before(Listening' \ raised', ToListen')
  <2>1. Before(Listening \ raised, ToListen)
    BY DEF OrderInv
  <2>2. ASSUME NEW n \in Listening' \ raised', NEW h \in ToListen' PROVE n < h
    <3>1. CASE n = g
      BY <1>3, <2>2, <3>1
    <3>2. CASE n # g
      <4>1. n \in Listening \ raised /\ h \in ToListen
        BY <1>2, <1>4, <1>7, <2>2, <3>2
      <4>2. QED
        BY <2>1, <4>1 DEF Before
    <3>3. QED
      BY <3>1, <3>2
  <2>3. QED
    BY <2>2 DEF Before
<1>14. Ascending(listeners')
  <2>1. \A h \in Listening : h < g
    <3>1. Before(Listening \ raised, ToListen)
      BY DEF OrderInv
    <3>2. Listening \cap raised \subseteq muted \cup Answered
      BY AskedIs DEF GetsInv, Listening
    <3>3. Before(muted, Asked) /\ Before(Answered, Asked)
      BY DEF OrderInv, Before
    <3>4. QED
      BY <1>5, <3>1, <3>2, <3>3 DEF Before
  <2>2. Ascending(listeners)
    BY DEF OrderInv
  <2>3. QED
    BY <1>1, <2>1, <2>2, AscendingAppended DEF Listening
<1>15. OrderInv'
  BY <1>3, <1>7, <1>11, <1>12, <1>13, <1>14 DEF OrderInv
<1>16. \A h \in ToListen : g <= h
  <2>1. g \in Int /\ \A h \in ToListen : h \in Int
    BY <1>1, PhasesAreGets DEF Get
  <2>2. QED
    BY <1>2, <1>3, <2>1
<1>17. QED
  BY <1>1, <1>2, <1>3, <1>4, <1>5, <1>6, <1>7, <1>8, <1>10, <1>15, <1>16

\* Adding a listener leaves the writes alone.
LEMMA ListenWrites ==
  ASSUME Types, GetsInv, WritesInv, AfterInv, UNCHANGED << muted, queue, failed, after >>,
         NEW g, ToWrite' = ToWrite, Listening' = Listening \cup {g}, raised \subseteq raised',
         TasksAfter(tasks', after), \A m \in ToWrite : after[g] < m
  PROVE  WritesInv' /\ AfterInv'
<1>1. WritesInv'
  BY DEF WritesInv
<1>2. AfterInv'
  BY DEF AfterInv
<1>3. QED
  BY <1>1, <1>2

\* The listener that the next task adds is noted with the view.
LEMMA AddFirstListenerShown ==
  ASSUME Types, ShownInv, AddFirstListener, NEW g, g = Head(tasks).get
  PROVE  /\ NextTask("listen") /\ listeners' = Append(listeners, g) /\ Note(cached)
         /\ \E to : /\ to = << >> \/ (to = << g >> /\ Listening \subseteq raised)
                    /\ Raise(to, cached, queue)
         /\ ShownInv'
         /\ UNCHANGED << gets, muted, queue, failed, after, cached >>
<1> DEFINE to == IF online = "offline" THEN listeners' ELSE << >>
<1>1. /\ NextTask("listen") /\ listeners = << >> /\ listeners' = << g >> /\ Note(cached)
      /\ Raise(to, cached, queue) /\ UNCHANGED << gets, muted, queue, failed, after, cached >>
      /\ current' = FALSE
  BY DEF AddFirstListener, store
<1>2. listeners' = Append(listeners, g) /\ Listening = {}
  BY <1>1, ToSetEmpty DEF Listening
<1>3. to = << >> \/ (to = << g >> /\ Listening \subseteq raised)
  BY <1>1, <1>2
<1>4. ShownInv'
  <2>1. SUFFICES ASSUME online' = "offline" PROVE Listening' \subseteq raised'
    BY <1>1 DEF ShownInv
  <2>2. online = "offline"
    BY <2>1 DEF AddFirstListener, StartWatchStream
  <2>3. to = listeners'
    BY <2>2
  <2>4. QED
    BY <1>1, <2>3 DEF Raise, Listening
<1> HIDE DEF to
<1>5. QED
  BY <1>1, <1>2, <1>3, <1>4

LEMMA AddListenerShown ==
  ASSUME Types, ShownInv, AddListener, NEW g, g = Head(tasks).get
  PROVE  /\ NextTask("listen") /\ listeners' = Append(listeners, g) /\ Note(cached)
         /\ \E to : /\ to = << >> \/ (to = << g >> /\ Listening \subseteq raised)
                    /\ Raise(to, cached, queue)
         /\ ShownInv'
         /\ UNCHANGED << gets, muted, queue, failed, after, cached >>
<1> DEFINE to == IF current \/ online = "offline" THEN << g >> ELSE << >>
<1>1. /\ NextTask("listen") /\ listeners' = Append(listeners, g) /\ Note(cached)
      /\ Raise(to, cached, queue) /\ UNCHANGED << gets, muted, queue, failed, after, cached >>
      /\ UNCHANGED << current, online >>
  BY DEF AddListener, store, watching, writing
<1>2. to = << >> \/ (to = << g >> /\ Listening \subseteq raised)
  <2>1. CASE current \/ online = "offline"
    BY <2>1 DEF ShownInv
  <2>2. CASE ~(current \/ online = "offline")
    BY <2>2
  <2>3. QED
    BY <2>1, <2>2
<1>3. ShownInv'
  <2>1. SUFFICES ASSUME current' \/ online' = "offline" PROVE Listening' \subseteq raised'
    BY DEF ShownInv
  <2>2. to = << g >> /\ Listening \subseteq raised
    BY <1>1, <2>1 DEF ShownInv
  <2>3. raised' = raised \cup ToSet(<< g >>)
    BY <1>1, <2>2 DEF Raise
  <2>4. ToSet(<< g >>) = {g}
    BY DEF ToSet
  <2>5. Listening' = Listening \cup {g}
    <3>1. g \in Get
      BY <1>1, NextTaskIs DEF Types
    <3>2. QED
      BY <1>1, <3>1, ToSetAppended DEF Listening, Types, ViewTypes
  <2>6. QED
    BY <2>2, <2>3, <2>4, <2>5
<1> HIDE DEF to
<1>4. QED
  BY <1>1, <1>2, <1>3

LEMMA NotedIsCached ==
  ASSUME KnownInv, Note(cached), cached' = cached, cached \in Int
  PROVE  KnownInv'
BY DEF KnownInv, Note

LEMMA ListenPhaseInv ==
  ASSUME Types, GetsInv, PhaseInv, AddFirstListener \/ AddListener
  PROVE  PhaseInv'
<1> DEFINE g == Head(tasks).get
<1>1. OrderInv /\ WritesInv /\ AfterInv /\ KnownInv /\ ShownInv
  BY DEF PhaseInv
<1>2. /\ NextTask("listen") /\ listeners' = Append(listeners, g) /\ Note(cached)
      /\ \E to : /\ to = << >> \/ (to = << g >> /\ Listening \subseteq raised)
                 /\ Raise(to, cached, queue)
      /\ ShownInv'
      /\ UNCHANGED << gets, muted, queue, failed, after, cached >>
  BY <1>1, AddFirstListenerShown, AddListenerShown
<1>3. PICK to : /\ to = << >> \/ (to = << g >> /\ Listening \subseteq raised)
                /\ Raise(to, cached, queue)
  BY <1>2
<1>4. /\ OrderInv'
      /\ Listening' = Listening \cup {g} /\ ToWrite' = ToWrite
      /\ TasksAfter(tasks', after) /\ \A m \in ToWrite : after[g] < m
      /\ raised' = raised \cup ToSet(to)
  BY <1>1, <1>2, <1>3, ListenPhases
<1> HIDE DEF g
<1>5. WritesInv' /\ AfterInv'
  BY <1>1, <1>2, <1>4, ListenWrites
<1>6. KnownInv'
  BY <1>1, <1>2, NotedIsCached DEF Types, CloudTypes
<1>7. QED
  BY <1>2, <1>4, <1>5, <1>6 DEF PhaseInv

\* Who is removed was answered before.
LEMMA UnlistenPhases ==
  ASSUME Types, GetsInv, PhaseInv, RemoveListener \/ RemoveLastListener
  PROVE  /\ PhaseInv'
         /\ Asked' = Asked /\ Answered' = Answered /\ ToWrite' = ToWrite
<1> DEFINE g == Head(tasks).get
<1>1. /\ Unlisten /\ NextTask("unlisten")
      /\ UNCHANGED << gets, events, muted, raised, cached, queue, failed, after, known >>
      /\ listeners' = ListenersOf(Get \ {g})
      /\ Listening' = Listening \ {g}
  BY UnlistenIs DEF RemoveListener, RemoveLastListener, Unlisten, app, store, writing, history, Listening
<1>2. /\ OpsOf("unlisten", tasks) = OpsOf("unlisten", tasks') \cup {g}
      /\ ToListen' = ToListen /\ ToWrite' = ToWrite
  <2>1. \A other : other # "unlisten" => OpsOf(other, tasks) = OpsOf(other, tasks')
    BY <1>1, TaskTaken DEF Types
  <2>2. OpsOf("unlisten", tasks) = OpsOf("unlisten", tasks') \cup {g}
    BY <1>1, TaskTaken DEF Types
  <2>3. QED
    BY <2>1, <2>2 DEF ToListen, ToWrite
<1>3. /\ TasksAscend(tasks') /\ TasksAfter(tasks', after)
  BY <1>1, TasksTail DEF NextTask, PhaseInv, OrderInv, AfterInv, Types, ViewTypes
<1>4. Ascending(listeners')
  BY <1>1, ListenersAreInOrder DEF PhaseInv
<1> HIDE DEF g
<1>5. g \in raised
  BY <1>2 DEF GetsInv
<1>6. Listening' \ raised' = Listening \ raised
  BY <1>1, <1>5
<1>7. Asked' = Asked /\ Answered' = Answered
  BY <1>1, <1>2, <1>6, AskedIs, PhasesNext
<1>8. OrderInv'
  BY <1>1, <1>2, <1>3, <1>4, <1>6, <1>7 DEF PhaseInv, OrderInv
<1>9. WritesInv' /\ AfterInv' /\ KnownInv'
  BY <1>1, <1>2, <1>3, <1>6 DEF PhaseInv, WritesInv, AfterInv, KnownInv
<1>10. ShownInv'
  <2>1. CASE RemoveListener
    <3>1. UNCHANGED << current, online >>
      BY <2>1 DEF RemoveListener, watching
    <3>2. QED
      BY <1>1, <3>1 DEF PhaseInv, ShownInv
  <2>2. CASE RemoveLastListener
    <3>1. listeners' = << >>
      BY <2>2 DEF RemoveLastListener, IsLast
    <3>2. Listening' = {}
      BY <3>1, ToSetEmpty DEF Listening
    <3>3. QED
      BY <3>2 DEF ShownInv
  <2>3. QED
    BY <2>1, <2>2
<1>11. QED
  BY <1>2, <1>7, <1>8, <1>9, <1>10 DEF PhaseInv

LEMMA MaxOfTwo ==
  ASSUME NEW a \in Nat, NEW b \in Nat
  PROVE  Max({a, b}) = IF a > b THEN a ELSE b
BY DEF Max

\* The oldest write that was called is saved.
LEMMA WriteMutationsPhases ==
  ASSUME Types, GetsInv, PhaseInv, WriteMutations, NEW g, g = Head(tasks).get
  PROVE  /\ PhaseInv'
         /\ Asked' = Asked /\ Answered' = Answered /\ ToWrite = ToWrite' \cup {g}
         /\ g \in Get /\ g \notin ToWrite' /\ \A m \in ToWrite : g <= m
         /\ ToSet(queue') = ToSet(queue) \cup {g} /\ g \notin ToSet(queue)
<1>1. /\ NextTask("write") /\ queue' = Append(queue, g) /\ Refresh(cached, queue')
      /\ UNCHANGED << gets, muted, listeners, current, online, cached, failed, after, known >>
  BY DEF WriteMutations, watching, history
<1>2. /\ tasks \in Seq(Task) /\ tasks # << >> /\ tasks' = Tail(tasks)
      /\ Head(tasks).op = "write" /\ g \in Get
      /\ cached \in 0..Len(cloud) /\ queue \in Seq(Get) /\ queue' \in Seq(Get)
  <2>1. Head(tasks).get \in Get /\ tasks # << >> /\ tasks' = Tail(tasks) /\ Head(tasks).op = "write"
    BY <1>1, NextTaskIs DEF Types
  <2>2. QED
    BY <1>1, <2>1, AppendProperties DEF Types, ViewTypes, WriteTypes, CloudTypes
<1>3. /\ ToWrite = ToWrite' \cup {g} /\ ToListen' = ToListen
  <2>1. /\ OpsOf("write", tasks) = OpsOf("write", tasks') \cup {Head(tasks).get}
        /\ \A other : other # "write" => OpsOf(other, tasks) = OpsOf(other, tasks')
    BY <1>1, TaskTaken DEF Types
  <2>2. QED
    BY <2>1 DEF ToListen, ToWrite
<1>4. /\ TasksAscend(tasks') /\ TasksAfter(tasks', after) /\ \A m \in ToWrite' : g < m
  <2>1. /\ TasksAscend(Tail(tasks)) /\ TasksAfter(Tail(tasks), after)
        /\ \A m \in OpsOf("write", Tail(tasks)) : g < m
    BY <1>2, TasksTail DEF PhaseInv, OrderInv, AfterInv
  <2>2. QED
    BY <1>2, <2>1 DEF ToWrite
<1>5. /\ OrderInv' /\ Listening' = Listening /\ raised' = raised
      /\ Asked' = Asked /\ Answered' = Answered
  BY <1>1, <1>2, <1>3, <1>4, RefreshPhases DEF PhaseInv
<1>6. ToSet(queue') = ToSet(queue) \cup {g}
  BY <1>1, <1>2, ToSetAppended
<1>7. /\ \A m \in ToSet(queue) : m < g
      /\ g \in Int /\ \A m \in ToWrite : m \in Int
  BY <1>2, <1>3, PhasesAreGets DEF PhaseInv, WritesInv, Before, Get
<1>8. WritesInv'
  <2>1. /\ ToWrite \cup ToSet(queue) \cup failed \subseteq muted
        /\ failed \cap (ToWrite \cup ToSet(queue)) = {}
        /\ Before(ToSet(queue), ToWrite) /\ Ascending(queue)
    BY DEF PhaseInv, WritesInv
  <2>2. Ascending(queue')
    BY <1>1, <1>2, <1>7, <2>1, AscendingAppended
  <2>3. Before(ToSet(queue'), ToWrite')
    BY <1>3, <1>4, <1>6, <2>1 DEF Before
  <2>4. /\ ToWrite' \cup ToSet(queue') \cup failed' \subseteq muted'
        /\ failed' \cap (ToWrite' \cup ToSet(queue')) = {}
    BY <1>1, <1>3, <1>6, <2>1
  <2>5. QED
    BY <2>2, <2>3, <2>4 DEF WritesInv
<1>9. AfterInv'
  BY <1>1, <1>3, <1>4, <1>5 DEF PhaseInv, AfterInv
<1>10. KnownInv' /\ ShownInv'
  BY <1>1, <1>5 DEF PhaseInv, KnownInv, ShownInv
<1>11. /\ g \notin ToWrite' /\ g \notin ToSet(queue) /\ \A m \in ToWrite : g <= m
  BY <1>3, <1>4, <1>7
<1>12. QED
  BY <1>2, <1>3, <1>5, <1>6, <1>8, <1>9, <1>10, <1>11 DEF PhaseInv

\* The first write of the queue is acknowledged.
LEMMA ResultPhases ==
  ASSUME Types, WriteInv, GetsInv, PhaseInv, OnWriteStreamMutationResult, NEW g, g = queue[1]
  PROVE  /\ PhaseInv'
         /\ Asked' = Asked /\ Answered' = Answered /\ ToWrite' = ToWrite
         /\ ToSet(queue) = ToSet(queue') \cup {g} /\ g \notin ToSet(queue')
         /\ queue # << >> /\ queue' = Tail(queue) /\ \A m \in ToSet(queue) : g <= m
<1>1. /\ results # << >> /\ queue' = Tail(queue) /\ cached' = NewerOf(Head(results))
      /\ Refresh(cached', queue') /\ known' = Max({known, Head(results)})
      /\ UNCHANGED << cloud, gets, muted, tasks, listeners, current, online, failed, after >>
  BY DEF OnWriteStreamMutationResult, watching
<1>2. cached' \in 0..Len(cloud) /\ queue' \in Seq(Get)
  <2>1. WriteTypes' /\ CloudTypes'
    BY ResultTypes
  <2>2. QED
    BY <1>1, <2>1 DEF WriteTypes, CloudTypes
<1>3. queue \in Seq(Get) /\ queue # << >> /\ Head(queue) = g
  <2>1. Len(results) \in Nat \ {0} /\ results \in Seq(1..Len(cloud)) /\ queue \in Seq(Get)
    BY <1>1, EmptySeq, LenProperties DEF Types, CloudTypes, WriteTypes
  <2>2. 1 <= piped /\ piped <= Len(queue)
    <3>1. 1 \in DOMAIN results
      BY <2>1, LenProperties
    <3>2. 1 <= piped
      BY <3>1 DEF WriteInv, AckMatches
    <3>3. piped \in 0..Len(queue)
      BY FittingIs DEF WriteInv
    <3>4. QED
      BY <3>2, <3>3
  <2>3. queue # << >>
    <3>1. SUFFICES ASSUME queue = << >> PROVE FALSE
      OBVIOUS
    <3>2. Len(queue) = 0
      BY <3>1
    <3>3. piped \in Int
      BY DEF Types, WriteTypes
    <3>4. QED
      BY <2>2, <3>2, <3>3
  <2>4. QED
    BY <2>1, <2>3, HeadTailProperties
<1>4. TasksAscend(tasks') /\ ToListen' = ToListen /\ ToWrite' = ToWrite /\ OrderInv
  BY <1>1 DEF PhaseInv, OrderInv, ToListen, ToWrite
<1>5. /\ OrderInv' /\ Listening' = Listening /\ raised' = raised
      /\ Asked' = Asked /\ Answered' = Answered
  BY <1>1, <1>2, <1>4, RefreshPhases
<1>6. /\ ToSet(queue) = ToSet(queue') \cup {g}
      /\ Ascending(queue') /\ \A m \in ToSet(queue') : g < m
  BY <1>1, <1>3, ToSetTail, AscendingTail DEF PhaseInv, WritesInv
<1>7. WritesInv'
  BY <1>1, <1>4, <1>6 DEF PhaseInv, WritesInv, Before
<1>8. AfterInv'
  BY <1>1, <1>4, <1>5 DEF PhaseInv, AfterInv
<1>9. known' <= cached' /\ ShownInv'
  <2>1. Head(results) \in 1..Len(cloud)
    BY <1>1, HeadTailProperties DEF Types, CloudTypes
  <2>2. Head(results) \in Nat /\ cached \in Nat /\ known \in Nat /\ known <= cached
    BY <2>1 DEF Types, CloudTypes, PhaseInv, KnownInv
  <2>3. cached' >= cached /\ cached' >= Head(results)
    BY <1>1, <2>2, NewerOfIs
  <2>4. known' \in {known, Head(results)}
    BY <1>1, <2>2, MaxOfTwo
  <2>5. cached' \in Int
    BY <1>2
  <2>6. QED
    BY <1>1, <1>5, <2>2, <2>3, <2>4, <2>5 DEF PhaseInv, ShownInv
<1>10. /\ g \in Int /\ g \notin ToSet(queue') /\ \A m \in ToSet(queue) : g <= m
  <2>1. g \in Int /\ \A m \in ToSet(queue') : m \in Int
    <3>1. ToSet(queue) \subseteq muted
      BY DEF PhaseInv, WritesInv
    <3>2. QED
      BY <1>6, <3>1, PhasesAreGets
  <2>2. QED
    BY <1>6, <2>1
<1>11. QED
  BY <1>1, <1>3, <1>4, <1>5, <1>6, <1>7, <1>8, <1>9, <1>10 DEF PhaseInv, KnownInv

\* A snapshot of the view is shown to some listeners: to all who wait, or to
\* none of them.
Showing(version, to) ==
  /\ to \in Seq(Get) /\ Ascending(to) /\ ToSet(to) \subseteq Listening
  /\ Listening \ raised \subseteq ToSet(to) \/ ToSet(to) \subseteq raised
  /\ Raise(to, version, queue) /\ Note(version)

Showable == << gets, muted, tasks, listeners, queue, failed, after, cloud, since >>

LEMMA OnWatchSnapshotShown ==
  ASSUME Types, WatchInv, PhaseInv, OnWatchSnapshot
  PROVE  /\ UNCHANGED Showable /\ ShownInv'
         /\ cached' \in 0..Len(cloud) /\ cached' >= cached
         /\ \/ UNCHANGED << events, raised, known, cached >>
            \/ IsActiveTarget /\ online' = "online" /\ \E to : Showing(cached', to)
<1>1. /\ UNCHANGED Showable /\ online' = "online"
  BY DEF OnWatchSnapshot, Showable, Online
<1>2. cached' \in 0..Len(cloud)
  <2>1. CloudTypes'
    BY OnWatchSnapshotTypes
  <2>2. QED
    BY <1>1, <2>1 DEF CloudTypes, Showable
<1>3. Listening' = Listening
  BY <1>1 DEF Showable, Listening
<1>4. CASE ~IsActiveTarget
  <2>1. UNCHANGED << events, raised, known, cached, current >>
    BY <1>4 DEF OnWatchSnapshot
  <2>2. ShownInv'
    BY <1>1, <1>3, <2>1 DEF PhaseInv, ShownInv
  <2>3. QED
    BY <1>1, <1>2, <2>1, <2>2
<1>5. CASE IsActiveTarget
  <2>1. cached' = NewerOf(Head(changes)) /\ Note(cached')
        /\ IF current THEN Refresh(cached', queue) ELSE Raise(listeners, cached', queue)
    BY <1>5 DEF OnWatchSnapshot
  <2>2. cached' >= cached
    <3>1. Head(changes) \in Nat
      BY HeadTailProperties DEF Types, WatchTypes, OnWatchSnapshot
    <3>2. cached \in Nat
      BY DEF Types, CloudTypes
    <3>3. QED
      BY <2>1, <3>1, <3>2, NewerOfIs
  <2>3. Ascending(listeners) /\ \A some : Ascending(ListenersOf(some))
    BY ListenersAreInOrder DEF PhaseInv
  <2>4. CASE current
    <3> DEFINE to == IF LocalView(cached', queue) # LocalView(cached, queue)
                     THEN ListenersOf(raised) ELSE << >>
    <3>1. Raise(to, cached', queue)
      BY <2>1, <2>4 DEF Refresh
    <3>2. /\ to \in Seq(Get) /\ ToSet(to) \subseteq Listening \cap raised /\ Ascending(to)
      <4>1. /\ ListenersOf(raised) \in Seq(Get)
            /\ ToSet(ListenersOf(raised)) \subseteq Listening \cap raised
        BY ListenersOfIs DEF Types, Listening
      <4>2. << >> \in Seq(Get) /\ ToSet(<< >>) = {} /\ Ascending(<< >>)
        BY ToSetEmpty DEF Ascending
      <4>3. QED
        BY <2>3, <4>1, <4>2
    <3> HIDE DEF to
    <3>3. Showing(cached', to)
      BY <2>1, <3>1, <3>2 DEF Showing
    <3>4. ShownInv'
      <4>1. raised' = raised \cup ToSet(to)
        BY <3>1 DEF Raise
      <4>2. Listening \subseteq raised
        BY <2>4 DEF PhaseInv, ShownInv
      <4>3. QED
        BY <1>3, <4>1, <4>2 DEF ShownInv
    <3>5. QED
      BY <1>1, <1>2, <1>5, <2>2, <3>3, <3>4
  <2>5. CASE ~current
    <3>1. Raise(listeners, cached', queue)
      BY <2>1, <2>5
    <3>2. Showing(cached', listeners)
      BY <2>1, <2>3, <3>1 DEF Showing, Listening, Types, ViewTypes
    <3>3. ShownInv'
      BY <1>3, <3>1 DEF Raise, ShownInv, Listening
    <3>4. QED
      BY <1>1, <1>2, <1>5, <2>2, <3>2, <3>3
  <2>6. QED
    BY <2>4, <2>5
<1>6. QED
  BY <1>4, <1>5

\* The initial events that were due are raised.
LEMMA GoOfflineShown ==
  ASSUME Types, PhaseInv, GoOffline, UNCHANGED << listeners, queue >>
  PROVE  ShownInv' /\ \E to : Showing(cached, to)
<1> DEFINE to == IF current THEN listeners ELSE Waiting
<1>1. Raise(to, cached, queue) /\ Note(cached)
  BY DEF GoOffline
<1>2. Ascending(listeners) /\ Ascending(Waiting)
  BY ListenersAreInOrder DEF PhaseInv
<1>3. /\ to \in Seq(Get) /\ Ascending(to) /\ ToSet(to) \subseteq Listening
      /\ Listening \ raised \subseteq ToSet(to)
  BY <1>2, WaitingIs DEF Types, ViewTypes, Listening
<1> HIDE DEF to
<1>4. Showing(cached, to)
  BY <1>1, <1>3 DEF Showing
<1>5. Listening' = Listening /\ raised' = raised \cup ToSet(to)
  BY <1>1 DEF Raise, Listening
<1>6. ShownInv'
  BY <1>3, <1>5 DEF ShownInv
<1>7. QED
  BY <1>4, <1>6

LEMMA ShowingPhaseInv ==
  ASSUME Types, GetsInv, PhaseInv, UNCHANGED Showable, ShownInv',
         cached' \in 0..Len(cloud), cached' >= cached, NEW to, Showing(cached', to)
  PROVE  PhaseInv'
<1>1. UNCHANGED << gets, muted, tasks, listeners, queue, failed, after, cloud >>
  BY DEF Showable
<1>2. /\ TasksAscend(tasks') /\ ToListen' = ToListen /\ ToWrite' = ToWrite /\ OrderInv
      /\ queue \in Seq(Get)
  BY <1>1 DEF PhaseInv, OrderInv, ToListen, ToWrite, Types, WriteTypes
<1>3. /\ to \in Seq(Get) /\ Ascending(to) /\ ToSet(to) \subseteq Listening
      /\ Listening \ raised \subseteq ToSet(to) \/ ToSet(to) \subseteq raised
      /\ Raise(to, cached', queue) /\ Note(cached')
  BY DEF Showing
<1>4. OrderInv' /\ Listening' = Listening
  BY <1>1, <1>2, <1>3, ShownPhases
<1>5. raised \subseteq raised'
  BY <1>3 DEF Raise
<1>6. WritesInv' /\ AfterInv'
  BY <1>1, <1>2, <1>4, <1>5 DEF PhaseInv, WritesInv, AfterInv
<1>7. KnownInv'
  <2>1. known \in Int /\ cached \in Int /\ cached' \in Int /\ known <= cached
    BY DEF PhaseInv, KnownInv, Types, CloudTypes
  <2>2. known' \in {known, cached'}
    BY <1>3 DEF Note
  <2>3. QED
    BY <2>1, <2>2 DEF KnownInv
<1>8. QED
  BY <1>4, <1>6, <1>7 DEF PhaseInv

\* Nothing is shown, and no get moves.
LEMMA PhasesKept ==
  ASSUME PhaseInv, UNCHANGED << gets, muted, tasks, listeners, queue, failed, after,
                                events, raised, known, cached >>, ShownInv'
  PROVE  PhaseInv' /\ Asked' = Asked /\ Answered' = Answered /\ ToWrite' = ToWrite
<1>1. ToListen' = ToListen /\ ToWrite' = ToWrite /\ Listening' = Listening
  BY DEF ToListen, ToWrite, Listening
<1>2. Asked' = Asked /\ Answered' = Answered
  BY <1>1, AskedIs, PhasesNext
<1>3. QED
  BY <1>1, <1>2 DEF PhaseInv, OrderInv, WritesInv, AfterInv, KnownInv

LEMMA ShownKept ==
  ASSUME ShownInv, current' => current, online' = "offline" => online = "offline",
         UNCHANGED << listeners, raised >>
  PROVE  ShownInv'
BY DEF ShownInv, Listening

\* Nothing that is not in the mutation queue survives.
LEMMA RestartPhases ==
  ASSUME Types, GetsInv, PhaseInv, Restart
  PROVE  /\ PhaseInv'
         /\ Asked' = {} /\ Answered' = {} /\ ToWrite' = {}
         /\ failed' = failed \cup Asked \cup Answered \cup ToWrite
<1>1. /\ tasks' = << >> /\ listeners' = << >> /\ raised' = {} /\ events' = << >>
      /\ muted' = 1..gets /\ failed' = failed \cup Open \cup UnsavedWrites
      /\ UNCHANGED << gets, cached, queue, after, known >>
  BY DEF Restart, store
<1>2. ToSet(tasks') = {} /\ Listening' = {} /\ ToSet(events') = {}
  BY <1>1, ToSetEmpty DEF Listening
<1>3. ToListen' = {} /\ ToWrite' = {} /\ GetsOf(events') = {}
  BY <1>2 DEF ToListen, ToWrite, OpsOf, GetsOf
<1>4. Asked' = {} /\ Answered' = {}
  BY <1>2, <1>3, PhasesNext
<1>5. failed' = failed \cup Asked \cup Answered \cup ToWrite
  BY <1>1, AskedIs
<1>6. /\ Asked \cup Answered \cup ToWrite \cup muted \subseteq 1..gets
  BY PhasesAreGets
<1>7. OrderInv'
  <2>1. Ascending(listeners') /\ TasksAscend(tasks') /\ EventsAscend(events', Answered')
    BY <1>1 DEF Ascending, TasksAscend, EventsAscend
  <2>2. /\ Before(muted', Asked' \cup Answered') /\ Before(Answered', Asked')
        /\ Before(Listening' \ raised', ToListen')
    BY <1>3, <1>4 DEF Before
  <2>3. QED
    BY <2>1, <2>2 DEF OrderInv
<1>8. WritesInv'
  <2>1. /\ ToWrite \cup ToSet(queue) \cup failed \subseteq muted
        /\ failed \cap ToSet(queue) = {} /\ Ascending(queue)
    BY DEF PhaseInv, WritesInv
  <2>2. ToSet(queue) \cap (Asked \cup Answered \cup ToWrite) = {}
    <3>1. ASSUME NEW h \in ToSet(queue) PROVE h \notin Asked \cup Answered \cup ToWrite
      <4>1. h \in muted /\ h \in Int
        BY <2>1, PhasesAreGets
      <4>2. h \notin Asked \cup Answered
        <5>1. Before(muted, Asked \cup Answered)
          BY DEF PhaseInv, OrderInv
        <5>2. QED
          BY <4>1, <5>1 DEF Before
      <4>3. h \notin ToWrite
        <5>1. Before(ToSet(queue), ToWrite)
          BY DEF PhaseInv, WritesInv
        <5>2. QED
          BY <3>1, <4>1, <5>1 DEF Before
      <4>4. QED
        BY <4>2, <4>3
    <3>2. QED
      BY <3>1
  <2>3. QED
    BY <1>1, <1>3, <1>5, <1>6, <2>1, <2>2 DEF WritesInv, Before
<1>9. AfterInv'
  <2>1. \A n \in Get : after'[n] \in muted' \cup {0}
    BY <1>1, <1>6 DEF PhaseInv, AfterInv
  <2>2. TasksAfter(tasks', after')
    BY <1>1 DEF TasksAfter
  <2>3. QED
    BY <1>2, <2>1, <2>2 DEF AfterInv
<1>10. KnownInv' /\ ShownInv'
  BY <1>1, <1>2 DEF PhaseInv, KnownInv, ShownInv
<1>11. QED
  BY <1>3, <1>4, <1>5, <1>7, <1>8, <1>9, <1>10 DEF PhaseInv

LEMMA PhaseInit == Init => PhaseInv
<1> SUFFICES ASSUME Init PROVE PhaseInv
  OBVIOUS
<1>1. /\ tasks = << >> /\ listeners = << >> /\ raised = {} /\ events = << >> /\ queue = << >>
      /\ muted = {} /\ failed = {} /\ after = [g \in Get |-> 0] /\ known = 0 /\ cached = 0
  BY DEF Init
<1>2. ToSet(tasks) = {} /\ Listening = {} /\ ToSet(events) = {} /\ ToSet(queue) = {}
  BY <1>1, ToSetEmpty DEF Listening
<1>3. ToListen = {} /\ ToWrite = {} /\ GetsOf(events) = {}
  BY <1>2 DEF ToListen, ToWrite, OpsOf, GetsOf
<1>4. Asked = {} /\ Answered = {}
  BY <1>2, <1>3, AskedIs
<1>5. OrderInv
  BY <1>1, <1>2, <1>3, <1>4 DEF OrderInv, Ascending, TasksAscend, EventsAscend, Before
<1>6. WritesInv
  BY <1>1, <1>2, <1>3 DEF WritesInv, Before, Ascending
<1>7. AfterInv
  BY <1>1, <1>2 DEF AfterInv, TasksAfter
<1>8. QED
  BY <1>1, <1>2, <1>5, <1>6, <1>7 DEF PhaseInv, KnownInv, ShownInv

LEMMA PhaseStep ==
  ASSUME TypeInv, GetsInv, PhaseInv, [Next]_vars
  PROVE  PhaseInv'
<1>1. Types /\ WatchInv /\ WriteInv /\ ShownInv
  BY DEF TypeInv, PhaseInv
<1>2. CASE GetDocument \/ HandleEvent
  BY <1>1, <1>2, GetDocumentPhases, HandleEventPhaseInv
<1>3. CASE AddFirstListener \/ AddListener
  BY <1>1, <1>3, ListenPhaseInv
<1>4. CASE RemoveListener \/ RemoveLastListener
  BY <1>1, <1>4, UnlistenPhases
<1>5. CASE WriteMutations \/ OnWriteStreamMutationResult
  BY <1>1, <1>5, WriteMutationsPhases, ResultPhases
<1>6. CASE OnWatchSnapshot
  <2>1. /\ UNCHANGED Showable /\ ShownInv'
        /\ cached' \in 0..Len(cloud) /\ cached' >= cached
        /\ \/ UNCHANGED << events, raised, known, cached >>
           \/ \E to : Showing(cached', to)
    BY <1>1, <1>6, OnWatchSnapshotShown
  <2>2. CASE UNCHANGED << events, raised, known, cached >>
    BY <2>1, <2>2, PhasesKept DEF Showable
  <2>3. CASE \E to : Showing(cached', to)
    BY <1>1, <2>1, <2>3, ShowingPhaseInv
  <2>4. QED
    BY <2>1, <2>2, <2>3
<1>7. CASE OnWatchStreamClose \/ OnlineStateTimeout
  <2>1. UNCHANGED Showable /\ UNCHANGED cached
    BY <1>7 DEF OnWatchStreamClose, OnlineStateTimeout, Showable, store
  <2>2. CASE GoOffline
    <3>1. ShownInv' /\ \E to : Showing(cached, to)
      BY <1>1, <2>1, <2>2, GoOfflineShown DEF Showable
    <3>2. cached' = cached /\ cached \in 0..Len(cloud) /\ cached >= cached
      BY <1>1, <2>1 DEF Types, CloudTypes
    <3>3. QED
      BY <1>1, <2>1, <3>1, <3>2, ShowingPhaseInv
  <2>3. CASE ~GoOffline
    <3>1. OnWatchStreamClose
      BY <1>7, <2>3 DEF OnlineStateTimeout
    <3>2. UNCHANGED << events, raised, known, current >> /\ online' = "unknown"
      BY <2>3, <3>1 DEF OnWatchStreamClose
    <3>3. ShownInv'
      BY <1>1, <2>1, <3>2, ShownKept DEF Showable
    <3>4. QED
      BY <1>1, <2>1, <3>2, <3>3, PhasesKept DEF Showable
  <2>4. QED
    BY <2>2, <2>3
<1>8. CASE Restart
  BY <1>1, <1>8, RestartPhases
<1>9. CASE OnWatchStreamOpen \/ OnTargetResponse \/ OnWriteStreamHandshakeComplete
           \/ OnWriteStreamClose
  <2>1. /\ UNCHANGED << gets, muted, tasks, listeners, queue, failed, after,
                        events, raised, known, cached, current >>
        /\ online' = "offline" => online = "offline"
    BY <1>9 DEF OnWatchStreamOpen, OnTargetResponse, OnWriteStreamHandshakeComplete,
                OnWriteStreamClose, app, views, store, history, watching, Online
  <2>2. QED
    BY <1>1, <2>1, PhasesKept, ShownKept
<1>10. CASE RestartNetwork \/ BackendTakesRequest \/ BackendSendsSnapshot \/ BackendApplies
            \/ WriteElsewhere \/ UNCHANGED vars
  <2>1. /\ UNCHANGED << gets, muted, tasks, listeners, queue, failed, after,
                        events, raised, known, cached, current >>
        /\ online' = "offline" => online = "offline"
    BY <1>10 DEF RestartNetwork, RestartStreams, BackendTakesRequest, BackendSendsSnapshot,
                 BackendApplies, WriteElsewhere, vars, app, views, store, history, watching
  <2>2. QED
    BY <1>1, <2>1, PhasesKept, ShownKept
<1>11. QED
  BY <1>2, <1>3, <1>4, <1>5, <1>6, <1>7, <1>8, <1>9, <1>10 DEF Next

-----------------------------------------------------------------------------
(* The rounds of the document.                                              *)

RoundsInv == TypeInv /\ GetsInv /\ PhaseInv

LEMMA RoundsStep ==
  ASSUME RoundsInv, [Next]_vars
  PROVE  RoundsInv'
<1>1. TypeInv' /\ GetsInv'
  BY TypesStep, GetsStep DEF RoundsInv
<1>2. PhaseInv'
  BY PhaseStep DEF RoundsInv
<1>3. QED
  BY <1>1, <1>2 DEF RoundsInv

Queued == ToSet(queue)

Unasked == {g \in Get : g > gets}

\* The applied writes are the first ones of the queue.
LEMMA AppliedIs ==
  RoundsInv =>
    /\ queue \in Seq(Get) /\ results \in Seq(Nat)
    /\ DOMAIN queue = 1..Len(queue) /\ DOMAIN results = 1..Len(results)
    /\ Len(queue) \in Nat /\ Len(results) \in 0..Len(queue)
    /\ Applied = {queue[i] : i \in DOMAIN results}
    /\ Applied \subseteq Queued
<1> SUFFICES ASSUME RoundsInv
             PROVE  /\ queue \in Seq(Get) /\ results \in Seq(Nat)
                    /\ DOMAIN queue = 1..Len(queue) /\ DOMAIN results = 1..Len(results)
                    /\ Len(queue) \in Nat /\ Len(results) \in 0..Len(queue)
                    /\ Applied = {queue[i] : i \in DOMAIN results}
                    /\ Applied \subseteq Queued
  OBVIOUS
<1>1. Types /\ WriteInv
  BY DEF RoundsInv, TypeInv
<1>2. queue \in Seq(Get) /\ results \in Seq(1..Len(cloud)) /\ cloud \in Seq(Int)
  BY <1>1 DEF Types, WriteTypes, CloudTypes
<1>3. /\ DOMAIN queue = 1..Len(queue) /\ DOMAIN results = 1..Len(results)
      /\ Len(queue) \in Nat /\ Len(results) \in Nat
  BY <1>2, LenProperties
<1>4. results \in Seq(Nat)
  <2>1. \A i \in 1..Len(results) : results[i] \in Nat
    BY <1>2, <1>3, ElementOfSeq, LenProperties
  <2>2. results \in [1..Len(results) -> Nat]
    BY <1>2, <2>1, LenProperties
  <2>3. QED
    BY <1>3, <2>2, SeqDef
<1>5. Len(results) \in 0..Len(queue)
  <2>1. piped \in 0..Len(queue)
    BY <1>1, FittingIs DEF WriteInv
  <2>2. Len(results) = 0 \/ Len(results) \in DOMAIN results
    BY <1>3
  <2>3. Len(results) = 0 \/ Len(results) <= piped
    BY <1>1, <2>2 DEF WriteInv, AckMatches
  <2>4. QED
    BY <1>3, <2>1, <2>3
<1>6. Applied = {queue[i] : i \in DOMAIN results}
  <2> DEFINE first == SubSeq(queue, 1, Len(results))
  <2>1. IsSeq(queue)
    BY <1>1 DEF WriteInv
  <2>2. /\ IsSeq(first) /\ Len(first) = Len(results) - 1 + 1
        /\ \A i \in 1..Len(first) : first[i] = queue[1 + i - 1]
    BY <1>3, <1>5, <2>1, SeqPart
  <2> HIDE DEF first
  <2>3. DOMAIN first = DOMAIN results /\ \A i \in DOMAIN first : first[i] = queue[i]
    BY <1>3, <2>2, SeqHas
  <2>4. ToSet(first) = {queue[i] : i \in DOMAIN results}
    BY <2>3 DEF ToSet
  <2>5. QED
    BY <2>4 DEF Applied, first
<1>7. Applied \subseteq Queued
  BY <1>3, <1>5, <1>6 DEF Queued, ToSet
<1>8. QED
  BY <1>2, <1>3, <1>4, <1>5, <1>6, <1>7

\* No get is in two phases.
LEMMA PhasesApart ==
  ASSUME RoundsInv
  PROVE  /\ Asked \cup Answered \cup ToWrite \cup Queued \cup failed \subseteq 1..gets
         /\ 1..gets \subseteq Get /\ gets \in Nat
         /\ (Asked \cup Answered) \cap (ToWrite \cup Queued \cup failed) = {}
         /\ Asked \cap Answered = {} /\ ToWrite \cap Queued = {}
         /\ failed \cap (ToWrite \cup Queued) = {}
         /\ Applied \subseteq Queued
         /\ UnsavedWrites = ToWrite
<1>1. Types /\ GetsInv /\ OrderInv /\ WritesInv
  BY DEF RoundsInv, TypeInv, PhaseInv
<1>2. /\ Asked \cup Answered \cup ToWrite \cup muted \subseteq 1..gets
      /\ 1..gets \subseteq Get /\ gets \in Nat /\ \A g \in 1..gets : g \in Int
  BY <1>1, PhasesAreGets
<1>3. ToWrite \cup Queued \cup failed \subseteq muted /\ failed \cap (ToWrite \cup Queued) = {}
  BY <1>1 DEF WritesInv, Queued
<1>4. muted \cap (Asked \cup Answered) = {}
  <2>1. Before(muted, Asked \cup Answered)
    BY <1>1 DEF OrderInv
  <2>2. ASSUME NEW g \in muted \cap (Asked \cup Answered) PROVE FALSE
    <3>1. g < g /\ g \in Int
      BY <1>2, <2>1, <2>2 DEF Before
    <3>2. QED
      BY <3>1
  <2>3. QED
    BY <2>2
<1>5. Asked \cap Answered = {}
  <2>1. Before(Answered, Asked)
    BY <1>1 DEF OrderInv
  <2>2. ASSUME NEW g \in Asked \cap Answered PROVE FALSE
    <3>1. g < g /\ g \in Int
      BY <1>2, <2>1, <2>2 DEF Before
    <3>2. QED
      BY <3>1
  <2>3. QED
    BY <2>2
<1>6. ToWrite \cap Queued = {}
  <2>1. Before(Queued, ToWrite)
    BY <1>1 DEF WritesInv, Queued
  <2>2. ASSUME NEW g \in ToWrite \cap Queued PROVE FALSE
    <3>1. g < g /\ g \in Int
      BY <1>2, <2>1, <2>2 DEF Before
    <3>2. QED
      BY <3>1
  <2>3. QED
    BY <2>2
<1>7. QED
  BY <1>2, <1>3, <1>4, <1>5, <1>6, AppliedIs, AskedIs

\* The stage of a round is the phase of its get.
LEMMA StagesAre ==
  RoundsInv =>
    /\ DOMAIN Stages = Get /\ Stages = [g \in Get |-> Stages[g]]
    /\ \A g \in Get :
         /\ Stages[g] \in Document!Stage
         /\ Stages[g] = "none" <=> g \in Unasked
         /\ Stages[g] = "failed" <=> g \in failed
         /\ Stages[g] = "asked" <=> g \in Asked
         /\ Stages[g] = "answered" <=> g \in Answered
         /\ Stages[g] = "called" <=> g \in ToWrite
         /\ Stages[g] = "applied" <=> g \in Applied
         /\ Stages[g] = "saved" <=> g \in Queued \ Applied
<1> SUFFICES ASSUME RoundsInv
             PROVE  /\ DOMAIN Stages = Get /\ Stages = [g \in Get |-> Stages[g]]
                    /\ \A g \in Get :
                         /\ Stages[g] \in Document!Stage
                         /\ Stages[g] = "none" <=> g \in Unasked
                         /\ Stages[g] = "failed" <=> g \in failed
                         /\ Stages[g] = "asked" <=> g \in Asked
                         /\ Stages[g] = "answered" <=> g \in Answered
                         /\ Stages[g] = "called" <=> g \in ToWrite
                         /\ Stages[g] = "applied" <=> g \in Applied
                         /\ Stages[g] = "saved" <=> g \in Queued \ Applied
  OBVIOUS
<1>1. /\ Asked \cup Answered \cup ToWrite \cup Queued \cup failed \subseteq 1..gets
      /\ (Asked \cup Answered) \cap (ToWrite \cup Queued \cup failed) = {}
      /\ Asked \cap Answered = {} /\ ToWrite \cap Queued = {}
      /\ failed \cap (ToWrite \cup Queued) = {}
      /\ Applied \subseteq Queued /\ gets \in Nat
      /\ UnsavedWrites = ToWrite
  BY PhasesApart
<1>2. DOMAIN Stages = Get /\ Stages = [g \in Get |-> Stages[g]]
  BY DEF Stages
<1>3. ASSUME NEW g \in Get
      PROVE  Stages[g] = IF g \in Unasked THEN "none"
                         ELSE IF g \in failed THEN "failed"
                         ELSE IF g \in Asked THEN "asked"
                         ELSE IF g \in Answered THEN "answered"
                         ELSE IF g \in ToWrite THEN "called"
                         ELSE IF g \in Applied THEN "applied"
                         ELSE IF g \in Queued \ Applied THEN "saved"
                         ELSE "done"
  <2>1. Stages[g] = CASE g > gets -> "none"
                      [] g \in failed -> "failed"
                      [] g \in Asked -> "asked"
                      [] g \in Answered -> "answered"
                      [] g \in ToWrite -> "called"
                      [] g \in Applied -> "applied"
                      [] g \in Queued \ Applied -> "saved"
                      [] OTHER -> "done"
    BY <1>1 DEF Stages, Queued
  <2>2. g > gets <=> g \in Unasked
    BY DEF Unasked
  <2>3. g > gets => g \notin 1..gets
    BY <1>1 DEF Get
  <2>4. QED
    BY <1>1, <2>1, <2>2, <2>3
<1>4. ASSUME NEW g \in Get
      PROVE  /\ Stages[g] \in Document!Stage
             /\ Stages[g] = "none" <=> g \in Unasked
             /\ Stages[g] = "failed" <=> g \in failed
             /\ Stages[g] = "asked" <=> g \in Asked
             /\ Stages[g] = "answered" <=> g \in Answered
             /\ Stages[g] = "called" <=> g \in ToWrite
             /\ Stages[g] = "applied" <=> g \in Applied
             /\ Stages[g] = "saved" <=> g \in Queued \ Applied
  <2>1. g \in Unasked => g \notin 1..gets
    BY <1>1 DEF Unasked, Get
  <2>2. Stages[g] = IF g \in Unasked THEN "none"
                    ELSE IF g \in failed THEN "failed"
                    ELSE IF g \in Asked THEN "asked"
                    ELSE IF g \in Answered THEN "answered"
                    ELSE IF g \in ToWrite THEN "called"
                    ELSE IF g \in Applied THEN "applied"
                    ELSE IF g \in Queued \ Applied THEN "saved"
                    ELSE "done"
    BY <1>3
  <2>3. Stages[g] \in Document!Stage
    BY <2>2 DEF Document!Stage
  <2>4. QED
    BY <1>1, <2>1, <2>2, <2>3
<1>5. QED
  BY <1>2, <1>4

-----------------------------------------------------------------------------
(* The first event of a get, which is the one that its handler is given.    *)

FirstSeen(s, g) == s[Min({i \in DOMAIN s : s[i].get = g})].seen

\* A set of places has a first.
LEMMA EarliestIs ==
  ASSUME NEW n \in Nat, NEW S \in SUBSET (1..n), NEW p \in S, \A q \in S : p <= q
  PROVE  Min(S) = p
<1>1. S \in SUBSET Int
  OBVIOUS
<1>2. Min(S) \in S /\ \A q \in S : Min(S) <= q
  BY DEF Min
<1>3. p <= Min(S) /\ Min(S) <= p
  BY <1>2
<1>4. p \in Int /\ Min(S) \in Int
  BY <1>1, <1>2
<1> HIDE DEF Min
<1>5. QED
  BY <1>3, <1>4

LEMMA EarliestExists ==
  ASSUME NEW n \in Nat, NEW S \in SUBSET (1..n), S # {}
  PROVE  Min(S) \in S /\ \A q \in S : Min(S) <= q
<1>1. IsFiniteSet(1..n) /\ 1..n \subseteq Int
  BY FS_Interval
<1>2. IsFiniteSet(S) /\ S \in SUBSET Int
  BY <1>1, FS_Subset
<1>3. Cardinality(S) \in Nat /\ Cardinality(S) # 0
  BY <1>2, FS_EmptySet, FS_CardinalityType
<1>4. 1 \in 1..Cardinality(S)
  BY <1>3
<1> DEFINE first == Nth(1, S)
<1>5. first \in S /\ Rank(first, S) = 1
  BY <1>2, <1>4, NthIs
<1> HIDE DEF first
<1>6. ASSUME NEW q \in S PROVE first <= q
  <2>1. CASE q < first
    <3>1. Rank(q, S) < Rank(first, S) /\ Rank(q, S) \in 1..Cardinality(S)
      BY <1>2, <1>5, <2>1, RankGrows, RankIs
    <3>2. QED
      BY <3>1, <1>3, <1>5
  <2>2. first \in Int /\ q \in Int
    BY <1>2, <1>5
  <2>3. QED
    BY <2>1, <2>2
<1>7. Min(S) = first
  BY <1>5, <1>6, EarliestIs
<1>8. QED
  BY <1>5, <1>6, <1>7

LEMMA FirstIs ==
  ASSUME NEW s \in Seq(Event), NEW p \in DOMAIN s, \A q \in 1..p - 1 : s[q].get # s[p].get
  PROVE  FirstSeen(s, s[p].get) = s[p].seen
<1> DEFINE g == s[p].get
           S == {i \in DOMAIN s : s[i].get = g}
<1>1. DOMAIN s = 1..Len(s) /\ Len(s) \in Nat
  BY LenProperties
<1>2. \A q \in S : p <= q
  <2>1. ASSUME NEW q \in S, q < p PROVE FALSE
    <3>1. q \in 1..p - 1 /\ s[q].get = s[p].get
      BY <1>1, <2>1
    <3>2. QED
      BY <3>1
  <2>2. QED
    BY <1>1, <2>1
<1>3. S \in SUBSET (1..Len(s)) /\ p \in S
  BY <1>1
<1> HIDE DEF S
<1>4. Min(S) = p
  BY <1>1, <1>2, <1>3, EarliestIs
<1>5. QED
  BY <1>4 DEF FirstSeen, S

LEMMA FirstExists ==
  ASSUME NEW s \in Seq(Event), NEW g \in GetsOf(s)
  PROVE  \E p \in DOMAIN s : s[p].get = g /\ \A q \in 1..p - 1 : s[q].get # g
<1> DEFINE S == {i \in DOMAIN s : s[i].get = g}
<1>1. DOMAIN s = 1..Len(s) /\ Len(s) \in Nat
  BY LenProperties
<1>2. S \in SUBSET (1..Len(s)) /\ S # {}
  BY <1>1 DEF GetsOf, ToSet
<1>3. Min(S) \in S /\ \A q \in S : Min(S) <= q
  <2> HIDE DEF S
  <2>1. QED
    BY <1>1, <1>2, EarliestExists
<1>4. ASSUME NEW q \in 1..Min(S) - 1 PROVE s[q].get # g
  <2>1. q \in DOMAIN s /\ ~(Min(S) <= q)
    BY <1>1, <1>3, <1>4
  <2>2. QED
    BY <1>3, <2>1
<1>5. QED
  BY <1>3, <1>4

\* Later events do not change what a get has seen first.
LEMMA FirstKept ==
  ASSUME NEW s \in Seq(Event), NEW t \in Seq(Event), NEW g \in GetsOf(s)
  PROVE  FirstSeen(s \o t, g) = FirstSeen(s, g)
<1>1. /\ s \o t \in Seq(Event) /\ Len(s \o t) = Len(s) + Len(t)
      /\ \A i \in 1..Len(s) + Len(t) :
           (s \o t)[i] = IF i <= Len(s) THEN s[i] ELSE t[i - Len(s)]
  BY ConcatProperties
<1>2. /\ DOMAIN s = 1..Len(s) /\ Len(s) \in Nat /\ Len(t) \in Nat
      /\ DOMAIN (s \o t) = 1..Len(s \o t)
  BY <1>1, LenProperties
<1> DEFINE u == s \o t
<1>3. u \in Seq(Event) /\ DOMAIN s \subseteq DOMAIN u /\ \A i \in DOMAIN s : u[i] = s[i]
  BY <1>1, <1>2
<1> HIDE DEF u
<1>4. PICK p \in DOMAIN s : s[p].get = g /\ \A q \in 1..p - 1 : s[q].get # g
  BY FirstExists
<1>5. FirstSeen(s, g) = s[p].seen
  BY <1>4, FirstIs
<1>6. u[p].get = g /\ u[p].seen = s[p].seen /\ p \in DOMAIN u
  BY <1>3, <1>4
<1>7. \A q \in 1..p - 1 : u[q].get # u[p].get
  <2>1. \A q \in 1..p - 1 : q \in DOMAIN s
    BY <1>2
  <2>2. QED
    BY <1>3, <1>4, <1>6, <2>1
<1>8. FirstSeen(u, g) = u[p].seen
  BY <1>3, <1>6, <1>7, FirstIs
<1>9. QED
  BY <1>5, <1>6, <1>8 DEF u

\* Whoever sees the document for the first time sees what is shown.
LEMMA FirstNew ==
  ASSUME NEW s \in Seq(Event), NEW t \in Seq(Event), NEW g \in GetsOf(t), g \notin GetsOf(s),
         NEW v, \A i \in DOMAIN t : t[i].seen = v
  PROVE  FirstSeen(s \o t, g) = v
<1> DEFINE u == s \o t
<1>1. /\ s \o t \in Seq(Event) /\ Len(s \o t) = Len(s) + Len(t)
      /\ \A i \in 1..Len(s) + Len(t) :
           (s \o t)[i] = IF i <= Len(s) THEN s[i] ELSE t[i - Len(s)]
  BY ConcatProperties
<1>2. /\ DOMAIN s = 1..Len(s) /\ Len(s) \in Nat /\ DOMAIN t = 1..Len(t) /\ Len(t) \in Nat
      /\ DOMAIN (s \o t) = 1..Len(s \o t)
  BY <1>1, LenProperties
<1>3. g \in GetsOf(u)
  <2>1. ToSet(u) = ToSet(s) \cup ToSet(t)
    BY ToSetConcat
  <2> HIDE DEF u
  <2>2. QED
    BY <2>1 DEF GetsOf
<1>4. PICK p \in DOMAIN u : u[p].get = g /\ \A q \in 1..p - 1 : u[q].get # g
  BY <1>1, <1>3, FirstExists
<1>5. FirstSeen(u, g) = u[p].seen
  BY <1>1, <1>4, FirstIs
<1>6. u[p] = IF p <= Len(s) THEN s[p] ELSE t[p - Len(s)]
  BY <1>1, <1>2, <1>4
<1>7. ~(p <= Len(s))
  <2>1. SUFFICES ASSUME p <= Len(s) PROVE FALSE
    OBVIOUS
  <2>2. p \in DOMAIN s
    BY <1>1, <1>2, <1>4, <2>1
  <2>3. s[p].get = g
    BY <1>4, <1>6, <2>1
  <2>4. g \in GetsOf(s)
    BY <2>2, <2>3 DEF GetsOf, ToSet
  <2>5. QED
    BY <2>4
<1>8. p - Len(s) \in DOMAIN t
  BY <1>1, <1>2, <1>4, <1>7
<1>9. QED
  BY <1>5, <1>6, <1>7, <1>8

\* The oldest event is the first one of its get, and of no other.
LEMMA FirstTail ==
  ASSUME NEW s \in Seq(Event), s # << >>
  PROVE  /\ FirstSeen(s, Head(s).get) = Head(s).seen
         /\ \A g \in GetsOf(Tail(s)) : g # Head(s).get => FirstSeen(Tail(s), g) = FirstSeen(s, g)
<1>1. /\ Tail(s) \in Seq(Event) /\ Len(Tail(s)) = Len(s) - 1
      /\ \A i \in 1..Len(Tail(s)) : Tail(s)[i] = s[i + 1]
      /\ Len(s) \in Nat \ {0} /\ Head(s) = s[1]
  BY HeadTailProperties, EmptySeq
<1>2. DOMAIN s = 1..Len(s) /\ DOMAIN Tail(s) = 1..Len(s) - 1
  BY <1>1, LenProperties
<1> DEFINE u == Tail(s)
<1>3. u \in Seq(Event) /\ \A i \in DOMAIN u : i + 1 \in DOMAIN s /\ u[i] = s[i + 1] /\ i \in Nat
  BY <1>1, <1>2
<1>4. FirstSeen(s, Head(s).get) = Head(s).seen
  <2>1. 1 \in DOMAIN s /\ \A q \in 1..1 - 1 : s[q].get # s[1].get
    BY <1>1, <1>2
  <2>2. FirstSeen(s, s[1].get) = s[1].seen
    BY <2>1, FirstIs
  <2>3. QED
    BY <1>1, <2>2
<1> HIDE DEF u
<1>5. ASSUME NEW g \in GetsOf(u), g # s[1].get PROVE FirstSeen(u, g) = FirstSeen(s, g)
  <2>1. PICK p \in DOMAIN u : u[p].get = g /\ \A q \in 1..p - 1 : u[q].get # g
    BY <1>3, <1>5, FirstExists
  <2>2. FirstSeen(u, g) = u[p].seen
    BY <1>3, <2>1, FirstIs
  <2>3. p + 1 \in DOMAIN s /\ u[p] = s[p + 1] /\ p \in Nat /\ s[p + 1].get = g
    BY <1>3, <2>1
  <2>4. ASSUME NEW q \in 1..(p + 1) - 1 PROVE s[q].get # s[p + 1].get
    <3>1. CASE q = 1
      BY <1>5, <2>3, <3>1
    <3>2. CASE q # 1
      <4>1. q - 1 \in 1..p - 1 /\ (q - 1) + 1 = q
        BY <2>3, <2>4, <3>2
      <4>2. q - 1 \in DOMAIN u
        <5>1. p \in 1..Len(s) - 1
          BY <1>2, <2>1 DEF u
        <5>2. q - 1 \in 1..Len(s) - 1
          BY <1>1, <4>1, <5>1
        <5>3. QED
          BY <1>2, <5>2 DEF u
      <4>3. u[q - 1] = s[q] /\ u[q - 1].get # g
        BY <1>3, <2>1, <4>1, <4>2
      <4>4. QED
        BY <2>3, <4>3
    <3>3. QED
      BY <3>1, <3>2
  <2>5. FirstSeen(s, s[p + 1].get) = s[p + 1].seen
    BY <2>3, <2>4, FirstIs
  <2>6. QED
    BY <2>2, <2>3, <2>5
<1>6. QED
  BY <1>1, <1>4, <1>5 DEF u

-----------------------------------------------------------------------------
(* What the rounds are, as CloudDocument sees them.                         *)

LEMMA ValuesAre ==
  RoundsInv =>
    /\ Values = [g \in Get |-> Values[g]]
    /\ \A g \in Get :
         /\ g \in Answered => Values[g] = FirstSeen(events, g)
         /\ g \in ToWrite \cup Queued => Values[g] = g
         /\ g \notin Answered \cup ToWrite \cup Queued => Values[g] = NoDocument
<1> SUFFICES ASSUME RoundsInv
             PROVE  /\ Values = [g \in Get |-> Values[g]]
                    /\ \A g \in Get :
                         /\ g \in Answered => Values[g] = FirstSeen(events, g)
                         /\ g \in ToWrite \cup Queued => Values[g] = g
                         /\ g \notin Answered \cup ToWrite \cup Queued => Values[g] = NoDocument
  OBVIOUS
<1>1. Values = [g \in Get |-> Values[g]]
  BY DEF Values
<1>2. ASSUME NEW g \in Get
      PROVE  /\ g \in Answered => Values[g] = FirstSeen(events, g)
             /\ g \in ToWrite \cup Queued => Values[g] = g
             /\ g \notin Answered \cup ToWrite \cup Queued => Values[g] = NoDocument
  <2>1. Values[g] = CASE Stages[g] = "answered" -> FirstSeen(events, g)
                      [] Stages[g] \in {"called", "saved", "applied"} -> g
                      [] OTHER -> NoDocument
    BY DEF Values, FirstSeen
  <2>2. /\ Stages[g] = "answered" <=> g \in Answered
        /\ Stages[g] = "called" <=> g \in ToWrite
        /\ Stages[g] = "applied" <=> g \in Applied
        /\ Stages[g] = "saved" <=> g \in Queued \ Applied
        /\ Applied \subseteq Queued
    BY StagesAre, AppliedIs
  <2>3. CASE g \in Answered
    <3>1. g \notin ToWrite \cup Queued
      BY <2>3, PhasesApart
    <3>2. QED
      BY <2>1, <2>2, <2>3, <3>1
  <2>4. CASE g \in ToWrite \cup Queued
    <3>1. Stages[g] \in {"called", "saved", "applied"} /\ Stages[g] # "answered" /\ g \notin Answered
      BY <2>2, <2>4, PhasesApart
    <3>2. QED
      BY <2>1, <2>4, <3>1
  <2>5. CASE g \notin Answered \cup ToWrite \cup Queued
    <3>1. Stages[g] \notin {"called", "saved", "applied"} /\ Stages[g] # "answered"
      BY <2>2, <2>5
    <3>2. QED
      BY <2>1, <2>5, <3>1
  <2>6. QED
    BY <2>3, <2>4, <2>5
<1>3. QED
  BY <1>1, <1>2

LEMMA VersionsAre ==
  RoundsInv =>
    /\ Versions = [g \in Get |-> Versions[g]]
    /\ \A g \in Get : g \notin Applied => Versions[g] = 0
    /\ \A i \in DOMAIN results : Versions[queue[i]] = results[i]
<1> SUFFICES ASSUME RoundsInv
             PROVE  /\ Versions = [g \in Get |-> Versions[g]]
                    /\ \A g \in Get : g \notin Applied => Versions[g] = 0
                    /\ \A i \in DOMAIN results : Versions[queue[i]] = results[i]
  OBVIOUS
<1>1. Versions = [g \in Get |-> Versions[g]]
  BY DEF Versions
<1>2. \A g \in Get : Versions[g] = IF Stages[g] = "applied"
                                   THEN results[CHOOSE i \in DOMAIN results : queue[i] = g] ELSE 0
  BY DEF Versions
<1>3. \A g \in Get : Stages[g] = "applied" <=> g \in Applied
  BY StagesAre
<1>4. /\ queue \in Seq(Get) /\ DOMAIN queue = 1..Len(queue) /\ DOMAIN results = 1..Len(results)
      /\ Len(queue) \in Nat /\ Len(results) \in 0..Len(queue)
      /\ Applied = {queue[i] : i \in DOMAIN results}
  BY AppliedIs
<1>5. Ascending(queue)
  BY DEF RoundsInv, PhaseInv, WritesInv
<1>6. ASSUME NEW i \in DOMAIN results PROVE Versions[queue[i]] = results[i]
  <2>1. i \in DOMAIN queue /\ queue[i] \in Get
    BY <1>4, ElementOfSeq
  <2>2. \A j \in DOMAIN results : queue[j] = queue[i] => j = i
    <3>1. ASSUME NEW j \in DOMAIN results, queue[j] = queue[i], j # i PROVE FALSE
      <4>1. j \in DOMAIN queue /\ i \in Int /\ j \in Int
        BY <1>4
      <4>2. queue[i] < queue[j] \/ queue[j] < queue[i]
        BY <1>5, <2>1, <3>1, <4>1 DEF Ascending
      <4>3. queue[i] \in Int
        BY <2>1 DEF Get
      <4>4. QED
        BY <3>1, <4>2, <4>3
    <3>2. QED
      BY <3>1
  <2>3. (CHOOSE j \in DOMAIN results : queue[j] = queue[i]) = i
    BY <2>2
  <2>4. queue[i] \in Applied
    BY <1>4
  <2>5. QED
    BY <1>2, <1>3, <2>1, <2>3, <2>4
<1>7. QED
  BY <1>1, <1>2, <1>3, <1>6

LEMMA RoundsIn ==
  ASSUME RoundsInv
  PROVE  /\ Document!Round = Get
         /\ Document!In(Phone, {"none"}) = Unasked
         /\ Document!In(Phone, {"asked"}) = Asked
         /\ Document!In(Phone, {"answered"}) = Answered
         /\ Document!In(Phone, {"asked", "answered"}) = Asked \cup Answered
         /\ Document!In(Phone, {"called"}) = ToWrite
         /\ Document!In(Phone, {"saved"}) = Queued \ Applied
         /\ Document!In(Phone, {"applied"}) = Applied
         /\ Document!In(Phone, {"saved", "applied"}) = Queued
<1>1. Document!Round = Get
  BY DEF Document!Round, Get
<1>2. \A stages : Document!In(Phone, stages) = {g \in Get : Stages[g] \in stages}
  BY <1>1 DEF Document!In
<1>3. /\ Asked \subseteq Get /\ Answered \subseteq Get /\ ToWrite \subseteq Get
      /\ Queued \subseteq Get /\ Applied \subseteq Queued /\ Unasked \subseteq Get
  BY PhasesApart DEF Unasked
<1>4. \A g \in Get :
        /\ Stages[g] = "none" <=> g \in Unasked
        /\ Stages[g] = "asked" <=> g \in Asked
        /\ Stages[g] = "answered" <=> g \in Answered
        /\ Stages[g] = "called" <=> g \in ToWrite
        /\ Stages[g] = "applied" <=> g \in Applied
        /\ Stages[g] = "saved" <=> g \in Queued \ Applied
  BY StagesAre
<1>5. /\ {g \in Get : Stages[g] \in {"none"}} = Unasked
      /\ {g \in Get : Stages[g] \in {"asked"}} = Asked
      /\ {g \in Get : Stages[g] \in {"answered"}} = Answered
      /\ {g \in Get : Stages[g] \in {"called"}} = ToWrite
  BY <1>3, <1>4
<1>6. /\ {g \in Get : Stages[g] \in {"saved"}} = Queued \ Applied
      /\ {g \in Get : Stages[g] \in {"applied"}} = Applied
  BY <1>3, <1>4
<1>7. {g \in Get : Stages[g] \in {"asked", "answered"}} = Asked \cup Answered
  BY <1>3, <1>4
<1>8. {g \in Get : Stages[g] \in {"saved", "applied"}} = Queued
  BY <1>3, <1>4
<1>9. QED
  BY <1>1, <1>2, <1>5, <1>6, <1>7, <1>8

-----------------------------------------------------------------------------
(* What a step does to the rounds.                                          *)

SamePhase(g) ==
  /\ g \in Unasked' <=> g \in Unasked
  /\ g \in failed' <=> g \in failed
  /\ g \in Asked' <=> g \in Asked
  /\ g \in Answered' <=> g \in Answered
  /\ g \in ToWrite' <=> g \in ToWrite
  /\ g \in Queued' <=> g \in Queued
  /\ g \in Applied' <=> g \in Applied

LEMMA StagesNext ==
  ASSUME RoundsInv'
  PROVE  /\ Stages' = [g \in Get |-> Stages'[g]]
         /\ \A g \in Get :
              /\ Stages'[g] \in Document!Stage
              /\ Stages'[g] = "none" <=> g \in Unasked'
              /\ Stages'[g] = "failed" <=> g \in failed'
              /\ Stages'[g] = "asked" <=> g \in Asked'
              /\ Stages'[g] = "answered" <=> g \in Answered'
              /\ Stages'[g] = "called" <=> g \in ToWrite'
              /\ Stages'[g] = "applied" <=> g \in Applied'
              /\ Stages'[g] = "saved" <=> g \in Queued' \ Applied'
<1>1. ( RoundsInv =>
          /\ DOMAIN Stages = Get /\ Stages = [g \in Get |-> Stages[g]]
          /\ \A g \in Get :
               /\ Stages[g] \in Document!Stage
               /\ Stages[g] = "none" <=> g \in Unasked
               /\ Stages[g] = "failed" <=> g \in failed
               /\ Stages[g] = "asked" <=> g \in Asked
               /\ Stages[g] = "answered" <=> g \in Answered
               /\ Stages[g] = "called" <=> g \in ToWrite
               /\ Stages[g] = "applied" <=> g \in Applied
               /\ Stages[g] = "saved" <=> g \in Queued \ Applied )'
  BY StagesAre, PTL
<1>2. QED
  BY <1>1

LEMMA StageKept ==
  ASSUME RoundsInv, RoundsInv', NEW g \in Get, SamePhase(g)
  PROVE  Stages'[g] = Stages[g]
<1>1. /\ Stages[g] \in Document!Stage /\ Stages'[g] \in Document!Stage
      /\ Stages'[g] = "none" <=> Stages[g] = "none"
      /\ Stages'[g] = "failed" <=> Stages[g] = "failed"
      /\ Stages'[g] = "asked" <=> Stages[g] = "asked"
      /\ Stages'[g] = "answered" <=> Stages[g] = "answered"
      /\ Stages'[g] = "called" <=> Stages[g] = "called"
      /\ Stages'[g] = "applied" <=> Stages[g] = "applied"
      /\ Stages'[g] = "saved" <=> Stages[g] = "saved"
  BY StagesAre, StagesNext DEF SamePhase
<1>2. QED
  BY <1>1 DEF Document!Stage

LEMMA StagesMoved ==
  ASSUME RoundsInv, RoundsInv', NEW moved, NEW x,
         \A g \in Get \ moved : SamePhase(g), \A g \in moved \cap Get : Stages'[g] = x
  PROVE  Stages' = [g \in Get |-> IF g \in moved THEN x ELSE Stages[g]]
<1>1. \A g \in Get : Stages'[g] = IF g \in moved THEN x ELSE Stages[g]
  BY StageKept
<1>2. Stages' = [g \in Get |-> Stages'[g]]
  BY StagesNext
<1>3. QED
  BY <1>1, <1>2

LEMMA StagesExcept ==
  ASSUME RoundsInv, RoundsInv', NEW n \in Get, NEW x,
         \A g \in Get : g # n => SamePhase(g), Stages'[n] = x
  PROVE  Stages' = [Stages EXCEPT ![n] = x]
<1>1. \A g \in Get : Stages'[g] = IF g = n THEN x ELSE Stages[g]
  BY StageKept
<1>2. Stages = [g \in Get |-> Stages[g]] /\ Stages' = [g \in Get |-> Stages'[g]]
  BY StagesAre, StagesNext
<1>3. QED
  BY <1>1, <1>2

LEMMA ValuesNext ==
  ASSUME RoundsInv'
  PROVE  /\ Values' = [g \in Get |-> Values'[g]]
         /\ \A g \in Get :
              /\ g \in Answered' => Values'[g] = FirstSeen(events', g)
              /\ g \in ToWrite' \cup Queued' => Values'[g] = g
              /\ g \notin Answered' \cup ToWrite' \cup Queued' => Values'[g] = NoDocument
<1>1. ( RoundsInv =>
          /\ Values = [g \in Get |-> Values[g]]
          /\ \A g \in Get :
               /\ g \in Answered => Values[g] = FirstSeen(events, g)
               /\ g \in ToWrite \cup Queued => Values[g] = g
               /\ g \notin Answered \cup ToWrite \cup Queued => Values[g] = NoDocument )'
  BY ValuesAre, PTL
<1>2. QED
  BY <1>1 DEF FirstSeen

LEMMA VersionsNext ==
  ASSUME RoundsInv'
  PROVE  /\ Versions' = [g \in Get |-> Versions'[g]]
         /\ \A g \in Get : g \notin Applied' => Versions'[g] = 0
         /\ \A i \in DOMAIN results' : Versions'[queue'[i]] = results'[i]
<1>1. ( RoundsInv =>
          /\ Versions = [g \in Get |-> Versions[g]]
          /\ \A g \in Get : g \notin Applied => Versions[g] = 0
          /\ \A i \in DOMAIN results : Versions[queue[i]] = results[i] )'
  BY VersionsAre, PTL
<1>2. QED
  BY <1>1

LEMMA AppliedNext ==
  ASSUME RoundsInv'
  PROVE  /\ Applied' = {queue'[i] : i \in DOMAIN results'}
         /\ Applied' \subseteq Queued'
<1>1. ( RoundsInv =>
          /\ queue \in Seq(Get) /\ results \in Seq(Nat)
          /\ DOMAIN queue = 1..Len(queue) /\ DOMAIN results = 1..Len(results)
          /\ Len(queue) \in Nat /\ Len(results) \in 0..Len(queue)
          /\ Applied = {queue[i] : i \in DOMAIN results}
          /\ Applied \subseteq Queued )'
  BY AppliedIs, PTL
<1>2. QED
  BY <1>1

\* The events of the gets that stay answered begin with the same one.
SameFirst == \A g \in Answered : g \in Answered' => FirstSeen(events', g) = FirstSeen(events, g)

LEMMA ValueKept ==
  ASSUME RoundsInv, RoundsInv', SameFirst, NEW g \in Get,
         g \in Answered' <=> g \in Answered,
         g \in ToWrite' \cup Queued' <=> g \in ToWrite \cup Queued
  PROVE  Values'[g] = Values[g]
<1>1. CASE g \in Answered
  BY <1>1, ValuesAre, ValuesNext DEF SameFirst
<1>2. CASE g \in ToWrite \cup Queued
  BY <1>2, ValuesAre, ValuesNext
<1>3. CASE g \notin Answered \cup ToWrite \cup Queued
  BY <1>3, ValuesAre, ValuesNext
<1>4. QED
  BY <1>1, <1>2, <1>3

LEMMA ValuesKept ==
  ASSUME RoundsInv, RoundsInv', SameFirst,
         \A g \in Get : /\ g \in Answered' <=> g \in Answered
                        /\ g \in ToWrite' \cup Queued' <=> g \in ToWrite \cup Queued
  PROVE  Values' = Values
<1>1. \A g \in Get : Values'[g] = Values[g]
  BY ValueKept
<1>2. Values = [g \in Get |-> Values[g]] /\ Values' = [g \in Get |-> Values'[g]]
  BY ValuesAre, ValuesNext
<1>3. QED
  BY <1>1, <1>2

\* The results that are there stay, for the same writes.
LEMMA VersionsKept ==
  ASSUME RoundsInv, RoundsInv', DOMAIN results' = DOMAIN results,
         \A i \in DOMAIN results : results'[i] = results[i] /\ queue'[i] = queue[i]
  PROVE  Versions' = Versions /\ Applied' = Applied
<1>1. Applied' = Applied
  BY AppliedIs, AppliedNext
<1>2. ASSUME NEW g \in Get PROVE Versions'[g] = Versions[g]
  <2>1. CASE g \in Applied
    <3>1. PICK i \in DOMAIN results : g = queue[i]
      BY <2>1, AppliedIs
    <3>2. Versions[queue[i]] = results[i] /\ Versions'[queue'[i]] = results'[i]
      BY <3>1, VersionsAre, VersionsNext
    <3>3. QED
      BY <3>1, <3>2
  <2>2. CASE g \notin Applied
    BY <1>1, <2>2, VersionsAre, VersionsNext
  <2>3. QED
    BY <2>1, <2>2
<1>3. Versions = [g \in Get |-> Versions[g]] /\ Versions' = [g \in Get |-> Versions'[g]]
  BY VersionsAre, VersionsNext
<1>4. QED
  BY <1>1, <1>2, <1>3

\* No get moves, and nothing is answered: CloudDocument sees nothing.
LEMMA RoundsKept ==
  ASSUME RoundsInv, RoundsInv', SameFirst,
         Asked' = Asked, Answered' = Answered, ToWrite' = ToWrite,
         UNCHANGED << gets, failed, queue, results, cloud, after, since, known >>
  PROVE  UNCHANGED Document!vars
<1>1. Versions' = Versions /\ Applied' = Applied
  BY VersionsKept
<1>2. Queued' = Queued /\ Unasked' = Unasked
  BY DEF Queued, Unasked
<1>3. \A g \in Get : SamePhase(g)
  BY <1>1, <1>2 DEF SamePhase
<1>4. Stages' = Stages
  <2>1. \A g \in Get : Stages'[g] = Stages[g]
    BY <1>3, StageKept
  <2>2. Stages = [g \in Get |-> Stages[g]] /\ Stages' = [g \in Get |-> Stages'[g]]
    BY StagesAre, StagesNext
  <2>3. QED
    BY <2>1, <2>2
<1>5. Values' = Values
  BY <1>2, ValuesKept
<1>6. QED
  BY <1>1, <1>4, <1>5 DEF Document!vars

LEMMA SameEvents ==
  ASSUME UNCHANGED events
  PROVE  SameFirst
BY DEF SameFirst

\* What a snapshot shows is what those see who had not seen anything.
LEMMA RaisedSeen ==
  ASSUME Types, GetsInv,
         NEW to \in Seq(Get), NEW version \in 0..Len(cloud), NEW batches \in Seq(Get),
         Raise(to, version, batches)
  PROVE  /\ SameFirst
         /\ \A g \in ToSet(to) \ raised : FirstSeen(events', g) = LocalView(version, batches)
<1> DEFINE t == [i \in DOMAIN to |-> [get |-> to[i], seen |-> LocalView(version, batches)]]
<1>1. events \in Seq(Event) /\ events' = events \o t
  BY DEF Types, AppTypes, Raise
<1>2. t \in Seq(Event)
  <2>1. LocalView(version, batches) \in Int \cup {NoDocument}
    BY LocalViewType DEF Types
  <2>2. to \in [1..Len(to) -> Get] /\ Len(to) \in Nat /\ DOMAIN to = 1..Len(to)
    BY LenProperties
  <2>3. t \in [1..Len(to) -> Event]
    BY <2>1, <2>2 DEF Event
  <2>4. QED
    BY <2>2, <2>3, IsASeq
<1>3. /\ DOMAIN t = DOMAIN to
      /\ \A i \in DOMAIN t : t[i].get = to[i] /\ t[i].seen = LocalView(version, batches)
  OBVIOUS
<1> HIDE DEF t
<1>4. ToSet(to) = GetsOf(t)
  BY <1>3 DEF GetsOf, ToSet
<1>5. Answered \subseteq GetsOf(events) /\ GetsOf(events) \subseteq raised
  BY AskedIs DEF GetsInv
<1>6. SameFirst
  BY <1>1, <1>2, <1>5, FirstKept DEF SameFirst
<1>7. ASSUME NEW g \in ToSet(to) \ raised
      PROVE  FirstSeen(events', g) = LocalView(version, batches)
  <2>1. g \in GetsOf(t) /\ g \notin GetsOf(events)
    BY <1>4, <1>5, <1>7
  <2>2. \A i \in DOMAIN t : t[i].seen = LocalView(version, batches)
    BY <1>3
  <2>3. FirstSeen(events \o t, g) = LocalView(version, batches)
    <3> DEFINE v == LocalView(version, batches)
    <3>1. \A i \in DOMAIN t : t[i].seen = v
      BY <2>2
    <3> HIDE DEF v
    <3>2. FirstSeen(events \o t, g) = v
      BY <1>1, <1>2, <2>1, <3>1, FirstNew
    <3>3. QED
      BY <3>2 DEF v
  <2>4. QED
    BY <1>1, <2>3
<1>8. QED
  BY <1>6, <1>7

\* A changed view is nobody's first.
LEMMA RefreshedSeen ==
  ASSUME Types, GetsInv, NEW version \in 0..Len(cloud), NEW batches \in Seq(Get),
         Refresh(version, batches)
  PROVE  SameFirst
<1> DEFINE to == IF LocalView(version, batches) # LocalView(cached, queue)
                 THEN ListenersOf(raised) ELSE << >>
<1>1. Raise(to, version, batches)
  BY DEF Refresh
<1>2. to \in Seq(Get)
  <2>1. ListenersOf(raised) \in Seq(Get) /\ << >> \in Seq(Get)
    BY ListenersOfIs DEF Types
  <2>2. QED
    BY <2>1
<1> HIDE DEF to
<1>3. QED
  BY <1>1, <1>2, RaisedSeen

-----------------------------------------------------------------------------
(* Each step of the client is one of the document, or none.                 *)

LEMMA PhoneExcept ==
  ASSUME NEW f, NEW n, NEW x
  PROVE  [[d \in {Phone} |-> f] EXCEPT ![Phone][n] = x] = [d \in {Phone} |-> [f EXCEPT ![n] = x]]
OBVIOUS

LEMMA PhonePut ==
  ASSUME NEW f, NEW h
  PROVE  [[d \in {Phone} |-> f] EXCEPT ![Phone] = h] = [d \in {Phone} |-> h]
OBVIOUS

LEMMA NewestIs ==
  ASSUME NEW S \in SUBSET Get, NEW n \in S, \A m \in S : m <= n
  PROVE  Document!Newest(S) = n
<1>1. Document!Newest(S) \in S /\ \A m \in S : m <= Document!Newest(S)
  BY DEF Document!Newest
<1>2. n <= Document!Newest(S) /\ Document!Newest(S) <= n
  BY <1>1
<1> DEFINE newest == Document!Newest(S)
<1>3. n \in Int /\ newest \in Int
  <2>1. S \subseteq Int
    BY DEF Get
  <2> HIDE DEF newest
  <2>2. newest \in S
    BY <1>1 DEF newest
  <2>3. QED
    BY <2>1, <2>2
<1> HIDE DEF newest
<1>4. newest = n
  BY <1>2, <1>3 DEF newest
<1>5. QED
  BY <1>4 DEF newest

LEMMA GetDocumentAsks ==
  ASSUME RoundsInv, RoundsInv', GetDocument
  PROVE  Document!Ask(Phone)
<1> DEFINE g == gets + 1
<1>1. Types /\ GetsInv /\ PhaseInv
  BY DEF RoundsInv, TypeInv
<1>2. /\ gets < MaxGets /\ gets' = g
      /\ after' = [after EXCEPT ![g] = IF UnsavedWrites = {} THEN 0 ELSE Max(UnsavedWrites)]
      /\ since' = IF Open = {} THEN Len(cloud) ELSE since
      /\ UNCHANGED << cloud, events, queue, results, failed, known >>
  BY DEF GetDocument, store, writing
<1>3. Asked' = Asked \cup {g} /\ Answered' = Answered /\ ToWrite' = ToWrite
  BY <1>1, GetDocumentPhases
<1>4. g \in Get /\ gets \in Nat /\ Unasked = {h \in Get : h >= g} /\ Unasked' = {h \in Get : h > g}
  <2>1. gets \in 0..MaxGets
    BY <1>1 DEF Types, AppTypes
  <2>2. QED
    BY <1>2, <2>1 DEF Get, Unasked
<1> HIDE DEF g
<1>5. Versions' = Versions /\ Applied' = Applied /\ Queued' = Queued
  BY <1>2, VersionsKept DEF Queued
<1>6. Values' = Values
  BY <1>2, <1>3, <1>5, ValuesKept, SameEvents
<1>7. Stages' = [Stages EXCEPT ![g] = "asked"]
  <2>1. \A h \in Get : h # g => SamePhase(h)
    <3>1. \A h \in Get : h # g => (h \in Unasked' <=> h \in Unasked)
      BY <1>4 DEF Get
    <3>2. QED
      BY <1>2, <1>3, <1>5, <3>1 DEF SamePhase
  <2>2. Stages'[g] = "asked"
    BY <1>3, <1>4, StagesNext
  <2>3. QED
    BY <1>4, <2>1, <2>2, StagesExcept
<1>8. Document!IsOldest(g, Document!In(Phone, {"none"}))
  <2>1. g \in Unasked /\ \A m \in Unasked : g <= m
    BY <1>4 DEF Get
  <2>2. QED
    BY <2>1, RoundsIn DEF Document!IsOldest
<1>9. after' = [after EXCEPT ![g] = IF Document!In(Phone, {"called"}) = {} THEN 0
                                    ELSE Document!Newest(Document!In(Phone, {"called"}))]
  <2>1. Document!In(Phone, {"called"}) = ToWrite /\ UnsavedWrites = ToWrite
    BY RoundsIn, PhasesApart
  <2>2. CASE ToWrite = {}
    BY <1>2, <2>1, <2>2
  <2>3. CASE ToWrite # {}
    <3>1. ToWrite \in SUBSET Get
      BY PhasesApart
    <3>2. Max(ToWrite) \in ToWrite /\ \A m \in ToWrite : m <= Max(ToWrite)
      BY <2>3, <3>1, LatestIs
    <3>3. Document!Newest(ToWrite) = Max(ToWrite)
      BY <3>1, <3>2, NewestIs
    <3>4. QED
      BY <1>2, <2>1, <2>3, <3>3
  <2>4. QED
    BY <2>2, <2>3
<1>10. since' = IF Document!Reading(Phone) THEN since ELSE Len(cloud)
  <2>1. Document!Reading(Phone) <=> Asked \cup Answered # {}
    BY RoundsIn DEF Document!Reading
  <2>2. QED
    BY <1>2, <2>1, AskedIs
<1>11. [d \in {Phone} |-> Stages'] = [[d \in {Phone} |-> Stages] EXCEPT ![Phone][g] = "asked"]
  BY <1>7, PhoneExcept
<1>12. [d \in {Phone} |-> after'] =
         [[d \in {Phone} |-> after] EXCEPT ![Phone][g] =
            IF Document!In(Phone, {"called"}) = {} THEN 0
            ELSE Document!Newest(Document!In(Phone, {"called"}))]
  BY <1>9, PhoneExcept
<1>13. [d \in {Phone} |-> since'] =
         [[d \in {Phone} |-> since] EXCEPT ![Phone] =
            IF Document!Reading(Phone) THEN @ ELSE Len(cloud)]
  <2>1. [d \in {Phone} |-> since][Phone] = since
    OBVIOUS
  <2>2. QED
    BY <1>10, <2>1, PhonePut
<1>14. g \in Document!Round
  BY <1>4, RoundsIn
<1>15. QED
  BY <1>2, <1>5, <1>6, <1>8, <1>11, <1>12, <1>13, <1>14 DEF Document!Ask

\* The older open gets are answered, all with the same.
LEMMA RepliesAre ==
  ASSUME RoundsInv, RoundsInv', NEW R, R # {}, R \subseteq Asked,
         Asked' = Asked \ R, Answered' = Answered \cup R, ToWrite' = ToWrite,
         Before(R, Asked'), \A n \in R, m \in ToWrite : after[n] < m,
         SameFirst, NEW v, \A g \in R : FirstSeen(events', g) = v,
         UNCHANGED << gets, failed, queue, results, cloud, after, since >>
  PROVE  Document!Reply(Phone, v)
<1>1. R \in SUBSET Get /\ Asked \in SUBSET Get
  BY PhasesApart
<1> DEFINE last == Max(R)
<1>2. last \in R /\ \A g \in R : g <= last
  BY <1>1, LatestIs
<1> HIDE DEF last
<1>3. R = {n \in Asked : n <= last}
  <2>1. ASSUME NEW n \in Asked, n <= last PROVE n \in R
    <3>1. SUFFICES ASSUME n \notin R PROVE FALSE
      OBVIOUS
    <3>2. last < n
      BY <1>2, <2>1, <3>1 DEF Before
    <3>3. last \in Int /\ n \in Int
      BY <1>1, <1>2, <2>1 DEF Get
    <3>4. QED
      BY <2>1, <3>2, <3>3
  <2>2. QED
    BY <1>2, <2>1
<1>4. /\ Versions' = Versions /\ Applied' = Applied /\ Queued' = Queued /\ Unasked' = Unasked
  BY VersionsKept DEF Queued, Unasked
<1>5. Stages' = [g \in Get |-> IF g \in R THEN "answered" ELSE Stages[g]]
  <2>1. \A g \in Get \ R : SamePhase(g)
    BY <1>4 DEF SamePhase
  <2>2. \A g \in R \cap Get : Stages'[g] = "answered"
    BY StagesNext
  <2>3. QED
    BY <2>1, <2>2, StagesMoved
<1>6. Values' = [g \in Get |-> IF g \in R THEN v ELSE Values[g]]
  <2>1. \A g \in Get : g \in R => Values'[g] = v
    BY ValuesNext
  <2>2. \A g \in Get : g \notin R => Values'[g] = Values[g]
    BY <1>4, ValueKept
  <2>3. \A g \in Get : Values'[g] = IF g \in R THEN v ELSE Values[g]
    BY <2>1, <2>2
  <2>4. QED
    BY <2>3, ValuesNext
<1>7. /\ last \in Document!In(Phone, {"asked"})
      /\ {n \in Document!In(Phone, {"asked"}) : n <= last} = R
      /\ Document!Round = Get
  BY <1>2, <1>3, RoundsIn
<1>8. \A n \in R, m \in Document!In(Phone, {"called"}) : m > [d \in {Phone} |-> after][Phone][n]
  <2>1. Document!In(Phone, {"called"}) = ToWrite
    BY RoundsIn
  <2>2. ASSUME NEW n \in R, NEW m \in ToWrite PROVE m > after[n]
    <3>1. after[n] < m
      OBVIOUS
    <3>2. QED
      BY <3>1
  <2>3. QED
    BY <2>1, <2>2
<1>9. [d \in {Phone} |-> Stages'] =
        [[d \in {Phone} |-> Stages] EXCEPT ![Phone] =
           [n \in Document!Round |-> IF n \in R THEN "answered" ELSE @[n]]]
  <2>1. [d \in {Phone} |-> Stages][Phone] = Stages
    OBVIOUS
  <2>2. QED
    BY <1>5, <1>7, <2>1, PhonePut
<1>10. [d \in {Phone} |-> Values'] =
        [[d \in {Phone} |-> Values] EXCEPT ![Phone] =
           [n \in Document!Round |-> IF n \in R THEN v ELSE @[n]]]
  <2>1. [d \in {Phone} |-> Values][Phone] = Values
    OBVIOUS
  <2>2. QED
    BY <1>6, <1>7, <2>1, PhonePut
<1>11. QED
  <2> DEFINE replied == {n \in Document!In(Phone, {"asked"}) : n <= last}
  <2>1. \A n \in replied, m \in Document!In(Phone, {"called"}) :
          m > [d \in {Phone} |-> after][Phone][n]
    BY <1>7, <1>8
  <2>2. [d \in {Phone} |-> Stages'] =
          [[d \in {Phone} |-> Stages] EXCEPT ![Phone] =
             [n \in Document!Round |-> IF n \in replied THEN "answered" ELSE @[n]]]
    BY <1>7, <1>9
  <2>3. [d \in {Phone} |-> Values'] =
          [[d \in {Phone} |-> Values] EXCEPT ![Phone] =
             [n \in Document!Round |-> IF n \in replied THEN v ELSE @[n]]]
    BY <1>7, <1>10
  <2>4. UNCHANGED << cloud, [d \in {Phone} |-> Versions], [d \in {Phone} |-> after],
                     [d \in {Phone} |-> since] >>
    BY <1>4
  <2>5. QED
    BY <1>7, <2>1, <2>2, <2>3, <2>4 DEF Document!Reply

\* The cached document under the queued writes is what the device makes of it.
LEMMA ViewIs ==
  ASSUME RoundsInv, NEW version \in 1..Len(cloud)
  PROVE  LocalView(version, queue) = Document!View(Phone, version)
<1>1. version # 0 /\ version \in Int
  BY DEF RoundsInv, TypeInv, Types, CloudTypes
<1>2. queue \in Seq(Get) /\ DOMAIN queue = 1..Len(queue) /\ Len(queue) \in Nat
  BY AppliedIs
<1>3. Document!In(Phone, {"saved", "applied"}) = Queued
  BY RoundsIn
<1>4. CASE queue = << >>
  <2>1. Queued = {}
    BY <1>4, ToSetEmpty DEF Queued
  <2>2. QED
    BY <1>1, <1>3, <1>4, <2>1 DEF LocalView, Document!View
<1>5. CASE queue # << >>
  <2>1. Len(queue) \in DOMAIN queue
    BY <1>2, <1>5, EmptySeq
  <2>2. Last(queue) = queue[Len(queue)]
    BY DEF Last
  <2>3. Last(queue) \in Queued /\ Queued \in SUBSET Get
    BY <2>1, <2>2, PhasesApart DEF Queued, ToSet
  <2>4. \A m \in Queued : m <= Last(queue)
    <3>1. ASSUME NEW i \in DOMAIN queue PROVE queue[i] <= queue[Len(queue)]
      <4>1. Ascending(queue)
        BY DEF RoundsInv, PhaseInv, WritesInv
      <4>2. i = Len(queue) \/ i < Len(queue)
        BY <1>2
      <4>3. queue[i] \in Int /\ queue[Len(queue)] \in Int
        BY <2>1, <1>2, ElementOfSeq DEF Get
      <4>4. i < Len(queue) => queue[i] < queue[Len(queue)]
        BY <2>1, <4>1 DEF Ascending
      <4>5. QED
        BY <4>2, <4>3, <4>4
    <3>2. QED
      BY <2>2, <3>1 DEF Queued, ToSet
  <2>5. Document!Newest(Queued) = Last(queue)
    BY <2>3, <2>4, NewestIs
  <2>6. Values[Last(queue)] = Last(queue)
    BY <2>3, ValuesAre
  <2>7. Document!View(Phone, version) = Last(queue)
    <3>1. [d \in {Phone} |-> Values][Phone] = Values
      OBVIOUS
    <3>2. QED
      BY <1>3, <2>3, <2>5, <2>6, <3>1 DEF Document!View
  <2>8. QED
    BY <1>1, <1>5, <2>7 DEF LocalView
<1>6. QED
  BY <1>4, <1>5

\* Gets are answered from the cache, or with an error when nothing is cached.
LEMMA AnswersAreReplies ==
  ASSUME RoundsInv, RoundsInv', NEW R, R # {}, R \subseteq Asked,
         Asked' = Asked \ R, Answered' = Answered \cup R, ToWrite' = ToWrite,
         Before(R, Asked'), \A n \in R, m \in ToWrite : after[n] < m,
         SameFirst, \A g \in R : FirstSeen(events', g) = LocalView(cached', queue),
         UNCHANGED << gets, failed, queue, results, cloud, after, since >>,
         cached' \in 0..Len(cloud), cached' >= cached, known' = cached'
  PROVE  Document!AnswerFromCache(Phone) \/ Document!AnswerWithError(Phone)
<1> DEFINE v == LocalView(cached', queue)
<1>1. \A g \in R : FirstSeen(events', g) = v
  OBVIOUS
<1> HIDE DEF v
<1>2. Document!Reply(Phone, v)
  BY <1>1, RepliesAre
<1>3. /\ Len(cloud) \in Nat /\ DOMAIN cloud = 1..Len(cloud) /\ cached \in 0..Len(cloud)
      /\ known \in 0..Len(cloud) /\ known <= cached
  <2>1. Types /\ KnownInv
    BY DEF RoundsInv, TypeInv, PhaseInv
  <2>2. QED
    BY <2>1, LenProperties DEF Types, CloudTypes, KnownInv
<1>4. CASE cached' = 0
  <2>1. v = NoDocument
    BY <1>4 DEF v, LocalView
  <2>2. known' = known
    BY <1>3, <1>4
  <2>3. QED
    BY <1>2, <2>1, <2>2 DEF Document!AnswerWithError
<1>5. CASE cached' # 0
  <2>1. cached' \in 1..Len(cloud)
    BY <1>3, <1>5
  <2>2. v = Document!View(Phone, cached')
    BY <2>1, ViewIs DEF v
  <2>3. cached' \in DOMAIN cloud /\ cached' >= [d \in {Phone} |-> known][Phone]
    <3>1. cached' >= known
      BY <1>3, <2>1
    <3>2. QED
      BY <1>3, <2>1, <3>1
  <2>4. [d \in {Phone} |-> known'] = [[d \in {Phone} |-> known] EXCEPT ![Phone] = cached']
    BY PhonePut
  <2>5. QED
    BY <1>2, <2>2, <2>3, <2>4 DEF Document!AnswerFromCache
<1>6. QED
  BY <1>4, <1>5

\* A step of the document, or none.
DocumentStep == [Document!Next]_(Document!vars)

LEMMA PhoneSteps ==
  ASSUME \/ Document!Ask(Phone) \/ Document!AnswerFromCache(Phone)
         \/ Document!AnswerWithError(Phone) \/ Document!Save(Phone)
         \/ Document!ApplyWrite(Phone) \/ Document!Acknowledge(Phone)
         \/ Document!Resend(Phone) \/ Document!Kill(Phone)
  PROVE  DocumentStep
BY DEF DocumentStep, Document!Next

\* A listener that waits or is answered as it is added.
LEMMA ListensAsDocument ==
  ASSUME RoundsInv, RoundsInv', AddFirstListener \/ AddListener
  PROVE  DocumentStep
<1> DEFINE g == Head(tasks).get
<1>1. Types /\ GetsInv /\ PhaseInv /\ OrderInv /\ AfterInv /\ ShownInv
  BY DEF RoundsInv, TypeInv, PhaseInv
<1>2. /\ NextTask("listen") /\ listeners' = Append(listeners, g) /\ Note(cached)
      /\ \E to : /\ to = << >> \/ (to = << g >> /\ Listening \subseteq raised)
                 /\ Raise(to, cached, queue)
      /\ UNCHANGED << gets, muted, queue, failed, after, cached >>
  BY <1>1, AddFirstListenerShown, AddListenerShown
<1>3. UNCHANGED << results, cloud, since >>
  BY DEF AddFirstListener, AddListener, writing
<1>4. PICK to : /\ to = << >> \/ (to = << g >> /\ Listening \subseteq raised)
                /\ Raise(to, cached, queue)
  BY <1>2
<1>5. /\ g \in Get /\ g \in Asked \ raised /\ \A h \in ToListen : g <= h
      /\ to \in Seq(Get) /\ ToSet(to) \subseteq {g} /\ ToWrite' = ToWrite
      /\ \A m \in ToWrite : after[g] < m
      /\ Answered' = Answered \cup ToSet(to) /\ Asked' = Asked \ ToSet(to)
      /\ raised' = raised \cup ToSet(to) /\ OrderInv'
  BY <1>1, <1>2, <1>4, ListenPhases
<1>6. cached \in 0..Len(cloud) /\ queue \in Seq(Get)
  BY <1>1 DEF Types, CloudTypes, WriteTypes
<1> HIDE DEF g
<1>7. SameFirst /\ \A h \in ToSet(to) \ raised : FirstSeen(events', h) = LocalView(cached, queue)
  BY <1>1, <1>4, <1>5, <1>6, RaisedSeen
<1>8. CASE to = << >>
  <2>1. ToSet(to) = {}
    BY <1>8, ToSetEmpty
  <2>2. Asked' = Asked /\ Answered' = Answered /\ raised' = raised
    BY <1>5, <2>1
  <2>3. known' = known
    BY <1>2, <2>2 DEF Note
  <2>4. UNCHANGED Document!vars
    BY <1>2, <1>3, <1>5, <1>7, <2>2, <2>3, RoundsKept
  <2>5. QED
    BY <2>4 DEF DocumentStep
<1>9. CASE to = << g >>
  <2>1. ToSet(to) = {g}
    BY <1>9 DEF ToSet
  <2>2. known' = cached'
    BY <1>2, <1>5, <2>1 DEF Note
  <2> DEFINE R == {g}
  <2>3. /\ R # {} /\ R \subseteq Asked /\ Asked' = Asked \ R /\ Answered' = Answered \cup R
        /\ \A n \in R, m \in ToWrite : after[n] < m
        /\ \A h \in R : FirstSeen(events', h) = LocalView(cached', queue)
    BY <1>2, <1>5, <1>7, <2>1
  <2>4. Before(R, Asked')
    <3>1. Before(Answered', Asked')
      BY <1>5 DEF OrderInv
    <3>2. QED
      BY <2>3, <3>1 DEF Before
  <2> HIDE DEF R
  <2>5. cached' \in 0..Len(cloud) /\ cached' >= cached
    BY <1>2, <1>6
  <2>6. Document!AnswerFromCache(Phone) \/ Document!AnswerWithError(Phone)
    BY <1>2, <1>3, <1>5, <1>7, <2>2, <2>3, <2>4, <2>5, AnswersAreReplies
  <2>7. QED
    BY <2>6, PhoneSteps
<1>10. QED
  BY <1>4, <1>8, <1>9

\* A snapshot of the view.
LEMMA ShowsAsDocument ==
  ASSUME RoundsInv, RoundsInv', UNCHANGED Showable, UNCHANGED results,
         cached' \in 0..Len(cloud), cached' >= cached, NEW to, Showing(cached', to)
  PROVE  DocumentStep
<1>1. Types /\ GetsInv /\ PhaseInv /\ OrderInv /\ AfterInv /\ OrderInv'
  BY DEF RoundsInv, TypeInv, PhaseInv
<1>2. UNCHANGED << gets, muted, tasks, listeners, queue, failed, after, cloud, since >>
  BY DEF Showable
<1>3. /\ to \in Seq(Get) /\ Ascending(to) /\ ToSet(to) \subseteq Listening
      /\ Listening \ raised \subseteq ToSet(to) \/ ToSet(to) \subseteq raised
      /\ Raise(to, cached', queue) /\ Note(cached')
  BY DEF Showing
<1>4. /\ TasksAscend(tasks') /\ ToListen' = ToListen /\ ToWrite' = ToWrite
      /\ queue \in Seq(Get)
  BY <1>1, <1>2 DEF OrderInv, ToListen, ToWrite, Types, WriteTypes
<1>5. /\ Asked' = Asked \ ToSet(to)
      /\ Answered' = Answered \cup (ToSet(to) \ raised)
      /\ ToSet(to) \subseteq raised => Asked' = Asked /\ Answered' = Answered
      /\ ~(ToSet(to) \subseteq raised) => Asked' = ToListen
  BY <1>1, <1>2, <1>3, <1>4, ShownPhases
<1>6. SameFirst /\ \A h \in ToSet(to) \ raised : FirstSeen(events', h) = LocalView(cached', queue)
  BY <1>1, <1>3, <1>4, RaisedSeen
<1>7. raised' = raised \cup ToSet(to)
  BY <1>3 DEF Raise
<1>8. CASE ToSet(to) \subseteq raised
  <2>1. raised' = raised
    BY <1>7, <1>8
  <2>2. known' = known
    BY <1>3, <2>1 DEF Note
  <2>3. UNCHANGED Document!vars
    BY <1>2, <1>4, <1>5, <1>6, <1>8, <2>2, RoundsKept
  <2>4. QED
    BY <2>3 DEF DocumentStep
<1>9. CASE ~(ToSet(to) \subseteq raised)
  <2> DEFINE R == ToSet(to) \ raised
  <2>1. raised' # raised
    BY <1>7, <1>9
  <2>2. known' = cached'
    BY <1>3, <2>1 DEF Note
  <2>3. R # {} /\ R \subseteq Listening \ raised /\ R \subseteq Asked
    BY <1>3, <1>9, AskedIs
  <2>4. Asked' = Asked \ R
    <3>1. Asked \cap raised = {}
      BY <1>1, AskedIs DEF GetsInv, ToListen, Listening
    <3>2. QED
      BY <1>5, <3>1
  <2>5. Answered' = Answered \cup R
    BY <1>5
  <2>6. Before(R, Asked')
    <3>1. Before(Answered', Asked')
      BY <1>1 DEF OrderInv
    <3>2. QED
      BY <2>5, <3>1 DEF Before
  <2>7. \A n \in R, m \in ToWrite : after[n] < m
    BY <1>1, <2>3 DEF AfterInv
  <2>8. \A h \in R : FirstSeen(events', h) = LocalView(cached', queue)
    BY <1>6
  <2> HIDE DEF R
  <2>9. Document!AnswerFromCache(Phone) \/ Document!AnswerWithError(Phone)
    BY <1>2, <1>4, <1>6, <2>2, <2>3, <2>4, <2>5, <2>6, <2>7, <2>8, AnswersAreReplies
  <2>10. QED
    BY <2>9, PhoneSteps
<1>10. QED
  BY <1>8, <1>9

\* Everything else that leaves the gets, the writes and the document alone.
LEMMA IdlesAsDocument ==
  ASSUME RoundsInv, RoundsInv',
         UNCHANGED << gets, muted, tasks, listeners, queue, failed, after,
                      events, raised, known, results, cloud, since >>
  PROVE  DocumentStep
<1>1. ToListen' = ToListen /\ ToWrite' = ToWrite /\ Listening' = Listening
  BY DEF ToListen, ToWrite, Listening
<1>2. Asked' = Asked /\ Answered' = Answered
  BY <1>1, AskedIs, PhasesNext
<1>3. UNCHANGED Document!vars
  BY <1>1, <1>2, RoundsKept, SameEvents
<1>4. QED
  BY <1>3 DEF DocumentStep

LEMMA UnlistensAsDocument ==
  ASSUME RoundsInv, RoundsInv', RemoveListener \/ RemoveLastListener
  PROVE  DocumentStep
<1>1. Asked' = Asked /\ Answered' = Answered /\ ToWrite' = ToWrite
  BY UnlistenPhases DEF RoundsInv, TypeInv
<1>2. UNCHANGED << gets, events, failed, queue, results, cloud, after, since, known >>
  BY DEF RemoveListener, RemoveLastListener, Unlisten, app, writing, store, history
<1>3. UNCHANGED Document!vars
  BY <1>1, <1>2, RoundsKept, SameEvents
<1>4. QED
  BY <1>3 DEF DocumentStep

LEMMA SnapshotAsDocument ==
  ASSUME RoundsInv, RoundsInv', OnWatchSnapshot \/ OnWatchStreamClose \/ OnlineStateTimeout
  PROVE  DocumentStep
<1>1. Types /\ WatchInv /\ PhaseInv
  BY DEF RoundsInv, TypeInv
<1>2. CASE OnWatchSnapshot
  <2>1. /\ UNCHANGED Showable /\ cached' \in 0..Len(cloud) /\ cached' >= cached
        /\ \/ UNCHANGED << events, raised, known, cached >>
           \/ \E to : Showing(cached', to)
    BY <1>1, <1>2, OnWatchSnapshotShown
  <2>2. UNCHANGED results
    BY <1>2 DEF OnWatchSnapshot, writing
  <2>3. CASE UNCHANGED << events, raised, known, cached >>
    BY <2>1, <2>2, <2>3, IdlesAsDocument DEF Showable
  <2>4. CASE \E to : Showing(cached', to)
    BY <2>1, <2>2, <2>4, ShowsAsDocument
  <2>5. QED
    BY <2>1, <2>3, <2>4
<1>3. CASE OnWatchStreamClose \/ OnlineStateTimeout
  <2>1. UNCHANGED Showable /\ UNCHANGED << cached, results >>
    BY <1>3 DEF OnWatchStreamClose, OnlineStateTimeout, Showable, store, writing
  <2>2. CASE GoOffline
    <3>1. \E to : Showing(cached, to)
      BY <1>1, <2>1, <2>2, GoOfflineShown DEF Showable
    <3>2. cached' = cached /\ cached \in 0..Len(cloud) /\ cached >= cached
      BY <1>1, <2>1 DEF Types, CloudTypes
    <3>3. QED
      BY <2>1, <3>1, <3>2, ShowsAsDocument
  <2>3. CASE ~GoOffline
    <3>1. OnWatchStreamClose
      BY <1>3, <2>3 DEF OnlineStateTimeout
    <3>2. UNCHANGED << events, raised, known >>
      BY <2>3, <3>1 DEF OnWatchStreamClose
    <3>3. QED
      BY <2>1, <3>2, IdlesAsDocument DEF Showable
  <2>4. QED
    BY <2>2, <2>3
<1>4. QED
  BY <1>2, <1>3

\* The handler of the oldest answer runs, or an event is dropped.
LEMMA HandlesAsDocument ==
  ASSUME RoundsInv, RoundsInv', HandleEvent
  PROVE  DocumentStep
<1> DEFINE e == Head(events)
           g == e.get
<1>1. Types /\ GetsInv /\ OrderInv /\ WritesInv /\ AfterInv
  BY DEF RoundsInv, TypeInv, PhaseInv
<1>2. UNCHANGED << gets, queue, results, cloud, after, since, known >>
  BY DEF HandleEvent, writing, store
<1>3. /\ events \in Seq(Event) /\ events # << >> /\ events' = Tail(events)
      /\ GetsOf(events) = {g} \cup GetsOf(events')
      /\ \A h \in Answered : g <= h
  BY <1>1, HandledIs
<1>4. /\ Asked' = Asked
      /\ \/ /\ g \in muted /\ Answered' = Answered /\ ToWrite' = ToWrite
            /\ UNCHANGED << muted, failed >>
         \/ /\ g \in Answered /\ Answered' = Answered \ {g} /\ muted' = muted \cup {g}
            /\ \/ /\ e.seen = NoDocument
                  /\ ToWrite' = ToWrite /\ failed' = failed \cup {g}
               \/ /\ e.seen # NoDocument
                  /\ ToWrite' = ToWrite \cup {g} /\ failed' = failed
  BY <1>1, HandleEventPhases
<1>5. /\ FirstSeen(events, g) = e.seen
      /\ \A h \in GetsOf(events') : h # g => FirstSeen(events', h) = FirstSeen(events, h)
  BY <1>3, FirstTail
<1> HIDE DEF e, g
<1>6. Answered = GetsOf(events) \ muted
  BY AskedIs
<1>7. /\ Versions' = Versions /\ Applied' = Applied /\ Queued' = Queued /\ Unasked' = Unasked
  BY <1>2, VersionsKept DEF Queued, Unasked
<1>8. CASE g \in muted
  <2>1. /\ Answered' = Answered /\ ToWrite' = ToWrite /\ failed' = failed
    BY <1>4, <1>6, <1>8
  <2>2. SameFirst
    <3>1. \A h \in Answered : h \in GetsOf(events') /\ h # g
      BY <1>3, <1>6, <1>8
    <3>2. QED
      BY <1>5, <3>1 DEF SameFirst
  <2>3. UNCHANGED Document!vars
    BY <1>2, <1>4, <2>1, <2>2, RoundsKept
  <2>4. QED
    BY <2>3 DEF DocumentStep
<1>9. CASE g \notin muted
  <2>1. /\ g \in Answered /\ Answered' = Answered \ {g}
        /\ IF e.seen = NoDocument THEN ToWrite' = ToWrite /\ failed' = failed \cup {g}
           ELSE ToWrite' = ToWrite \cup {g} /\ failed' = failed
    BY <1>4, <1>9
  <2>2. g \in Get /\ g \notin ToWrite \cup Queued \cup Asked \cup failed \cup Unasked
    <3>1. g \in 1..gets /\ gets \in Nat /\ g \in Get
      BY <2>1, PhasesApart
    <3>2. g \notin Unasked
      BY <3>1 DEF Unasked
    <3>3. QED
      BY <2>1, <3>1, <3>2, PhasesApart
  <2>3. SameFirst
    <3>1. \A h \in Answered' : h \in GetsOf(events') /\ h # g
      BY <1>3, <1>6, <2>1
    <3>2. QED
      BY <1>5, <3>1 DEF SameFirst
  <2>4. \A h \in Get : h # g => SamePhase(h)
    BY <1>4, <1>7, <2>1 DEF SamePhase
  <2>5. \A h \in Get : h # g => Values'[h] = Values[h]
    <3>1. ASSUME NEW h \in Get, h # g PROVE Values'[h] = Values[h]
      <4>1. SamePhase(h)
        BY <2>4, <3>1
      <4>2. /\ h \in Answered' <=> h \in Answered
            /\ h \in ToWrite' \cup Queued' <=> h \in ToWrite \cup Queued
        BY <4>1 DEF SamePhase
      <4>3. QED
        BY <2>3, <4>2, ValueKept
    <3>2. QED
      BY <3>1
  <2>6. Values[g] = e.seen
    BY <1>5, <2>1, <2>2, ValuesAre
  <2>7. Document!IsOldest(g, Document!In(Phone, {"answered"})) /\ g \in Document!Round
    BY <1>3, <2>1, <2>2, RoundsIn DEF Document!IsOldest
  <2>8. [d \in {Phone} |-> Values][Phone][g] = e.seen
    BY <2>6
  <2>9. CASE e.seen = NoDocument
    <3>1. ToWrite' = ToWrite /\ failed' = failed \cup {g}
      BY <2>1, <2>9
    <3>2. Stages'[g] = "failed"
      BY <2>2, <3>1, StagesNext
    <3>3. Stages' = [Stages EXCEPT ![g] = "failed"]
      BY <2>2, <2>4, <3>2, StagesExcept
    <3>4. Values'[g] = NoDocument
      BY <1>7, <2>1, <2>2, <3>1, ValuesNext
    <3>5. Values' = Values
      <4>1. \A h \in Get : Values'[h] = Values[h]
        BY <2>5, <2>6, <2>9, <3>4
      <4>2. QED
        BY <4>1, ValuesAre, ValuesNext
    <3>6. [d \in {Phone} |-> Stages'] = [[d \in {Phone} |-> Stages] EXCEPT ![Phone][g] = "failed"]
      BY <3>3, PhoneExcept
    <3>7. \A new : Document!HandleAnswer(Phone, new)
      BY <1>2, <1>7, <2>7, <2>8, <2>9, <3>5, <3>6 DEF Document!HandleAnswer
    <3>8. 0 \in -MaxElsewhere .. MaxGets
      OBVIOUS
    <3>9. QED
      BY <3>7, <3>8 DEF DocumentStep, Document!Next
  <2>10. CASE e.seen # NoDocument
    <3>1. ToWrite' = ToWrite \cup {g} /\ failed' = failed
      BY <2>1, <2>10
    <3>2. Stages'[g] = "called"
      BY <2>2, <3>1, StagesNext
    <3>3. Stages' = [Stages EXCEPT ![g] = "called"]
      BY <2>2, <2>4, <3>2, StagesExcept
    <3>4. Values'[g] = g
      BY <2>2, <3>1, ValuesNext
    <3>5. Values' = [Values EXCEPT ![g] = g]
      <4>1. Values = [h \in Get |-> Values[h]] /\ Values' = [h \in Get |-> Values'[h]]
        BY ValuesAre, ValuesNext
      <4>2. QED
        BY <2>2, <2>5, <3>4, <4>1
    <3>6. /\ [d \in {Phone} |-> Stages'] = [[d \in {Phone} |-> Stages] EXCEPT ![Phone][g] = "called"]
          /\ [d \in {Phone} |-> Values'] = [[d \in {Phone} |-> Values] EXCEPT ![Phone][g] = g]
      BY <3>3, <3>5, PhoneExcept
    <3>7. Document!HandleAnswer(Phone, g)
      BY <1>2, <1>7, <2>7, <2>8, <2>10, <3>6 DEF Document!HandleAnswer
    <3>8. g \in -MaxElsewhere .. MaxGets
      BY <2>2 DEF Get
    <3>9. QED
      BY <3>7, <3>8 DEF DocumentStep, Document!Next
  <2>11. QED
    BY <2>9, <2>10
<1>10. QED
  BY <1>8, <1>9

\* The oldest write is saved.
LEMMA SavesAsDocument ==
  ASSUME RoundsInv, RoundsInv', WriteMutations
  PROVE  DocumentStep
<1> DEFINE g == Head(tasks).get
<1>1. Types /\ GetsInv /\ PhaseInv
  BY DEF RoundsInv, TypeInv
<1>2. /\ queue' = Append(queue, g) /\ Refresh(cached, queue')
      /\ UNCHANGED << gets, failed, results, cloud, after, since, known >>
  BY DEF WriteMutations, history
<1>3. /\ Asked' = Asked /\ Answered' = Answered /\ ToWrite = ToWrite' \cup {g}
      /\ g \in Get /\ g \notin ToWrite' /\ \A m \in ToWrite : g <= m
      /\ Queued' = Queued \cup {g} /\ g \notin Queued
  BY <1>1, WriteMutationsPhases DEF Queued
<1> HIDE DEF g
<1>4. /\ queue \in Seq(Get) /\ queue' \in Seq(Get) /\ cached \in 0..Len(cloud)
      /\ \A i \in 1..Len(queue) : queue'[i] = queue[i]
  BY <1>1, <1>2, <1>3, AppendProperties DEF Types, WriteTypes, CloudTypes
<1>5. SameFirst
  BY <1>1, <1>2, <1>4, RefreshedSeen
<1>6. Versions' = Versions /\ Applied' = Applied
  <2>1. \A i \in DOMAIN results : queue'[i] = queue[i]
    <3>1. DOMAIN results \subseteq 1..Len(queue)
      BY AppliedIs
    <3>2. QED
      BY <1>4, <3>1
  <2>2. QED
    BY <1>2, <2>1, VersionsKept
<1>7. Unasked' = Unasked
  BY <1>2 DEF Unasked
<1>8. Values' = Values
  <2>1. ToWrite' \cup Queued' = ToWrite \cup Queued
    BY <1>3
  <2>2. QED
    BY <1>3, <1>5, <2>1, ValuesKept
<1>9. Stages' = [Stages EXCEPT ![g] = "saved"]
  <2>1. \A h \in Get : h # g => SamePhase(h)
    BY <1>2, <1>3, <1>6, <1>7 DEF SamePhase
  <2>2. Stages'[g] = "saved"
    <3>1. g \notin Applied' /\ g \in Queued'
      BY <1>3, <1>6, AppliedIs
    <3>2. QED
      BY <1>3, <3>1, StagesNext
  <2>3. QED
    BY <1>3, <2>1, <2>2, StagesExcept
<1>10. Document!IsOldest(g, Document!In(Phone, {"called"})) /\ g \in Document!Round
  BY <1>3, RoundsIn DEF Document!IsOldest
<1>11. [d \in {Phone} |-> Stages'] = [[d \in {Phone} |-> Stages] EXCEPT ![Phone][g] = "saved"]
  BY <1>9, PhoneExcept
<1>12. Document!Save(Phone)
  BY <1>2, <1>6, <1>8, <1>10, <1>11 DEF Document!Save
<1>13. QED
  BY <1>12, PhoneSteps

\* Somebody else changes the document.
LEMMA ElsewhereAsDocument ==
  ASSUME RoundsInv, RoundsInv', WriteElsewhere
  PROVE  DocumentStep
<1> DEFINE new == -1 - ChangesElsewhere
<1>1. /\ ChangesElsewhere < MaxElsewhere /\ cloud' = Append(cloud, new)
      /\ UNCHANGED << gets, muted, tasks, listeners, queue, failed, after,
                      events, raised, known, results, since >>
  BY DEF WriteElsewhere, app, views, writing, store, history
<1>2. ChangesElsewhere \in Nat
  <2>1. cloud \in Seq(Int)
    BY DEF RoundsInv, TypeInv, Types, CloudTypes
  <2>2. IsFiniteSet(DOMAIN cloud)
    BY <2>1, LenProperties, FS_Interval
  <2>3. IsFiniteSet({i \in DOMAIN cloud : cloud[i] \in Elsewhere})
    BY <2>2, FS_Subset
  <2>4. QED
    BY <2>3, FS_CardinalityType DEF ChangesElsewhere
<1>3. new \in -MaxElsewhere .. MaxGets
  BY <1>1, <1>2
<1> HIDE DEF new
<1>4. ToListen' = ToListen /\ ToWrite' = ToWrite /\ Listening' = Listening
  BY <1>1 DEF ToListen, ToWrite, Listening
<1>5. Asked' = Asked /\ Answered' = Answered
  BY <1>1, <1>4, AskedIs, PhasesNext
<1>6. Versions' = Versions /\ Applied' = Applied /\ Queued' = Queued /\ Unasked' = Unasked
  BY <1>1, VersionsKept DEF Queued, Unasked
<1>7. Values' = Values
  BY <1>1, <1>4, <1>5, <1>6, ValuesKept, SameEvents
<1>8. Stages' = Stages
  <2>1. \A g \in Get : SamePhase(g)
    BY <1>1, <1>4, <1>5, <1>6 DEF SamePhase
  <2>2. \A g \in Get : Stages'[g] = Stages[g]
    BY <2>1, StageKept
  <2>3. QED
    BY <2>2, StagesAre, StagesNext
<1>9. Document!WriteElsewhere(new)
  BY <1>1, <1>6, <1>7, <1>8 DEF Document!WriteElsewhere
<1>10. QED
  BY <1>3, <1>9 DEF DocumentStep, Document!Next

\* The places of the queue are as different as the gets.
LEMMA QueueIsInOrder ==
  ASSUME RoundsInv, NEW i \in DOMAIN queue, NEW j \in DOMAIN queue
  PROVE  /\ queue[i] \in Get /\ queue[i] \in Queued
         /\ i < j => queue[i] < queue[j]
         /\ i <= j => queue[i] <= queue[j]
         /\ i # j => queue[i] # queue[j]
<1>1. queue \in Seq(Get) /\ DOMAIN queue = 1..Len(queue) /\ Len(queue) \in Nat
  BY AppliedIs
<1>2. queue[i] \in Get /\ queue[j] \in Get /\ queue[i] \in Int /\ queue[j] \in Int
  BY <1>1, ElementOfSeq DEF Get
<1>3. /\ i < j => queue[i] < queue[j]
      /\ j < i => queue[j] < queue[i]
  BY DEF RoundsInv, PhaseInv, WritesInv, Ascending
<1>4. i \in Int /\ j \in Int
  BY <1>1
<1>5. QED
  BY <1>2, <1>3, <1>4 DEF Queued, ToSet

\* The backend applies the oldest write that it has not applied.
LEMMA AppliesAsDocument ==
  ASSUME RoundsInv, RoundsInv', BackendApplies
  PROVE  DocumentStep
<1> DEFINE k == Len(results) + 1
           g == queue[k]
<1>1. /\ sent # << >> /\ cloud' = Append(cloud, Head(sent))
      /\ results' = Append(results, Len(cloud) + 1)
      /\ UNCHANGED << gets, muted, tasks, listeners, queue, failed, after,
                      events, raised, known, since >>
  BY DEF BackendApplies, app, views, store, history
<1>2. /\ queue \in Seq(Get) /\ results \in Seq(Nat)
      /\ DOMAIN queue = 1..Len(queue) /\ DOMAIN results = 1..Len(results)
      /\ Len(queue) \in Nat /\ Len(results) \in 0..Len(queue)
      /\ Applied = {queue[i] : i \in DOMAIN results}
  BY AppliedIs
<1>3. cloud \in Seq(Int) /\ Len(cloud) \in Nat
  BY LenProperties DEF RoundsInv, TypeInv, Types, CloudTypes
<1>4. k \in DOMAIN queue /\ Head(sent) = g
  <2>1. WriteInv /\ sent \in Seq(Get)
    BY DEF RoundsInv, TypeInv, Types, WriteTypes
  <2>2. Len(sent) \in Nat \ {0} /\ Head(sent) = sent[1] /\ 1 \in DOMAIN sent
    <3>1. Len(sent) \in Nat /\ DOMAIN sent = 1..Len(sent) /\ Len(sent) # 0
      BY <1>1, <2>1, LenProperties, EmptySeq
    <3>2. QED
      BY <1>1, <2>1, <3>1, HeadTailProperties
  <2>3. write = "open"
    BY <1>1, <2>1 DEF WriteInv
  <2>4. Len(results) + Len(sent) = piped /\ piped \in 0..Len(queue)
    BY <2>1, <2>3, FittingIs DEF WriteInv
  <2>5. sent[1] = queue[Len(results) + 1]
    BY <2>1, <2>2 DEF WriteInv, Continues
  <2>6. QED
    BY <1>2, <2>2, <2>4, <2>5
<1>5. /\ DOMAIN results' = 1..k /\ results'[k] = Len(cloud) + 1
      /\ \A i \in DOMAIN results : results'[i] = results[i]
  <2>1. Len(cloud) + 1 \in Nat
    BY <1>3
  <2>2. /\ results' \in Seq(Nat) /\ Len(results') = k
        /\ \A i \in 1..Len(results) : results'[i] = results[i]
        /\ results'[Len(results) + 1] = Len(cloud) + 1
    BY <1>1, <1>2, <2>1, AppendProperties
  <2>3. QED
    BY <1>2, <2>2, LenProperties
<1>6. DOMAIN results' = DOMAIN results \cup {k} /\ k \notin DOMAIN results
  BY <1>2, <1>5
<1>7. DOMAIN results \subseteq DOMAIN queue /\ \A j \in DOMAIN queue : j \in DOMAIN results \/ k <= j
  BY <1>2
<1>8. queue' = queue
  BY <1>1
<1> HIDE DEF k
<1>9. Applied' = Applied \cup {g}
  BY <1>2, <1>6, <1>8, AppliedNext
<1>10. g \in Get /\ g \in Queued /\ g \notin Applied /\ \A h \in Queued \ Applied : g <= h
  <2>1. \A i \in DOMAIN results : queue[i] # g
    BY <1>4, <1>6, <1>7, QueueIsInOrder
  <2>2. \A j \in DOMAIN queue : j \notin DOMAIN results => g <= queue[j]
    BY <1>4, <1>7, QueueIsInOrder
  <2>3. g \in Get /\ g \in Queued
    BY <1>4, QueueIsInOrder
  <2>4. \A h \in Queued \ Applied : g <= h
    BY <1>2, <2>2 DEF Queued, ToSet
  <2>5. QED
    BY <1>2, <2>1, <2>3, <2>4
<1>11. /\ Asked' = Asked /\ Answered' = Answered /\ ToWrite' = ToWrite
       /\ Queued' = Queued /\ Unasked' = Unasked
  <2>1. ToListen' = ToListen /\ ToWrite' = ToWrite /\ Listening' = Listening
    BY <1>1 DEF ToListen, ToWrite, Listening
  <2>2. QED
    BY <1>1, <2>1, AskedIs, PhasesNext DEF Queued, Unasked
<1> HIDE DEF g
<1>12. Values' = Values
  BY <1>1, <1>11, ValuesKept, SameEvents
<1>13. Stages' = [Stages EXCEPT ![g] = "applied"]
  <2>1. \A h \in Get : h # g => SamePhase(h)
    BY <1>1, <1>9, <1>11 DEF SamePhase
  <2>2. Stages'[g] = "applied"
    BY <1>9, <1>10, StagesNext
  <2>3. QED
    BY <1>10, <2>1, <2>2, StagesExcept
<1>14. Versions' = [Versions EXCEPT ![g] = Len(cloud) + 1]
  <2>1. Versions'[g] = Len(cloud) + 1
    <3>1. k \in DOMAIN results' /\ queue'[k] = g
      BY <1>6, <1>8 DEF g
    <3>2. QED
      BY <1>5, <3>1, VersionsNext
  <2>2. ASSUME NEW h \in Get, h # g PROVE Versions'[h] = Versions[h]
    <3>1. CASE h \in Applied
      <4>1. PICK i \in DOMAIN results : h = queue[i]
        BY <1>2, <3>1
      <4>2. i \in DOMAIN results' /\ queue'[i] = h /\ results'[i] = results[i]
        BY <1>5, <1>6, <1>8, <4>1
      <4>3. QED
        BY <4>1, <4>2, VersionsAre, VersionsNext
    <3>2. CASE h \notin Applied
      <4>1. h \notin Applied'
        BY <1>9, <2>2, <3>2
      <4>2. QED
        BY <3>2, <4>1, VersionsAre, VersionsNext
    <3>3. QED
      BY <3>1, <3>2
  <2>3. QED
    BY <1>10, <2>1, <2>2, VersionsAre, VersionsNext
<1>15. Document!IsOldest(g, Document!In(Phone, {"saved"})) /\ g \in Document!Round
  BY <1>10, RoundsIn DEF Document!IsOldest
<1>16. cloud' = Append(cloud, [d \in {Phone} |-> Values][Phone][g])
  <2>1. Values[g] = g
    BY <1>10, ValuesAre
  <2>2. QED
    BY <1>1, <1>4, <2>1 DEF g
<1>17. /\ [d \in {Phone} |-> Stages'] = [[d \in {Phone} |-> Stages] EXCEPT ![Phone][g] = "applied"]
       /\ [d \in {Phone} |-> Versions'] =
            [[d \in {Phone} |-> Versions] EXCEPT ![Phone][g] = Len(cloud) + 1]
  BY <1>13, <1>14, PhoneExcept
<1>18. Document!ApplyWrite(Phone)
  BY <1>1, <1>12, <1>15, <1>16, <1>17 DEF Document!ApplyWrite
<1>19. QED
  BY <1>18, PhoneSteps

\* The client learns of the oldest applied write.
LEMMA AcknowledgesAsDocument ==
  ASSUME RoundsInv, RoundsInv', OnWriteStreamMutationResult
  PROVE  DocumentStep
<1> DEFINE g == queue[1]
<1>1. Types /\ GetsInv /\ PhaseInv /\ WriteInv
  BY DEF RoundsInv, TypeInv
<1>2. /\ results # << >> /\ results' = Tail(results) /\ Refresh(cached', queue')
      /\ known' = Max({known, Head(results)})
      /\ UNCHANGED << cloud, gets, failed, after, since >>
  BY DEF OnWriteStreamMutationResult
<1>3. /\ Asked' = Asked /\ Answered' = Answered /\ ToWrite' = ToWrite
      /\ Queued = Queued' \cup {g} /\ g \notin Queued'
      /\ queue # << >> /\ queue' = Tail(queue) /\ \A m \in Queued : g <= m
  BY <1>1, ResultPhases DEF Queued
<1>4. /\ queue \in Seq(Get) /\ results \in Seq(Nat)
      /\ DOMAIN queue = 1..Len(queue) /\ DOMAIN results = 1..Len(results)
      /\ Len(queue) \in Nat /\ Len(results) \in 0..Len(queue)
      /\ Applied = {queue[i] : i \in DOMAIN results}
  BY AppliedIs
<1>5. /\ Len(results) \in Nat \ {0} /\ Head(results) = results[1]
      /\ results' \in Seq(Nat) /\ Len(results') = Len(results) - 1
      /\ \A i \in 1..Len(results') : results'[i] = results[i + 1]
      /\ queue' \in Seq(Get) /\ Len(queue') = Len(queue) - 1
      /\ \A i \in 1..Len(queue') : queue'[i] = queue[i + 1]
  <2>1. Len(results) # 0
    BY <1>2, <1>4, EmptySeq
  <2>2. QED
    BY <1>2, <1>3, <1>4, <2>1, HeadTailProperties
<1>6. /\ DOMAIN results' = 1..Len(results) - 1
      /\ \A i \in DOMAIN results' : /\ i + 1 \in DOMAIN results /\ results'[i] = results[i + 1]
                                    /\ queue'[i] = queue[i + 1]
      /\ \A i \in DOMAIN results : i # 1 => i - 1 \in DOMAIN results' /\ (i - 1) + 1 = i
      /\ 1 \in DOMAIN results /\ 1 \in DOMAIN queue
  <2>1. DOMAIN results' = 1..Len(results) - 1
    BY <1>5, LenProperties
  <2>2. \A i \in 1..Len(results) - 1 : /\ i \in 1..Len(results') /\ i \in 1..Len(queue')
                                       /\ i + 1 \in 1..Len(results)
    BY <1>4, <1>5
  <2>3. \A i \in 1..Len(results) : i # 1 => i - 1 \in 1..Len(results) - 1 /\ (i - 1) + 1 = i
    BY <1>5
  <2>4. 1 \in 1..Len(results) /\ 1 \in 1..Len(queue)
    BY <1>4, <1>5
  <2>5. QED
    BY <1>4, <1>5, <2>1, <2>2, <2>3, <2>4
<1>7. SameFirst
  <2>1. cached' \in 0..Len(cloud)
    <3>1. CloudTypes'
      BY <1>1, ResultTypes
    <3>2. QED
      BY <1>2, <3>1 DEF CloudTypes
  <2>2. QED
    BY <1>1, <1>2, <1>5, <2>1, RefreshedSeen
<1>8. g \in Get /\ g \in Applied /\ Versions[g] = Head(results)
  BY <1>4, <1>5, <1>6, QueueIsInOrder, VersionsAre
<1>9. Applied' = Applied \ {g}
  <2>1. Applied' = {queue'[i] : i \in DOMAIN results'}
    BY AppliedNext
  <2>2. ASSUME NEW h \in Applied' PROVE h \in Applied /\ h # g
    <3>1. h \in Applied
      BY <1>4, <1>6, <2>1, <2>2
    <3>2. h \in Queued'
      BY <2>2, AppliedNext
    <3>3. QED
      BY <1>3, <3>1, <3>2
  <2>3. ASSUME NEW h \in Applied, h # g PROVE h \in Applied'
    <3>1. PICK i \in DOMAIN results : h = queue[i]
      BY <1>4, <2>3
    <3>2. i # 1
      BY <2>3, <3>1
    <3>3. i - 1 \in DOMAIN results' /\ queue'[i - 1] = h
      BY <1>6, <3>1, <3>2
    <3>4. QED
      BY <2>1, <3>3
  <2>4. QED
    BY <2>2, <2>3
<1> HIDE DEF g
<1>10. Unasked' = Unasked
  BY <1>2 DEF Unasked
<1>11. \A h \in Get : h # g => SamePhase(h)
  BY <1>2, <1>3, <1>9, <1>10 DEF SamePhase
<1>12. g \notin ToWrite \cup Asked \cup Answered \cup failed \cup Unasked
  <2>1. g \in Queued /\ g \in 1..gets /\ gets \in Nat
    BY <1>3, PhasesApart
  <2>2. g \notin Unasked
    BY <2>1 DEF Unasked
  <2>3. QED
    BY <2>1, <2>2, PhasesApart
<1>13. Stages' = [Stages EXCEPT ![g] = "done"]
  <2>1. /\ Stages'[g] \in Document!Stage
        /\ Stages'[g] # "none" /\ Stages'[g] # "failed" /\ Stages'[g] # "asked"
        /\ Stages'[g] # "answered" /\ Stages'[g] # "called" /\ Stages'[g] # "applied"
        /\ Stages'[g] # "saved"
    BY <1>2, <1>3, <1>8, <1>9, <1>10, <1>12, StagesNext
  <2>2. Stages'[g] = "done"
    BY <2>1 DEF Document!Stage
  <2>3. QED
    BY <1>8, <1>11, <2>2, StagesExcept
<1>14. Values' = [Values EXCEPT ![g] = NoDocument]
  <2>1. Values'[g] = NoDocument
    BY <1>3, <1>8, <1>12, ValuesNext
  <2>2. ASSUME NEW h \in Get, h # g PROVE Values'[h] = Values[h]
    <3>1. /\ h \in Answered' <=> h \in Answered
          /\ h \in ToWrite' \cup Queued' <=> h \in ToWrite \cup Queued
      BY <1>3, <2>2
    <3>2. QED
      BY <1>7, <3>1, ValueKept
  <2>3. QED
    BY <1>8, <2>1, <2>2, ValuesAre, ValuesNext
<1>15. Versions' = [Versions EXCEPT ![g] = 0]
  <2>1. Versions'[g] = 0
    BY <1>8, <1>9, VersionsNext
  <2>2. ASSUME NEW h \in Get, h # g PROVE Versions'[h] = Versions[h]
    <3>1. CASE h \in Applied
      <4>1. PICK i \in DOMAIN results' : h = queue'[i]
        BY <1>9, <2>2, <3>1, AppliedNext
      <4>2. Versions'[h] = results'[i]
        BY <4>1, VersionsNext
      <4>3. i + 1 \in DOMAIN results /\ h = queue[i + 1] /\ results'[i] = results[i + 1]
        BY <1>6, <4>1
      <4>4. Versions[queue[i + 1]] = results[i + 1]
        BY <4>3, VersionsAre
      <4>5. QED
        BY <4>2, <4>3, <4>4
    <3>2. CASE h \notin Applied
      BY <1>9, <3>2, VersionsAre, VersionsNext
    <3>3. QED
      BY <3>1, <3>2
  <2>3. QED
    BY <1>8, <2>1, <2>2, VersionsAre, VersionsNext
<1>16. Document!IsOldest(g, Document!In(Phone, {"applied"})) /\ g \in Document!Round
  <2>1. \A m \in Applied : g <= m
    BY <1>3, PhasesApart
  <2>2. QED
    BY <1>8, <2>1, RoundsIn DEF Document!IsOldest
<1>17. known' = Document!Larger(known, Versions[g])
  <2>1. known \in Nat /\ Head(results) \in Nat
    <3>1. 1 \in 1..Len(results)
      BY <1>5
    <3>2. results[1] \in Nat
      BY <1>4, <3>1, ElementOfSeq
    <3>3. QED
      BY <1>1, <1>5, <3>2 DEF Types, CloudTypes
  <2>2. QED
    BY <1>2, <1>8, <2>1, MaxOfTwo DEF Document!Larger
<1>18. /\ [d \in {Phone} |-> Stages'] = [[d \in {Phone} |-> Stages] EXCEPT ![Phone][g] = "done"]
       /\ [d \in {Phone} |-> Values'] = [[d \in {Phone} |-> Values] EXCEPT ![Phone][g] = NoDocument]
       /\ [d \in {Phone} |-> Versions'] = [[d \in {Phone} |-> Versions] EXCEPT ![Phone][g] = 0]
  BY <1>13, <1>14, <1>15, PhoneExcept
<1>19. [d \in {Phone} |-> known'] =
         [[d \in {Phone} |-> known] EXCEPT ![Phone] =
            Document!Larger(@, [d \in {Phone} |-> Versions][Phone][g])]
  <2>1. [d \in {Phone} |-> known][Phone] = known /\ [d \in {Phone} |-> Versions][Phone] = Versions
    OBVIOUS
  <2>2. QED
    BY <1>17, <2>1, PhonePut
<1>20. Document!Acknowledge(Phone)
  BY <1>2, <1>16, <1>18, <1>19 DEF Document!Acknowledge
<1>21. QED
  BY <1>20, PhoneSteps

\* The connection is lost, and with it some rounds: what was applied but not
\* acknowledged is saved again.
LEMMA UnlearnsAsDocument ==
  ASSUME RoundsInv, RoundsInv', results' = << >>,
         UNCHANGED << gets, queue, cloud, after, since, known >>,
         NEW Lost, NEW lost,
         Document!In(Phone, lost) = Lost, Lost \subseteq Asked \cup Answered \cup ToWrite,
         failed' = failed \cup Lost, Asked' = Asked \ Lost,
         Answered' = Answered \ Lost, ToWrite' = ToWrite \ Lost,
         \A g \in Answered' : FirstSeen(events', g) = FirstSeen(events, g),
         "applied" \notin lost
  PROVE  Document!Unlearn(Phone, lost)
<1>1. Applied' = {} /\ Queued' = Queued /\ Unasked' = Unasked
  <2>1. DOMAIN results' = {}
    BY AppliedNext, EmptySeq
  <2>2. QED
    BY <2>1, AppliedNext DEF Queued, Unasked
<1>2. \A g \in Get : g \in Lost <=> Stages[g] \in lost
  BY RoundsIn DEF Document!In
<1>3. Stages' = [n \in Get |->
                   CASE Stages[n] = "applied" -> "saved"
                     [] Stages[n] \in lost -> "failed"
                     [] OTHER -> Stages[n]]
  <2>1. ASSUME NEW g \in Get
        PROVE  Stages'[g] = CASE Stages[g] = "applied" -> "saved"
                              [] Stages[g] \in lost -> "failed"
                              [] OTHER -> Stages[g]
    <3>1. CASE Stages[g] = "applied"
      <4>1. g \in Queued' \ Applied'
        BY <1>1, <3>1, StagesAre, PhasesApart
      <4>2. QED
        BY <3>1, <4>1, StagesNext
    <3>2. CASE Stages[g] # "applied" /\ g \in Lost
      BY <1>2, <3>2, StagesNext
    <3>3. CASE Stages[g] # "applied" /\ g \notin Lost
      <4>1. g \notin Applied
        BY <3>3, StagesAre
      <4>2. SamePhase(g)
        BY <1>1, <3>3, <4>1 DEF SamePhase
      <4>3. QED
        BY <1>2, <3>3, <4>2, StageKept
    <3>4. QED
      BY <3>1, <3>2, <3>3
  <2>2. QED
    BY <2>1, StagesNext
<1>4. Values' = [n \in Get |-> IF Stages[n] \in lost THEN NoDocument ELSE Values[n]]
  <2>1. SameFirst
    BY DEF SameFirst
  <2>2. ASSUME NEW g \in Get
        PROVE  Values'[g] = IF g \in Lost THEN NoDocument ELSE Values[g]
    <3>1. CASE g \in Lost
      <4>1. g \notin Queued
        BY <3>1, PhasesApart
      <4>2. QED
        BY <1>1, <3>1, <4>1, ValuesNext
    <3>2. CASE g \notin Lost
      BY <1>1, <2>1, <3>2, ValueKept
    <3>3. QED
      BY <3>1, <3>2
  <2>3. QED
    BY <1>2, <2>2, ValuesNext
<1>5. Versions' = [n \in Get |-> 0]
  <2>1. \A g \in Get : Versions'[g] = 0
    BY <1>1, VersionsNext
  <2>2. QED
    BY <2>1, VersionsNext
<1>6. Document!Round = Get /\ [d \in {Phone} |-> Stages][Phone] = Stages
      /\ [d \in {Phone} |-> Values][Phone] = Values
  BY RoundsIn
<1>7. [d \in {Phone} |-> Stages'] =
        [[d \in {Phone} |-> Stages] EXCEPT ![Phone] =
           [n \in Document!Round |->
              CASE @[n] = "applied" -> "saved"
                [] @[n] \in lost -> "failed"
                [] OTHER -> @[n]]]
  BY <1>3, <1>6, PhonePut
<1>8. [d \in {Phone} |-> Values'] =
        [[d \in {Phone} |-> Values] EXCEPT ![Phone] =
           [n \in Document!Round |->
              IF [d \in {Phone} |-> Stages][Phone][n] \in lost THEN NoDocument ELSE @[n]]]
  BY <1>4, <1>6, PhonePut
<1>9. [d \in {Phone} |-> Versions'] =
        [[d \in {Phone} |-> Versions] EXCEPT ![Phone] = [n \in Document!Round |-> 0]]
  BY <1>5, <1>6, PhonePut
<1>10. QED
  BY <1>7, <1>8, <1>9 DEF Document!Unlearn

\* The write stream breaks, or is restarted.
LEMMA ResendsAsDocument ==
  ASSUME RoundsInv, RoundsInv', OnWriteStreamClose \/ RestartNetwork
  PROVE  DocumentStep
<1>1. /\ results' = << >>
      /\ UNCHANGED << gets, muted, tasks, listeners, queue, failed, after,
                      events, raised, known, cloud, since >>
  BY DEF OnWriteStreamClose, RestartNetwork, RestartStreams, app, views, store, history
<1>2. CASE results = << >>
  BY <1>1, <1>2, IdlesAsDocument
<1>3. CASE results # << >>
  <2>1. Document!In(Phone, {"applied"}) # {}
    <3>1. 1 \in DOMAIN results
      BY <1>3, AppliedIs, EmptySeq
    <3>2. queue[1] \in Applied
      BY <3>1, AppliedIs
    <3>3. QED
      BY <3>2, RoundsIn
  <2>2. Document!In(Phone, {}) = {}
    BY DEF Document!In
  <2>3. Asked' = Asked /\ Answered' = Answered /\ ToWrite' = ToWrite
    <3>1. ToListen' = ToListen /\ ToWrite' = ToWrite /\ Listening' = Listening
      BY <1>1 DEF ToListen, ToWrite, Listening
    <3>2. QED
      BY <1>1, <3>1, AskedIs, PhasesNext
  <2>4. Document!Unlearn(Phone, {})
    BY <1>1, <2>2, <2>3, UnlearnsAsDocument
  <2>5. Document!Resend(Phone)
    BY <2>1, <2>4 DEF Document!Resend
  <2>6. QED
    BY <2>5, PhoneSteps
<1>4. QED
  BY <1>2, <1>3

LEMMA KillsAsDocument ==
  ASSUME RoundsInv, RoundsInv', Restart
  PROVE  DocumentStep
<1>1. Types /\ GetsInv /\ PhaseInv
  BY DEF RoundsInv, TypeInv
<1>2. results' = << >> /\ UNCHANGED << gets, queue, cloud, after, since, known >>
  BY DEF Restart, RestartStreams, store
<1>3. /\ Asked' = {} /\ Answered' = {} /\ ToWrite' = {}
      /\ failed' = failed \cup Asked \cup Answered \cup ToWrite
  BY <1>1, RestartPhases
<1> DEFINE Lost == Asked \cup Answered \cup ToWrite
<1>4. Document!In(Phone, {"asked", "answered", "called"}) = Lost
  <2>1. /\ Document!In(Phone, {"asked", "answered"}) = Asked \cup Answered
        /\ Document!In(Phone, {"called"}) = ToWrite
    BY RoundsIn
  <2>2. QED
    BY <2>1 DEF Document!In
<1>5. /\ failed' = failed \cup Lost /\ Asked' = Asked \ Lost
      /\ Answered' = Answered \ Lost /\ ToWrite' = ToWrite \ Lost
  BY <1>3
<1>6. \A g \in Answered' : FirstSeen(events', g) = FirstSeen(events, g)
  BY <1>3
<1>7. Document!Unlearn(Phone, {"asked", "answered", "called"})
  BY <1>2, <1>4, <1>5, <1>6, UnlearnsAsDocument
<1>8. Document!Kill(Phone)
  BY <1>7 DEF Document!Kill
<1>9. QED
  BY <1>8, PhoneSteps

LEMMA DocumentStepped ==
  ASSUME RoundsInv, RoundsInv', [Next]_vars
  PROVE  DocumentStep
<1>1. CASE GetDocument
  BY <1>1, GetDocumentAsks, PhoneSteps
<1>2. CASE HandleEvent
  BY <1>2, HandlesAsDocument
<1>3. CASE AddFirstListener \/ AddListener
  BY <1>3, ListensAsDocument
<1>4. CASE RemoveListener \/ RemoveLastListener
  BY <1>4, UnlistensAsDocument
<1>5. CASE WriteMutations
  BY <1>5, SavesAsDocument
<1>6. CASE OnWatchSnapshot \/ OnWatchStreamClose \/ OnlineStateTimeout
  BY <1>6, SnapshotAsDocument
<1>7. CASE OnWriteStreamMutationResult
  BY <1>7, AcknowledgesAsDocument
<1>8. CASE OnWriteStreamClose \/ RestartNetwork
  BY <1>8, ResendsAsDocument
<1>9. CASE Restart
  BY <1>9, KillsAsDocument
<1>10. CASE BackendApplies
  BY <1>10, AppliesAsDocument
<1>11. CASE WriteElsewhere
  BY <1>11, ElsewhereAsDocument
<1>12. CASE \/ OnWatchStreamOpen \/ OnTargetResponse \/ OnWriteStreamHandshakeComplete
            \/ BackendTakesRequest \/ BackendSendsSnapshot \/ UNCHANGED vars
  <2>1. UNCHANGED << gets, muted, tasks, listeners, queue, failed, after,
                     events, raised, known, results, cloud, since >>
    BY <1>12 DEF OnWatchStreamOpen, OnTargetResponse, OnWriteStreamHandshakeComplete,
                 BackendTakesRequest, BackendSendsSnapshot,
                 vars, app, views, writing, store, history
  <2>2. QED
    BY <2>1, IdlesAsDocument
<1>13. QED
  BY <1>1, <1>2, <1>3, <1>4, <1>5, <1>6, <1>7, <1>8, <1>9, <1>10, <1>11, <1>12 DEF Next

LEMMA DocumentInit == Init => Document!Init
<1> SUFFICES ASSUME Init PROVE Document!Init
  OBVIOUS
<1>1. /\ cloud = << 0 >> /\ gets = 0 /\ after = [g \in Get |-> 0] /\ since = 1 /\ known = 0
      /\ queue = << >> /\ results = << >>
  BY DEF Init
<1>2. Document!Round = Get
  BY DEF Document!Round, Get
<1>3. Stages = [g \in Get |-> "none"]
  <2>1. \A g \in Get : g > gets
    BY <1>1 DEF Get
  <2>2. \A g \in Get : Stages[g] = "none"
    <3>1. RoundsInv
      BY TypesInit, GetsInit, PhaseInit DEF RoundsInv
    <3>2. QED
      BY <2>1, <3>1, StagesAre DEF Unasked
  <2>3. Stages = [g \in Get |-> Stages[g]]
    BY DEF Stages
  <2>4. QED
    BY <2>2, <2>3
<1>4. Values = [g \in Get |-> NoDocument] /\ Versions = [g \in Get |-> 0]
  BY <1>3 DEF Values, Versions
<1>5. 0 \in -MaxElsewhere .. MaxGets
  BY ConstantsAssumption
<1>6. Document!Begin(0)
  BY <1>1, <1>2, <1>3, <1>4 DEF Document!Begin
<1>7. QED
  BY <1>5, <1>6 DEF Document!Init

\* Streams, targets, caches, queues and listeners add up to the document that
\* the program is promised, for every number of gets, faults and changes.
THEOREM ImplementsDocument == Spec => ImplementsCloudDocument
<1>1. Init => RoundsInv /\ Document!Init
  BY TypesInit, GetsInit, PhaseInit, DocumentInit DEF RoundsInv
<1>2. RoundsInv /\ [Next]_vars => RoundsInv'
  BY RoundsStep
<1>3. RoundsInv /\ RoundsInv' /\ [Next]_vars => [Document!Next]_(Document!vars)
  BY DocumentStepped DEF DocumentStep
<1>4. QED
  BY <1>1, <1>2, <1>3, PTL DEF Spec, ImplementsCloudDocument, Document!Spec
=============================================================================

--------------------------- MODULE CloudDocument ---------------------------
(***************************************************************************)
(* What the Firestore client promises of one document to a program that    *)
(* reads it with getDocument and writes it with updateData in the          *)
(* completion handler.  FirestoreClient implements it; EcoRating is built  *)
(* on it.                                                                  *)
(*                                                                         *)
(* A round is one getDocument and what follows from it.  The rounds of a   *)
(* device are numbered, and are served in that order at every stage:       *)
(*   "none"      not begun                                                 *)
(*   "asked"     getDocument was called                                    *)
(*   "answered"  the completion handler is on the main queue               *)
(*   "called"    the handler called updateData                             *)
(*   "saved"     the write is in the mutation queue, which is persistent   *)
(*   "applied"   the backend applied it, the device does not know yet      *)
(*   "done"      acknowledged, and "failed": without a write that counts   *)
(***************************************************************************)
EXTENDS Integers, Sequences

CONSTANTS
  Device,     \* the devices that have the document
  MaxRounds,  \* bound: rounds of each device
  Value,      \* what the document can hold
  NoValue     \* an error instead of a document

VARIABLES
  cloud,    \* the values the document has had; a version is an index
  stage,    \* per device and round: see above
  value,    \* per device and round: what was read, then what is written
  version,  \* per device and round: the version of an applied write
  after,    \* per device and round: the newest round whose write was called,
            \* but not saved, when this one asked
  since,    \* per device: the version when its open reads began
  known     \* per device: its cache holds this version or a newer one

vars == << cloud, stage, value, version, after, since, known >>

Round == 1..MaxRounds

Stage == {"none", "asked", "answered", "called", "saved", "applied", "done", "failed"}

\* The document exists, and nobody has read it.
Begin(first) ==
  /\ cloud = << first >>
  /\ stage = [d \in Device |-> [n \in Round |-> "none"]]
  /\ value = [d \in Device |-> [n \in Round |-> NoValue]]
  /\ version = [d \in Device |-> [n \in Round |-> 0]]
  /\ after = [d \in Device |-> [n \in Round |-> 0]]
  /\ since = [d \in Device |-> 1]
  /\ known = [d \in Device |-> 0]

Init == \E first \in Value : Begin(first)

-----------------------------------------------------------------------------
In(d, stages) == {n \in Round : stage[d][n] \in stages}

IsOldest(n, S) == n \in S /\ \A m \in S : n <= m

Newest(S) == CHOOSE n \in S : \A m \in S : m <= n

Larger(a, b) == IF a > b THEN a ELSE b

Reading(d) == In(d, {"asked", "answered"}) # {}

\* What device d makes of a version of the document: its own last write wins.
View(d, v) ==
  LET own == In(d, {"saved", "applied"}) IN
  IF own = {} THEN cloud[v] ELSE value[d][Newest(own)]

\* getDocument.
Ask(d) ==
  \E n \in Round :
    /\ IsOldest(n, In(d, {"none"}))
    /\ stage' = [stage EXCEPT ![d][n] = "asked"]
    /\ after' = [after EXCEPT ![d][n] =
                   IF In(d, {"called"}) = {} THEN 0 ELSE Newest(In(d, {"called"}))]
    /\ since' = [since EXCEPT ![d] = IF Reading(d) THEN @ ELSE Len(cloud)]
    /\ UNCHANGED << cloud, value, version, known >>

\* Some of the open reads of d, the older ones, are answered at once.  A read
\* that followed a write waits until that write is saved, and so sees it.
Reply(d, seen) ==
  \E last \in In(d, {"asked"}) :
    LET replied == {n \in In(d, {"asked"}) : n <= last} IN
    /\ \A n \in replied, m \in In(d, {"called"}) : m > after[d][n]
    /\ stage' = [stage EXCEPT ![d] =
                   [n \in Round |-> IF n \in replied THEN "answered" ELSE @[n]]]
    /\ value' = [value EXCEPT ![d] =
                   [n \in Round |-> IF n \in replied THEN seen ELSE @[n]]]
    /\ UNCHANGED << cloud, version, after, since >>

\* By the backend: no older than the oldest open read.
Answer(d) ==
  \E v \in DOMAIN cloud :
    /\ v >= since[d] /\ v >= known[d]
    /\ Reply(d, View(d, v))
    /\ known' = [known EXCEPT ![d] = v]

\* From the cache of a device that is offline, which other reads of the
\* document may have brought up to date.
AnswerFromCache(d) ==
  \E v \in DOMAIN cloud :
    /\ v >= known[d]
    /\ Reply(d, View(d, v))
    /\ known' = [known EXCEPT ![d] = v]

AnswerWithError(d) == Reply(d, NoValue) /\ UNCHANGED known

\* The completion handler runs: it writes, unless it was given an error.
HandleAnswer(d, new) ==
  \E n \in Round :
    /\ IsOldest(n, In(d, {"answered"}))
    /\ IF value[d][n] = NoValue
       THEN stage' = [stage EXCEPT ![d][n] = "failed"] /\ UNCHANGED value
       ELSE /\ stage' = [stage EXCEPT ![d][n] = "called"]
            /\ value' = [value EXCEPT ![d][n] = new]
    /\ UNCHANGED << cloud, version, after, since, known >>

\* The client puts the write into its mutation queue.
Save(d) ==
  \E n \in Round :
    /\ IsOldest(n, In(d, {"called"}))
    /\ stage' = [stage EXCEPT ![d][n] = "saved"]
    /\ UNCHANGED << cloud, value, version, after, since, known >>

\* The backend applies the write: the last writer wins.
ApplyWrite(d) ==
  \E n \in Round :
    /\ IsOldest(n, In(d, {"saved"}))
    /\ cloud' = Append(cloud, value[d][n])
    /\ stage' = [stage EXCEPT ![d][n] = "applied"]
    /\ version' = [version EXCEPT ![d][n] = Len(cloud) + 1]
    /\ UNCHANGED << value, after, since, known >>

\* The device learns that it was applied.
Acknowledge(d) ==
  \E n \in Round :
    /\ IsOldest(n, In(d, {"applied"}))
    /\ stage' = [stage EXCEPT ![d][n] = "done"]
    /\ value' = [value EXCEPT ![d][n] = NoValue]
    /\ version' = [version EXCEPT ![d][n] = 0]
    /\ known' = [known EXCEPT ![d] = Larger(@, version[d][n])]
    /\ UNCHANGED << cloud, after, since >>

\* The connection is lost before the device learns what was applied: it sends
\* all of that again, and the backend applies it again.
Unlearn(d, lost) ==
  /\ stage' = [stage EXCEPT ![d] = [n \in Round |->
                 CASE @[n] = "applied" -> "saved"
                   [] @[n] \in lost -> "failed"
                   [] OTHER -> @[n]]]
  /\ value' = [value EXCEPT ![d] =
                 [n \in Round |-> IF stage[d][n] \in lost THEN NoValue ELSE @[n]]]
  /\ version' = [version EXCEPT ![d] = [n \in Round |-> 0]]
  /\ UNCHANGED << cloud, after, since, known >>

Resend(d) ==
  /\ In(d, {"applied"}) # {}
  /\ Unlearn(d, {})

\* The process dies, and with it what is not in the mutation queue.
Kill(d) == Unlearn(d, {"asked", "answered", "called"})

\* Somebody else changes the document.
WriteElsewhere(new) ==
  /\ cloud' = Append(cloud, new)
  /\ UNCHANGED << stage, value, version, after, since, known >>

Next ==
  \/ \E d \in Device :
       \/ Ask(d)
       \/ Answer(d)
       \/ AnswerFromCache(d)
       \/ AnswerWithError(d)
       \/ \E new \in Value : HandleAnswer(d, new)
       \/ Save(d)
       \/ ApplyWrite(d)
       \/ Acknowledge(d)
       \/ Resend(d)
       \/ Kill(d)
  \/ \E new \in Value : WriteElsewhere(new)

Spec == Init /\ [][Next]_vars
=============================================================================

--------------------------- MODULE FirestoreClient ---------------------------
(***************************************************************************)
(* The Firestore client of one process and one document, as its vendored   *)
(* sources implement it: getDocument is a listener that is removed when it *)
(* has had its first event, updateData a batch of a persistent mutation    *)
(* queue.  The main queue (the user executor) and the worker queue run     *)
(* concurrently, the worker queue its tasks in order.  A watch stream and  *)
(* a write stream lead to the backend, which is modelled by what the       *)
(* client expects of it: it answers the requests of a stream in order, and *)
(* drops those of a broken stream.  A get is numbered, and the handler of  *)
(* get g writes the value g.                                               *)
(***************************************************************************)
EXTENDS Selections, SequencesExt, FiniteSetsExt

CONSTANTS
  MaxPendingWrites,  \* kMaxPendingWrites, the length of the write pipeline
  NoDocument,        \* no document is cached
  MaxGets,           \* bound: calls of getDocument
  MaxElsewhere,      \* bound: changes of the document by somebody else
  MaxFaults          \* bound: broken streams, reconnections and crashes

ASSUME ConstantsAssumption ==
  /\ MaxPendingWrites \in Nat \ {0}
  /\ MaxGets \in Nat /\ MaxElsewhere \in Nat /\ MaxFaults \in Nat
  /\ NoDocument \notin Int

VARIABLES
  cloud,      \* the values the document has had; a version is an index

  gets,       \* how often getDocument was called
  events,     \* main queue: snapshots that were raised for a get
  muted,      \* the gets whose listener is muted

  tasks,      \* worker queue: listeners to add or remove, and writes
  listeners,  \* the registered listeners, in order
  raised,     \* the gets that have had their initial event
  current,    \* the view is synced: its snapshots are not "from cache"

  online,     \* OnlineState: "unknown", "online" or "offline"
  failures,   \* the watch stream has failed since the state was updated
  timer,      \* the online state timer is running
  watch,      \* watch stream: "stopped", "starting" (or backing off), "open"
  pending,    \* responses the watch change aggregator waits for
  requests,   \* watch stream, to the backend
  told,       \* backend: the version it sent last, 0 none, or NotWatching
  changes,    \* watch stream, to the client

  cached,     \* remote document cache: a version, or 0
  queue,      \* mutation queue: the gets whose writes are in it
  piped,      \* how many of them are in the write pipeline
  write,      \* write stream: "stopped", "starting" or "open"
  sent,       \* write stream, to the backend
  results,    \* write stream, to the client: the versions

  faults,     \* how many faults there were
  failed,     \* history: gets without a write that counts
  after,      \* history: see CloudDocument
  since,      \* history: see CloudDocument
  known       \* history: see CloudDocument

app == << gets, events, muted >>
views == << tasks, listeners, raised, current >>
watching == << online, failures, timer, watch, pending, requests, told, changes >>
writing == << piped, write, sent, results >>
store == << cached, queue >>
history == << failed, after, since, known >>

vars == << cloud, app, views, watching, writing, store, faults, history >>

NotWatching == -1

\* On the watch stream a change is a version of the document, with a snapshot,
\* or the response to a request.
Response == 0

Get == 1..MaxGets

Init ==
  /\ cloud = << 0 >>
  /\ gets = 0 /\ events = << >> /\ muted = {}
  /\ tasks = << >> /\ listeners = << >> /\ raised = {} /\ current = FALSE
  /\ online = "unknown" /\ failures = 0 /\ timer = FALSE
  /\ watch = "stopped" /\ pending = 0
  /\ requests = << >> /\ told = NotWatching /\ changes = << >>
  /\ cached = 0 /\ queue = << >>
  /\ piped = 0 /\ write = "stopped" /\ sent = << >> /\ results = << >>
  /\ faults = 0
  /\ failed = {}
  /\ after = [g \in Get |-> 0]
  /\ since = 1
  /\ known = 0

-----------------------------------------------------------------------------
(* What the worker queue shows the listeners.  A listener that was shown   *)
(* something is shown every change until it is removed.                    *)

\* The cached document with the queued mutations on top of it.
LocalView(version, batches) ==
  IF version = 0 THEN NoDocument
  ELSE IF batches = << >> THEN cloud[version] ELSE Last(batches)

\* The listeners of some gets, in order.
ListenersOf(some) == Picked(listeners, {p \in DOMAIN listeners : listeners[p] \in some})

Waiting == ListenersOf(Get \ raised)

\* A snapshot of the view reaches some listeners, which post it to the main
\* queue.
Raise(to, version, batches) ==
  /\ events' = events \o [i \in DOMAIN to |->
                 [get |-> to[i], seen |-> LocalView(version, batches)]]
  /\ raised' = raised \cup ToSet(to)

\* The history notes what version was shown to a get first.
Note(version) == known' = IF raised' = raised THEN known ELSE version

\* The view changes without its sync state: listeners that wait keep waiting.
Refresh(version, batches) ==
  Raise(IF LocalView(version, batches) # LocalView(cached, queue)
        THEN ListenersOf(raised) ELSE << >>,
        version, batches)

\* The online state becomes Offline: the view is no longer synced, and who
\* waited for it is told what the cache holds.
GoOffline ==
  /\ online' = "offline"
  /\ current' = FALSE
  /\ Raise(IF current THEN listeners ELSE Waiting, cached, queue)
  /\ Note(cached)

-----------------------------------------------------------------------------
(* Main queue.                                                             *)

IsListen(t) == t.op = "listen"
IsWrite(t) == t.op = "write"

UnsavedWrites == {t.get : t \in {u \in ToSet(tasks) : IsWrite(u)}}

\* Gets whose first event has not been handled.
Open == {t.get : t \in {u \in ToSet(tasks) : IsListen(u)}}
        \cup (ToSet(listeners) \ raised)
        \cup ({e.get : e \in ToSet(events)} \ muted)

GetDocument ==
  /\ gets < MaxGets
  /\ gets' = gets + 1
  /\ tasks' = Append(tasks, [op |-> "listen", get |-> gets + 1])
  /\ after' = [after EXCEPT ![gets + 1] =
                 IF UnsavedWrites = {} THEN 0 ELSE Max(UnsavedWrites)]
  /\ since' = IF Open = {} THEN Len(cloud) ELSE since
  /\ UNCHANGED << cloud, events, muted, listeners, raised, current, watching,
                  writing, store, faults, failed, known >>

\* The event of a muted listener is dropped.  Another one mutes and removes
\* its listener before the program's handler runs.
HandleEvent ==
  /\ events # << >>
  /\ events' = Tail(events)
  /\ LET e == Head(events) IN
     IF e.get \in muted
     THEN UNCHANGED << muted, tasks, failed >>
     ELSE /\ muted' = muted \cup {e.get}
          /\ tasks' = tasks \o << [op |-> "unlisten", get |-> e.get] >> \o
                      IF e.seen = NoDocument THEN << >>
                      ELSE << [op |-> "write", get |-> e.get] >>
          /\ failed' = IF e.seen = NoDocument THEN failed \cup {e.get} ELSE failed
  /\ UNCHANGED << cloud, gets, listeners, raised, current, watching, writing,
                  store, faults, after, since, known >>

-----------------------------------------------------------------------------
(* Worker queue.                                                           *)

\* A new watch stream, of which the online state tracker is told: unless one
\* has failed already, the client waits for the timer rather than for ever.
StartWatchStream ==
  /\ watch' = "starting"
  /\ pending' = 0
  /\ IF failures = 0
     THEN online' = "unknown" /\ timer' = TRUE
     ELSE UNCHANGED << online, timer >>

NextTask(op) == tasks # << >> /\ Head(tasks).op = op /\ tasks' = Tail(tasks)

\* The first listener starts the target.
AddFirstListener ==
  /\ NextTask("listen")
  /\ listeners = << >>
  /\ listeners' = << Head(tasks).get >>
  /\ current' = FALSE
  /\ Raise(IF online = "offline" THEN listeners' ELSE << >>, cached, queue)
  /\ Note(cached)
  /\ \/ watch = "stopped" /\ StartWatchStream /\ UNCHANGED requests
     \/ /\ watch = "starting"
        /\ UNCHANGED << watch, online, pending, timer, requests >>
     \/ /\ watch = "open"
        /\ requests' = Append(requests, "watch")
        /\ pending' = pending + 1
        /\ UNCHANGED << watch, online, timer >>
  /\ UNCHANGED << cloud, gets, muted, failures, told, changes, writing, store,
                  faults, failed, after, since >>

\* Another one is shown the view there is, if that is worth an initial event.
AddListener ==
  /\ NextTask("listen")
  /\ listeners # << >>
  /\ listeners' = Append(listeners, Head(tasks).get)
  /\ Raise(IF current \/ online = "offline" THEN << Head(tasks).get >> ELSE << >>,
           cached, queue)
  /\ Note(cached)
  /\ UNCHANGED << cloud, gets, muted, current, watching, writing, store, faults,
                  failed, after, since >>

Unlisten ==
  /\ NextTask("unlisten")
  /\ listeners' = ListenersOf(Get \ {Head(tasks).get})
  /\ UNCHANGED << cloud, app, raised, writing, store, faults, history >>

IsLast == listeners # << >> /\ listeners' = << >>

RemoveListener ==
  /\ Unlisten
  /\ ~IsLast
  /\ UNCHANGED << current, watching >>

\* Mutant of RemoveLastListener: the response is not waited for.
RemoveLastListenerUncounted ==
  /\ Unlisten
  /\ IsLast
  /\ current' = FALSE
  /\ IF watch = "open"
     THEN requests' = Append(requests, "unwatch") /\ UNCHANGED << online, failures, timer >>
     ELSE online' = "unknown" /\ failures' = 0 /\ timer' = FALSE /\ UNCHANGED requests
  /\ UNCHANGED << watch, pending, told, changes >>

\* The last one stops the target, and resets the tracker if no stream is open.
RemoveLastListener ==
  /\ Unlisten
  /\ IsLast
  /\ current' = FALSE
  /\ IF watch = "open"
     THEN /\ requests' = Append(requests, "unwatch")
          /\ pending' = pending + 1
          /\ UNCHANGED << online, failures, timer >>
     ELSE /\ online' = "unknown" /\ failures' = 0 /\ timer' = FALSE
          /\ UNCHANGED << requests, pending >>
  /\ UNCHANGED << watch, told, changes >>

Fitting(batches) ==
  IF Len(batches) < MaxPendingWrites THEN Len(batches) ELSE MaxPendingWrites

\* What fits of the mutation queue is piped and, on an open stream, sent.
FillWritePipeline(batches, kept) ==
  /\ piped' = Fitting(batches)
  /\ IF write = "open"
     THEN /\ sent' = sent \o SubSeq(batches, kept + 1, piped')
          /\ UNCHANGED write
     ELSE /\ write' = IF write = "stopped" /\ piped' > 0 THEN "starting" ELSE write
          /\ UNCHANGED sent

WriteMutations ==
  /\ NextTask("write")
  /\ queue' = Append(queue, Head(tasks).get)
  /\ Refresh(cached, queue')
  /\ FillWritePipeline(queue', piped)
  /\ UNCHANGED << cloud, gets, muted, listeners, current, watching, cached,
                  results, faults, history >>

-----------------------------------------------------------------------------
(* Watch stream.                                                           *)

\* Mutant of OnWatchStreamOpen: the targets are not restored.
OnWatchStreamOpenForgets ==
  /\ watch = "starting"
  /\ watch' = "open"
  /\ UNCHANGED << cloud, app, views, online, failures, timer, pending, requests,
                  told, changes, writing, store, faults, history >>

OnWatchStreamOpen ==
  /\ watch = "starting"
  /\ watch' = "open"
  /\ requests' = IF listeners = << >> THEN << >> ELSE << "watch" >>
  /\ pending' = Len(requests')
  /\ UNCHANGED << cloud, app, views, online, failures, timer, told, changes,
                  writing, store, faults, history >>

\* Mutant of Online: the timer keeps running.
OnlineButTimed == online' = "online" /\ failures' = 0 /\ UNCHANGED timer

\* Any message means that the client is online.
Online == online' = "online" /\ failures' = 0 /\ timer' = FALSE

\* The backend acknowledges that it started or stopped watching.
OnTargetResponse ==
  /\ changes # << >> /\ Head(changes) = Response
  /\ changes' = Tail(changes)
  /\ Online
  /\ pending' = pending - 1
  /\ UNCHANGED << cloud, app, views, watch, requests, told, writing, store, faults,
                  history >>

\* Mutant of IsActiveTarget: messages of an earlier listen count as well.
IsActiveTargetAnyhow == listeners # << >>

IsActiveTarget == listeners # << >> /\ pending = 0

\* Mutant of NewerOf: an outdated watch update is cached.
NewerOfLast(version) == version

\* A document that is older than the cached one is ignored.
NewerOf(version) == Max({cached, version})

\* The document and a snapshot of an active target.
OnWatchSnapshot ==
  /\ changes # << >> /\ Head(changes) # Response
  /\ changes' = Tail(changes)
  /\ Online
  /\ IF IsActiveTarget
     THEN /\ cached' = NewerOf(Head(changes))
          /\ current' = TRUE
          /\ IF current THEN Refresh(cached', queue)
             ELSE Raise(listeners, cached', queue)
          /\ Note(cached')
     ELSE UNCHANGED << cached, current, events, raised, known >>
  /\ UNCHANGED << cloud, gets, muted, tasks, listeners, watch, pending, requests,
                  told, queue, writing, faults, failed, after, since >>

\* A broken watch stream is started again while there are listeners.  The
\* first failure after messages had come is forgiven, the next means Offline.
OnWatchStreamClose ==
  /\ watch # "stopped"
  /\ requests' = << >> /\ changes' = << >> /\ told' = NotWatching
  /\ pending' = 0
  /\ IF listeners = << >>
     THEN /\ watch' = "stopped"
          /\ online' = "unknown" /\ failures' = 0 /\ timer' = FALSE
          /\ UNCHANGED << current, events, raised, known, faults >>
     ELSE /\ faults < MaxFaults /\ faults' = faults + 1
          /\ watch' = "starting"
          /\ IF online = "online"
             THEN /\ online' = "unknown" /\ timer' = TRUE
                  /\ UNCHANGED << failures, current, events, raised, known >>
             ELSE /\ failures' = 1 /\ timer' = FALSE
                  /\ GoOffline
  /\ UNCHANGED << cloud, gets, muted, tasks, listeners, writing, store, failed,
                  after, since >>

OnlineStateTimeout ==
  /\ timer
  /\ timer' = FALSE
  /\ GoOffline
  /\ UNCHANGED << cloud, gets, muted, tasks, listeners, failures, watch, pending,
                  requests, told, changes, writing, store, faults, failed, after,
                  since >>

-----------------------------------------------------------------------------
(* Write stream.                                                           *)

\* The handshake is complete: the whole pipeline is sent, without a token
\* that would tell the backend what it has applied already.
OnWriteStreamHandshakeComplete ==
  /\ write = "starting"
  /\ write' = "open"
  /\ sent' = SubSeq(queue, 1, piped)
  /\ UNCHANGED << cloud, app, views, watching, store, piped, results, faults, history >>

\* A result belongs to the first write of the pipeline.
OnWriteStreamMutationResult ==
  /\ results # << >>
  /\ results' = Tail(results)
  /\ queue' = Tail(queue)
  /\ cached' = NewerOf(Head(results))
  /\ Refresh(cached', queue')
  /\ known' = Max({known, Head(results)})
  /\ FillWritePipeline(queue', piped - 1)
  /\ UNCHANGED << cloud, gets, muted, tasks, listeners, current, watching, faults,
                  failed, after, since >>

\* Mutant of OnWriteStreamClose: results that are on the way still count.
OnWriteStreamCloseLate ==
  /\ write # "stopped"
  /\ piped # 0
  /\ sent' = << >>
  /\ write' = "starting" /\ faults < MaxFaults /\ faults' = faults + 1
  /\ UNCHANGED << cloud, app, views, watching, store, piped, results, history >>

\* What was sent and not acknowledged is sent again on the next stream.
OnWriteStreamClose ==
  /\ write # "stopped"
  /\ sent' = << >> /\ results' = << >>
  /\ IF piped = 0
     THEN write' = "stopped" /\ UNCHANGED faults
     ELSE write' = "starting" /\ faults < MaxFaults /\ faults' = faults + 1
  /\ UNCHANGED << cloud, app, views, watching, store, piped, history >>

-----------------------------------------------------------------------------
(* The network, the process and the backend.                               *)

\* New streams, for those who need one.
RestartStreams ==
  /\ requests' = << >> /\ changes' = << >> /\ told' = NotWatching
  /\ pending' = 0
  /\ online' = "unknown" /\ failures' = 0
  /\ watch' = IF listeners' = << >> THEN "stopped" ELSE "starting"
  /\ timer' = (listeners' # << >>)
  /\ sent' = << >> /\ results' = << >>
  /\ piped' = Fitting(queue)
  /\ write' = IF piped' = 0 THEN "stopped" ELSE "starting"
  /\ faults < MaxFaults /\ faults' = faults + 1

\* The connectivity changed.
RestartNetwork ==
  /\ UNCHANGED listeners
  /\ RestartStreams
  /\ UNCHANGED << cloud, app, tasks, raised, current, store, history >>

\* The process dies and is started again: the local store is what it has left.
Restart ==
  /\ tasks' = << >> /\ listeners' = << >> /\ raised' = {} /\ current' = FALSE
  /\ events' = << >>
  /\ muted' = 1..gets
  /\ RestartStreams
  /\ failed' = failed \cup Open \cup UnsavedWrites
  /\ UNCHANGED << cloud, gets, store, after, since, known >>

BackendTakesRequest ==
  /\ requests # << >>
  /\ requests' = Tail(requests)
  /\ told' = IF Head(requests) = "watch" THEN 0 ELSE NotWatching
  /\ changes' = Append(changes, Response)
  /\ UNCHANGED << cloud, app, views, online, failures, timer, watch, pending,
                  writing, store, faults, history >>

BackendSendsSnapshot ==
  /\ told # NotWatching /\ told # Len(cloud)
  /\ told' = Len(cloud)
  /\ changes' = Append(changes, Len(cloud))
  /\ UNCHANGED << cloud, app, views, online, failures, timer, watch, pending,
                  requests, writing, store, faults, history >>

BackendApplies ==
  /\ sent # << >>
  /\ sent' = Tail(sent)
  /\ cloud' = Append(cloud, Head(sent))
  /\ results' = Append(results, Len(cloud) + 1)
  /\ UNCHANGED << app, views, watching, store, piped, write, faults, history >>

Elsewhere == -MaxElsewhere .. -1

ChangesElsewhere == Cardinality({i \in DOMAIN cloud : cloud[i] \in Elsewhere})

WriteElsewhere ==
  /\ ChangesElsewhere < MaxElsewhere
  /\ cloud' = Append(cloud, -1 - ChangesElsewhere)
  /\ UNCHANGED << app, views, watching, writing, store, faults, history >>

Worker ==
  \/ AddFirstListener
  \/ AddListener
  \/ RemoveListener
  \/ RemoveLastListener
  \/ WriteMutations

Backend ==
  \/ BackendTakesRequest
  \/ BackendSendsSnapshot
  \/ BackendApplies

Next ==
  \/ GetDocument
  \/ HandleEvent
  \/ AddFirstListener
  \/ AddListener
  \/ RemoveListener
  \/ RemoveLastListener
  \/ WriteMutations
  \/ OnWatchStreamOpen
  \/ OnTargetResponse
  \/ OnWatchSnapshot
  \/ OnWatchStreamClose
  \/ OnlineStateTimeout
  \/ OnWriteStreamHandshakeComplete
  \/ OnWriteStreamMutationResult
  \/ OnWriteStreamClose
  \/ RestartNetwork
  \/ Restart
  \/ BackendTakesRequest
  \/ BackendSendsSnapshot
  \/ BackendApplies
  \/ WriteElsewhere

Spec == Init /\ [][Next]_vars

\* Both queues run what is in them, a stream that is started opens in the end,
\* and the backend answers.
Fairness ==
  /\ WF_vars(HandleEvent)
  /\ WF_vars(Worker)
  /\ WF_vars(OnWatchStreamOpen)
  /\ WF_vars(OnTargetResponse \/ OnWatchSnapshot)
  /\ WF_vars(OnWriteStreamHandshakeComplete)
  /\ WF_vars(OnWriteStreamMutationResult)
  /\ WF_vars(BackendTakesRequest)
  /\ WF_vars(BackendSendsSnapshot)
  /\ WF_vars(BackendApplies)

FairSpec == Spec /\ Fairness

-----------------------------------------------------------------------------
(* The rounds of CloudDocument, as the client has them.                    *)

Phone == "phone"

Asked == {t.get : t \in {u \in ToSet(tasks) : IsListen(u)}}
         \cup (ToSet(listeners) \ raised)

Answered == {e.get : e \in ToSet(events)} \ muted

Applied == ToSet(SubSeq(queue, 1, Len(results)))

Stages ==
  LET asked == Asked  answered == Answered  unsaved == UnsavedWrites
      applied == Applied  saved == ToSet(queue) IN
  [g \in Get |->
    CASE g > gets -> "none"
      [] g \in failed -> "failed"
      [] g \in asked -> "asked"
      [] g \in answered -> "answered"
      [] g \in unsaved -> "called"
      [] g \in applied -> "applied"
      [] g \in saved \ applied -> "saved"
      [] OTHER -> "done"]

Values ==
  LET stages == Stages IN
  [g \in Get |->
    CASE stages[g] = "answered" ->
           events[Min({i \in DOMAIN events : events[i].get = g})].seen
      [] stages[g] \in {"called", "saved", "applied"} -> g
      [] OTHER -> NoDocument]

Versions ==
  LET stages == Stages IN
  [g \in Get |->
    IF stages[g] = "applied"
    THEN results[CHOOSE i \in DOMAIN results : queue[i] = g] ELSE 0]

Document == INSTANCE CloudDocument WITH
  Device <- {Phone},
  MaxRounds <- MaxGets,
  Value <- -MaxElsewhere .. MaxGets,
  NoValue <- NoDocument,
  stage <- [d \in {Phone} |-> Stages],
  value <- [d \in {Phone} |-> Values],
  version <- [d \in {Phone} |-> Versions],
  after <- [d \in {Phone} |-> after],
  since <- [d \in {Phone} |-> since],
  known <- [d \in {Phone} |-> known]

\* The types of the variables.
TypeOK ==
  /\ cloud \in Seq(Int) /\ cloud # << >>
  /\ gets \in 0..MaxGets
  /\ events \in Seq([get : Get, seen : Int \cup {NoDocument}])
  /\ muted \in SUBSET Get
  /\ tasks \in Seq([op : {"listen", "unlisten", "write"}, get : Get])
  /\ listeners \in Seq(Get) /\ raised \in SUBSET Get /\ current \in BOOLEAN
  /\ online \in {"unknown", "online", "offline"}
  /\ failures \in {0, 1} /\ timer \in BOOLEAN
  /\ watch \in {"stopped", "starting", "open"} /\ pending \in Nat
  /\ requests \in Seq({"watch", "unwatch"})
  /\ told \in Nat \cup {NotWatching} /\ changes \in Seq(Nat)
  /\ cached \in 0..Len(cloud) /\ queue \in Seq(Get)
  /\ piped \in 0..MaxPendingWrites /\ write \in {"stopped", "starting", "open"}
  /\ sent \in Seq(Get) /\ results \in Seq(1..Len(cloud))
  /\ faults \in 0..MaxFaults
  /\ failed \in SUBSET Get /\ after \in [Get -> 0..MaxGets]
  /\ since \in 1..Len(cloud) /\ known \in 0..Len(cloud)

\* The assertions of the online state tracker hold however streams break, gets
\* come and go and the timer fires: it runs at most once, in the state Unknown,
\* and never over a stopped stream; an online client has no failures to its name.
TrackerAsserts ==
  /\ timer => online = "unknown" /\ watch # "stopped"
  /\ online = "online" => failures = 0

\* Results carry no name: each is taken for the first write of the pipeline.
\* They belong to these writes, whatever was resent, refilled or lost before.
AckMatches ==
  \A i \in DOMAIN results : i <= piped /\ cloud[results[i]] = queue[i]

\* Unless it is offline, the client answers no get with a document older than
\* the gets that are open, although listeners share a view, targets are stopped
\* and started again, and messages of earlier streams are still on their way.
FreshUnlessOffline ==
  [][~(raised' \subseteq raised) /\ online' # "offline" => known' >= since]_vars

\* Streams, targets, caches, queues and listeners add up to what the program
\* is promised of a document: answers that never go back and show own writes,
\* nothing lost that was saved, writes applied in the order of the calls, and,
\* unlike what one would wish, again after a broken connection.
ImplementsCloudDocument == Document!Spec

\* Every get is answered in the end, and its write acknowledged.
RoundsSettle ==
  []<>(\A g \in Get : Stages[g] \in {"none", "done", "failed"})

=============================================================================

# EcoHelper in TLA+

EcoHelper (`src/EcoNews`) is an iOS app: a map of recycling trashcans with
favourites, routes, search and a filter, a rating that grows when the user
throws trash away, a profile with a rating table, a news screen, and
registration and sign-in. It is written in Swift on UIKit; everything shared
between users lives in Firebase, whose Firestore client is vendored under
`src/EcoNews/Pods/FirebaseFirestore` and runs in the app's own process. There
are no tests of the app in the repository. This directory specifies the parts of
the app in which the order of things matters, and the part of the Firestore
client they rest on, checks them with TLC and proves the most important
properties with TLAPS.

## 1. The system

All app code runs on the main queue, one handler at a time. What makes it hard
is that almost every user action is cut in two by a call to the cloud: the
second half runs in a completion handler, later, in any order relative to the
user's next actions, to other devices, and to the death of the process. The Firestore
client itself has a second queue, the worker queue, which runs concurrently with
the main queue, and two streams to the backend that may break at any time.

| Component | State | Operations | Interacts with |
|---|---|---|---|
| Favourites (`FavouriteTrashcans`, `ContentMarkerViewController`) | eight parallel arrays, mirrored key by key in `UserDefaults` | `init`, `addFavouriteTrashcansInSet`, the button | the details panel (whether to offer the button), the filter |
| Rating (`MapViewController.didUnwindFromRatingUser`) | field `rating` of the user's Firestore document | `getDocument`, then `updateData` in the handler | Firestore, other devices, the rating table |
| Firestore client, one document (`FirestoreClient`, `EventManager`, `QueryListener`, `SyncEngine`, `RemoteStore`, `OnlineStateTracker`, `WatchChangeAggregator`, `LocalStore`) | listeners, view, online state and its timer, watch and write stream, pending responses, document cache, mutation queue, write pipeline | `getDocument`, `updateData`; worker tasks, stream callbacks, timeout, reconnection | main queue (events to handlers), backend, local store (survives the process) |
| Throwing trash (`MapViewController`, `MarkersLocation.throwingTrash`) | location cached by `viewDidLoad`, throw button, a flag per marker | load, open panel, throw | Core Location, rating |
| Details panel (`ContentMarkerViewController`) | one panel for all trashcans: labels, image, `direction`; overlays of the map | open, close, route | Firebase Storage, MapKit |
| Markers (`WelcomePageViewController`, `MarkersLocation.allMarkers`) | a static array | the observer appends every child of every snapshot | Realtime Database, map, search |
| Map, filter, search (`MapViewController`, `FilterTrashcan…`, `SearchTrashcan…`, `DetailSearchViewController`) | annotations, those of the moment of loading, copies of the array in the search | load, filter, search, find | markers, favourites |
| Adding a trashcan (`AddTrashcanViewController`) | a form | one checked `addDocument` | a collection the app never reads |
| Registration, sign-in (`Registration…`, `AuthorizationViewController`) | text fields, account, avatar, document, user defaults | chains of two to four calls | Firebase Auth, Storage, Firestore; map (`userID`), profile (defaults) |
| Profile, rating table (`ProfileViewController`) | labels, avatar, three parallel arrays sorted in place | load, snapshot, `cellForRowAt`, `simpleInserts` | user defaults, Firestore |
| News (`PartsOfNews`) | four lists matched by index | a synchronous crawl at the start of the screen | the news site |
| Route button (`CustomButtonFavourite`) | alpha and a timer | touch down, touch up, tick | run loop |

What makes each correct: favourites are never lost, doubled or torn apart by a
killed process; a rating is never more than was earned and lost only for a
reason; a marker counts once, near it; the panel shows what belongs to the
trashcan that was tapped, in whatever order answers arrive; filters lose
nothing; a registration never resets a document or leaves half of one; the
profile shows its user; the table shows the ranking; the loop sorts. The
Firestore client answers every read once, with nothing older than the oldest read
still open unless it is offline, shows a program its own writes, keeps those that were
saved, and takes no acknowledgement for another.
`PROJECT.json` lists the hazards at their lines, with the properties for each.

## 2. The modules

Modules were written in this order, the most consequential state first.

| Module | Models | Proofs |
|---|---|---|
| `Favourites` | the eight arrays in memory and on disk, the panel's check, clicks that die between two of the eight saves | `FavouritesProofs` |
| `CloudDocument` | the abstract contract: what the Firestore client promises of one document that is read with `getDocument` and written in the completion handler | |
| `EcoRating` | one user's rating on any number of devices: the program on top of `CloudDocument`, driven only through that module's actions | `EcoRatingProofs` |
| `FirestoreClient` | the client that has to keep `CloudDocument`'s promises, from its vendored sources: both queues, both streams, listeners, online state, cache, mutation queue, reconnections, process deaths | `FirestoreClientProofs` |
| `Selections` | parts of a sequence in its order, what `SelectSeq` computes, defined by counting so that it can be reasoned about; used by `FirestoreClient` and `Leaderboard` | |
| `ThrowTrash` | the map screen of one phone; it extends `EcoRating`, with the phone as the only device, and asks for the rating when the throw button is tapped | `ThrowTrashProofs` |
| `SimpleInserts` | the sorting loop, statement by statement, with indices from 0 | `RatingTableProofs` |
| `SortedRows` | what the loop makes of the rows: the operator `Inserted`, which puts each row at the place that the number of rows in front of it gives | |
| `Leaderboard` | whether the listener is registered, snapshots, scrolling, and cells drawn in any order over arrays that each cell sorts and reverses; it uses the loop as the operator `Inserted`, which `SimpleInserts!ComputesInserted` ties to the loop | `RatingTableProofs` |
| `Session` | the chains of calls of registrations and logins, the text fields they read late, the defaults, the tab bar, the profile's labels | `SessionProofs` |
| `MarkerMap` | the feed, the map's annotations, filter, search, and the labels of the details panel | `MarkerMapProofs` |
| `DetailPanel` | the panel's image and the routes, answered in any order | `ScreenProofs` |
| `News` | the crawl: loops, skipped images, traps | `ScreenProofs` |

Each has an `MC` module that describes and builds its small instances, and one
`.cfg` per question. `Leaderboard` and `News` share a module of proofs with
another component, and `ThrowTrash` extends one; so their specifications are named
`Table`, `Crawl` and `AppSpec`. Operators described as mutants stand before the definition
they mutate: each property fails when that definition is replaced by one of
them, which shows that the property depends on the code it is about.

How state and actions correspond to the code is recorded definition by
definition under `map` in `PROJECT.json`. The abstractions to know:

- **Favourites.** An array entry is the trashcan it was copied from; entries of
  the latitude array compare by `LatitudeOf`. `ClickKilled(n)` is a click of
  which the first `n` saves reached the disk. Once saved, the arrays are only asked
  whether the latitudes and the longitudes contain those of a trashcan; nothing reads
  them by index. What a torn click can do is therefore this: it saves the latitude
  without the longitude, and the trashcan is stranded, since the panel calls it added
  and the filter does not show it.
- **CloudDocument.** A round is one `getDocument` and what follows from it. The
  rounds of a device pass through the stages in order: asked, answered (the
  handler is on the main queue), called (the handler called `updateData`), saved
  (in the persistent mutation queue), applied by the backend, done. A process
  that dies loses what is not saved; a broken connection takes applied rounds
  back to saved, and the backend applies them again.
- **EcoRating.** A throw is a round; the module adds what the handler writes and
  the history variables `hurried`, `overlapped` and `staleRead`. It knows nothing
  of how Firestore works: `FirestoreClient` is shown to implement the contract
  (`ImplementsCloudDocument`), so the two are checked apart. `OwnViewNeverFalls` and
  `LossOnlyInHurry` speak of a device that does all the throwing.
- **FirestoreClient.** One document, one process. A value is the number of the
  get that wrote it, so that the origin of every value is visible. The backend is
  external and does what the client expects: it answers the requests of a stream
  in order and drops those of a broken stream. The document change, `CURRENT` and
  the global snapshot of one version are one message; opening a write stream and
  its handshake are one step; the online state and its broadcast to the views are
  one step, as in the code, where both happen in one worker task. A stream that
  is idle may close at any time. `failed`, `after`, `since` and `known` are
  history, for the refinement and for `FreshUnlessOffline`.
- **ThrowTrash.** Two coordinates and two thresholds become a zone per place and
  trashcan: `near` (below `distance`), `edge` (up to `distance + 0.0001`, where
  the button is enabled and does nothing), `far`. A marker is an object, an
  annotation of the map. If two snapshots came before the map loaded, a trashcan has
  two of them, each with its own flag `throwingTrash`, and can be thrown at twice:
  `OneThrowPerMarker` is about markers, and `MarkerMap` models the copies. The flags
  end with the process, so the history `spent` keeps how many were set.
- **SimpleInserts, Leaderboard.** A user is the index its row came with, or the
  order of its document id; titles and subtitles carry that index. `viewDidLoad`
  registers the listener only if the defaults hold a uid by then, and never again; a
  listener that was given an error is given nothing after it. The table view asks for
  the rows in sight (`Window` of them from `top`) or ahead of them. The process lives
  throughout.
- **Session.** A user stands for e-mail, uid and names alike. Text fields
  describe one user or `Blank`. The four keys `setInDefaults` writes are written
  in one step. Every chain has a slot, because two taps may start the same one.
  `StoredOnce` counts the calls of `initUser`; that the client sends a `setData` again
  whose acknowledgement was lost, over a rating earned meanwhile, is outside it (the
  hazard is listed, and such resends are modelled for updates, by `Resend`).
- **MarkerMap.** Coordinates are a place, an address is a value, containers are
  a set. The toggles of the filter are the input of applying it, because a new
  filter screen is made whenever the search button is pressed. The favourite
  clause is a set of places; the real clause is `Favourites!FavouriteFilter`. The
  process lives throughout; a new one starts in one of the initial states.
- **DetailPanel.** A call is the trashcan it was made for and a number. No answer
  is told whom it belongs to; the handlers write to whatever panel there is.
- **News.** Elements are numbers; every `try!`, forced unwrap and index out of
  range is the step `Trap`.

## 3. The runs

| Run | Question | States |
|---|---|---|
| `favourites` | do favourites survive clicks, kills between two saves and relaunches, unique and in step; how many places can end up where neither the panel's "neither known" nor the filter's "both known" applies? | 449 156 |
| `eco_rating` | phone and tablet: more points than throws? points lost without reason? does a device that is alone in throwing ever see its rating fall, what loses it a point, and does every throw settle? | 124 018 |
| `firestore_client` | are the tracker's assertions kept, results matched with their writes, gets answered with nothing older than the oldest open one unless offline, and is every promise of `CloudDocument` kept, with every round ending? | 277 289 |
| `throw_trash` | is a marker thrown at twice; is the rating ever more than the markers spent for it, and, but for hurry and failures, ever less? | 314 868 |
| `throw_trash_near` (violation) | does a throw count only near the trashcan? | |
| `simple_inserts` | does the loop sort, keep rows whole, reverse ties, end, and compute `Inserted`? | 972 |
| `leaderboard` | does every cell show its rank, and does what is in sight catch up with the cloud while the listener lives? | 33 178 |
| `session` | are documents stored once and complete, is there always a map user, is an undisturbed profile the user's own? | 1 454 092 |
| `session_document` (violation) | has every account that can sign in a document? | |
| `marker_map` | do labels belong to the tapped place and marker; do filters lose anything; does the feed catch up? | 391 920 |
| `detail_panel` | is the image the own one; which routes lead elsewhere? | 297 153 |
| `news` | is an image ever beside the wrong article; is what is shown complete? | 66 690 |

**Bounds, and why they are enough.** Three trashcans on corners of a block give
every way two markers can share coordinates (none, latitude, longitude); two more
share none with any other, enough for an array to fall two clicks behind (`MaxTorn`
2) and for two places to be stranded. Three throws on two devices let a read, a
handler and a write of one throw each be overtaken by another's, on the same device
or on the other, with a third that reads what they left; one resend (`MaxResends`)
puts a write behind others for a second time. Two gets in `FirestoreClient` let each
meet the listener, the queued write and the acknowledgement of the other; one change
from elsewhere gives versions between and after them; one fault (`MaxFaults`: a
broken stream, a reconnection or a restart) can strike in every one of these states;
with a pipeline of one (`MaxPendingWrites`, 10 in the code) the second write has to
wait for the first. Two trashcans and three places make a marker near, at the edge
and far, alone and together with another. All tables of four rows with three ratings
contain every order and every pattern of ties; three users and two changes let a
snapshot arrive before, between and after the cells of another, and with two rows in
sight (`Window`) the table has to be scrolled to see the third. Two people, three
screens and two chains let each step of a chain meet each step of one of the same or
of the other person, in front or behind, and `MaxVisits` 3 adds the login after
both. In `MarkerMap` two markers and one change are two snapshots: copies, moves and
deletions before and after the map loads; a single address gives the search two rows
that only their coordinates tell apart. Three downloads and routes let two be open
while a third is asked for. Three elements of each kind are enough for a skipped
image to shift two others. The bounds (`MaxTorn`, `MaxThrows`, `MaxResends`,
`MaxGets`, `MaxElsewhere`, `MaxFaults`, `MaxChanges`, `MaxVisits`, `MaxRequests`,
`MaxElements`) are guards of the actions that use them up, or limits of the initial
states; the proofs hold for every value of them. `CHECK_DEADLOCK FALSE` is set where
the bounds or the end of an algorithm make the system stop.

**Fairness.** Users do nothing they do not want to, so none of their actions is
fair. `EcoRating` assumes that Firestore in the end answers a read, saves, applies
and acknowledges a write (it retries on its own while the device lives), and that
the main queue runs its handlers (`HandleAnswer`). `FirestoreClient` grounds that:
the main queue and the worker queue run what is in them, a stream that was
started opens in the end, and the backend answers; faults are finite
(`MaxFaults`), which is what "in the end" means. Both assume that a process that died
is started again: the writes it saved are sent then (`FirestoreClient!Restart` relaunches
in the step of the crash, `EcoRating!Fairness` assumes it). In `ThrowTrash`, which has
no fairness, a closed app sends nothing. No fairness is assumed of the
online state timer and none is needed: an open stream answers. `Leaderboard` assumes
that a listener that was not given an error is called for a change in the end and that
the table view asks for the cells it lacks in sight; nobody has to scroll. `MarkerMap`
assumes that the observer is called. In
`SimpleInserts` the loop takes its next step. Nothing else is assumed; in
particular `Kill`, failures and stale answers may happen for ever, within the
bounds.

**Findings.** Two runs show the code doing something other than the project's
README or an assertion says; `findings` in `PROJECT.json` quotes the lines:
a throw counts by the location of the moment the map loaded, not of the throw
(`throw_trash_near`), and a failed avatar upload leaves an account whose sign-in
traps (`session_document`).

The models show more behaviour of this kind, for which no run is kept. Each is a
behaviour of the module named; the properties checked are worded around it, and the
hazard it belongs to says so:

- `Favourites`: adding one trashcan makes the panel call every trashcan "added", and
  refuse it, that shares only its latitude or only its longitude
  (`MapViewController.swift:348`; the comment at 347 speaks of *this* trashcan).
  `StrandedByTornClicks` is about trashcans `OffTheGrid`.
- `ThrowTrash`: opening a panel traps if the map loaded before a location was
  known (`TrapOnDetails`, `MapViewController.swift:358`).
- `Leaderboard`: the profile of a fresh installation, opened before the sign-in has
  stored the uid, registers no listener, and its rating table stays empty as long as
  the process lives (`ProfileViewController.swift:32`). `TableCatchesUp` is about a
  listener that was registered and was given no error.
- `FirestoreClient`: the handshake of a write stream ignores the stream token
  (`write_stream.cc:73`), so a write whose acknowledgement was lost is applied
  again, over whatever another device wrote in between. For the rating this means
  that the cloud's value may fall; `OwnViewNeverFalls` is therefore about what a
  device that does all the throwing sees, which never does.
- `FirestoreClient`: when the last listener leaves while the watch stream is still
  starting, the online state and its timer are reset (`remote_store.cc:183`); a
  get that follows finds the stream started and arms no timer (`:165`), so it
  waits for the stream, where `online_state_tracker.cc:48-50` promises an answer
  from the cache after ten seconds.
- `Session`: the profile shows the previous user of the phone when it is opened before
  the answer with the new names (`ProfileViewController.swift:29`), and a field cleared
  during the upload is stored empty (`RegistrationViewController.swift:124`).
  `ProfileOwnUndisturbed` leaves out both by `disturbed`: it says that nothing else can
  put a wrong user on the profile.
- `MarkerMap`: once an address has been corrected, a search by the new one opens the
  copy with the old one (`SelectFiltered`, `SearchTrashcanViewController.swift:76`).
- `DetailPanel`: a download that is overtaken by a later one, or that fails, leaves
  the image of another trashcan, and a route asked for before another panel opened is
  drawn over it (`ContentMarkerViewController.swift:61`). `ImageOwn` leaves out the
  former by `muddled` and `ForeignRoutesLate` the latter by `late`: they say that
  these are the only ways.

## 4. The proofs

TLAPS proves the following for every value of the constants, from the named
assumptions on them only (each is evaluated by TLC in every run of its module).

- `FavouritesProofs`: all invariants of `Favourites` and `DiskOnlyGrows`. The
  invariant adds to the properties that a living process has in memory what is
  on disk, that a button that can be pressed still passes the test of
  `addFavouriteTrashcansInSet`, that whatever has its longitude saved has its
  latitude saved, and that at most as many trashcans have only the latter as clicks
  were cut short. Any stranded place is the latitude of one of these
  (`OnlyTornClicksStrand`).
- `EcoRatingProofs`: `TypeOK`, `RatingEarned`, `LossExcused`, `LossOnlyInHurry` and
  `OwnViewNeverFalls`. For `RatingEarned` no bound on a write by itself is
  inductive, since a rating that was read long ago may still be in a version of
  the cloud, an answer, a handler or a pending write that is sent again. The
  invariant bounds every value in any of these places by the number of throws
  credited so far, those with a handler by one more, which saving the write makes
  up for. That the credited throws are finitely many is part of it, so that
  nothing is assumed of the set of devices. For the losses the bound is turned
  round: unless a cache gave an outdated answer, of the throws that neither overlapped
  another one nor failed, all but one are in whatever may be read or answered, and
  all of them in what a handler writes (`LossInv`). For the properties of one
  device, what its user sees is what its answers and writes climb from, by one
  point at most and in the order of its throws (`OwnInv`).
- `FirestoreClientProofs`, in four layers, each resting on the one before.
  `TrackerAsserts` is inductive. For `AckMatches` and `TypeOK`, results and writes
  that are on the way make up the pipeline, in the order of the mutation queue,
  and the pipeline is what fits of the queue: removing its first write then pulls
  in exactly the next one (`WriteInv`); and the client waits for as many responses
  as it has requests and responses on the way (`WatchInv`). For
  `FreshUnlessOffline`, `GetsInv` says where each get is (a task, a listener, an
  event, muted) and that it is in no two of these places that exclude each other;
  `FreshInv` says that, while a get is open that was shown nothing, a current view
  is not older than the open gets and, when no request is under way, neither is
  what the stream holds behind the last response. For `ImplementsCloudDocument`,
  `PhaseInv` says that the mutation queue, the tasks about to write, the answers
  on the main queue and the gets still waiting each hold the gets in their order,
  those of one place older than those of the next; that a get which followed a
  write is not answered before the task of that write ran; and that the cache
  never falls behind what was shown. Then each get is in one stage, and each of
  the 21 actions is shown to be a step of the document, or none. Since the tasks
  of the worker queue run in order, the reads and writes of the document come out
  in the order of the calls: that is what the proof turns on.
- `ThrowTrashProofs`: `ScreenTypeOK`, `OneThrowPerMarker`, `PointsOfSpentMarkers` and
  `SpentMarkersPay`. The markers spent are as many as the throws (`AppInv`): the
  flag that is set, the button that is disabled and the read that is asked for go
  together, a panel that could throw shows a marker without a flag, and the flags of a
  process that ends are counted by `spent`. Since each step of the screen is a step of
  `EcoRating` or leaves the rating alone, `RatingEarned` and `LossOnlyInHurry` carry
  over from throws to markers.
- `RatingTableProofs`: all invariants of `SimpleInserts` and `Leaderboard`. While
  rows are shifted one row is a gap whose content is in `b`, `c`, `d`; the
  invariant speaks of all other rows, orders them across the gap, and says that
  the users in front are those that came first, which settles the ties. That the
  loop computes `Inserted` follows from a lemma about any total order on a finite
  set: what is listed in order stands at the place that counting gives it. The
  same lemma gives the table: sorting turns equals round and reversing the table
  turns them back, so that a table with equals in the order of their ids stays
  one and shows the ranking, however often it is sorted and scrolled (`TableInv`).
- `SessionProofs`: `TypeOK`, `StoredOnce`, `DocumentsComplete`, `MapUserKnown` and
  `ProfileOwnUndisturbed`. The invariant says what a chain behind `createUser` has
  behind it: an account, hence no second such chain of that user; an avatar before
  its last step; no document yet; somebody signed in. Undisturbed, one
  chain is open at a time and finds the text fields as they were submitted; whoever
  it signed in is the user of the map screen; and when none is open the defaults are
  that user's.
- `ScreenProofs`: of `DetailPanel` `TypeOK`, `ImageOwn` and `ForeignRoutesLate`,
  strengthened to the calls still open; of `News` `CrawlTypeOK`, `PhotosInStep` and
  `AllOrNothing`, for pages of any size: images are only lost, so that a list as long as
  the list of articles has lost none, and a row is only made while there is an image
  for it.
- `MarkerMapProofs`: `LabelsOfThePlace`, `LabelsOfTheMarker`, `FilterForgets`. The
  array only grows at its end, and the annotations are those of a stretch at its
  beginning. So the first match of an annotation's place lies in that stretch,
  whatever has been appended since. That a snapshot appends markers, and nothing
  else, needs that a finite set of keys has an i-th element for each i.

Every invariant, action property and refinement that a passing run checks is also
proved. Only model-checked are the liveness properties (`ThrowsSettle`,
`RoundsSettle`, `TableCatchesUp`, `FeedCatchesUp`, `Terminates`), which need
fairness and ENABLED. The inductive invariants of `FirestoreClientProofs` about
gets, freshness and order were checked by TLC on the instance of the run, with
two faults instead of one (1 988 256 states), before they were proved. The type
invariants of `Favourites`, `Session` and `DetailPanel`, and `ScreenTypeOK` of
`ThrowTrash`, are proved and not checked by runs.

That `EcoRating` is a program on top of `CloudDocument` is by construction: it
changes the document through that module's actions only. So the chain from the throw
button to the streams is: `ThrowTrash` drives `EcoRating` only through its actions
(by definition), so that the markers spent are its throws (proved), `EcoRating` uses
`CloudDocument` (by definition), `FirestoreClient` implements `CloudDocument`
(proved). What ties one device of `EcoRating` to one client is not itself a theorem:
`FirestoreClient` has one phone, to which the other devices are the changes from
elsewhere.

## 5. Not modelled

The avatar picked from the photo library and shown in the profile (an image, no
state that anything depends on); the visible region of the map, colours, layout and
alerts; the alpha of the route button, which its timers fade and nothing reads; the
form for adding a trashcan (one check and one write to a collection the app never
reads); the cells of the news table; `AppDelegate`.

Of the Firestore client: queries with more than one document, limits and
indexes; deletions, transforms and transactions; limbo resolution and existence
filters; targets and writes that the backend rejects, and the errors of a stream
that count as permanent; the change of the user, which exchanges the mutation
queue; the eviction of cached documents, LevelDB and its migrations; back-off and
idle times (a stream may close whenever it is idle); events about metadata only,
which a get drops, since its listener is muted after the first.

The other libraries under `Pods` (gRPC, BoringSSL, LevelDB, Kanna, the Objective-C
SDKs) are external: nothing in this app depends on how they do what they do. They
are also nearly all of the C and C++ lines of the repository, whereas the app
itself is a few thousand lines of Swift.

## 6. What could follow

1. `FirestoreClient`: rejected writes (`HandleWriteError`), which end a round as
   failed and let the value fall back; a change of the user, which the app
   triggers by signing in as somebody else on the same phone; two documents, so
   that the listener of the rating table shares the streams with the gets.
2. Proofs: that several clients, each as in `FirestoreClient`, implement
   `CloudDocument` with as many devices.
3. A map screen composed of `Favourites`, `ThrowTrash`, `DetailPanel` and
   `MarkerMap`, whose panels are one and the same.
4. The avatar of the profile, downloaded by the uid in the defaults, in `Session`.

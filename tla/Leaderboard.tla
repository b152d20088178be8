----------------------------- MODULE Leaderboard -----------------------------
(***************************************************************************)
(* The rating table of the profile screen: viewDidLoad registers a         *)
(* snapshot listener, if the defaults hold a userUID by then, which        *)
(* rebuilds the arrays from the cloud; cellForRowAt sorts and reverses     *)
(* them again for every cell the table view asks for, in whatever order.   *)
(*                                                                         *)
(* Users are numbered in the order of their document ids, in which the     *)
(* cloud returns them.  A row of the three arrays is one record, which     *)
(* SimpleInserts!RowsStayTogether justifies.                               *)
(***************************************************************************)
EXTENDS SequencesExt, Integers, Selections, SortedRows

CONSTANTS
  Users,       \* how many users can register
  MaxRate,     \* bound on the ratings
  MaxChanges,  \* bound on the changes in the cloud
  Window,      \* how many rows are in sight
  Blank,       \* a cell that has not been drawn
  NoUser       \* a document that does not exist

ASSUME TableAssumption ==
  /\ Users \in Nat /\ MaxRate \in Nat /\ MaxChanges \in Nat /\ Window \in Nat
  /\ NoUser \notin Nat

User == 1..Users

VARIABLES
  cloud,    \* the collection "ecoUsers": the rating of every document
  hasUID,   \* whether the defaults hold a userUID
  listener, \* "unloaded" until the view loads, then "listening" or "absent",
            \* and "failed" once it was given an error
  unseen,   \* whether the cloud has changed since the last snapshot
  tables,   \* titlesTable, subtitlesTable and ratingTable, row by row
  cells,    \* the cells of the table view
  top,      \* how many rows are scrolled off at the top
  seen,     \* history: the ratings of the last snapshot
  changes   \* how often the cloud has changed

screen == << hasUID, listener, top >>

tableVars == << cloud, screen, unseen, tables, cells, seen, changes >>

NoDocuments == [u \in User |-> NoUser]

TableInit ==
  /\ cloud \in [User -> 0..MaxRate \cup {NoUser}]
  /\ hasUID \in BOOLEAN
  /\ listener = "unloaded"
  /\ top = 0
  /\ unseen = TRUE
  /\ tables = << >>
  /\ cells = << >>
  /\ seen = NoDocuments
  /\ changes = 0

-----------------------------------------------------------------------------
Registered(ratings) == { u \in User : ratings[u] # NoUser }

\* The documents of a snapshot, in the order of their ids.
Documents(ratings) ==
  Picked([u \in User |-> [user |-> u, rate |-> ratings[u]]], Registered(ratings))

\* What cellForRowAt turns the arrays into before it reads a row.
Ranked(rows) == Reverse(IF Len(rows) > 1 THEN Inserted(rows) ELSE rows)

-----------------------------------------------------------------------------
\* A user registers with a rating of 0, or is credited points.
Change(u, rate) ==
  /\ changes < MaxChanges
  /\ cloud[u] # rate
  /\ cloud[u] = NoUser => rate = 0
  /\ changes' = changes + 1
  /\ cloud' = [cloud EXCEPT ![u] = rate]
  /\ unseen' = TRUE
  /\ UNCHANGED << screen, tables, cells, seen >>

\* A sign-in or a registration stores the userUID (see Session).
SetInDefaults ==
  /\ ~hasUID
  /\ hasUID' = TRUE
  /\ UNCHANGED << cloud, listener, top, unseen, tables, cells, seen, changes >>

\* The profile is selected for the first time.  Without a userUID viewDidLoad
\* returns before it gets to the listener.
ViewDidLoad ==
  /\ listener = "unloaded"
  /\ listener' = IF hasUID THEN "listening" ELSE "absent"
  /\ UNCHANGED << cloud, hasUID, top, unseen, tables, cells, seen, changes >>

\* The listener is given an error, which is the last it is given.
ListenFails ==
  /\ listener = "listening"
  /\ listener' = "failed"
  /\ UNCHANGED << cloud, hasUID, top, unseen, tables, cells, seen, changes >>

\* Mutant of Snapshot: getDocuments instead of addSnapshotListener.
SnapshotOnce ==
  /\ listener = "listening" /\ unseen
  /\ seen = NoDocuments
  /\ unseen' = FALSE
  /\ seen' = cloud
  /\ tables' = Documents(cloud)
  /\ cells' = [k \in 1 .. Len(tables') |-> Blank]
  /\ UNCHANGED << cloud, screen, changes >>

\* The listener: rebuild the arrays and reload the table.
Snapshot ==
  /\ listener = "listening" /\ unseen
  /\ unseen' = FALSE
  /\ seen' = cloud
  /\ tables' = Documents(cloud)
  /\ cells' = [k \in 1 .. Len(tables') |-> Blank]
  /\ UNCHANGED << cloud, screen, changes >>

\* The table view asks for a cell: for one in sight, or ahead of scrolling.
CellForRowAt(k) ==
  /\ tables' = Ranked(tables)
  /\ cells' = [cells EXCEPT ![k] = tables'[k]]
  /\ UNCHANGED << cloud, screen, unseen, seen, changes >>

InSight(k) == k \in top + 1 .. top + Window

\* The user scrolls; cells out of sight are taken for other rows.
Scroll(rows) ==
  /\ rows # top
  /\ top' = rows
  /\ cells' = [k \in DOMAIN cells |-> IF InSight(k)' THEN cells[k] ELSE Blank]
  /\ UNCHANGED << cloud, hasUID, listener, unseen, tables, seen, changes >>

TableNext ==
  \/ \E u \in User, rate \in 0..MaxRate : Change(u, rate)
  \/ SetInDefaults
  \/ ViewDidLoad
  \/ ListenFails
  \/ Snapshot
  \/ \E k \in DOMAIN cells : CellForRowAt(k)
  \/ \E rows \in 0 .. Len(cells) - Window : Scroll(rows)

\* The table view asks for a cell it lacks in sight.
Draw(k) == k \in DOMAIN cells /\ InSight(k) /\ cells[k] = Blank /\ CellForRowAt(k)

\* A listener that was not given an error is called for every change in the
\* end, and cells in sight are drawn.  Nobody has to scroll.
TableFairness ==
  /\ WF_tableVars(Snapshot)
  /\ \A k \in User : WF_tableVars(Draw(k))

Table == TableInit /\ [][TableNext]_tableVars

FairTable == Table /\ TableFairness

-----------------------------------------------------------------------------
\* The place of a user in a ranking by rating, ties in the order of the ids.
Place(u, ratings) ==
  1 + Cardinality({ v \in Registered(ratings) :
                      \/ ratings[v] > ratings[u]
                      \/ ratings[v] = ratings[u] /\ v < u })

\* However often and in whatever order cells are drawn, and sorted and reversed
\* for, each shows the user whose place in the last snapshot it is: no user is
\* shown twice or left out, ties included.
CellsShowRanking ==
  \A k \in DOMAIN cells : cells[k] # Blank =>
    \E u \in Registered(seen) :
      Place(u, seen) = k /\ cells[k] = [user |-> u, rate |-> seen[u]]

\* The users whose place is in sight, and those that are shown at theirs with
\* the rating the cloud holds.
UsersInSight == { u \in Registered(cloud) : InSight(Place(u, cloud)) }

UsersShown ==
  { u \in Registered(cloud) :
      /\ Place(u, cloud) \in DOMAIN cells
      /\ cells[Place(u, cloud)] = [user |-> u, rate |-> cloud[u]] }

\* While the listener is not given an error, the table catches up with the
\* cloud: a user whose place stays in sight comes to be shown at it, whatever
\* was drawn before, is drawn ahead or is drawn again.
TableCatchesUp ==
  \A u \in User :
    <>[](listener = "listening" /\ u \in UsersInSight) => <>[](u \in UsersShown)
=============================================================================

------------------------------ MODULE MarkerMap ------------------------------
(***************************************************************************)
(* The markers of one process: the feed that appends them to the static    *)
(* array allMarkers, the annotations the map screen takes from it when its *)
(* view loads, the filter, which removes and adds those annotations, the   *)
(* list and the detail view of the search, and the labels of the details   *)
(* panel, which come from the first marker at the tapped annotation's      *)
(* coordinates.                                                            *)
(*                                                                         *)
(* Every snapshot makes new MarkersLocation objects.  An object is told    *)
(* from an equal one by its id, the place it was appended at.              *)
(***************************************************************************)
EXTENDS SequencesExt, FiniteSets, Integers

CONSTANTS
  Markers,     \* how many children the list "markers" can have
  Place,       \* coordinates
  Address,     \* the addresses markers are labelled with and searched by
  Container,   \* the kinds of containers
  NoMarker,    \* a child that does not exist, a hidden panel
  MaxChanges   \* bound: how often the list changes

ASSUME ConstantsAssumption ==
  /\ Markers \in Nat /\ MaxChanges \in Nat
  /\ NoMarker \notin [at : Place, address : Address, holds : SUBSET Container]
  /\ NoMarker \notin [id : Nat, at : Place, address : Address, holds : SUBSET Container]

Key == 1..Markers

Content == [at : Place, address : Address, holds : SUBSET Container]

VARIABLES
  cloud,       \* the list "markers", by key
  unseen,      \* whether it has changed since the last snapshot
  allMarkers,  \* MarkersLocation.allMarkers
  loaded,      \* whether the view of the map screen has loaded
  general,     \* allAnnotationsInGeneralMap
  shown,       \* mapView.annotations
  favourites,  \* the places among the favourite trashcans
  panel,       \* the trashcan of the details panel, while it is shown
  labels,      \* the marker whose address and containers the panel shows
  searching,   \* whether the search panel is shown
  categories,  \* the markers the search goes through
  detail,      \* the row that was selected and the trashcan passed on for it
  changes,     \* how often the list has changed
  wanted       \* history: what the filter was last applied with

feed == << cloud, unseen, allMarkers, changes >>
map == << loaded, general, shown, wanted >>
search == << searching, categories, detail >>
vars == << feed, map, search, favourites, panel, labels >>

Object(content, id) ==
  [id |-> id, at |-> content.at, address |-> content.address, holds |-> content.holds]

NoSelection == [row |-> NoMarker, trashcan |-> NoMarker]

Everything == [holds |-> {}, at |-> Place]

Init ==
  /\ cloud \in [Key -> Content \cup {NoMarker}]
  /\ unseen = TRUE
  /\ allMarkers = << >>
  /\ loaded = FALSE
  /\ general = {}
  /\ shown = {}
  /\ favourites \in SUBSET Place
  /\ panel = NoMarker
  /\ labels = NoMarker
  /\ searching = FALSE
  /\ categories = << >>
  /\ detail = NoSelection
  /\ changes = 0
  /\ wanted = Everything

-----------------------------------------------------------------------------
\* The list is edited elsewhere; added trashcans go to another collection.
Change(k, content) ==
  /\ changes < MaxChanges
  /\ cloud[k] # content
  /\ changes' = changes + 1
  /\ cloud' = [cloud EXCEPT ![k] = content]
  /\ unseen' = TRUE
  /\ UNCHANGED << allMarkers, map, search, favourites, panel, labels >>

Children == {k \in Key : cloud[k] # NoMarker}

\* The i-th child, in the order of the keys.
Child(i) == CHOOSE k \in Children : Cardinality({j \in Children : j <= k}) = i

\* The objects one snapshot adds, with ids that follow the first used ones.
NewObjects(used) ==
  [i \in 1 .. Cardinality(Children) |-> Object(cloud[Child(i)], used + i)]

\* Mutants of Snapshot: the array is emptied first; the list is read once.
SnapshotAnew ==
  /\ unseen
  /\ unseen' = FALSE
  /\ allMarkers' = NewObjects(Len(allMarkers))
  /\ UNCHANGED << cloud, changes, map, search, favourites, panel, labels >>

SnapshotOnce ==
  /\ unseen
  /\ allMarkers = << >>
  /\ unseen' = FALSE
  /\ allMarkers' = allMarkers \o NewObjects(Len(allMarkers))
  /\ UNCHANGED << cloud, changes, map, search, favourites, panel, labels >>

\* The observer: every child of the snapshot is appended, known or not.
Snapshot ==
  /\ unseen
  /\ unseen' = FALSE
  /\ allMarkers' = allMarkers \o NewObjects(Len(allMarkers))
  /\ UNCHANGED << cloud, changes, map, search, favourites, panel, labels >>

\* The map takes the markers that have arrived.
ViewDidLoad ==
  /\ ~loaded
  /\ loaded' = TRUE
  /\ general' = ToSet(allMarkers)
  /\ shown' = general'
  /\ UNCHANGED << feed, wanted, search, favourites, panel, labels >>

Passes(m, filter) == filter.holds \subseteq m.holds /\ m.at \in filter.at

\* Mutant of DidUnwindFromFilterVC: what is shown is filtered further.
DidUnwindFromFilterVCNarrowing(filter) ==
  /\ searching
  /\ searching' = FALSE
  /\ shown' = { m \in shown : Passes(m, filter) }
  /\ wanted' = filter
  /\ UNCHANGED << feed, loaded, general, categories, detail, favourites, panel,
                  labels >>

\* The filter is applied, with these containers ticked and the favourite button
\* ticked or not.
DidUnwindFromFilterVC(filter) ==
  /\ searching
  /\ searching' = FALSE
  /\ shown' = (shown \ general) \cup { m \in general : Passes(m, filter) }
  /\ wanted' = filter
  /\ UNCHANGED << feed, loaded, general, categories, detail, favourites, panel,
                  labels >>

Filters == [holds : SUBSET Container, at : {Place, favourites}]

-----------------------------------------------------------------------------
\* Mutant of AtPlace: the loop is not left at the first match.
LastAtPlace(markers, place) ==
  LET matches == {i \in DOMAIN markers : markers[i].at = place} IN
  IF matches = {} THEN NoMarker ELSE markers[Max(matches)]

\* The first of these markers with these coordinates.
AtPlace(markers, place) ==
  LET matches == {i \in DOMAIN markers : markers[i].at = place} IN
  IF matches = {} THEN NoMarker ELSE markers[Min(matches)]

\* The callout button of an annotation, when the location is known: the panel
\* shows what the loop finds, and what it showed before if it finds nothing.
OpenDetails(m) ==
  /\ m \in shown
  /\ panel' = m
  /\ labels' = IF AtPlace(allMarkers, m.at) = NoMarker
               THEN labels
               ELSE AtPlace(allMarkers, m.at)
  /\ searching' = FALSE
  /\ UNCHANGED << feed, map, favourites, categories, detail >>

\* btnFavourite, abstracted to the place (see Favourites).
ClickBtnFavourite ==
  /\ panel # NoMarker
  /\ favourites' = favourites \cup {panel.at}
  /\ UNCHANGED << feed, map, search, panel, labels >>

\* A deselected annotation hides both panels.
DidDeselect ==
  /\ panel # NoMarker \/ searching
  /\ panel' = NoMarker
  /\ searching' = FALSE
  /\ UNCHANGED << feed, map, favourites, labels, categories, detail >>

\* The search button: a new controller copies the markers there are.
ClickBtnSearchAndFilter ==
  /\ loaded
  /\ searching' = TRUE
  /\ categories' = allMarkers
  /\ detail' = NoSelection
  /\ panel' = NoMarker
  /\ UNCHANGED << feed, map, favourites, labels >>

\* A row of the whole list is selected.
SelectCategory(i) ==
  /\ searching
  /\ detail' = [row |-> categories[i], trashcan |-> categories[i]]
  /\ UNCHANGED << feed, map, favourites, panel, labels, searching, categories >>

\* An address is typed, and a row of the list it leaves is selected.
SelectFiltered(i) ==
  /\ searching
  /\ detail' = [row |-> categories[i],
                trashcan |-> AtPlace(categories, categories[i].at)]
  /\ UNCHANGED << feed, map, favourites, panel, labels, searching, categories >>

\* "Find" in the detail view only hides the panel and moves the map.
DidUnwindFromDetailVC ==
  /\ searching
  /\ detail # NoSelection
  /\ searching' = FALSE
  /\ UNCHANGED << feed, map, favourites, panel, labels, categories, detail >>

Next ==
  \/ \E k \in Key, content \in Content \cup {NoMarker} : Change(k, content)
  \/ Snapshot
  \/ ViewDidLoad
  \/ \E filter \in Filters : DidUnwindFromFilterVC(filter)
  \/ \E m \in shown : OpenDetails(m)
  \/ ClickBtnFavourite
  \/ DidDeselect
  \/ ClickBtnSearchAndFilter
  \/ \E i \in DOMAIN categories : SelectCategory(i) \/ SelectFiltered(i)
  \/ DidUnwindFromDetailVC

Spec == Init /\ [][Next]_vars

\* The observer is called for every change in the end.
FairSpec == Spec /\ WF_vars(Snapshot)

-----------------------------------------------------------------------------
\* Whatever snapshots arrive while the map is open, the panel never keeps the
\* address of the trashcan it showed before: the array always has a marker at
\* the coordinates of an annotation, although markers move and are deleted.
LabelsOfThePlace == panel # NoMarker => labels # NoMarker /\ labels.at = panel.at

\* When no two annotations of the map share their coordinates, the panel
\* describes the very marker that was tapped, however many markers at the same
\* coordinates later snapshots have appended.
LabelsOfTheMarker ==
  /\ panel # NoMarker
  /\ \A m, n \in general : m.at = n.at => m = n
  => labels = panel

\* No sequence of filters loses or brings back an annotation: the map shows
\* those it loaded that have all ticked containers, and are favourites if that
\* was asked for, whatever was filtered before.
FilterForgets ==
  shown = { m \in general : wanted.holds \subseteq m.holds /\ m.at \in wanted.at }

\* Every marker of the cloud gets into the array, however the changes overlap
\* with loading, filtering and searching.
FeedCatchesUp ==
  <>[](\A k \in Key : cloud[k] # NoMarker =>
         \E m \in ToSet(allMarkers) : Object(cloud[k], m.id) = m)
=============================================================================

------------------------------ MODULE Favourites ------------------------------
(***************************************************************************)
(* The favourite trashcans of the map screen: class FavouriteTrashcans,    *)
(* the eight UserDefaults arrays it mirrors, and the favourite button of   *)
(* the details panel (ContentMarkerViewController) with the check the map  *)
(* screen makes when it opens that panel.                                  *)
(*                                                                         *)
(* An array entry is represented by the trashcan it was copied from: the   *)
(* entry t of the "latitude" array stands for t's latitude.  Two entries   *)
(* compare equal exactly when those coordinates are equal.                 *)
(***************************************************************************)
EXTENDS SequencesExt

CONSTANTS
  Trashcan,      \* the markers on the map
  LatitudeOf,    \* the latitude of every marker
  LongitudeOf,   \* the longitude of every marker
  NoTrashcan,    \* the details panel is hidden
  MaxTorn        \* bound: how many clicks the death of the process may cut short

ASSUME ConstantsAssumption ==
  /\ NoTrashcan \notin Trashcan
  /\ LatitudeOf = [t \in Trashcan |-> LatitudeOf[t]]
  /\ LongitudeOf = [t \in Trashcan |-> LongitudeOf[t]]
  /\ MaxTorn \in Nat

\* The UserDefaults keys, in the order in which a click saves them.
SaveOrder == << "address", "title", "latitude", "longitude",
                "glass", "metall", "paper", "plastic" >>

Key == ToSet(SaveOrder)

VARIABLES
  memory,       \* the arrays of the FavouriteTrashcans object
  disk,         \* the arrays in UserDefaults, which outlive the process
  panel,        \* the trashcan the details panel shows
  starEnabled,  \* btnFavourite.isEnabled; when disabled it reads "added"
  running,      \* whether the process is alive
  added,        \* history: trashcans whose click ran to completion
  torn          \* history: how many clicks were cut short between two saves

vars == << memory, disk, panel, starEnabled, running, added, torn >>

NoArrays == [k \in Key |-> << >>]

Init ==
  /\ memory = NoArrays
  /\ disk = NoArrays
  /\ panel = NoTrashcan
  /\ starEnabled = FALSE
  /\ running = TRUE
  /\ added = {}
  /\ torn = 0

-----------------------------------------------------------------------------
\* Mutant of LatitudesContain: markers are compared, not their coordinates.
LatitudesContainMarker(t) == t \in ToSet(memory["latitude"])

LatitudesContain(t) ==
  \E s \in ToSet(memory["latitude"]) : LatitudeOf[s] = LatitudeOf[t]

LongitudesContain(t) ==
  \E s \in ToSet(memory["longitude"]) : LongitudeOf[s] = LongitudeOf[t]

\* The test under which a click appends a trashcan.
IsNew(t) == ~LatitudesContain(t) /\ ~LongitudesContain(t)

\* Whether the panel offers the button; otherwise it reads "added".
OffersStar(t) == ~LatitudesContain(t) /\ ~LongitudesContain(t)

\* The favourite clause of the map's filter.
FavouriteFilter(t) == LatitudesContain(t) /\ LongitudesContain(t)

\* Mutant of WithFavourite: the longitude is not appended.
WithFavouriteButLongitude(t) ==
  IF IsNew(t)
  THEN [k \in Key |-> IF k = "longitude" THEN memory[k] ELSE Append(memory[k], t)]
  ELSE memory

\* The arrays after addFavouriteTrashcansInSet has appended t.
WithFavourite(t) ==
  IF IsNew(t) THEN [k \in Key |-> Append(memory[k], t)] ELSE memory

\* UserDefaults after the first n of the eight saves of these arrays.
AfterSaves(arrays, n) ==
  [k \in Key |-> IF \E i \in 1..n : SaveOrder[i] = k THEN arrays[k] ELSE disk[k]]

-----------------------------------------------------------------------------
\* The callout button of a marker: the panel opens and the button is set up.
OpenDetails(t) ==
  /\ running
  /\ panel' = t
  /\ starEnabled' = OffersStar(t)
  /\ UNCHANGED << memory, disk, running, added, torn >>

\* The close and route buttons, or deselecting the marker, hide the panel.
HidePanel ==
  /\ running
  /\ panel # NoTrashcan
  /\ panel' = NoTrashcan
  /\ UNCHANGED << memory, disk, starEnabled, running, added, torn >>

CanClick == running /\ panel # NoTrashcan /\ starEnabled

\* Mutant of ClickBtnFavourite: the last array is not saved.
ClickSavingAllButLast ==
  /\ CanClick
  /\ starEnabled' = FALSE
  /\ memory' = WithFavourite(panel)
  /\ disk' = AfterSaves(memory', Len(SaveOrder) - 1)
  /\ added' = added \cup {panel}
  /\ UNCHANGED << panel, running, torn >>

\* The favourite button: disable it, append, save the eight arrays.
ClickBtnFavourite ==
  /\ CanClick
  /\ starEnabled' = FALSE
  /\ memory' = WithFavourite(panel)
  /\ disk' = AfterSaves(memory', Len(SaveOrder))
  /\ added' = added \cup {panel}
  /\ UNCHANGED << panel, running, torn >>

\* The process ends; only UserDefaults remain.
Die ==
  /\ running
  /\ running' = FALSE
  /\ memory' = NoArrays
  /\ panel' = NoTrashcan
  /\ starEnabled' = FALSE

\* A click in a process that dies after n of the eight saves.
ClickKilled(n) ==
  /\ CanClick
  /\ torn < MaxTorn
  /\ torn' = torn + 1
  /\ disk' = AfterSaves(WithFavourite(panel), n)
  /\ Die
  /\ UNCHANGED added

Kill == Die /\ UNCHANGED << disk, added, torn >>

\* Mutant of Launch: the arrays are not read back.
LaunchEmpty ==
  /\ ~running
  /\ running' = TRUE
  /\ memory' = NoArrays
  /\ UNCHANGED << disk, panel, starEnabled, added, torn >>

\* A new process: FavouriteTrashcans.init reads the arrays back.
Launch ==
  /\ ~running
  /\ running' = TRUE
  /\ memory' = [k \in Key |-> disk[k]]
  /\ UNCHANGED << disk, panel, starEnabled, added, torn >>

Next ==
  \/ \E t \in Trashcan : OpenDetails(t)
  \/ HidePanel
  \/ ClickBtnFavourite
  \/ \E n \in 1..(Len(SaveOrder) - 1) : ClickKilled(n)
  \/ Kill
  \/ Launch

Spec == Init /\ [][Next]_vars

-----------------------------------------------------------------------------
\* The types of the variables.
TypeOK ==
  /\ memory \in [Key -> Seq(Trashcan)]
  /\ disk \in [Key -> Seq(Trashcan)]
  /\ panel \in Trashcan \cup {NoTrashcan}
  /\ starEnabled \in BOOLEAN
  /\ running \in BOOLEAN
  /\ added \in SUBSET Trashcan
  /\ torn \in 0..MaxTorn

\* A trashcan whose click ran to completion stays in all eight arrays, through
\* any later click, kill and relaunch: clickBtnFavourite only ever rewrites the
\* arrays with what init read back plus one entry.
AddedSurvives ==
  \A t \in added, k \in Key :
    /\ t \in ToSet(disk[k])
    /\ running => t \in ToSet(memory[k])

\* No saved array ever loses or moves an entry, although every click rewrites
\* all eight from memory, and every launch reads them back one by one.
DiskOnlyGrows == [][\A k \in Key : IsPrefix(disk[k], disk'[k])]_vars

\* No coordinate is saved twice, the guard of addFavouriteTrashcansInSet and
\* the check of the panel taken together, even across interrupted clicks.
UniqueCoordinates ==
  /\ \A i, j \in DOMAIN disk["latitude"] :
       LatitudeOf[disk["latitude"][i]] = LatitudeOf[disk["latitude"][j]] => i = j
  /\ \A i, j \in DOMAIN disk["longitude"] :
       LongitudeOf[disk["longitude"][i]] = LongitudeOf[disk["longitude"][j]] => i = j

\* The saved arrays run ahead of one another only by interrupted clicks: an
\* array saved earlier is never shorter than one saved later, and longer by at
\* most the number of clicks that were cut short.
SavedInStep ==
  \A i, j \in DOMAIN SaveOrder : i < j =>
    LET ahead == Len(disk[SaveOrder[i]]) - Len(disk[SaveOrder[j]])
    IN  ahead \in 0..torn

\* No marker shares only one of its coordinates with this one.
OffTheGrid(t) ==
  \A s \in Trashcan : LatitudeOf[s] = LatitudeOf[t] <=> LongitudeOf[s] = LongitudeOf[t]

\* The places of trashcans that can no longer become favourites and are none:
\* the panel, which tests for "neither coordinate", calls them added, and the
\* filter, which tests for "both", does not show them.
Stranded ==
  {LatitudeOf[t] : t \in {s \in Trashcan :
                            OffTheGrid(s) /\ ~OffersStar(s) /\ ~FavouriteFilter(s)}}

\* Apart from those on the grid, only the trashcans of interrupted clicks are
\* stranded, one place for each such click at most: whatever is added, killed
\* and launched later, panel and filter agree about all the others.
StrandedByTornClicks == running => Cardinality(Stranded) <= torn
=============================================================================

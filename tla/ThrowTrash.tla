----------------------------- MODULE ThrowTrash -----------------------------
(***************************************************************************)
(* Throwing trash away on one phone: the location the map screen caches    *)
(* when its view loads, the throw button it sets up when the details panel *)
(* opens, the flag throwingTrash of each marker, and the unwind action of  *)
(* the button, which asks for the user's rating (module EcoRating, which   *)
(* this module extends: its devices are the one phone).                    *)
(*                                                                         *)
(* A marker is an annotation of the map, an object: if two snapshots came  *)
(* before the map loaded, a trashcan has two of them (module MarkerMap),   *)
(* and each has its flag.                                                  *)
(*                                                                         *)
(* Coordinates are abstracted to the zone a place has around a trashcan:   *)
(* "near" if both differences are below distance, "far" if one exceeds     *)
(* distance + 0.0001, "edge" in between.                                   *)
(***************************************************************************)
EXTENDS EcoRating

CONSTANTS
  Trashcan,    \* the markers
  Place,       \* where the user can be
  Zone,        \* Zone[place][trashcan] \in {"near", "edge", "far"}
  NoTrashcan,  \* no details panel
  NoPlace,     \* no location is known
  Phone        \* the device

ASSUME ScreenAssumption ==
  /\ Device = {Phone}
  /\ IsFiniteSet(Trashcan)
  /\ NoTrashcan \notin Trashcan
  /\ NoPlace \notin Place
  /\ Zone \in [Place -> [Trashcan -> {"near", "edge", "far"}]]

VARIABLES
  app,       \* "closed", "open" with the map screen loaded, or "trapped"
  located,   \* whether the location manager has a location
  place,     \* where the user is
  cached,    \* coordinateUserLat and coordinateUserLon of the map screen
  panel,     \* the trashcan the details panel shows
  button,    \* the throw button: "closer", "already" (disabled) or "throw"
  throwing,  \* the markers whose throwingTrash is set
  throwsOf,  \* history: throws at each marker since the process started
  spent      \* history: markers whose flag was set in processes that ended

screen == << app, located, place, cached, panel, button, throwing, throwsOf, spent >>

appVars == << screen, vars >>

AppInit ==
  /\ app = "closed"
  /\ located \in BOOLEAN
  /\ place \in Place
  /\ cached = NoPlace
  /\ panel = NoTrashcan
  /\ button = "closer"
  /\ throwing = {}
  /\ throwsOf = [t \in Trashcan |-> 0]
  /\ spent = 0
  /\ Init

-----------------------------------------------------------------------------
\* The user signs in and the map screen loads; it looks up its location once.
ViewDidLoad ==
  /\ app # "open"
  /\ app' = "open"
  /\ cached' = IF located THEN place ELSE NoPlace
  /\ UNCHANGED << located, place, panel, button, throwing, throwsOf, spent, vars >>

\* Location updates only move the visible region of the map.
Locate ==
  /\ app = "open"
  /\ ~located
  /\ located' = TRUE
  /\ UNCHANGED << app, place, cached, panel, button, throwing, throwsOf, spent, vars >>

Walk(p) ==
  /\ p # place
  /\ place' = p
  /\ UNCHANGED << app, located, cached, panel, button, throwing, throwsOf, spent, vars >>

\* Mutant of ButtonFor: the marker's flag is not looked at.
ButtonByDistance(t) == IF Zone[cached][t] = "far" THEN "closer" ELSE "throw"

ButtonFor(t) ==
  CASE Zone[cached][t] = "far" -> "closer"
    [] Zone[cached][t] # "far" /\ t \in throwing -> "already"
    [] OTHER -> "throw"

\* The callout button, with a cached location.
OpenDetails(t) ==
  /\ app = "open" /\ located
  /\ cached # NoPlace
  /\ panel' = t
  /\ button' = ButtonFor(t)
  /\ UNCHANGED << app, located, place, cached, throwing, throwsOf, spent, vars >>

HidePanel ==
  /\ app = "open"
  /\ panel # NoTrashcan
  /\ panel' = NoTrashcan
  /\ UNCHANGED << app, located, place, cached, button, throwing, throwsOf, spent, vars >>

CanThrow == app = "open" /\ panel # NoTrashcan /\ button = "throw"

Spend(t) ==
  /\ throwing' = throwing \cup {t}
  /\ throwsOf' = [throwsOf EXCEPT ![t] = @ + 1]

\* Mutants of ClickThrow: one throw reads twice; ...
ClickThrowReadsTwice ==
  /\ CanThrow
  /\ Zone[cached][panel] = "near"
  /\ button' = "already"
  /\ Spend(panel)
  /\ \E n \in 1..MaxThrows - 1 :
       /\ stage[Phone][n] = "none"
       /\ stage' = [stage EXCEPT ![Phone][n] = "asked", ![Phone][n + 1] = "asked"]
  /\ UNCHANGED << app, located, place, cached, panel, spent, cloud, value, version,
                  after, since, known, resends, history >>

\* ... the marker is spent before the distance is looked at.
ClickThrowSpendsFirst ==
  /\ CanThrow
  /\ button' = "already"
  /\ Spend(panel)
  /\ IF Zone[cached][panel] = "near" THEN Ask(Phone) ELSE UNCHANGED vars
  /\ UNCHANGED << app, located, place, cached, panel, spent >>

\* The throw button: near enough, the marker is spent and the rating is asked
\* for; at the edge, where the button is enabled all the same, nothing happens.
ClickThrow ==
  /\ CanThrow
  /\ IF Zone[cached][panel] = "near"
     THEN /\ button' = "already"
          /\ Spend(panel)
          /\ Ask(Phone)
     ELSE UNCHANGED << button, throwing, throwsOf, vars >>
  /\ UNCHANGED << app, located, place, cached, panel, spent >>

\* Reads are answered and handled, and writes are saved, sent, acknowledged and
\* sent again, while the app runs.
RatingStep ==
  /\ app = "open"
  /\ \/ Answer(Phone)
     \/ AnswerFromCache(Phone)
     \/ AnswerWithError(Phone)
     \/ HandleAnswer(Phone)
     \/ Save(Phone)
     \/ ApplyWrite(Phone)
     \/ Acknowledge(Phone)
     \/ Resend(Phone)
  /\ UNCHANGED screen

\* The process ends, and with it the markers, the screen, the open reads and
\* the writes that are not saved.
Quit ==
  /\ app = "open"
  /\ cached' = NoPlace
  /\ panel' = NoTrashcan
  /\ button' = "closer"
  /\ throwing' = {}
  /\ throwsOf' = [t \in Trashcan |-> 0]
  /\ spent' = spent + Cardinality(throwing)
  /\ Kill(Phone)
  /\ UNCHANGED << located, place >>

Close == Quit /\ app' = "closed"

\* The callout button without a cached location: the forced unwrap traps.
TrapOnDetails ==
  /\ located
  /\ cached = NoPlace
  /\ Quit
  /\ app' = "trapped"

AppNext ==
  \/ ViewDidLoad
  \/ Locate
  \/ \E p \in Place : Walk(p)
  \/ \E t \in Trashcan : OpenDetails(t)
  \/ HidePanel
  \/ ClickThrow
  \/ RatingStep
  \/ Close
  \/ TrapOnDetails

AppSpec == AppInit /\ [][AppNext]_appVars

-----------------------------------------------------------------------------
\* The types of the screen's variables.
ScreenTypeOK ==
  /\ app \in {"closed", "open", "trapped"}
  /\ located \in BOOLEAN
  /\ place \in Place
  /\ cached \in Place \cup {NoPlace}
  /\ panel \in Trashcan \cup {NoTrashcan}
  /\ button \in {"closer", "already", "throw"}
  /\ throwing \in SUBSET Trashcan
  /\ throwsOf \in [Trashcan -> Nat]
  /\ spent \in Nat

\* While a process lives no marker is thrown at twice, however its panel is
\* closed, reopened and shared with other markers in between.
OneThrowPerMarker == \A t \in Trashcan : throwsOf[t] <= 1

\* The markers that were ever spent: the flags end with each process.
MarkersSpent == spent + Cardinality(throwing)

\* The rating never exceeds the markers that were spent, a point for each:
\* neither a panel that is opened again nor a point that comes through after
\* the app was closed and the flags forgotten makes more of them.
PointsOfSpentMarkers == rating <= MarkersSpent

\* And each is worth its point once nothing is read or called any more, but for
\* those spent while an earlier read was open and those whose read failed or
\* died with the process: a button that does nothing spends nothing either.
SpentMarkersPay ==
  Cloud!In(Phone, {"asked", "answered", "called"}) = {} =>
    MarkersSpent - Cloud!View(Phone, Len(cloud)) <= hurried + Cardinality(Failed)

\* README.md:17: trash can be thrown away by one who is close to the trashcan.
ThrowOnlyWhenNear ==
  [][Thrown' # Thrown => Zone[place][panel] = "near"]_appVars
=============================================================================

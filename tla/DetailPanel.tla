----------------------------- MODULE DetailPanel -----------------------------
(***************************************************************************)
(* What the details panel and the map show of one trashcan after another:  *)
(* the image, which Firebase Storage answers for whenever it likes, and    *)
(* the walking routes, which MapKit calculates whenever it likes.  There   *)
(* is one panel for all trashcans, no answer is told to which of them it   *)
(* belongs, and none is cancelled.                                         *)
(***************************************************************************)
EXTENDS Integers, FiniteSets

CONSTANTS
  Trashcan,     \* the markers
  Pictured,     \* those that have an image; the others show the default
  Default,      \* the default image
  Hidden,       \* no trashcan: the panel is hidden
  MaxRequests   \* bound: how many downloads, and routes, are asked for

ASSUME ConstantsAssumption ==
  /\ Pictured \subseteq Trashcan
  /\ Default \notin Trashcan /\ Hidden \notin Trashcan
  /\ MaxRequests \in Nat

VARIABLES
  panel,      \* the trashcan the panel shows
  current,    \* currentTrashcan, which is also where "direction" leads
  image,      \* imageTrashcan: whose image it is, or the default
  downloads,  \* open calls of getData
  overlays,   \* the routes on the map
  routes,     \* open calls of calculate
  asked,      \* how many downloads and how many routes were asked for
  late,       \* history: calls of calculate open when the panel last opened
  muddled     \* history: the panel last opened during a download, or one failed

vars == << panel, current, image, downloads, overlays, routes, asked, late, muddled >>

\* A call is numbered, for the same may be open twice.
Call == [to : Trashcan, number : 1..MaxRequests]

Calls(t, n) == [to |-> t, number |-> n]

Init ==
  /\ panel = Hidden
  /\ current = Hidden
  /\ image = Default
  /\ downloads = {}
  /\ overlays = {}
  /\ routes = {}
  /\ asked = [images |-> 0, routes |-> 0]
  /\ late = {}
  /\ muddled = FALSE

-----------------------------------------------------------------------------
\* Mutant of ShowImage: the default is not set.
ShowImageOrKeep(t) ==
  IF t \in Pictured
  THEN /\ asked.images < MaxRequests
       /\ asked' = [asked EXCEPT !.images = @ + 1]
       /\ downloads' = downloads \cup {Calls(t, asked.images + 1)}
       /\ UNCHANGED image
  ELSE UNCHANGED << image, downloads, asked >>

\* initDetailsContent: ask for the image of t, and keep the one there is until
\* the answer comes, or show the default.
ShowImage(t) ==
  IF t \in Pictured
  THEN /\ asked.images < MaxRequests
       /\ asked' = [asked EXCEPT !.images = @ + 1]
       /\ downloads' = downloads \cup {Calls(t, asked.images + 1)}
       /\ UNCHANGED image
  ELSE image' = Default /\ UNCHANGED << downloads, asked >>

\* Mutant of RemoveOverlays: the routes stay on the map.
KeepOverlays == UNCHANGED overlays

RemoveOverlays == overlays' = {}

\* The callout button.
OpenDetails(t) ==
  /\ panel' = t
  /\ current' = t
  /\ RemoveOverlays
  /\ ShowImage(t)
  /\ late' = routes
  /\ muddled' = (downloads # {})
  /\ UNCHANGED routes

\* The close button or a deselected annotation.
Hide ==
  /\ panel # Hidden
  /\ panel' = Hidden
  /\ UNCHANGED << current, image, downloads, overlays, routes, asked, late, muddled >>

\* The route button: calculate and hide.
ClickBtnRoute ==
  /\ panel # Hidden
  /\ asked.routes < MaxRequests
  /\ asked' = [asked EXCEPT !.routes = @ + 1]
  /\ routes' = routes \cup {Calls(current, asked.routes + 1)}
  /\ panel' = Hidden
  /\ UNCHANGED << current, image, downloads, overlays, late, muddled >>

ImageArrives(call) ==
  /\ image' = call.to
  /\ downloads' = downloads \ {call}
  /\ UNCHANGED << panel, current, overlays, routes, asked, late, muddled >>

ImageFails(call) ==
  /\ downloads' = downloads \ {call}
  /\ muddled' = TRUE
  /\ UNCHANGED << panel, current, image, overlays, routes, asked, late >>

RouteArrives(call) ==
  /\ overlays' = overlays \cup {call}
  /\ routes' = routes \ {call}
  /\ UNCHANGED << panel, current, image, downloads, asked, late, muddled >>

RouteFails(call) ==
  /\ routes' = routes \ {call}
  /\ UNCHANGED << panel, current, image, downloads, overlays, asked, late, muddled >>

Next ==
  \/ \E t \in Trashcan : OpenDetails(t)
  \/ Hide
  \/ ClickBtnRoute
  \/ \E call \in downloads : ImageArrives(call) \/ ImageFails(call)
  \/ \E call \in routes : RouteArrives(call) \/ RouteFails(call)

Spec == Init /\ [][Next]_vars

-----------------------------------------------------------------------------
\* The types of the variables.
TypeOK ==
  /\ panel \in Trashcan \cup {Hidden} /\ current \in Trashcan \cup {Hidden}
  /\ image \in Trashcan \cup {Default}
  /\ downloads \in SUBSET Call /\ routes \in SUBSET Call
  /\ overlays \in SUBSET Call /\ late \in SUBSET Call
  /\ asked \in [images : 0..MaxRequests, routes : 0..MaxRequests]
  /\ muddled \in BOOLEAN

\* Once the downloads have been answered, the panel shows the image of its
\* trashcan, unless it was opened during a download or its own failed.
ImageOwn ==
  current # Hidden /\ downloads = {} /\ ~muddled =>
    image = IF current \in Pictured THEN current ELSE Default

\* A route to another trashcan than the one whose panel was opened last is on
\* the map only if it was still being calculated then.
ForeignRoutesLate == \A call \in overlays : call.to # current => call \in late
=============================================================================

---------------------------- MODULE ScreenProofs ----------------------------
(***************************************************************************)
(* Proofs about the two screens that show what was fetched from elsewhere. *)
(*                                                                         *)
(* DetailPanel, for any markers and any number of requests:                *)
(* ForeignRoutesLate is inductive once it also speaks of the routes that   *)
(* are still being calculated, and ImageOwn once it says what is open when *)
(* nothing has been muddled: the download of the current image, or none    *)
(* and the right image.                                                    *)
(*                                                                         *)
(* News, for pages of any size: images are only lost, so that a list that  *)
(* is as long as the list of articles has lost none, and a row is only     *)
(* made while there is an image for it.                                    *)
(***************************************************************************)
EXTENDS DetailPanel, News, TLAPS

-----------------------------------------------------------------------------
(* The details panel.                                                      *)


\* Routes that lead elsewhere were asked for before the panel last opened.
LateInv ==
  \A call \in overlays \cup routes : call.to # current => call \in late

\* What current's image is.
Own == IF current \in Pictured THEN current ELSE Default

\* Without muddle all open downloads are of the current trashcan's image, and
\* if there is none the image is the right one.
ImageInv ==
  current # Hidden /\ ~muddled =>
    /\ \A call \in downloads : call.to = current /\ current \in Pictured
    /\ downloads = {} => image = Own

\* A panel that is shown is that of the current trashcan.
PanelInv == panel \in {Hidden, current}

Inv == TypeOK /\ PanelInv /\ LateInv /\ ImageInv

-----------------------------------------------------------------------------
LEMMA InitInv == Init => Inv
<1>1. SUFFICES ASSUME Init PROVE Inv
  OBVIOUS
<1>2. TypeOK
  <2>1. asked \in [images : 0..MaxRequests, routes : 0..MaxRequests]
    <3>1. 0 \in 0..MaxRequests
      BY ConstantsAssumption
    <3>2. QED
      BY <1>1, <3>1 DEF Init
  <2>2. QED
    BY <1>1, <2>1 DEF Init, TypeOK
<1>3. PanelInv /\ LateInv /\ ImageInv
  BY <1>1 DEF Init, PanelInv, LateInv, ImageInv
<1>4. QED
  BY <1>2, <1>3 DEF Inv

\* A numbered call is a call.
LEMMA CallsType ==
  ASSUME NEW t \in Trashcan, NEW n \in 0..MaxRequests, n < MaxRequests
  PROVE  Calls(t, n + 1) \in Call /\ Calls(t, n + 1).to = t /\ n + 1 \in 0..MaxRequests
<1>1. n + 1 \in 1..MaxRequests
  BY ConstantsAssumption
<1>2. QED
  BY <1>1 DEF Calls, Call

LEMMA OpenDetailsKeeps ==
  ASSUME Inv, NEW t \in Trashcan, OpenDetails(t) PROVE Inv'
<1>1. /\ panel' = t /\ current' = t /\ overlays' = {} /\ late' = routes
      /\ muddled' = (downloads # {}) /\ routes' = routes /\ ShowImage(t)
  BY DEF OpenDetails, RemoveOverlays
<1>2. current' # Hidden
  BY <1>1, ConstantsAssumption
<1>3. LateInv' /\ PanelInv'
  BY <1>1 DEF LateInv, PanelInv
<1>4. CASE t \in Pictured
  <2>1. /\ asked.images < MaxRequests
        /\ asked' = [asked EXCEPT !.images = @ + 1]
        /\ downloads' = downloads \cup {Calls(t, asked.images + 1)}
        /\ image' = image
    BY <1>1, <1>4 DEF ShowImage
  <2>2. asked \in [images : 0..MaxRequests, routes : 0..MaxRequests]
    BY DEF Inv, TypeOK
  <2>3. /\ Calls(t, asked.images + 1) \in Call
        /\ Calls(t, asked.images + 1).to = t
        /\ asked.images + 1 \in 0..MaxRequests
    BY <2>1, <2>2, CallsType
  <2>4. TypeOK'
    BY <1>1, <2>1, <2>2, <2>3 DEF Inv, TypeOK
  <2>5. ImageInv'
    <3>1. SUFFICES ASSUME ~muddled' PROVE
            /\ \A call \in downloads' : call.to = current' /\ current' \in Pictured
            /\ downloads' # {}
      BY DEF ImageInv
    <3>2. downloads' = {Calls(t, asked.images + 1)}
      BY <3>1, <1>1, <2>1
    <3>3. QED
      BY <3>2, <1>1, <1>4, <2>3
  <2>6. QED
    BY <2>4, <2>5, <1>3 DEF Inv
<1>5. CASE t \notin Pictured
  <2>1. image' = Default /\ downloads' = downloads /\ asked' = asked
    BY <1>1, <1>5 DEF ShowImage
  <2>2. TypeOK'
    BY <1>1, <2>1 DEF Inv, TypeOK
  <2>3. ImageInv'
    BY <1>1, <1>5, <2>1 DEF ImageInv, Own
  <2>4. QED
    BY <2>2, <2>3, <1>3 DEF Inv
<1>6. QED
  BY <1>4, <1>5

LEMMA ClickBtnRouteKeeps == ASSUME Inv, ClickBtnRoute PROVE Inv'
<1>1. /\ asked.routes < MaxRequests
      /\ asked' = [asked EXCEPT !.routes = @ + 1]
      /\ routes' = routes \cup {Calls(current, asked.routes + 1)}
      /\ panel' = Hidden /\ panel # Hidden
      /\ UNCHANGED << current, image, downloads, overlays, late, muddled >>
  BY DEF ClickBtnRoute
<1>2. current \in Trashcan
  BY <1>1 DEF Inv, TypeOK, PanelInv
<1>3. asked \in [images : 0..MaxRequests, routes : 0..MaxRequests]
  BY DEF Inv, TypeOK
<1>4. /\ Calls(current, asked.routes + 1) \in Call
      /\ Calls(current, asked.routes + 1).to = current
      /\ asked.routes + 1 \in 0..MaxRequests
  BY <1>1, <1>2, <1>3, CallsType
<1>5. TypeOK'
  BY <1>1, <1>3, <1>4 DEF Inv, TypeOK
<1>6. PanelInv' /\ LateInv' /\ ImageInv'
  BY <1>1, <1>4 DEF Inv, PanelInv, LateInv, ImageInv, Own
<1>7. QED
  BY <1>5, <1>6 DEF Inv

LEMMA ImageArrivesKeeps ==
  ASSUME Inv, NEW call \in downloads, ImageArrives(call) PROVE Inv'
<1>1. /\ image' = call.to
      /\ downloads' = downloads \ {call}
      /\ UNCHANGED << panel, current, overlays, routes, asked, late, muddled >>
  BY DEF ImageArrives
<1>2. call.to \in Trashcan
  BY DEF Inv, TypeOK, Call
<1>3. TypeOK'
  BY <1>1, <1>2 DEF Inv, TypeOK
<1>4. PanelInv' /\ LateInv'
  BY <1>1 DEF Inv, PanelInv, LateInv
<1>5. ImageInv'
  <2>1. SUFFICES ASSUME current # Hidden, ~muddled
                 PROVE  /\ \A other \in downloads' : /\ other.to = current
                                                     /\ current \in Pictured
                        /\ image' = Own
    BY <1>1 DEF ImageInv, Own
  <2>2. \A other \in downloads : other.to = current /\ current \in Pictured
    BY <2>1 DEF Inv, ImageInv
  <2>3. QED
    BY <1>1, <2>2 DEF Own
<1>6. QED
  BY <1>3, <1>4, <1>5 DEF Inv

LEMMA NextInv == Inv /\ [Next]_vars => Inv'
<1>1. SUFFICES ASSUME Inv, [Next]_vars PROVE Inv'
  OBVIOUS
<1>2. CASE UNCHANGED vars
  <2>1. UNCHANGED << panel, current, image, downloads, overlays, routes, asked,
                     late, muddled >>
    BY <1>2 DEF vars
  <2>2. QED
    BY <1>1, <2>1 DEF Inv, TypeOK, PanelInv, LateInv, ImageInv, Own
<1>3. ASSUME NEW t \in Trashcan, OpenDetails(t) PROVE Inv'
  BY <1>1, <1>3, OpenDetailsKeeps
<1>4. CASE Hide
  BY <1>1, <1>4 DEF Hide, Inv, TypeOK, PanelInv, LateInv, ImageInv, Own
<1>5. CASE ClickBtnRoute
  BY <1>1, <1>5, ClickBtnRouteKeeps
<1>6. ASSUME NEW call \in downloads, ImageArrives(call) PROVE Inv'
  BY <1>1, <1>6, ImageArrivesKeeps
<1>7. ASSUME NEW call \in downloads, ImageFails(call) PROVE Inv'
  <2>1. /\ downloads' = downloads \ {call} /\ muddled' = TRUE
        /\ UNCHANGED << panel, current, image, overlays, routes, asked, late >>
    BY <1>7 DEF ImageFails
  <2>2. QED
    BY <1>1, <2>1 DEF Inv, TypeOK, PanelInv, LateInv, ImageInv
<1>8. ASSUME NEW call \in routes, RouteArrives(call) PROVE Inv'
  <2>1. /\ overlays' = overlays \cup {call} /\ routes' = routes \ {call}
        /\ UNCHANGED << panel, current, image, downloads, asked, late, muddled >>
    BY <1>8 DEF RouteArrives
  <2>2. QED
    BY <1>1, <2>1 DEF Inv, TypeOK, PanelInv, LateInv, ImageInv, Own
<1>9. ASSUME NEW call \in routes, RouteFails(call) PROVE Inv'
  <2>1. /\ routes' = routes \ {call}
        /\ UNCHANGED << panel, current, image, downloads, overlays, asked, late,
                        muddled >>
    BY <1>9 DEF RouteFails
  <2>2. QED
    BY <1>1, <2>1 DEF Inv, TypeOK, PanelInv, LateInv, ImageInv, Own
<1>10. QED
  BY <1>1, <1>2, <1>3, <1>4, <1>5, <1>6, <1>7, <1>8, <1>9 DEF Next

\* The strengthened invariant holds in every reachable state.
THEOREM Invariant == Spec => []Inv
<1>1. QED
  BY InitInv, NextInv, PTL DEF Spec

\* The variables keep their types.
THEOREM TypeCorrect == Spec => []TypeOK
<1>1. Inv => TypeOK
  BY DEF Inv
<1>2. QED
  BY <1>1, Invariant, PTL

\* In whatever order downloads are answered, the panel ends up with the image of
\* its trashcan, unless it was opened during a download or one failed.
THEOREM ImageIsOwn == Spec => []ImageOwn
<1>1. Inv => ImageOwn
  BY DEF Inv, ImageInv, ImageOwn, Own
<1>2. QED
  BY <1>1, Invariant, PTL

\* Only routes that were being calculated when the panel last opened can lead to
\* another trashcan, however many there are and whenever they are drawn.
THEOREM ForeignRoutesAreLate == Spec => []ForeignRoutesLate
<1>1. Inv => ForeignRoutesLate
  BY DEF Inv, LateInv, ForeignRoutesLate
<1>2. QED
  BY <1>1, Invariant, PTL

-----------------------------------------------------------------------------
(* The crawl for the news.                                                 *)

\* Images are only lost, so that none is lost if there is one for every article
\* the loop has passed.
NoneLost(passed) ==
  /\ Len(images) <= passed
  /\ Len(images) = passed => \A n \in DOMAIN images : images[n] = n

ImagesInv ==
  /\ pc \in {"page", "references"} => images = << >> /\ i = 1
  /\ pc = "images" => i <= page["article"] + 1 /\ NoneLost(i - 1)
  /\ pc \in {"rows", "shown"} => NoneLost(page["article"])

\* The rows are numbered, and row n has the image at n.
RowsInv ==
  /\ pc \in {"page", "references", "images"} => news = << >>
  /\ pc = "rows" => i <= page["summary"] + 1 /\ Len(news) = i - 1
  /\ pc = "shown" => Len(news) = page["summary"]
  /\ pc \in {"rows", "shown"} => Len(news) <= Len(images)
  /\ \A n \in DOMAIN news : n \in DOMAIN images /\ news[n] = [photo |-> images[n], title |-> n]

CrawlInv == CrawlTypeOK /\ ImagesInv /\ RowsInv

\* A page has a number of elements of every kind.
LEMMA PageCounts ==
  ASSUME CrawlTypeOK
  PROVE  /\ page["article"] \in Nat /\ page["article"] <= MaxElements
         /\ page["summary"] \in Nat /\ page["summary"] <= MaxElements
         /\ i \in Nat \ {0} /\ MaxElements \in Nat
         /\ page["h2"] \in Nat /\ page["time"] \in Nat
<1>1. /\ page \in [{"summary", "h2", "time", "article"} -> 0..MaxElements]
      /\ i \in 1 .. MaxElements + 1 /\ MaxElements \in Nat
  BY PageAssumption DEF CrawlTypeOK, Kind
<1>2. /\ page["article"] \in 0..MaxElements /\ page["summary"] \in 0..MaxElements
      /\ page["h2"] \in 0..MaxElements /\ page["time"] \in 0..MaxElements
  BY <1>1
<1>3. QED
  BY <1>1, <1>2

\* Before the page is read there is nothing that could be lost.
LEMMA CrawlBegins == CrawlInit => CrawlInv
<1>1. SUFFICES ASSUME CrawlInit PROVE CrawlInv
  OBVIOUS
<1>2. /\ pc = "page" /\ i = 1 /\ images = << >> /\ news = << >>
      /\ page \in [Kind -> 0..MaxElements]
      /\ linked \in SUBSET Element /\ valid \in SUBSET Element
  BY <1>1 DEF CrawlInit
<1>3. CrawlTypeOK
  BY <1>1, <1>2, PageAssumption DEF CrawlTypeOK
<1>4. ImagesInv /\ RowsInv
  BY <1>2 DEF ImagesInv, RowsInv
<1>5. QED
  BY <1>3, <1>4 DEF CrawlInv

\* A trap keeps what was found so far, and nothing is said of it any more.
LEMMA TrapKeeps ==
  ASSUME CrawlInv, Trap, UNCHANGED << page, linked, valid, images, news >>
  PROVE  CrawlInv'
BY DEF Trap, CrawlInv, CrawlTypeOK, ImagesInv, RowsInv

\* A loop starts over, with as many images as there are.
LEMMA GoesOn ==
  ASSUME CrawlInv,
         UNCHANGED << page, linked, valid, images, news >>,
         \/ pc = "page" /\ Continue("references")
         \/ pc = "references" /\ Continue("images")
         \/ pc = "images" /\ Continue("rows") /\ i > page["article"]
         \/ pc = "rows" /\ Continue("shown") /\ i > page["summary"]
  PROVE  CrawlInv'
<1>1. CrawlTypeOK
  BY DEF CrawlInv
<1>2. /\ page["article"] \in Nat /\ page["summary"] \in Nat /\ i \in Nat
      /\ MaxElements \in Nat
  BY <1>1, PageCounts
<1>3. Len(images) \in Nat /\ Len(news) \in Nat
  BY <1>1 DEF CrawlTypeOK
<1>4. /\ i' = 1 /\ pc' \in {"references", "images", "rows", "shown"}
      /\ page' = page /\ linked' = linked /\ valid' = valid
      /\ images' = images /\ news' = news
  BY DEF Continue
<1>5. CrawlTypeOK'
  <2>1. i' \in 1 .. MaxElements + 1
    BY <1>2, <1>4
  <2>2. QED
    BY <1>1, <1>4, <2>1 DEF CrawlTypeOK
<1>6. ImagesInv'
  <2>1. CASE pc = "page" /\ pc' = "references"
    BY <2>1, <1>4 DEF CrawlInv, ImagesInv
  <2>2. CASE pc = "references" /\ pc' = "images"
    <3>1. images' = << >> /\ i' = 1
      BY <2>2, <1>4 DEF CrawlInv, ImagesInv
    <3>2. NoneLost(i - 1)'
      BY <3>1 DEF NoneLost
    <3>3. QED
      BY <2>2, <3>1, <3>2, <1>2, <1>4 DEF ImagesInv
  <2>3. CASE pc = "images" /\ pc' = "rows" /\ i > page["article"]
    <3>1. i - 1 = page["article"] /\ NoneLost(i - 1)
      BY <2>3, <1>2 DEF CrawlInv, ImagesInv
    <3>2. NoneLost(page["article"])'
      BY <3>1, <1>4 DEF NoneLost
    <3>3. QED
      BY <2>3, <3>2 DEF ImagesInv
  <2>4. CASE pc = "rows" /\ pc' = "shown"
    <3>1. NoneLost(page["article"])
      BY <2>4 DEF CrawlInv, ImagesInv
    <3>2. NoneLost(page["article"])'
      BY <3>1, <1>4 DEF NoneLost
    <3>3. QED
      BY <2>4, <3>2 DEF ImagesInv
  <2>5. QED
    BY <2>1, <2>2, <2>3, <2>4 DEF Continue
<1>7. RowsInv'
  <2>1. CASE pc \in {"page", "references"} /\ pc' \in {"references", "images"}
    <3>1. news' = << >>
      BY <2>1, <1>4 DEF CrawlInv, RowsInv
    <3>2. QED
      BY <3>1, <2>1 DEF RowsInv
  <2>2. CASE pc = "images" /\ pc' = "rows"
    <3>1. news' = << >>
      BY <2>2, <1>4 DEF CrawlInv, RowsInv
    <3>2. Len(news') = 0 /\ DOMAIN news' = {}
      BY <3>1
    <3>3. QED
      BY <3>1, <3>2, <2>2, <1>2, <1>3, <1>4 DEF RowsInv
  <2>3. CASE pc = "rows" /\ pc' = "shown" /\ i > page["summary"]
    <3>1. i - 1 = page["summary"] /\ Len(news) = i - 1 /\ Len(news) <= Len(images)
      BY <2>3, <1>2 DEF CrawlInv, RowsInv
    <3>2. \A n \in DOMAIN news : n \in DOMAIN images /\ news[n] = [photo |-> images[n], title |-> n]
      BY DEF CrawlInv, RowsInv
    <3>3. QED
      BY <3>1, <3>2, <2>3, <1>4 DEF RowsInv
  <2>4. QED
    BY <2>1, <2>2, <2>3 DEF Continue
<1>8. QED
  BY <1>5, <1>6, <1>7 DEF CrawlInv

\* What a sequence holds.
LEMMA SeqHas ==
  ASSUME NEW S, NEW s \in Seq(S), NEW n \in 1 .. Len(s)
  PROVE  n \in DOMAIN s /\ s[n] \in S
OBVIOUS

\* An image more, or one lost.
LEMMA GetImageKeeps ==
  ASSUME CrawlInv, GetImage PROVE CrawlInv'
<1>1. CrawlTypeOK
  BY DEF CrawlInv
<1>2. /\ page["article"] \in Nat /\ page["article"] <= MaxElements /\ i \in Nat \ {0}
      /\ MaxElements \in Nat
  BY <1>1, PageCounts
<1>3. /\ pc = "images" /\ i <= page["article"]
      /\ UNCHANGED << page, linked, valid, news >>
  BY DEF GetImage
<1>4. CASE Trap /\ UNCHANGED images
  BY <1>3, <1>4, TrapKeeps
<1>5. CASE /\ images' = IF i \in valid THEN Append(images, i) ELSE images
           /\ i' = i + 1 /\ pc' = pc
  <2>1. images \in Seq(1 .. page["article"]) /\ Len(images) \in Nat
    BY <1>1 DEF CrawlTypeOK
  <2>2. NoneLost(i - 1) /\ news = << >>
    BY <1>3 DEF CrawlInv, ImagesInv, RowsInv
  <2>3. images' \in Seq(1 .. page["article"])
    <3>1. i \in 1 .. page["article"]
      BY <1>2, <1>3
    <3>2. Append(images, i) \in Seq(1 .. page["article"])
      BY <2>1, <3>1
    <3>3. QED
      BY <1>5, <2>1, <3>2
  <2>4. CrawlTypeOK'
    <3>1. i' \in 1 .. MaxElements + 1
      BY <1>2, <1>3, <1>5
    <3>2. QED
      BY <1>1, <1>3, <1>5, <2>3, <3>1 DEF CrawlTypeOK
  <2>5. Len(images') <= i /\ (Len(images') = i => \A n \in DOMAIN images' : images'[n] = n)
    <3>1. CASE i \in valid
      <4>1. images' = Append(images, i)
        BY <3>1, <1>5
      <4>2. Len(images') = Len(images) + 1
        BY <4>1, <2>1
      <4>3. ASSUME Len(images') = i, NEW n \in DOMAIN images' PROVE images'[n] = n
        <5>1. Len(images) = i - 1
          BY <4>2, <4>3, <2>1, <1>2
        <5>2. CASE n \in DOMAIN images
          <6>1. images'[n] = images[n]
            BY <5>2, <4>1, <2>1
          <6>2. QED
            BY <6>1, <5>1, <5>2, <2>2 DEF NoneLost
        <5>3. CASE n \notin DOMAIN images
          <6>1. n = i
            BY <5>1, <5>3, <4>1, <4>3, <2>1, <1>2
          <6>2. images'[i] = i
            BY <4>1, <5>1, <2>1, <1>2
          <6>3. QED
            BY <6>1, <6>2
        <5>4. QED
          BY <5>2, <5>3
      <4>4. Len(images') <= i
        BY <4>2, <2>1, <2>2, <1>2 DEF NoneLost
      <4>5. QED
        BY <4>3, <4>4
    <3>2. CASE i \notin valid
      <4>1. images' = images
        BY <3>2, <1>5
      <4>2. Len(images) <= i - 1
        BY <2>2 DEF NoneLost
      <4>3. Len(images') < i
        BY <4>1, <4>2, <2>1, <1>2
      <4>4. QED
        BY <4>3, <4>1, <2>1, <1>2
    <3>3. QED
      BY <3>1, <3>2
  <2>6. NoneLost(i - 1)'
    <3>1. i' - 1 = i
      BY <1>2, <1>5
    <3>2. QED
      BY <2>5, <3>1 DEF NoneLost
  <2>7. ImagesInv'
    <3>1. i' <= page["article"]' + 1
      BY <1>2, <1>3, <1>5
    <3>2. QED
      BY <2>6, <3>1, <1>3, <1>5 DEF ImagesInv
  <2>8. RowsInv'
    BY <2>2, <1>3, <1>5 DEF RowsInv
  <2>9. QED
    BY <2>4, <2>7, <2>8 DEF CrawlInv
<1>6. QED
  BY <1>4, <1>5 DEF GetImage

\* A row more, which takes the image with its own number.
LEMMA AppendRowKeeps ==
  ASSUME CrawlInv, AppendRow PROVE CrawlInv'
<1>1. CrawlTypeOK /\ ImagesInv /\ RowsInv
  BY DEF CrawlInv
<1>2. /\ page["summary"] \in Nat /\ page["summary"] <= MaxElements /\ i \in Nat \ {0}
      /\ MaxElements \in Nat
  BY <1>1, PageCounts
<1>3. /\ pc = "rows" /\ i <= page["summary"]
      /\ UNCHANGED << page, linked, valid, images >>
  BY DEF AppendRow
<1>4. CASE Trap /\ UNCHANGED news
  BY <1>3, <1>4, TrapKeeps
<1>5. CASE /\ i <= Len(images)
           /\ news' = Append(news, [photo |-> images[i], title |-> i])
           /\ i' = i + 1 /\ pc' = pc
  <2> DEFINE row == [photo |-> images[i], title |-> i]
  <2>1. /\ images \in Seq(1 .. page["article"]) /\ Len(images) \in Nat
        /\ news \in Seq([photo : 1 .. page["article"], title : 1 .. page["summary"]])
    BY <1>1 DEF CrawlTypeOK
  <2>2. Len(news) = i - 1 /\ Len(news) \in Nat
    BY <1>1, <1>3, <2>1 DEF RowsInv
  <2>3. i \in DOMAIN images /\ i \in 1 .. page["summary"] /\ images[i] \in 1 .. page["article"]
    <3>1. i \in 1 .. Len(images) /\ i \in 1 .. page["summary"]
      BY <1>2, <1>3, <1>5, <2>1
    <3>2. QED
      BY <3>1, <2>1, SeqHas
  <2>4. row \in [photo : 1 .. page["article"], title : 1 .. page["summary"]]
    BY <2>3
  <2> HIDE DEF row
  <2>5. /\ news' \in Seq([photo : 1 .. page["article"], title : 1 .. page["summary"]])
        /\ Len(news') = i
        /\ \A n \in DOMAIN news' : \/ n \in DOMAIN news /\ news'[n] = news[n]
                                   \/ n = i /\ news'[n] = row
    <3>1. news' = Append(news, row)
      BY <1>5 DEF row
    <3>2. QED
      BY <3>1, <2>1, <2>2, <2>4, <1>2
  <2>6. CrawlTypeOK'
    <3>1. i' \in 1 .. MaxElements + 1
      BY <1>2, <1>3, <1>5
    <3>2. QED
      BY <1>1, <1>3, <1>5, <2>5, <3>1 DEF CrawlTypeOK
  <2>7. ImagesInv'
    BY <1>1, <1>3, <1>5 DEF ImagesInv, NoneLost
  <2>8. RowsInv'
    <3>1. \A n \in DOMAIN news' : n \in DOMAIN images /\ news'[n] = [photo |-> images[n], title |-> n]
      BY <2>5, <2>3, <1>1 DEF RowsInv, row
    <3>2. i' <= page["summary"]' + 1 /\ Len(news') = i' - 1 /\ Len(news') <= Len(images')
      BY <2>5, <1>2, <1>3, <1>5
    <3>3. QED
      BY <3>1, <3>2, <1>3, <1>5 DEF RowsInv
  <2>9. QED
    BY <2>6, <2>7, <2>8 DEF CrawlInv
<1>6. i \in Int /\ Len(images) \in Int
  BY <1>1, <1>2 DEF CrawlTypeOK
<1>7. i > Len(images) \/ i <= Len(images)
  BY <1>6
<1>8. QED
  BY <1>4, <1>5, <1>7 DEF AppendRow

\* Every step of the crawl keeps the invariant.
LEMMA CrawlGoesOn ==
  CrawlInv /\ [CrawlNext]_crawlVars => CrawlInv'
<1>1. SUFFICES ASSUME CrawlInv, [CrawlNext]_crawlVars
               PROVE  CrawlInv'
  OBVIOUS
<1>2. CASE UNCHANGED crawlVars
  <2>1. UNCHANGED << page, linked, valid, pc, i, images, news >>
    BY <1>2 DEF crawlVars
  <2>2. QED
    BY <1>1, <2>1 DEF CrawlInv, CrawlTypeOK, ImagesInv, NoneLost, RowsInv
<1>3. CASE GetPage
  BY <1>1, <1>3, GoesOn, TrapKeeps DEF GetPage
<1>4. CASE References
  BY <1>1, <1>4, GoesOn, TrapKeeps DEF References
<1>5. CASE GetImage
  BY <1>1, <1>5, GetImageKeeps
<1>6. CASE EndOfImages
  BY <1>1, <1>6, GoesOn, TrapKeeps DEF EndOfImages
<1>7. CASE AppendRow
  BY <1>1, <1>7, AppendRowKeeps
<1>8. CASE Return
  BY <1>1, <1>8, GoesOn DEF Return
<1>9. QED
  BY <1>1, <1>2, <1>3, <1>4, <1>5, <1>6, <1>7, <1>8 DEF CrawlNext

\* The strengthened invariant of the crawl, for pages of any size.
THEOREM CrawlInvariant == Crawl => []CrawlInv
<1>1. CrawlInit => CrawlInv
  BY CrawlBegins
<1>2. CrawlInv /\ [CrawlNext]_crawlVars => CrawlInv'
  BY CrawlGoesOn
<1>3. QED
  BY <1>1, <1>2, PTL DEF Crawl

\* No row is made of an element that the page does not have, for pages of any
\* size.
THEOREM RowsOfThePage == Crawl => []CrawlTypeOK
<1>1. CrawlInv => CrawlTypeOK
  BY DEF CrawlInv
<1>2. Crawl => []CrawlInv
  BY CrawlInvariant
<1>3. QED
  BY <1>1, <1>2, PTL

\* On a page with no more articles than summaries no row is shown with the image
\* of another article, whatever images were skipped.
THEOREM PhotosAreOwn == Crawl => []PhotosInStep
<1>1. ASSUME CrawlInv, pc = "shown",
             page["article"] <= page["summary"], NEW n \in DOMAIN news
      PROVE  news[n].photo = news[n].title
  <2>1. /\ page["article"] \in Nat /\ page["summary"] \in Nat
        /\ Len(images) \in Nat /\ Len(news) \in Nat
    BY <1>1, PageCounts DEF CrawlInv, CrawlTypeOK
  <2>2. Len(news) = page["summary"] /\ Len(news) <= Len(images)
    BY <1>1 DEF CrawlInv, RowsInv
  <2>3. NoneLost(page["article"])
    BY <1>1 DEF CrawlInv, ImagesInv
  <2>4. Len(images) = page["article"]
    BY <1>1, <2>1, <2>2, <2>3 DEF NoneLost
  <2>5. /\ n \in DOMAIN images /\ news[n] = [photo |-> images[n], title |-> n]
    BY <1>1 DEF CrawlInv, RowsInv
  <2>6. images[n] = n
    BY <2>3, <2>4, <2>5 DEF NoneLost
  <2>7. QED
    BY <2>5, <2>6
<1>2. CrawlInv => PhotosInStep
  BY <1>1 DEF PhotosInStep
<1>3. Crawl => []CrawlInv
  BY CrawlInvariant
<1>4. QED
  BY <1>2, <1>3, PTL

\* A screen that is shown has a row for every summary of the page.
THEOREM AllRowsAreShown == Crawl => []AllOrNothing
<1>1. CrawlInv => AllOrNothing
  BY DEF CrawlInv, RowsInv, AllOrNothing
<1>2. Crawl => []CrawlInv
  BY CrawlInvariant
<1>3. QED
  BY <1>1, <1>2, PTL
=============================================================================

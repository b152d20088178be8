-------------------------- MODULE ThrowTrashProofs --------------------------
(***************************************************************************)
(* Proofs about ThrowTrash for any trashcans, places and zones: a marker   *)
(* is thrown at once, because a button that can be pressed always belongs  *)
(* to a marker that is not spent.  So each marker that was ever spent is a *)
(* throw of EcoRating and the other way around; whatever happens on the    *)
(* screen is a step of EcoRating or leaves its variables alone, and what   *)
(* EcoRatingProofs shows of throws and points holds of spent markers.      *)
(***************************************************************************)
EXTENDS ThrowTrash, EcoRatingProofs

\* The flags say which markers were thrown at.
FlagsInv == \A t \in Trashcan : throwsOf[t] = IF t \in throwing THEN 1 ELSE 0

\* A button that offers a throw offers it at a marker that is not spent.
ButtonInv == panel # NoTrashcan /\ button = "throw" => panel \notin throwing

ScreenInv == ScreenTypeOK /\ FlagsInv /\ ButtonInv

LEMMA InitScreen == AppInit => ScreenInv
BY DEF AppInit, ScreenInv, ScreenTypeOK, FlagsInv, ButtonInv

LEMMA FlagsFinite ==
  ASSUME ScreenTypeOK PROVE IsFiniteSet(throwing) /\ Cardinality(throwing) \in Nat
BY ScreenAssumption, FS_Subset, FS_CardinalityType DEF ScreenTypeOK

LEMMA QuitKeeps ==
  ASSUME ScreenInv, Quit, app' \in {"closed", "trapped"} PROVE ScreenInv'
<1>1. /\ cached' = NoPlace /\ panel' = NoTrashcan /\ button' = "closer"
      /\ throwing' = {} /\ throwsOf' = [t \in Trashcan |-> 0]
      /\ spent' = spent + Cardinality(throwing)
      /\ UNCHANGED << located, place >>
  BY DEF Quit
<1>2. Cardinality(throwing) \in Nat
  BY FlagsFinite DEF ScreenInv
<1>3. QED
  BY <1>1, <1>2 DEF ScreenInv, ScreenTypeOK, FlagsInv, ButtonInv

LEMMA NextScreen == ScreenInv /\ [AppNext]_appVars => ScreenInv'
<1>1. SUFFICES ASSUME ScreenInv, [AppNext]_appVars PROVE ScreenInv'
  OBVIOUS
<1>2. CASE UNCHANGED screen
  <2>1. UNCHANGED << app, located, place, cached, panel, button, throwing, throwsOf, spent >>
    BY <1>2 DEF screen
  <2>2. QED
    BY <1>1, <2>1 DEF ScreenInv, ScreenTypeOK, FlagsInv, ButtonInv
<1>3. CASE ViewDidLoad
  BY <1>1, <1>3 DEF ViewDidLoad, ScreenInv, ScreenTypeOK, FlagsInv, ButtonInv
<1>4. CASE Locate
  BY <1>1, <1>4 DEF Locate, ScreenInv, ScreenTypeOK, FlagsInv, ButtonInv
<1>5. ASSUME NEW p \in Place, Walk(p) PROVE ScreenInv'
  BY <1>1, <1>5 DEF Walk, ScreenInv, ScreenTypeOK, FlagsInv, ButtonInv
<1>6. ASSUME NEW t \in Trashcan, OpenDetails(t) PROVE ScreenInv'
  <2>1. /\ panel' = t /\ button' = ButtonFor(t)
        /\ UNCHANGED << app, located, place, cached, throwing, throwsOf, spent >>
    BY <1>6 DEF OpenDetails
  <2>2. /\ ButtonFor(t) \in {"closer", "already", "throw"}
        /\ ButtonFor(t) = "throw" => t \notin throwing
    BY DEF ButtonFor
  <2>3. QED
    BY <1>1, <2>1, <2>2 DEF ScreenInv, ScreenTypeOK, FlagsInv, ButtonInv
<1>7. CASE HidePanel
  BY <1>1, <1>7 DEF HidePanel, ScreenInv, ScreenTypeOK, FlagsInv, ButtonInv
<1>8. CASE ClickThrow
  <2>1. CASE Zone[cached][panel] = "near"
    <3>1. /\ button' = "already" /\ throwing' = throwing \cup {panel}
          /\ throwsOf' = [throwsOf EXCEPT ![panel] = @ + 1]
          /\ panel # NoTrashcan /\ button = "throw"
          /\ UNCHANGED << app, located, place, cached, panel, spent >>
      BY <1>8, <2>1 DEF ClickThrow, CanThrow, Spend
    <3>2. panel \in Trashcan /\ panel \notin throwing
      BY <1>1, <3>1 DEF ScreenInv, ScreenTypeOK, ButtonInv
    <3>3. ScreenTypeOK'
      BY <1>1, <3>1, <3>2 DEF ScreenInv, ScreenTypeOK
    <3>4. FlagsInv' /\ ButtonInv'
      BY <1>1, <3>1, <3>2 DEF ScreenInv, ScreenTypeOK, FlagsInv, ButtonInv
    <3>5. QED
      BY <3>3, <3>4 DEF ScreenInv
  <2>2. CASE Zone[cached][panel] # "near"
    <3>1. UNCHANGED << app, located, place, cached, panel, button, throwing, throwsOf, spent >>
      BY <1>8, <2>2 DEF ClickThrow
    <3>2. QED
      BY <1>1, <3>1 DEF ScreenInv, ScreenTypeOK, FlagsInv, ButtonInv
  <2>3. QED
    BY <2>1, <2>2
<1>9. CASE RatingStep
  BY <1>2, <1>9 DEF RatingStep
<1>10. CASE Close
  BY <1>1, <1>10, QuitKeeps DEF Close
<1>11. CASE TrapOnDetails
  BY <1>1, <1>11, QuitKeeps DEF TrapOnDetails
<1>12. QED
  BY <1>1, <1>2, <1>3, <1>4, <1>5, <1>6, <1>7, <1>8, <1>9, <1>10, <1>11 DEF AppNext, appVars

\* Every step of the app is one of the rating protocol or leaves it alone.
LEMMA AppIsRating == [AppNext]_appVars => [Next]_vars
<1>1. SUFFICES ASSUME [AppNext]_appVars, vars' # vars PROVE Next
  OBVIOUS
<1>2. Phone \in Device
  BY ScreenAssumption
<1>3. CASE ClickThrow
  BY <1>1, <1>2, <1>3 DEF ClickThrow, Next
<1>4. CASE RatingStep
  BY <1>2, <1>4 DEF RatingStep, Next
<1>5. CASE Quit
  BY <1>2, <1>5 DEF Quit, Next
<1>6. CASE ViewDidLoad \/ Locate \/ HidePanel
  BY <1>1, <1>6 DEF ViewDidLoad, Locate, HidePanel
<1>7. ASSUME NEW p \in Place, Walk(p) PROVE Next
  BY <1>1, <1>7 DEF Walk
<1>8. ASSUME NEW t \in Trashcan, OpenDetails(t) PROVE Next
  BY <1>1, <1>8 DEF OpenDetails
<1>9. appVars' # appVars
  BY <1>1 DEF appVars
<1>10. QED
  BY <1>1, <1>3, <1>4, <1>5, <1>6, <1>7, <1>8, <1>9 DEF AppNext, Close, TrapOnDetails

\* So it keeps what EcoRatingProofs shows.
LEMMA AppKeepsRating == OwnIInv /\ [AppNext]_appVars => OwnIInv'
BY AppIsRating, NextOwn

-----------------------------------------------------------------------------
(* Every spent marker is a throw, and every throw spent a marker.          *)

SpentInv == IsFiniteSet(Thrown) /\ Cardinality(Thrown) = MarkersSpent

AppInv == ScreenInv /\ OwnIInv /\ SpentInv

LEMMA TypesOfRating == OwnIInv => TypeOK
BY DEF OwnIInv, LossIInv, IInv

LEMMA KeptIsSame ==
  ASSUME TypeOK, TypeOK',
         \A d \in Device, n \in Throw : stage'[d][n] # "none" <=> stage[d][n] # "none"
  PROVE  Thrown' = Thrown
<1>1. Thrown' = {dn \in Device \X Throw : stage'[dn[1]][dn[2]] # "none"}
  BY ThrownIsNext DEF RoundByRound, Throw
<1>2. QED
  BY <1>1, ThrownIs DEF RoundByRound

\* What is not a throw leaves the throws as they are.
LEMMA SameThrows ==
  ASSUME TypeOK, TypeOK', RatingStep \/ Quit \/ UNCHANGED vars
  PROVE  Thrown' = Thrown
<1> DEFINE Kept == \A d \in Device, n \in Throw :
                     stage'[d][n] # "none" <=> stage[d][n] # "none"
<1>1. Phone \in Device
  BY ScreenAssumption
<1>2. ASSUME NEW n \in Throw, NEW s, s # "none", stage[Phone][n] # "none", Goes(Phone, n, s)
      PROVE  Kept
  BY <1>1, <1>2 DEF Goes
<1>3. ASSUME NEW seen, Cloud!Reply(Phone, seen) PROVE Kept
  <2>1. PICK replied \in SUBSET Throw :
          /\ \A n \in replied : stage[Phone][n] = "asked"
          /\ \A e \in Device, m \in Throw :
               stage'[e][m] = IF e = Phone /\ m \in replied THEN "answered" ELSE stage[e][m]
    BY <1>1, <1>3, ReplyShape
  <2>2. QED
    BY <2>1
<1>4. ASSUME NEW lost \in SUBSET {"asked", "answered", "called"}, Cloud!Unlearn(Phone, lost)
      PROVE  Kept
  BY <1>1, <1>4, UnlearnShape
<1>5. CASE Answer(Phone) \/ AnswerFromCache(Phone) \/ AnswerWithError(Phone)
  BY <1>3, <1>5, KeptIsSame DEF Answer, Cloud!Answer, AnswerFromCache,
     Cloud!AnswerFromCache, AnswerWithError, Cloud!AnswerWithError
<1>6. CASE HandleAnswer(Phone)
  <2>1. PICK n \in Throw :
          /\ stage[Phone][n] = "answered"
          /\ Goes(Phone, n, IF value[Phone][n] = NoRating THEN "failed" ELSE "called")
    BY <1>1, <1>6, HandleShape
  <2>2. QED
    BY <1>2, <2>1, KeptIsSame
<1>7. CASE Save(Phone)
  <2>1. PICK n \in Throw : stage[Phone][n] = "called" /\ Goes(Phone, n, "saved")
    BY <1>1, <1>7, SaveShape
  <2>2. QED
    BY <1>2, <2>1, KeptIsSame
<1>8. CASE ApplyWrite(Phone)
  <2>1. PICK n \in Throw : stage[Phone][n] = "saved" /\ Goes(Phone, n, "applied")
    BY <1>1, <1>8, ApplyShape
  <2>2. QED
    BY <1>2, <2>1, KeptIsSame
<1>9. CASE Acknowledge(Phone)
  <2>1. PICK n \in Throw : stage[Phone][n] = "applied" /\ Goes(Phone, n, "done")
    BY <1>1, <1>9, AcknowledgeShape
  <2>2. QED
    BY <1>2, <2>1, KeptIsSame
<1>10. CASE Resend(Phone) \/ Quit
  BY <1>4, <1>10, KeptIsSame DEF Resend, Cloud!Resend, Quit, Kill, Cloud!Kill
<1>11. CASE UNCHANGED vars
  BY <1>11, KeptIsSame DEF vars, document
<1>12. QED
  BY <1>5, <1>6, <1>7, <1>8, <1>9, <1>10, <1>11 DEF RatingStep

LEMMA InitSpent == AppInit => SpentInv
<1> SUFFICES ASSUME AppInit PROVE SpentInv
  OBVIOUS
<1>1. TypeOK /\ \A d \in Device, n \in Throw : stage[d][n] = "none"
  BY InitOwn, TypesOfRating DEF AppInit, Init, Cloud!Begin, Cloud!Round, Throw
<1>2. Thrown = {} /\ throwing = {} /\ spent = 0
  BY <1>1, ThrownIs DEF RoundByRound, AppInit
<1>3. QED
  BY <1>2, FS_EmptySet DEF SpentInv, MarkersSpent

LEMMA NextSpent == AppInv /\ [AppNext]_appVars => SpentInv'
<1> SUFFICES ASSUME AppInv, [AppNext]_appVars PROVE SpentInv'
  OBVIOUS
<1>1. ScreenTypeOK /\ ButtonInv /\ SpentInv /\ TypeOK /\ TypeOK'
  <2>1. OwnIInv'
    BY AppKeepsRating DEF AppInv
  <2>2. TypeOK'
    BY <2>1 DEF OwnIInv, LossIInv, IInv
  <2>3. QED
    BY <2>2, TypesOfRating DEF AppInv, ScreenInv
<1>2. /\ IsFiniteSet(throwing) /\ Cardinality(throwing) \in Nat /\ spent \in Nat
      /\ IsFiniteSet(Thrown) /\ Cardinality(Thrown) = spent + Cardinality(throwing)
  BY <1>1, FlagsFinite DEF ScreenTypeOK, SpentInv, MarkersSpent
<1>3. ASSUME Thrown' = Thrown, UNCHANGED << throwing, spent >> PROVE SpentInv'
  BY <1>2, <1>3 DEF SpentInv, MarkersSpent
<1>4. ASSUME UNCHANGED << throwing, spent >>, UNCHANGED vars PROVE SpentInv'
  BY <1>1, <1>3, <1>4, SameThrows
<1>5. CASE ClickThrow
  <2>1. CASE Zone[cached][panel] = "near"
    <3>1. /\ panel # NoTrashcan /\ button = "throw" /\ Ask(Phone)
          /\ throwing' = throwing \cup {panel} /\ spent' = spent
      BY <1>5, <2>1 DEF ClickThrow, CanThrow, Spend
    <3>2. Cardinality(throwing') = Cardinality(throwing) + 1
      BY <1>1, <1>2, <3>1, FS_AddElement DEF ButtonInv
    <3>3. PICK n \in Throw : stage[Phone][n] = "none" /\ Goes(Phone, n, "asked")
      BY <1>1, <3>1, AskShape, ScreenAssumption
    <3>4. IsFiniteSet(Thrown') /\ Cardinality(Thrown') = Cardinality(Thrown) + 1
      BY <1>1, <1>2, <3>3, OneMoreThrown, ScreenAssumption
    <3>5. QED
      BY <1>2, <3>1, <3>2, <3>4 DEF SpentInv, MarkersSpent
  <2>2. CASE Zone[cached][panel] # "near"
    BY <1>4, <1>5, <2>2 DEF ClickThrow
  <2>3. QED
    BY <2>1, <2>2
<1>6. CASE RatingStep
  BY <1>1, <1>3, <1>6, SameThrows DEF RatingStep, screen
<1>7. CASE Quit
  <2>1. Thrown' = Thrown /\ throwing' = {} /\ spent' = spent + Cardinality(throwing)
    BY <1>1, <1>7, SameThrows DEF Quit
  <2>2. QED
    BY <1>2, <2>1, FS_EmptySet DEF SpentInv, MarkersSpent
<1>8. CASE UNCHANGED appVars
  BY <1>4, <1>8 DEF appVars, screen
<1>9. CASE ViewDidLoad \/ Locate \/ HidePanel
  BY <1>4, <1>9 DEF ViewDidLoad, Locate, HidePanel
<1>10. ASSUME NEW p \in Place, Walk(p) PROVE SpentInv'
  BY <1>4, <1>10 DEF Walk
<1>11. ASSUME NEW t \in Trashcan, OpenDetails(t) PROVE SpentInv'
  BY <1>4, <1>11 DEF OpenDetails
<1>12. QED
  BY <1>5, <1>6, <1>7, <1>8, <1>9, <1>10, <1>11 DEF AppNext, Close, TrapOnDetails

LEMMA InitApp == AppInit => AppInv
BY InitScreen, InitOwn, InitSpent DEF AppInit, AppInv

LEMMA NextApp == AppInv /\ [AppNext]_appVars => AppInv'
BY NextScreen, AppKeepsRating, NextSpent DEF AppInv

-----------------------------------------------------------------------------
\* The strengthened invariant holds in every reachable state.
THEOREM AppInvariant == AppSpec => []AppInv
<1>1. QED
  BY InitApp, NextApp, PTL DEF AppSpec

\* The variables of the screen keep their types.
THEOREM ScreenTypeCorrect == AppSpec => []ScreenTypeOK
<1>1. AppInv => ScreenTypeOK
  BY DEF AppInv, ScreenInv
<1>2. QED
  BY <1>1, AppInvariant, PTL

\* However many markers share the panel and however often it is opened, no
\* marker is thrown at twice while the process lives.
THEOREM MarkersAreSpent == AppSpec => []OneThrowPerMarker
<1>1. AppInv => OneThrowPerMarker
  BY DEF AppInv, ScreenInv, FlagsInv, OneThrowPerMarker
<1>2. QED
  BY <1>1, AppInvariant, PTL

\* The screen drives the rating as EcoRating allows.
LEMMA AppRating == AppSpec => Spec
<1>1. AppInit => Init
  BY DEF AppInit
<1>2. QED
  BY <1>1, AppIsRating, PTL DEF AppSpec, Spec

\* No rating exceeds the markers that were spent for it, through panels opened
\* again, answers in any order, writes sent again and processes that end.
THEOREM PointsAreOfSpentMarkers == AppSpec => []PointsOfSpentMarkers
<1>1. AppInv /\ RatingEarned => PointsOfSpentMarkers
  <2> SUFFICES ASSUME AppInv, RatingEarned PROVE rating <= MarkersSpent
    BY DEF PointsOfSpentMarkers
  <2>1. TypeOK /\ IsFiniteSet(Thrown) /\ Cardinality(Thrown) = MarkersSpent
    BY TypesOfRating DEF AppInv, SpentInv
  <2>2. Credited \subseteq Thrown
    BY DEF Credited, Thrown, Throws, Cloud!Stage
  <2>3. /\ Cardinality(Credited) <= Cardinality(Thrown)
        /\ Cardinality(Credited) \in Nat /\ Cardinality(Thrown) \in Nat
    BY <2>1, <2>2, FS_Subset, FS_CardinalityType
  <2>4. rating \in Nat
    BY <2>1, RatingIs
  <2>5. QED
    BY <2>1, <2>3, <2>4 DEF RatingEarned
<1>2. QED
  BY <1>1, AppInvariant, AppRating, PointsAreEarned, PTL

\* Every marker spent is worth its point, but for the losses of one device.
THEOREM MarkersPay == AppSpec => []SpentMarkersPay
<1>1. AppInv /\ LossOnlyInHurry => SpentMarkersPay
  <2> SUFFICES ASSUME AppInv, LossOnlyInHurry,
                      Cloud!In(Phone, {"asked", "answered", "called"}) = {}
               PROVE  MarkersSpent - Cloud!View(Phone, Len(cloud)) <=
                        hurried + Cardinality(Failed)
    BY DEF SpentMarkersPay
  <2>1. Phone \in Device /\ \A d \in Device : d = Phone
    BY ScreenAssumption
  <2>2. OnlyOn(Phone)
    BY <2>1, OnlyOnIs, TypesOfRating DEF AppInv
  <2>3. QED
    BY <2>1, <2>2 DEF LossOnlyInHurry, AppInv, SpentInv
<1>2. QED
  BY <1>1, AppInvariant, AppRating, LossOnlyInAHurry, PTL
=============================================================================

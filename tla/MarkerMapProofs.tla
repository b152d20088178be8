-------------------------- MODULE MarkerMapProofs --------------------------
(***************************************************************************)
(* Proofs about MarkerMap for any number of markers, changes and places.   *)
(* The array of markers only grows at its end, and the annotations of the  *)
(* map are those of a stretch at its beginning.  The first match of a      *)
(* place among an annotation's coordinates is therefore found in that      *)
(* stretch, whatever snapshots have appended since.                        *)
(***************************************************************************)
EXTENDS MarkerMap, FiniteSetTheorems, SequenceTheorems, WellFoundedInduction, TLAPS

USE ConstantsAssumption

Marker == [id : Nat, at : Place, address : Address, holds : SUBSET Container]

\* The annotations are the markers that had arrived at some moment.
Taken == \E n \in 0..Len(allMarkers) : general = {allMarkers[i] : i \in 1..n}

TypesInv ==
  /\ cloud \in [Key -> Content \cup {NoMarker}]
  /\ allMarkers \in Seq(Marker)

MapInv ==
  /\ Taken
  /\ shown \subseteq general
  /\ panel \in general \cup {NoMarker}
  /\ ~loaded => general = {} /\ ~searching /\ wanted = Everything

IInv == TypesInv /\ MapInv /\ LabelsOfThePlace /\ LabelsOfTheMarker /\ FilterForgets

-----------------------------------------------------------------------------
(* Sets of numbers.                                                        *)

LEMMA HasLeast ==
  ASSUME NEW S \in SUBSET Nat, S # {}
  PROVE  Min(S) \in S /\ \A m \in S : Min(S) <= m
<1> DEFINE R == OpToRel(<, Nat)
<1>1. PICK x \in S : \A y \in S : ~(<< y, x >> \in R)
  BY NatLessThanWellFounded, WFMin
<1>2. \A y \in S : y < x => << y, x >> \in R
  BY DEF OpToRel
<1>3. \A y \in S : x \in Nat /\ y \in Nat /\ ~(y < x)
  BY <1>1, <1>2
<1>4. \A y \in S : x <= y
  BY <1>3
<1>5. QED
  BY <1>4 DEF Min

LEMMA FiniteInterval ==
  ASSUME NEW N \in Nat, NEW S \in SUBSET (1..N)
  PROVE  IsFiniteSet(S) /\ Cardinality(S) \in Nat
<1>1. 1 \in Int /\ N \in Int
  OBVIOUS
<1>2. IsFiniteSet(1..N)
  BY <1>1, FS_Interval
<1>3. S \subseteq 1..N
  OBVIOUS
<1>4. IsFiniteSet(S)
  BY <1>2, <1>3, FS_Subset
<1>5. QED
  BY <1>4, FS_CardinalityType

\* A finite set of numbers has an i-th element for every i up to its size.
LEMMA HasRank ==
  ASSUME NEW N \in Nat, NEW S \in SUBSET (1..N), NEW i \in 1..Cardinality(S)
  PROVE  \E k \in S : Cardinality({j \in S : j <= k}) = i
<1> DEFINE UpTo(k) == {j \in S : j <= k}
           T == {k \in 0..N : i <= Cardinality(UpTo(k))}
<1>1. IsFiniteSet(S) /\ Cardinality(S) \in Nat
  BY FiniteInterval
<1>2. \A k \in 0..N : IsFiniteSet(UpTo(k)) /\ Cardinality(UpTo(k)) \in Nat
  <2> SUFFICES ASSUME NEW k \in 0..N
               PROVE  IsFiniteSet(UpTo(k)) /\ Cardinality(UpTo(k)) \in Nat
    OBVIOUS
  <2>1. UpTo(k) \subseteq S
    OBVIOUS
  <2>2. QED
    BY <1>1, <2>1, FS_Subset, FS_CardinalityType
<1>3. Cardinality(UpTo(0)) = 0
  <2>1. UpTo(0) = {}
    OBVIOUS
  <2>2. QED
    BY <2>1, FS_EmptySet
<1>4. N \in T
  <2>1. UpTo(N) = S
    OBVIOUS
  <2>2. QED
    BY <1>1, <2>1
<1>5. Min(T) \in T /\ \A m \in T : Min(T) <= m
  <2>1. T \in SUBSET Nat /\ T # {}
    BY <1>4
  <2> HIDE DEF T
  <2>2. QED
    BY <2>1, HasLeast
<1> DEFINE k == Min(T)
<1>6. k \in 0..N /\ i <= Cardinality(UpTo(k))
  BY <1>5
<1>7. k # 0
  BY <1>3, <1>6
<1>8. k - 1 \in 0..N /\ ~(k - 1 \in T)
  <2>1. k \in Nat /\ k - 1 \in 0..N
    BY <1>6, <1>7
  <2>2. ~(k <= k - 1)
    BY <2>1
  <2>3. QED
    BY <1>5, <2>1, <2>2
<1>9. Cardinality(UpTo(k - 1)) < i
  <2>1. ~(i <= Cardinality(UpTo(k - 1)))
    BY <1>8
  <2> HIDE DEF UpTo, k, T
  <2>2. Cardinality(UpTo(k - 1)) \in Nat /\ i \in Nat
    BY <1>1, <1>2, <1>8
  <2>3. QED
    BY <2>1, <2>2
<1> HIDE DEF k, T
<1>10. CASE k \in S
  <2>0. \A j \in S : j <= k <=> j <= k - 1 \/ j = k
    BY <1>6
  <2>1. /\ UpTo(k) = UpTo(k - 1) \cup {k}
        /\ k \notin UpTo(k - 1)
    <3>1. UpTo(k) = UpTo(k - 1) \cup {k}
      BY <2>0, <1>10
    <3>2. k \in Nat /\ ~(k <= k - 1)
      BY <1>6
    <3>3. QED
      BY <3>1, <3>2
  <2>2. Cardinality(UpTo(k)) = Cardinality(UpTo(k - 1)) + 1
    <3> HIDE DEF UpTo
    <3>1. QED
      BY <1>2, <1>8, <2>1, FS_AddElement
  <2>3. Cardinality(UpTo(k)) = i
    <3> HIDE DEF UpTo
    <3>1. Cardinality(UpTo(k - 1)) \in Nat /\ i \in Nat
      BY <1>1, <1>2, <1>8
    <3>2. QED
      BY <1>6, <1>9, <2>2, <3>1
  <2>4. QED
    BY <1>10, <2>3
<1>11. CASE k \notin S
  <2>1. \A j \in S : j <= k <=> j <= k - 1
    BY <1>6, <1>11
  <2>2. UpTo(k) = UpTo(k - 1)
    BY <2>1
  <2> HIDE DEF UpTo
  <2>3. Cardinality(UpTo(k - 1)) \in Nat /\ i \in Nat
    BY <1>1, <1>2, <1>8
  <2>4. QED
    BY <1>6, <1>9, <2>2, <2>3
<1>12. QED
  BY <1>10, <1>11

-----------------------------------------------------------------------------
(* The feed.                                                               *)

LEMMA ObjectIsMarker ==
  ASSUME NEW c \in Content, NEW n \in Nat
  PROVE  Object(c, n) \in Marker
BY DEF Content, Object, Marker

\* The objects of a snapshot are markers.
LEMMA NewObjectsType ==
  ASSUME TypesInv, NEW used \in Nat
  PROVE  NewObjects(used) \in Seq(Marker)
<1> DEFINE n == Cardinality(Children)
<1>1. Children \in SUBSET (1..Markers)
  BY DEF Children, Key
<1>2. n \in Nat
  BY <1>1, FiniteInterval
<1>3. ASSUME NEW i \in 1..n PROVE Object(cloud[Child(i)], used + i) \in Marker
  <2>1. \E k \in Children : Cardinality({j \in Children : j <= k}) = i
    BY <1>1, HasRank
  <2>2. Child(i) \in Children
    BY <2>1 DEF Child
  <2>3. cloud[Child(i)] \in Content
    BY <2>2 DEF Children, TypesInv
  <2>4. used + i \in Nat
    BY <1>2
  <2>5. QED
    BY <2>3, <2>4, ObjectIsMarker
<1>4. NewObjects(used) \in [1..n -> Marker]
  BY <1>3 DEF NewObjects
<1> HIDE DEF n
<1>5. QED
  BY <1>2, <1>4, SeqDef

LEMMA MarkerIsSome == ASSUME NEW m \in Marker PROVE m # NoMarker
BY DEF Marker

\* Among annotations, the first match of a place is an annotation.
LEMMA FirstIsTaken ==
  ASSUME TypesInv, Taken, NEW m \in general
  PROVE  /\ AtPlace(allMarkers, m.at) \in general
         /\ AtPlace(allMarkers, m.at).at = m.at
         /\ AtPlace(allMarkers, m.at) # NoMarker
<1>1. Len(allMarkers) \in Nat /\ DOMAIN allMarkers = 1..Len(allMarkers)
  BY LenProperties DEF TypesInv
<1>2. PICK n \in 0..Len(allMarkers) : general = {allMarkers[i] : i \in 1..n}
  BY DEF Taken
<1>3. PICK k \in 1..n : m = allMarkers[k]
  BY <1>2
<1> DEFINE matches == {i \in DOMAIN allMarkers : allMarkers[i].at = m.at}
<1>4. k \in matches /\ matches \in SUBSET Nat
  BY <1>1, <1>2, <1>3
<1>5. Min(matches) \in matches /\ Min(matches) <= k
  <2> HIDE DEF matches
  <2>1. QED
    BY <1>4, HasLeast
<1>6. AtPlace(allMarkers, m.at) = allMarkers[Min(matches)]
  BY <1>4 DEF AtPlace
<1>7. Min(matches) \in 1..n /\ allMarkers[Min(matches)].at = m.at
  BY <1>1, <1>2, <1>5
<1>8. allMarkers[Min(matches)] \in Marker
  BY <1>1, <1>5, ElementOfSeq DEF TypesInv
<1>9. QED
  BY <1>2, <1>6, <1>7, <1>8, MarkerIsSome

-----------------------------------------------------------------------------
(* The actions.                                                            *)

LEMMA InvInit == Init => IInv
<1> SUFFICES ASSUME Init PROVE IInv
  OBVIOUS
<1>1. TypesInv
  BY EmptySeq DEF Init, TypesInv
<1>2. Taken
  <2>1. Len(allMarkers) = 0
    BY DEF Init
  <2>2. general = {allMarkers[i] : i \in 1..0}
    BY DEF Init
  <2>3. QED
    BY <2>1, <2>2 DEF Taken
<1>3. QED
  BY <1>1, <1>2 DEF Init, IInv, MapInv, LabelsOfThePlace, LabelsOfTheMarker, FilterForgets

\* The array grows at its end, where it disturbs nothing.
LEMMA InvSnapshot == ASSUME IInv, Snapshot PROVE IInv'
<1>1. /\ allMarkers' = allMarkers \o NewObjects(Len(allMarkers))
      /\ UNCHANGED << cloud, loaded, general, shown, wanted, searching, panel, labels >>
  BY DEF Snapshot, map, search
<1>2. allMarkers \in Seq(Marker) /\ Len(allMarkers) \in Nat
  BY LenProperties DEF IInv, TypesInv
<1>3. NewObjects(Len(allMarkers)) \in Seq(Marker)
  BY <1>2, NewObjectsType DEF IInv
<1>4. /\ allMarkers' \in Seq(Marker)
      /\ Len(allMarkers') \in Nat /\ Len(allMarkers) <= Len(allMarkers')
      /\ \A i \in 1..Len(allMarkers) : allMarkers'[i] = allMarkers[i]
  BY <1>1, <1>2, <1>3, ConcatProperties, LenProperties
<1>5. TypesInv'
  BY <1>1, <1>4 DEF IInv, TypesInv
<1>6. Taken'
  <2>1. PICK n \in 0..Len(allMarkers) : general = {allMarkers[i] : i \in 1..n}
    BY DEF IInv, MapInv, Taken
  <2>2. n \in 0..Len(allMarkers') /\ 1..n \subseteq 1..Len(allMarkers)
    BY <1>2, <1>4, <2>1
  <2>3. \A i \in 1..n : allMarkers'[i] = allMarkers[i]
    BY <1>4, <2>2
  <2>4. general' = {allMarkers'[i] : i \in 1..n}
    BY <1>1, <2>1, <2>3
  <2>5. QED
    BY <2>2, <2>4 DEF Taken
<1>7. MapInv'
  BY <1>1, <1>6 DEF IInv, MapInv
<1>8. QED
  BY <1>1, <1>5, <1>7 DEF IInv, LabelsOfThePlace, LabelsOfTheMarker, FilterForgets

LEMMA InvViewDidLoad == ASSUME IInv, ViewDidLoad PROVE IInv'
<1>1. /\ ~loaded /\ loaded' = TRUE /\ general' = ToSet(allMarkers) /\ shown' = general'
      /\ UNCHANGED << cloud, allMarkers, wanted, searching, panel, labels >>
  BY DEF ViewDidLoad, feed, search
<1>2. panel = NoMarker /\ wanted = Everything
  BY <1>1 DEF IInv, MapInv
<1>3. /\ Len(allMarkers) \in Nat /\ DOMAIN allMarkers = 1..Len(allMarkers)
      /\ \A i \in 1..Len(allMarkers) : allMarkers[i] \in Marker
  BY LenProperties, ElementOfSeq DEF IInv, TypesInv
<1>4. Taken'
  BY <1>1, <1>3 DEF Taken, ToSet
<1>5. \A m \in general' : m.holds \in SUBSET Container /\ m.at \in Place
  BY <1>1, <1>3 DEF ToSet, Marker
<1>6. FilterForgets'
  BY <1>1, <1>2, <1>5 DEF FilterForgets, Everything
<1>7. QED
  BY <1>1, <1>2, <1>4, <1>6 DEF IInv, TypesInv, MapInv, LabelsOfThePlace, LabelsOfTheMarker

LEMMA InvFilter ==
  ASSUME IInv, NEW filter, DidUnwindFromFilterVC(filter)
  PROVE  IInv'
<1>1. /\ searching /\ searching' = FALSE /\ wanted' = filter
      /\ shown' = (shown \ general) \cup {m \in general : Passes(m, filter)}
      /\ UNCHANGED << cloud, allMarkers, loaded, general, panel, labels >>
  BY DEF DidUnwindFromFilterVC, feed
<1>2. loaded /\ shown \subseteq general
  BY <1>1 DEF IInv, MapInv
<1>3. FilterForgets'
  BY <1>1, <1>2 DEF FilterForgets, Passes
<1>4. QED
  BY <1>1, <1>2, <1>3 DEF IInv, TypesInv, MapInv, Taken, LabelsOfThePlace, LabelsOfTheMarker

LEMMA InvOpenDetails ==
  ASSUME IInv, NEW m, OpenDetails(m)
  PROVE  IInv'
<1>1. /\ m \in shown /\ panel' = m /\ searching' = FALSE
      /\ UNCHANGED << cloud, allMarkers, loaded, general, shown, wanted >>
  BY DEF OpenDetails, feed, map
<1>2. m \in general
  BY <1>1 DEF IInv, MapInv
<1>3. /\ AtPlace(allMarkers, m.at) \in general
      /\ AtPlace(allMarkers, m.at).at = m.at
      /\ AtPlace(allMarkers, m.at) # NoMarker
  BY <1>2, FirstIsTaken DEF IInv, MapInv
<1>4. labels' = AtPlace(allMarkers, m.at)
  BY <1>3 DEF OpenDetails
<1>5. LabelsOfThePlace'
  BY <1>1, <1>3, <1>4 DEF LabelsOfThePlace
<1>6. LabelsOfTheMarker'
  BY <1>1, <1>2, <1>3, <1>4 DEF LabelsOfTheMarker
<1>7. TypesInv' /\ Taken' /\ FilterForgets'
  BY <1>1 DEF IInv, TypesInv, MapInv, Taken, FilterForgets
<1>8. MapInv'
  BY <1>1, <1>2, <1>7 DEF IInv, MapInv
<1>9. QED
  BY <1>5, <1>6, <1>7, <1>8 DEF IInv

\* The rest of the actions hide the panel or leave it, and none touches the map.
LEMMA InvKept ==
  ASSUME IInv, UNCHANGED << allMarkers, map, labels >>,
         cloud' \in [Key -> Content \cup {NoMarker}],
         panel' \in {panel, NoMarker},
         ~loaded => ~searching'
  PROVE  IInv'
<1>1. UNCHANGED << allMarkers, loaded, general, shown, wanted, labels >>
  BY DEF map
<1>2. TypesInv' /\ Taken' /\ FilterForgets'
  BY <1>1 DEF IInv, TypesInv, MapInv, Taken, FilterForgets
<1>3. MapInv'
  BY <1>1, <1>2 DEF IInv, MapInv
<1>4. LabelsOfThePlace'
  BY <1>1 DEF IInv, LabelsOfThePlace
<1>5. LabelsOfTheMarker'
  BY <1>1 DEF IInv, LabelsOfTheMarker
<1>6. QED
  BY <1>2, <1>3, <1>4, <1>5 DEF IInv

LEMMA InvStep == ASSUME IInv, [Next]_vars PROVE IInv'
<1>1. ASSUME NEW k \in Key, NEW content \in Content \cup {NoMarker}, Change(k, content)
      PROVE  IInv'
  <2>1. cloud' \in [Key -> Content \cup {NoMarker}]
    BY <1>1 DEF Change, IInv, TypesInv
  <2>2. UNCHANGED << allMarkers, map, labels, panel, searching >>
    BY <1>1 DEF Change, search
  <2>3. QED
    BY <2>1, <2>2, InvKept DEF IInv, MapInv
<1>2. CASE Snapshot
  BY <1>2, InvSnapshot
<1>3. CASE ViewDidLoad
  BY <1>3, InvViewDidLoad
<1>4. ASSUME NEW filter \in Filters, DidUnwindFromFilterVC(filter) PROVE IInv'
  BY <1>4, InvFilter
<1>5. ASSUME NEW m \in shown, OpenDetails(m) PROVE IInv'
  BY <1>5, InvOpenDetails
<1>6. CASE ClickBtnFavourite
  BY <1>6, InvKept DEF ClickBtnFavourite, feed, search, IInv, TypesInv, MapInv
<1>7. CASE DidDeselect
  BY <1>7, InvKept DEF DidDeselect, feed, IInv, TypesInv, MapInv
<1>8. CASE ClickBtnSearchAndFilter
  BY <1>8, InvKept DEF ClickBtnSearchAndFilter, feed, IInv, TypesInv, MapInv
<1>9. ASSUME NEW i \in DOMAIN categories, SelectCategory(i) \/ SelectFiltered(i) PROVE IInv'
  BY <1>9, InvKept DEF SelectCategory, SelectFiltered, feed, IInv, TypesInv, MapInv
<1>10. CASE DidUnwindFromDetailVC
  BY <1>10, InvKept DEF DidUnwindFromDetailVC, feed, IInv, TypesInv, MapInv
<1>11. CASE UNCHANGED vars
  BY <1>11, InvKept DEF vars, feed, search, IInv, TypesInv, MapInv
<1>12. QED
  BY <1>1, <1>2, <1>3, <1>4, <1>5, <1>6, <1>7, <1>8, <1>9, <1>10, <1>11 DEF Next

LEMMA Invariant == Spec => []IInv
BY InvInit, InvStep, PTL DEF Spec

\* The panel always shows the address and containers of a marker at the place
\* of the annotation that was tapped.
THEOREM PanelOfThePlace == Spec => []LabelsOfThePlace
<1>1. IInv => LabelsOfThePlace
  BY DEF IInv
<1>2. QED
  BY <1>1, Invariant, PTL

\* It shows those of the very marker, if that place is its own on the map.
THEOREM PanelOfTheMarker == Spec => []LabelsOfTheMarker
<1>1. IInv => LabelsOfTheMarker
  BY DEF IInv
<1>2. QED
  BY <1>1, Invariant, PTL

\* What a filter shows does not depend on the filters before it.
THEOREM FiltersForget == Spec => []FilterForgets
<1>1. IInv => FilterForgets
  BY DEF IInv
<1>2. QED
  BY <1>1, Invariant, PTL
=============================================================================

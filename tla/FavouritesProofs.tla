-------------------------- MODULE FavouritesProofs --------------------------
(***************************************************************************)
(* Proofs about Favourites, for every set of markers, every placement of   *)
(* them and every number of interrupted clicks.                            *)
(***************************************************************************)
EXTENDS Favourites, SequenceTheorems, FiniteSetTheorems, TLAPS

\* The eight keys by name.
LEMMA Keys ==
  Key = {"address", "title", "latitude", "longitude",
         "glass", "metall", "paper", "plastic"}
BY DEF Key, SaveOrder, ToSet

\* The keys are saved one each.
LEMMA SaveOrderInjective ==
  /\ DOMAIN SaveOrder = 1..8
  /\ Len(SaveOrder) = 8
  /\ \A i \in 1..8 : SaveOrder[i] \in Key
  /\ \A i, j \in 1..8 : SaveOrder[i] = SaveOrder[j] => i = j
  /\ SaveOrder[3] = "latitude" /\ SaveOrder[4] = "longitude"
BY Keys DEF SaveOrder

\* Appending adds one entry at the end and keeps the others in place.
LEMMA Appended ==
  ASSUME NEW S, NEW s \in Seq(S), NEW e \in S
  PROVE  /\ Append(s, e) \in Seq(S)
         /\ Len(Append(s, e)) = Len(s) + 1
         /\ DOMAIN Append(s, e) = 1 .. Len(s) + 1
         /\ \A i \in 1 .. Len(s) : Append(s, e)[i] = s[i]
         /\ Append(s, e)[Len(s) + 1] = e
         /\ ToSet(Append(s, e)) = ToSet(s) \cup {e}
         /\ IsPrefix(s, Append(s, e))
<1>1. /\ Append(s, e) \in Seq(S)
      /\ Len(Append(s, e)) = Len(s) + 1
      /\ DOMAIN Append(s, e) = 1 .. Len(s) + 1
      /\ \A i \in 1 .. Len(s) : Append(s, e)[i] = s[i]
      /\ Append(s, e)[Len(s) + 1] = e
  BY AppendProperties
<1>2. DOMAIN s = 1 .. Len(s) /\ Len(s) \in Nat
  OBVIOUS
<1>3. ToSet(Append(s, e)) = ToSet(s) \cup {e}
  BY <1>1, <1>2 DEF ToSet
<1>4. IsPrefix(s, Append(s, e))
  BY <1>1, <1>2 DEF IsPrefix
<1>5. QED
  BY <1>1, <1>3, <1>4

\* Appending an entry with a fresh coordinate keeps the coordinates distinct.
LEMMA AppendedDistinct ==
  ASSUME NEW S, NEW s \in Seq(S), NEW e \in S, NEW coordinate,
         \A i, j \in DOMAIN s : coordinate[s[i]] = coordinate[s[j]] => i = j,
         \A t \in ToSet(s) : coordinate[t] # coordinate[e]
  PROVE  \A i, j \in DOMAIN Append(s, e) :
           coordinate[Append(s, e)[i]] = coordinate[Append(s, e)[j]] => i = j
<1> DEFINE a == Append(s, e)
<1>1. /\ DOMAIN a = 1 .. Len(s) + 1
      /\ \A i \in 1 .. Len(s) : a[i] = s[i]
      /\ a[Len(s) + 1] = e
  BY Appended
<1>2. DOMAIN s = 1 .. Len(s) /\ Len(s) \in Nat
  OBVIOUS
<1>3. \A i \in 1 .. Len(s) : coordinate[a[i]] # coordinate[e]
  BY <1>1, <1>2 DEF ToSet
<1> HIDE DEF a
<1>4. SUFFICES ASSUME NEW i \in DOMAIN a, NEW j \in DOMAIN a,
                      coordinate[a[i]] = coordinate[a[j]]
               PROVE  i = j
  BY DEF a
<1>5. CASE i \in 1 .. Len(s) /\ j \in 1 .. Len(s)
  BY <1>1, <1>2, <1>4, <1>5
<1>6. CASE i = Len(s) + 1 \/ j = Len(s) + 1
  BY <1>1, <1>2, <1>3, <1>4, <1>6
<1>7. QED
  BY <1>1, <1>2, <1>5, <1>6

-----------------------------------------------------------------------------
\* What every reachable state satisfies, strong enough to be inductive: while
\* the process runs, its arrays are those on disk; an offered trashcan is new; a
\* saved longitude has its latitude saved, which rests on the order of the saves;
\* and only an interrupted click leaves a latitude without its longitude.
LongitudeHasLatitude == ToSet(disk["longitude"]) \subseteq ToSet(disk["latitude"])

HalfSaved == ToSet(disk["latitude"]) \ ToSet(disk["longitude"])

HalvesAreTorn == IsFiniteSet(HalfSaved) /\ Cardinality(HalfSaved) <= torn

IInv ==
  /\ TypeOK
  /\ running => memory = disk
  /\ ~running => panel = NoTrashcan
  /\ running /\ starEnabled /\ panel # NoTrashcan => IsNew(panel)
  /\ \A t \in added, k \in Key : t \in ToSet(disk[k])
  /\ UniqueCoordinates
  /\ LongitudeHasLatitude
  /\ SavedInStep
  /\ HalvesAreTorn

\* The keys among the first n saved.
SavedKeys(n) == { SaveOrder[i] : i \in 1..n }

\* A click on an offered trashcan appends it to every array, and the saves
\* before its end or the death of the process carry it to the saved keys.
LEMMA ClickAppends ==
  ASSUME IInv, CanClick, NEW n \in 1..8
  PROVE  /\ panel \in Trashcan
         /\ WithFavourite(panel) = [k \in Key |-> Append(disk[k], panel)]
         /\ AfterSaves(WithFavourite(panel), n) =
              [k \in Key |-> IF k \in SavedKeys(n) THEN Append(disk[k], panel)
                                                   ELSE disk[k]]
         /\ \A t \in ToSet(disk["latitude"]) : LatitudeOf[t] # LatitudeOf[panel]
         /\ \A t \in ToSet(disk["longitude"]) : LongitudeOf[t] # LongitudeOf[panel]
<1>1. panel \in Trashcan /\ memory = disk /\ IsNew(panel)
  BY DEF IInv, TypeOK, CanClick
<1>2. WithFavourite(panel) = [k \in Key |-> Append(disk[k], panel)]
  BY <1>1 DEF WithFavourite
<1>3. \A k \in Key : (\E i \in 1..n : SaveOrder[i] = k) <=> k \in SavedKeys(n)
  BY DEF SavedKeys
<1>4. AfterSaves(WithFavourite(panel), n) =
        [k \in Key |-> IF k \in SavedKeys(n) THEN Append(disk[k], panel)
                                             ELSE disk[k]]
  BY <1>2, <1>3 DEF AfterSaves
<1>5. /\ \A t \in ToSet(disk["latitude"]) : LatitudeOf[t] # LatitudeOf[panel]
      /\ \A t \in ToSet(disk["longitude"]) : LongitudeOf[t] # LongitudeOf[panel]
  BY <1>1 DEF IsNew, LatitudesContain, LongitudesContain
<1>6. QED
  BY <1>1, <1>2, <1>4, <1>5

\* The first n saves of a click keep everything that is said of the disk: the
\* facts that rest on the guard and on the order of the saves.
LEMMA SavesKeepDisk ==
  ASSUME IInv, CanClick, NEW n \in 1..8,
         disk' = AfterSaves(WithFavourite(panel), n)
  PROVE  /\ disk' \in [Key -> Seq(Trashcan)]
         /\ \A k \in Key : IsPrefix(disk[k], disk'[k])
         /\ \A k \in Key : ToSet(disk[k]) \subseteq ToSet(disk'[k])
         /\ UniqueCoordinates'
         /\ LongitudeHasLatitude'
<1> DEFINE longer(k) == Append(disk[k], panel)
<1>1. /\ panel \in Trashcan
      /\ disk' = [k \in Key |-> IF k \in SavedKeys(n) THEN longer(k) ELSE disk[k]]
      /\ \A t \in ToSet(disk["latitude"]) : LatitudeOf[t] # LatitudeOf[panel]
      /\ \A t \in ToSet(disk["longitude"]) : LongitudeOf[t] # LongitudeOf[panel]
  BY ClickAppends
<1>2. disk \in [Key -> Seq(Trashcan)]
  BY DEF IInv, TypeOK
<1>3. \A k \in Key : /\ longer(k) \in Seq(Trashcan)
                     /\ DOMAIN longer(k) = 1 .. Len(disk[k]) + 1
                     /\ \A i \in 1 .. Len(disk[k]) : longer(k)[i] = disk[k][i]
                     /\ longer(k)[Len(disk[k]) + 1] = panel
                     /\ ToSet(longer(k)) = ToSet(disk[k]) \cup {panel}
                     /\ IsPrefix(disk[k], longer(k))
  BY <1>1, <1>2, Appended
<1> HIDE DEF longer
<1>4. disk' \in [Key -> Seq(Trashcan)]
  BY <1>1, <1>2, <1>3
<1>5. \A k \in Key : IsPrefix(disk[k], disk[k])
  BY <1>2 DEF IsPrefix
<1>6. \A k \in Key : IsPrefix(disk[k], disk'[k])
  BY <1>1, <1>3, <1>5
<1>7. \A k \in Key : ToSet(disk[k]) \subseteq ToSet(disk'[k])
  BY <1>1, <1>3
<1>8. "latitude" \in Key /\ "longitude" \in Key
  BY Keys
<1>9. UniqueCoordinates'
  <2>1. \A i, j \in DOMAIN disk'["latitude"] :
         LatitudeOf[disk'["latitude"][i]] = LatitudeOf[disk'["latitude"][j]] => i = j
    <3>1. \A i, j \in DOMAIN longer("latitude") :
            LatitudeOf[longer("latitude")[i]] = LatitudeOf[longer("latitude")[j]] => i = j
      BY <1>1, <1>2, <1>8, AppendedDistinct DEF IInv, UniqueCoordinates, longer
    <3>2. QED
      BY <1>1, <1>8, <3>1 DEF IInv, UniqueCoordinates
  <2>2. \A i, j \in DOMAIN disk'["longitude"] :
         LongitudeOf[disk'["longitude"][i]] = LongitudeOf[disk'["longitude"][j]] => i = j
    <3>1. \A i, j \in DOMAIN longer("longitude") :
            LongitudeOf[longer("longitude")[i]] = LongitudeOf[longer("longitude")[j]] => i = j
      BY <1>1, <1>2, <1>8, AppendedDistinct DEF IInv, UniqueCoordinates, longer
    <3>2. QED
      BY <1>1, <1>8, <3>1 DEF IInv, UniqueCoordinates
  <2>3. QED
    BY <2>1, <2>2 DEF UniqueCoordinates
<1>10. LongitudeHasLatitude'
  <2>1. "longitude" \in SavedKeys(n) => "latitude" \in SavedKeys(n)
    BY SaveOrderInjective DEF SavedKeys
  <2>2. ToSet(disk["longitude"]) \subseteq ToSet(disk["latitude"])
    BY DEF IInv, LongitudeHasLatitude
  <2>3. ToSet(disk'["longitude"]) \subseteq ToSet(disk'["latitude"])
    BY <1>1, <1>3, <1>8, <2>1, <2>2
  <2>4. QED
    BY <2>3 DEF LongitudeHasLatitude
<1>11. QED
  BY <1>4, <1>6, <1>7, <1>9, <1>10

\* What the lengths of two arrays differ by, after one more entry in the first
\* or in both.
LEMMA Difference ==
  ASSUME NEW x \in Nat, NEW y \in Nat, NEW t \in Nat, x - y \in 0..t
  PROVE  /\ x - y \in 0..(t + 1)
         /\ (x + 1) - y \in 0..(t + 1)
         /\ (x + 1) - (y + 1) \in 0..(t + 1)
OBVIOUS

\* An array saved earlier stays ahead of one saved later by the clicks cut
\* short, when this click is cut short after n < 8 saves or runs to its end.
LEMMA SavesKeepStep ==
  ASSUME IInv, CanClick, NEW n \in 1..8,
         disk' = AfterSaves(WithFavourite(panel), n),
         torn' = IF n = 8 THEN torn ELSE torn + 1
  PROVE  SavedInStep'
<1> DEFINE before == [k \in Key |-> Len(disk[k])]
           after  == [k \in Key |-> Len(disk'[k])]
<1>1. /\ panel \in Trashcan
      /\ disk' = [k \in Key |-> IF k \in SavedKeys(n) THEN Append(disk[k], panel)
                                                      ELSE disk[k]]
  BY ClickAppends
<1>2. disk \in [Key -> Seq(Trashcan)] /\ torn \in Nat
  BY DEF IInv, TypeOK
<1>3. \A k \in Key : before[k] \in Nat
  BY <1>2
<1>4. \A i \in 1..8 : after[SaveOrder[i]] = IF i <= n THEN before[SaveOrder[i]] + 1
                                                     ELSE before[SaveOrder[i]]
  <2>1. \A i \in 1..8 : SaveOrder[i] \in SavedKeys(n) <=> i <= n
    BY SaveOrderInjective DEF SavedKeys
  <2>2. \A k \in Key : Len(Append(disk[k], panel)) = Len(disk[k]) + 1
    BY <1>1, <1>2, Appended
  <2>3. QED
    BY <1>1, <2>1, <2>2, SaveOrderInjective
<1>5. \A i, j \in 1..8 : i < j =>
        before[SaveOrder[i]] - before[SaveOrder[j]] \in 0..torn
  BY SaveOrderInjective DEF IInv, SavedInStep
<1> HIDE DEF before, after
<1>6. \A i, j \in 1..8 : i < j =>
        after[SaveOrder[i]] - after[SaveOrder[j]] \in 0..torn'
  <2>1. SUFFICES ASSUME NEW i \in 1..8, NEW j \in 1..8, i < j
                 PROVE  after[SaveOrder[i]] - after[SaveOrder[j]] \in 0..torn'
    OBVIOUS
  <2>2. before[SaveOrder[i]] \in Nat /\ before[SaveOrder[j]] \in Nat
    BY <1>3, SaveOrderInjective
  <2>3. before[SaveOrder[i]] - before[SaveOrder[j]] \in 0..torn
    BY <1>5, <2>1
  <2>4. /\ after[SaveOrder[i]] = IF i <= n THEN before[SaveOrder[i]] + 1
                                           ELSE before[SaveOrder[i]]
        /\ after[SaveOrder[j]] = IF j <= n THEN before[SaveOrder[j]] + 1
                                           ELSE before[SaveOrder[j]]
    BY <1>4
  <2>5. CASE n = 8
    <3>1. i <= n /\ j <= n /\ torn' = torn
      BY <2>5
    <3>2. QED
      BY <2>2, <2>3, <2>4, <3>1
  <2>6. CASE n # 8
    <3>1. torn' = torn + 1
      BY <2>6
    <3>2. after[SaveOrder[i]] - after[SaveOrder[j]] \in 0..(torn + 1)
      <4> DEFINE x == before[SaveOrder[i]]
                 y == before[SaveOrder[j]]
      <4>1. j <= n => i <= n
        BY <1>2, <2>1
      <4>2. << after[SaveOrder[i]], after[SaveOrder[j]] >> \in
              {<< x, y >>, << x + 1, y >>, << x + 1, y + 1 >>}
        BY <2>4, <4>1
      <4>3. x \in Nat /\ y \in Nat /\ torn \in Nat /\ x - y \in 0..torn
        BY <1>2, <2>2, <2>3
      <4> HIDE DEF x, y
      <4>4. /\ x - y \in 0..(torn + 1)
            /\ (x + 1) - y \in 0..(torn + 1)
            /\ (x + 1) - (y + 1) \in 0..(torn + 1)
        BY <4>3, Difference
      <4>5. QED
        BY <4>2, <4>4
    <3>3. QED
      BY <3>1, <3>2
  <2>7. QED
    BY <2>5, <2>6
<1>7. QED
  BY <1>6, SaveOrderInjective DEF SavedInStep, after

\* A click cut short adds one half-saved trashcan at most, a whole one none.
LEMMA SavesKeepHalves ==
  ASSUME IInv, CanClick, NEW n \in 1..8,
         disk' = AfterSaves(WithFavourite(panel), n),
         torn' = IF n = 8 THEN torn ELSE torn + 1
  PROVE  HalvesAreTorn'
<1>1. /\ panel \in Trashcan
      /\ disk' = [k \in Key |-> IF k \in SavedKeys(n) THEN Append(disk[k], panel)
                                                      ELSE disk[k]]
  BY ClickAppends
<1>2. /\ disk \in [Key -> Seq(Trashcan)] /\ torn \in Nat
      /\ "latitude" \in Key /\ "longitude" \in Key
  BY Keys DEF IInv, TypeOK
<1>3. \A k \in Key : ToSet(Append(disk[k], panel)) = ToSet(disk[k]) \cup {panel}
  BY <1>1, <1>2, Appended
<1>4. HalfSaved' = ToSet(disk'["latitude"]) \ ToSet(disk'["longitude"])
  BY DEF HalfSaved
<1>5. IsFiniteSet(HalfSaved) /\ Cardinality(HalfSaved) <= torn
  BY DEF IInv, HalvesAreTorn
<1>6. Cardinality(HalfSaved) \in Nat
  BY <1>5, FS_CardinalityType
<1>7. CASE n = 8
  <2>1. "latitude" \in SavedKeys(n) /\ "longitude" \in SavedKeys(n)
    BY <1>7, SaveOrderInjective DEF SavedKeys
  <2>2. HalfSaved' \subseteq HalfSaved
    BY <1>1, <1>2, <1>3, <1>4, <2>1 DEF HalfSaved
  <2>3. IsFiniteSet(HalfSaved') /\ Cardinality(HalfSaved') <= Cardinality(HalfSaved)
    BY <1>5, <2>2, FS_Subset
  <2>4. Cardinality(HalfSaved') \in Nat
    BY <2>3, FS_CardinalityType
  <2>5. QED
    BY <1>2, <1>5, <1>6, <1>7, <2>3, <2>4 DEF HalvesAreTorn
<1>8. CASE n # 8
  <2> DEFINE more == HalfSaved \cup {panel}
  <2>1. HalfSaved' \subseteq more
    BY <1>1, <1>2, <1>3, <1>4 DEF HalfSaved
  <2>2. /\ IsFiniteSet(more)
        /\ Cardinality(more) = Cardinality(HalfSaved)
             \/ Cardinality(more) = Cardinality(HalfSaved) + 1
    BY <1>5, FS_AddElement
  <2> HIDE DEF more
  <2>3. IsFiniteSet(HalfSaved') /\ Cardinality(HalfSaved') <= Cardinality(more)
    BY <2>1, <2>2, FS_Subset
  <2>4. Cardinality(HalfSaved') \in Nat
    BY <2>3, FS_CardinalityType
  <2>5. Cardinality(HalfSaved') <= torn'
    BY <1>2, <1>5, <1>6, <1>8, <2>2, <2>3, <2>4
  <2>6. QED
    BY <2>3, <2>5 DEF HalvesAreTorn
<1>9. QED
  BY <1>7, <1>8

\* The arrays a process starts from, or leaves behind, are well-typed.
LEMMA NoArraysType == NoArrays \in [Key -> Seq(Trashcan)]
<1>1. << >> \in Seq(Trashcan)
  BY EmptySeq
<1>2. QED
  BY <1>1 DEF NoArrays

\* The initial arrays are empty, so nothing is violated yet.
LEMMA InitIInv == Init => IInv
<1> SUFFICES ASSUME Init PROVE IInv
  OBVIOUS
<1>1. \A k \in Key : disk[k] = << >> /\ memory[k] = << >>
  BY DEF Init, NoArrays
<1>2. TypeOK
  <2>1. MaxTorn \in Nat
    BY ConstantsAssumption
  <2>2. torn \in 0..MaxTorn
    BY <2>1 DEF Init
  <2>3. QED
    BY <2>2, NoArraysType DEF Init, TypeOK
<1>3. UniqueCoordinates /\ LongitudeHasLatitude
  BY <1>1, Keys DEF UniqueCoordinates, LongitudeHasLatitude
<1>4. SavedInStep
  BY <1>1, SaveOrderInjective DEF SavedInStep, Init
<1>5. HalvesAreTorn
  <2>1. HalfSaved = {} /\ torn = 0
    BY <1>1, Keys DEF HalfSaved, ToSet, Init
  <2>2. QED
    BY <2>1, FS_EmptySet DEF HalvesAreTorn
<1>6. QED
  BY <1>1, <1>2, <1>3, <1>4, <1>5 DEF IInv, Init

\* What is said of the disk alone survives a step that does not touch it.
LEMMA DiskUnchanged ==
  ASSUME IInv, UNCHANGED << disk, added, torn >>
  PROVE  /\ \A t \in added', k \in Key : t \in ToSet(disk'[k])
         /\ UniqueCoordinates'
         /\ LongitudeHasLatitude'
         /\ SavedInStep'
         /\ HalvesAreTorn'
BY DEF IInv, UniqueCoordinates, LongitudeHasLatitude, SavedInStep, HalvesAreTorn,
       HalfSaved

\* Every step keeps the invariant.
LEMMA NextIInv == IInv /\ [Next]_vars => IInv'
<1> SUFFICES ASSUME IInv, [Next]_vars PROVE IInv'
  OBVIOUS
<1>1. TypeOK /\ disk \in [Key -> Seq(Trashcan)]
  BY DEF IInv, TypeOK
<1>2. ASSUME NEW t \in Trashcan, OpenDetails(t) PROVE IInv'
  <2>1. TypeOK'
    BY <1>1, <1>2 DEF OpenDetails, TypeOK, OffersStar
  <2>2. running' /\ starEnabled' /\ panel' # NoTrashcan => IsNew(panel)'
    BY <1>2 DEF OpenDetails, OffersStar, IsNew, LatitudesContain, LongitudesContain
  <2>3. QED
    BY <1>2, <2>1, <2>2, DiskUnchanged DEF IInv, OpenDetails
<1>3. CASE HidePanel
  <2>1. TypeOK'
    BY <1>1, <1>3 DEF HidePanel, TypeOK
  <2>2. QED
    BY <1>3, <2>1, DiskUnchanged DEF IInv, HidePanel
<1>4. CASE ClickBtnFavourite
  <2>1. disk' = AfterSaves(WithFavourite(panel), 8) /\ CanClick /\ torn' = torn
    BY <1>4, SaveOrderInjective DEF ClickBtnFavourite
  <2>2. /\ panel \in Trashcan
        /\ memory' = [k \in Key |-> Append(disk[k], panel)]
        /\ disk' = memory'
    <3>1. \A k \in Key : k \in SavedKeys(8)
      BY DEF SavedKeys, Key, ToSet, SaveOrder
    <3>2. /\ panel \in Trashcan
          /\ WithFavourite(panel) = [k \in Key |-> Append(disk[k], panel)]
          /\ AfterSaves(WithFavourite(panel), 8) =
               [k \in Key |-> IF k \in SavedKeys(8) THEN Append(disk[k], panel)
                                                    ELSE disk[k]]
      BY <2>1, ClickAppends
    <3>3. [k \in Key |-> IF k \in SavedKeys(8) THEN Append(disk[k], panel)
                                               ELSE disk[k]]
            = [k \in Key |-> Append(disk[k], panel)]
      BY <3>1
    <3>4. QED
      BY <1>4, <2>1, <3>2, <3>3 DEF ClickBtnFavourite
  <2>3. /\ disk' \in [Key -> Seq(Trashcan)]
        /\ \A k \in Key : ToSet(disk[k]) \subseteq ToSet(disk'[k])
        /\ UniqueCoordinates'
        /\ LongitudeHasLatitude'
    <3>1. 8 \in 1..8
      OBVIOUS
    <3>2. QED
      BY <2>1, <3>1, SavesKeepDisk
  <2>4. TypeOK'
    BY <1>1, <1>4, <2>2, <2>3 DEF ClickBtnFavourite, TypeOK
  <2>5. \A t \in added', k \in Key : t \in ToSet(disk'[k])
    <3>1. \A k \in Key : ToSet(disk'[k]) = ToSet(disk[k]) \cup {panel}
      BY <1>1, <2>2, Appended
    <3>2. QED
      BY <1>4, <3>1 DEF ClickBtnFavourite, IInv
  <2>6. SavedInStep'
    BY <2>1, SavesKeepStep
  <2>7. HalvesAreTorn'
    BY <2>1, SavesKeepHalves
  <2>8. QED
    BY <1>4, <2>2, <2>3, <2>4, <2>5, <2>6, <2>7 DEF IInv, ClickBtnFavourite
<1>5. ASSUME NEW n \in 1..(Len(SaveOrder) - 1), ClickKilled(n) PROVE IInv'
  <2>1. /\ disk' = AfterSaves(WithFavourite(panel), n)
        /\ CanClick
        /\ n \in 1..8 /\ n # 8
        /\ torn' = torn + 1
    BY <1>5, SaveOrderInjective DEF ClickKilled
  <2>2. /\ disk' \in [Key -> Seq(Trashcan)]
        /\ \A k \in Key : ToSet(disk[k]) \subseteq ToSet(disk'[k])
        /\ UniqueCoordinates'
        /\ LongitudeHasLatitude'
    BY <2>1, SavesKeepDisk
  <2>3. TypeOK'
    <3>1. MaxTorn \in Nat
      BY ConstantsAssumption
    <3>2. torn' \in 0..MaxTorn
      BY <1>1, <1>5, <3>1 DEF ClickKilled, TypeOK
    <3>3. memory' \in [Key -> Seq(Trashcan)]
      BY <1>5, NoArraysType DEF ClickKilled, Die
    <3>4. QED
      BY <1>1, <1>5, <2>2, <3>2, <3>3 DEF ClickKilled, Die, TypeOK
  <2>4. SavedInStep'
    BY <2>1, SavesKeepStep
  <2>5. HalvesAreTorn'
    BY <2>1, SavesKeepHalves
  <2>6. QED
    BY <1>5, <2>2, <2>3, <2>4, <2>5 DEF IInv, ClickKilled, Die
<1>6. CASE Kill
  <2>1. TypeOK'
    BY <1>1, <1>6, NoArraysType DEF Kill, Die, TypeOK
  <2>2. QED
    BY <1>6, <2>1, DiskUnchanged DEF IInv, Kill, Die
<1>7. CASE Launch
  <2>1. memory' = disk'
    BY <1>1, <1>7 DEF Launch
  <2>2. TypeOK'
    BY <1>1, <1>7, <2>1 DEF Launch, TypeOK
  <2>3. panel' = NoTrashcan
    BY <1>7 DEF Launch, IInv
  <2>4. QED
    BY <1>7, <2>1, <2>2, <2>3, DiskUnchanged DEF IInv, Launch
<1>8. CASE UNCHANGED vars
  <2>1. TypeOK'
    BY <1>1, <1>8 DEF vars, TypeOK
  <2>2. IsNew(panel) => IsNew(panel)'
    BY <1>8 DEF vars, IsNew, LatitudesContain, LongitudesContain
  <2>3. QED
    BY <1>8, <2>1, <2>2, DiskUnchanged DEF IInv, vars
<1>9. QED
  BY <1>2, <1>3, <1>4, <1>5, <1>6, <1>7, <1>8 DEF Next

-----------------------------------------------------------------------------
\* The invariant holds in every reachable state.
THEOREM Invariant == Spec => []IInv
<1>1. Init => IInv
  BY InitIInv
<1>2. IInv /\ [Next]_vars => IInv'
  BY NextIInv
<1>3. QED
  BY <1>1, <1>2, PTL DEF Spec

\* The variables keep their types.
THEOREM TypeCorrect == Spec => []TypeOK
<1>1. IInv => TypeOK
  BY DEF IInv
<1>2. QED
  BY <1>1, Invariant, PTL

\* A completed click is never forgotten, whatever is clicked, killed or
\* relaunched afterwards.
THEOREM FavouritesSurvive == Spec => []AddedSurvives
<1>1. IInv => AddedSurvives
  BY DEF IInv, AddedSurvives
<1>2. QED
  BY <1>1, Invariant, PTL

\* No latitude and no longitude is saved twice.
THEOREM CoordinatesUnique == Spec => []UniqueCoordinates
<1>1. IInv => UniqueCoordinates
  BY DEF IInv
<1>2. QED
  BY <1>1, Invariant, PTL

\* The lengths of the arrays differ by at most the interrupted clicks, in the
\* order of the saves.
THEOREM ArraysInStep == Spec => []SavedInStep
<1>1. IInv => SavedInStep
  BY DEF IInv
<1>2. QED
  BY <1>1, Invariant, PTL

\* The saved arrays only grow at their ends.
THEOREM ArraysOnlyGrow == Spec => DiskOnlyGrows
<1>1. IInv /\ [Next]_vars => [\A k \in Key : IsPrefix(disk[k], disk'[k])]_vars
  <2>1. SUFFICES ASSUME IInv, Next
                 PROVE  \A k \in Key : IsPrefix(disk[k], disk'[k])
    OBVIOUS
  <2>2. CASE UNCHANGED disk
    BY <2>1, <2>2 DEF IInv, TypeOK, IsPrefix
  <2>3. CASE ClickBtnFavourite
    <3>1. disk' = AfterSaves(WithFavourite(panel), 8) /\ CanClick /\ 8 \in 1..8
      BY <2>3, SaveOrderInjective DEF ClickBtnFavourite
    <3>2. QED
      BY <2>1, <3>1, SavesKeepDisk
  <2>4. ASSUME NEW n \in 1..(Len(SaveOrder) - 1), ClickKilled(n)
        PROVE  \A k \in Key : IsPrefix(disk[k], disk'[k])
    <3>1. disk' = AfterSaves(WithFavourite(panel), n) /\ CanClick /\ n \in 1..8
      BY <2>4, SaveOrderInjective DEF ClickKilled
    <3>2. QED
      BY <2>1, <3>1, SavesKeepDisk
  <2>5. QED
    BY <2>1, <2>2, <2>3, <2>4 DEF Next, OpenDetails, HidePanel, Kill, Launch
<1>2. QED
  BY <1>1, Invariant, PTL DEF Spec, DiskOnlyGrows

\* A place is stranded only if a click there was cut short between the saves of
\* its latitude and its longitude.
THEOREM OnlyTornClicksStrand == Spec => []StrandedByTornClicks
<1>1. ASSUME IInv, running PROVE Cardinality(Stranded) <= torn
  <2>1. /\ memory = disk
        /\ ToSet(disk["longitude"]) \subseteq ToSet(disk["latitude"])
        /\ IsFiniteSet(HalfSaved) /\ Cardinality(HalfSaved) <= torn
        /\ torn \in Nat
    BY <1>1 DEF IInv, TypeOK, LongitudeHasLatitude, HalvesAreTorn
  <2>2. ToSet(disk["latitude"]) \subseteq Trashcan
    <3>1. disk["latitude"] \in Seq(Trashcan)
      BY <1>1, Keys DEF IInv, TypeOK
    <3>2. QED
      BY <3>1 DEF ToSet
  <2> DEFINE places == {LatitudeOf[t] : t \in HalfSaved}
  <2>3. Stranded \subseteq places
    <3>1. SUFFICES ASSUME NEW t \in Trashcan, OffTheGrid(t),
                          ~OffersStar(t), ~FavouriteFilter(t)
                   PROVE  LatitudeOf[t] \in places
      BY DEF Stranded
    <3>2. LatitudesContain(t) \/ LongitudesContain(t)
      BY <3>1 DEF OffersStar
    <3>3. ~(LatitudesContain(t) /\ LongitudesContain(t))
      BY <3>1 DEF FavouriteFilter
    <3>4. LongitudesContain(t) => LatitudesContain(t)
      BY <2>1, <2>2, <3>1 DEF LongitudesContain, LatitudesContain, OffTheGrid
    <3>5. PICK s \in ToSet(disk["latitude"]) : LatitudeOf[s] = LatitudeOf[t]
      BY <2>1, <3>2, <3>4 DEF LatitudesContain
    <3>6. s \notin ToSet(disk["longitude"])
      BY <2>1, <2>2, <3>1, <3>2, <3>3, <3>4, <3>5 DEF LongitudesContain, OffTheGrid
    <3>7. QED
      BY <3>5, <3>6 DEF HalfSaved
  <2>4. IsFiniteSet(places) /\ Cardinality(places) <= Cardinality(HalfSaved)
    <3> DEFINE f == [s \in HalfSaved |-> LatitudeOf[s]]
    <3>1. f \in Surjection(HalfSaved, places)
      BY DEF Surjection
    <3>2. QED
      BY <2>1, <3>1, FS_Surjection
  <2> HIDE DEF places
  <2>5. IsFiniteSet(Stranded) /\ Cardinality(Stranded) <= Cardinality(places)
    BY <2>3, <2>4, FS_Subset
  <2>6. /\ Cardinality(Stranded) \in Nat /\ Cardinality(places) \in Nat
        /\ Cardinality(HalfSaved) \in Nat
    BY <2>1, <2>4, <2>5, FS_CardinalityType
  <2>7. QED
    BY <2>1, <2>4, <2>5, <2>6
<1>2. IInv => StrandedByTornClicks
  BY <1>1 DEF StrandedByTornClicks
<1>3. QED
  BY <1>2, Invariant, PTL
=============================================================================

SPECIFICATION Spec
CONSTANTS
  SouthWest = SouthWest
  SouthEast = SouthEast
  NorthWest = NorthWest
  Island = Island
  Rock = Rock
  NoTrashcan = NoTrashcan
  Trashcan <- Trashcans
  LatitudeOf <- GridLatitude
  LongitudeOf <- GridLongitude
  MaxTorn = 2
INVARIANTS
  AddedSurvives
  UniqueCoordinates
  SavedInStep
  StrandedByTornClicks
PROPERTY
  DiskOnlyGrows

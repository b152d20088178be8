SPECIFICATION AppSpec
CONSTANTS
  Bin = Bin
  Skip = Skip
  NoTrashcan = NoTrashcan
  NoPlace = NoPlace
  Phone = Phone
  Device <- Phones
  NoRating = NoRating
  Trashcan <- Cans
  Place <- Places
  Zone <- Courtyard
  MaxThrows = 3
  MaxResends = 1
INVARIANTS
  OneThrowPerMarker
  PointsOfSpentMarkers
  SpentMarkersPay

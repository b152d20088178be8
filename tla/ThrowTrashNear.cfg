SPECIFICATION AppSpec
CONSTANTS
  Bin = Bin
  Skip = Skip
  NoTrashcan = NoTrashcan
  NoPlace = NoPlace
  Phone = Phone
  Device <- Phones
  NoRating = NoRating
  Trashcan <- Cans
  Place <- Places
  Zone <- Courtyard
  MaxThrows = 1
  MaxResends = 1
PROPERTY
  ThrowOnlyWhenNear

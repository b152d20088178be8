SPECIFICATION FairSpec
CONSTANTS
  Phone = Phone
  Tablet = Tablet
  Device <- PhoneAndTablet
  NoRating = NoRating
  MaxThrows = 3
  MaxResends = 1
INVARIANTS
  TypeOK
  RatingEarned
  LossExcused
  LossOnlyInHurry
PROPERTIES
  OwnViewNeverFalls
  ThrowsSettle
CHECK_DEADLOCK FALSE

SPECIFICATION FairSpec
CONSTANTS
  Markers = 2
  Place = {"park", "square"}
  Address = {"Park Street 1"}
  Container = {"glass"}
  NoMarker = NoMarker
  MaxChanges = 1
INVARIANTS
  LabelsOfThePlace
  LabelsOfTheMarker
  FilterForgets
PROPERTY
  FeedCatchesUp
CHECK_DEADLOCK FALSE

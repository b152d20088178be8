SPECIFICATION FairSpec
CONSTANTS
  MaxPendingWrites = 1
  NoDocument = NoDocument
  MaxGets = 2
  MaxElsewhere = 1
  MaxFaults = 1
INVARIANTS
  TypeOK
  TrackerAsserts
  AckMatches
PROPERTIES
  FreshUnlessOffline
  ImplementsCloudDocument
  RoundsSettle
CHECK_DEADLOCK FALSE

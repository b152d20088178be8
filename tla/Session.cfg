SPECIFICATION Spec
CONSTANTS
  Anna = Anna
  Boris = Boris
  User <- People
  Blank = Blank
  Nobody = Nobody
  NotLoaded = NotLoaded
  MaxVisits = 3
  MaxRequests = 2
INVARIANTS
  StoredOnce
  DocumentsComplete
  MapUserKnown
  ProfileOwnUndisturbed
CHECK_DEADLOCK FALSE

SPECIFICATION Spec
CONSTANTS
  Anna = Anna
  Boris = Boris
  User <- People
  Blank = Blank
  Nobody = Nobody
  NotLoaded = NotLoaded
  MaxVisits = 2
  MaxRequests = 1
INVARIANT
  DocumentThere

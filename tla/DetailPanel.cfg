SPECIFICATION Spec
CONSTANTS
  Bin = Bin
  Skip = Skip
  Tray = Tray
  Trashcan = {Bin, Skip, Tray}
  Pictured = {Bin, Skip}
  Default = Default
  Hidden = Hidden
  MaxRequests = 3
INVARIANTS
  ImageOwn
  ForeignRoutesLate
CHECK_DEADLOCK FALSE

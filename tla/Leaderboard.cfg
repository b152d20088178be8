SPECIFICATION FairTable
CONSTANTS
  Users = 3
  MaxRate = 2
  MaxChanges = 2
  Window = 2
  Blank = Blank
  NoUser = NoUser
INVARIANTS
  CellsShowRanking
PROPERTY
  TableCatchesUp
CHECK_DEADLOCK FALSE

SPECIFICATION FairSpec
CONSTANTS
  N = 4
  Rate <- ThreeRates
INVARIANTS
  TypeOK
  RowsStayTogether
  SortedBackwards
  ComputesInserted
PROPERTY
  Terminates
CHECK_DEADLOCK FALSE

SPECIFICATION FairSpec
CONSTANTS
  Requests <- MCRequests
  MaxSize = 3
  MAXBUFFERLEN = 2
  MaxEdits = 1
CHECK_DEADLOCK FALSE
INVARIANTS
  TypeOK
  PartialStaysInside
  UntouchedIsExact
  RangeIsAsAsked
PROPERTIES
  UntouchedReturns

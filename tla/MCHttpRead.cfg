SPECIFICATION ReadFairSpec
CONSTANTS
  Requests <- MCRequests
  Upper <- MCUpper
  Digit <- MCDigit
  ContentLength <- MCContentLength
  MAXBUFFERLEN = 5
  MaxLong = 15
  MaxFields = 2
  Patience = 2
CHECK_DEADLOCK FALSE
INVARIANTS
  ReadTypeOK
  UntornIsGenuine
  UntornIsComplete
PROPERTIES
  HeaderEnds
  BodyEndsWhenSent

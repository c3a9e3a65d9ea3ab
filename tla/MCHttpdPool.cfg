SPECIFICATION FairSpec
CONSTANTS
  NUMTHREADS = 2
  Conns = {k1, k2, k3}
  NoConn = NoConn
INVARIANTS
  AvailableCountsEmptySlots
  OpenHasOneOwner
  SweepNeverWaitsForPeer
PROPERTIES
  ContextOutlivesThread
  ImplementsConnPool
  FinishedLetsNextIn
  AcceptedIsHandedOver
  EndsUnlessPeersStall

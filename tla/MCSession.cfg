SPECIFICATION Spec
CONSTANTS
  Threads = {t1, t2}
  Nobody = Nobody
  PiecesPerLine = 2
  MaxLines = 2
  CallsSeen = 5
  MaxLost = 1
INVARIANTS
  BlocksStayWhole
  LinesEndUnlessLost
PROPERTIES
  OnlyOwnPeerWaitedFor

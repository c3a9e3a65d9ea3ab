SPECIFICATION ThreadSpec
CONSTANTS
  Pthreads = {p1, p2, p3}
  NoPthread = NoPthread
INVARIANTS
  HandleValidWhenUsed
CHECK_DEADLOCK FALSE

SPECIFICATION Spec
CONSTANTS
  Workers = {w1, w2}
  Passwd = passwd
  Absent = Absent
  None = None
  root = root
  sub = sub
  u1 = u1
  u2 = u2
  Users <- MCUsers
  Dirs <- MCDirs
  Parent <- MCParent
  Contents <- MCContents
  Requests <- MCRequests
  MaxTime = 2
  MaxEdits = 2
SYMMETRY MCSymmetry
INVARIANTS
  TypeOK
PROPERTIES
  GrantsAreJustified
  LogsOwnOrLaterVerdict

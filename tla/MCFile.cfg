SPECIFICATION Spec
CONSTANTS
  Modes <- MCModes
  MaxLength = 2
  MaxTime = 2
INVARIANTS
  TypeOK
  ModifiedTold
  OwnChangesSeen

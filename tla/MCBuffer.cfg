SPECIFICATION Spec
CONSTANTS
  Byte <- MCByte
  SIZE = 4
  Inputs <- MCInputs
  Counts <- MCCounts
INVARIANTS
  CursorsInside
PROPERTIES
  ImplementsByteFifo

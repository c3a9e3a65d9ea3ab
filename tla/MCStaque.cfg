SPECIFICATION Spec
CONSTANTS
  Nodes = {n1, n2, n3, n4}
  Values = {a, b}
  Indices <- MCIndices
  Null = Null
SYMMETRY MCSymmetry
INVARIANTS
  TypeOK
  LinkedBothWays
  FreedWhenUnlinked
PROPERTIES
  ImplementsDeque
CHECK_DEADLOCK FALSE

CONSTANTS
  CallNumbers <- MCCallNumbers
SPECIFICATION Spec
INVARIANTS
  ShelfOrderIsAntisymmetric
  InclusionIsAntisymmetric
  ShelfOrderIsTransitive
  AncestorsComeFirst
  InclusionIsTransitive
  DescendantsAreContiguous
PROPERTY DecisionIsFinal
CHECK_DEADLOCK FALSE

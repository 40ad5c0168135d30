CONSTANTS
  CallNumbers <- MCCallNumbers
SPECIFICATION Spec
INVARIANT AscendingIsOrderedBefore
CHECK_DEADLOCK FALSE

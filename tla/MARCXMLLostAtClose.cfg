CONSTANTS
  Records <- MCRecords
  MaxRecords = 2
  Documents <- MCDocuments
SPECIFICATION Spec
INVARIANT ClosedIsWritten
CHECK_DEADLOCK FALSE

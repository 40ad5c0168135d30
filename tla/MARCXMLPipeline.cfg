CONSTANTS
  Records <- MCRecords
  MaxRecords = 2
  Documents <- MCDocuments
SPECIFICATION Spec
INVARIANTS
  DeliveredIsPrefix
  EndIsComplete
  RoundTrip
PROPERTY FailureIsFinal
CHECK_DEADLOCK FALSE

CONSTANTS
  LeaderLength = 2
  MaxRecordLength = 10
  MCLengths = {4, 5}
  MCMaxRecords = 2
  Inputs <- MCInputs
  Transports = {"memory", "file", "pipe"}
SPECIFICATION ReadingSpec
INVARIANTS
  TypeOK
  FramedUntilComplaint
  EndIsComplete
  NoUnitDecodedTwice
  WaysOfDecodingAgree
PROPERTY ReadingEnds
CHECK_DEADLOCK FALSE

CONSTANTS
  LeaderLength = 2
  MaxRecordLength = 5
  RecordLengths = {4, 5}
  Sinks = {"file"}
  Capacity = 10
  MaxSinkLength = 10
  MaxSessions = 2
  Transports = {"file", "pipe"}
SPECIFICATION Spec
INVARIANTS
  DamageIsConfined
  BatchReadsAllAccepted
PROPERTY ImplementsRecordChannel
CHECK_DEADLOCK FALSE

CONSTANTS
  LeaderLength = 2
  MaxRecordLength = 5
  RecordLengths = {4, 5}
  Sinks = {"memory", "buffer", "file"}
  Capacity = 10
  MaxSinkLength = 13
  MaxSessions = 3
SPECIFICATION Spec
INVARIANTS
  TypeOK
  AcceptedIsWhole
  OnlyTornRecordsLeaveGaps
PROPERTY NothingFollowsATornRecord

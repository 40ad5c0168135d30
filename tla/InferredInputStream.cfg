CONSTANTS
  LeaderLength = 4
  MaxRecordLength = 14
  ParserRequest = 3
  MCLengths = {6, 7}
  Inputs <- MCInputs
  Transports = {"memory", "file", "pipe"}
SPECIFICATION InferredSpec
PROPERTY ReadsAsPlainReader
CHECK_DEADLOCK FALSE

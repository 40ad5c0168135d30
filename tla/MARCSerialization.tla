------------------------- MODULE MARCSerialization -------------------------
(***************************************************************************)
(* +[BibMARCSerialization recordsFromData:error:], which decodes data held *)
(* in memory in one call.                                                  *)
(***************************************************************************)
EXTENDS MARCFraming, SerializationStreams

(* What +recordFromStream: makes of the data at an offset: a record, an    *)
(* error, or the end of the process.                                       *)
RecordFromData(data, offset) ==
  IF offset = Len(data) THEN [record |-> NoRecord, error |-> "AtEnd", aborted |-> FALSE]
  ELSE IF Len(data) - offset < LeaderLength
    THEN [record |-> NoRecord, error |-> "MissingData", aborted |-> FALSE]
  ELSE IF ~LeaderIsWellFormed(data, offset)
    THEN [record |-> NoRecord, error |-> "Malformed", aborted |-> FALSE]
  ELSE IF Len(data) - offset < RecordLength(data, offset)
    THEN [record |-> NoRecord, error |-> "MissingData", aborted |-> FALSE]
  ELSE IF ~BodyIsWellFormed(data, offset, RecordLength(data, offset))
    THEN [record |-> NoRecord, error |-> NoError, aborted |-> TRUE]
  ELSE [record |-> RecordAt(offset, RecordLength(data, offset)), error |-> NoError,
        aborted |-> FALSE]

\* Mutation: the loop stops at the end of the data before it adds the record.
RecordsFrom_DropsTheLast(data) ==
  LET from[offset \in 0..Len(data)] ==
        LET read == RecordFromData(data, offset)
            next == EndOf(read.record)
        IN  IF read.record = NoRecord \/ next = Len(data)
            THEN [records |-> << >>, error |-> read.error, aborted |-> read.aborted]
            ELSE [from[next] EXCEPT !.records = <<read.record>> \o @]
  IN  from

(* The loop, from the record at an offset on: the records it collects      *)
(* until the data ends or err is set.                                      *)
RecordsFrom(data) ==
  LET from[offset \in 0..Len(data)] ==
        LET read == RecordFromData(data, offset)
            next == EndOf(read.record)
        IN  IF read.record = NoRecord
            THEN [records |-> << >>, error |-> read.error, aborted |-> read.aborted]
            ELSE IF next = Len(data)
            THEN [records |-> <<read.record>>, error |-> NoError, aborted |-> FALSE]
            ELSE [from[next] EXCEPT !.records = <<read.record>> \o @]
  IN  from

(* The first record is read into the caller's error and not into err, so   *)
(* that a failure there leaves the array empty instead of nil.             *)
RecordsFromData(data) ==
  LET first == RecordFromData(data, 0)
      all   == RecordsFrom(data)[0]
  IN  IF first.record = NoRecord
      THEN [nil |-> FALSE, records |-> << >>, error |-> first.error, aborted |-> first.aborted]
      ELSE [nil     |-> all.error # NoError,
            records |-> IF all.error # NoError THEN << >> ELSE all.records,
            error   |-> all.error,
            aborted |-> all.aborted]
=============================================================================

-------------------------- MODULE MARCInputStream --------------------------
(***************************************************************************)
(* BibMARCInputStream: reads MARC 21 records, one call at a time, from an  *)
(* NSInputStream that its creator still holds and may open or close.       *)
(***************************************************************************)
EXTENDS MARCFraming, SerializationStreams

CONSTANTS
  Inputs,      \* the data a stream may hold: a set of sequences of units
  Transports   \* the kinds of NSInputStream: "memory", "file", "pipe"

ASSUME InputsAssumption ==
  /\ Inputs \subseteq Seq(Unit)
  /\ Transports \subseteq {"memory", "file", "pipe"}

VARIABLES
  input,       \* the data of the wrapped stream
  transport,   \* the kind of the wrapped stream
  pos,         \* how much of the data has been read
  inner,       \* the wrapped stream's streamStatus
  own,         \* _streamStatus
  ownError,    \* _streamError
  delivered,   \* history: the records returned, in order
  complained,  \* history: some read of the open stream returned an error
               \* other than the end of its data
  reply,       \* what the last read returned
  aborted      \* a failed assert() has stopped the process

vars == <<input, transport, pos, inner, own, ownError, delivered, complained,
          reply, aborted>>

Record == [at : Nat, length : Nat]
Calls == {"readRecord:", "readRecord:error:"}
NoReply == [call |-> "none", record |-> NoRecord, error |-> NoError, ok |-> FALSE]

(***************************************************************************)
(* The wrapped NSInputStream.  Data in memory is read whole and reports    *)
(* AtEnd with its last byte; a file or a pipe reports AtEnd once a read    *)
(* returns nothing, and a read of it may fail; a pipe may return fewer     *)
(* bytes than asked for.                                                   *)
(***************************************************************************)
ReadFailed == -1

Rest(offset, n) == IF Len(input) - offset < n THEN Len(input) - offset ELSE n

ReadCounts(offset, n) ==
  {Rest(offset, n)}
    \cup (IF transport = "pipe" THEN 1..Rest(offset, n) ELSE {})
    \cup (IF transport = "memory" THEN {} ELSE {ReadFailed})

AfterRead(offset, count) ==
  CASE count = ReadFailed -> "Error"
    [] count = 0          -> "AtEnd"
    [] count > 0          -> IF transport = "memory" /\ offset + count = Len(input)
                             THEN "AtEnd" ELSE "Open"

\* Mutation: the result of a failed read is added like a count.
Advance_CountsAFailure(offset, count) == offset + count

Advance(offset, count) == IF count = ReadFailed THEN offset ELSE offset + count

HasBytesAvailable ==
  /\ inner = "Open"
  /\ transport = "memory" => pos < Len(input)

(* The creator of the wrapped stream opens or closes it directly.          *)
OwnerOpens ==
  /\ inner = "NotOpen"
  /\ inner' \in OpenedStatus(inner, transport # "memory")
  /\ UNCHANGED <<input, transport, pos, own, ownError, delivered, complained,
                 reply, aborted>>

OwnerCloses ==
  /\ inner # "Closed"
  /\ inner' \in ClosedStatus(inner)
  /\ UNCHANGED <<input, transport, pos, own, ownError, delivered, complained,
                 reply, aborted>>

-----------------------------------------------------------------------------

(* The getters of BibMARCInputStream: an error of its own hides the        *)
(* wrapped stream's status.                                                *)
StreamStatus == IF own = "Error" THEN own ELSE inner

StreamError ==
  IF own # "Error" THEN NoError
  ELSE IF ownError # NoError THEN ownError ELSE StreamErrorOf(inner)

Open ==
  /\ StreamStatus = "NotOpen"
  /\ inner' \in OpenedStatus(inner, transport # "memory")
  /\ own' = inner'
  /\ ownError' = StreamErrorOf(inner')
  /\ UNCHANGED <<input, transport, pos, delivered, complained, reply, aborted>>

Close ==
  /\ StreamStatus # "Closed"
  /\ inner' \in ClosedStatus(inner)
  /\ own' = inner'
  /\ ownError' = StreamErrorOf(inner')
  /\ UNCHANGED <<input, transport, pos, delivered, complained, reply, aborted>>

-----------------------------------------------------------------------------

(* What a call gives its caller.  readRecord:error: returns YES whenever   *)
(* there is no error; readRecord: succeeds when it returns a record.       *)
Reply(call, record, error) ==
  [call |-> call, record |-> record, error |-> error,
   ok |-> IF call = "readRecord:error:" THEN error = NoError ELSE record # NoRecord]

(* A read of a stream that is not open touches nothing.                    *)
ReadUnopened(call) ==
  /\ StreamStatus # "Open"
  /\ reply' = Reply(call, NoRecord,
                    IF StreamStatus = "AtEnd" THEN NoError
                    ELSE InputStreamNotOpenedError(inner))
  /\ UNCHANGED <<input, transport, pos, inner, own, ownError, delivered,
                 complained, aborted>>

(* What readRecord: does with the result of +recordFromStream:error:.      *)
Return(call, offset, status, record, error) ==
  /\ pos' = offset
  /\ inner' = status
  /\ own' = IF status = "AtEnd" THEN "AtEnd"
            ELSE IF record # NoRecord THEN own
            ELSE IF error = NoError THEN "Error" ELSE "AtEnd"
  /\ ownError' = IF record = NoRecord THEN error ELSE ownError
  /\ delivered' = IF record = NoRecord THEN delivered ELSE Append(delivered, record)
  /\ complained' = (complained \/ error \notin {NoError, "AtEnd"})
  /\ reply' = Reply(call, record, error)
  /\ UNCHANGED <<input, transport, aborted>>

NoBytesAvailable(call) ==
  /\ StreamStatus = "Open"
  /\ ~HasBytesAvailable
  /\ Return(call, pos, inner, NoRecord, "AtEnd")

CanRead == StreamStatus = "Open" /\ HasBytesAvailable

\* Mutation: any read shorter than a leader counts as the end of the data.
LeaderUnavailable_IsTheEnd(call) ==
  /\ CanRead
  /\ \E count \in ReadCounts(pos, LeaderLength) \ {LeaderLength} :
       Return(call, Advance(pos, count), AfterRead(pos, count), NoRecord, "AtEnd")

\* Mutation: a read shorter than a leader is tried again, for ever.
LeaderUnavailable_Retries(call) ==
  /\ CanRead
  /\ ReadCounts(pos, LeaderLength) \ {LeaderLength} # {}
  /\ UNCHANGED vars

LeaderUnavailable(call) ==
  /\ CanRead
  /\ \E count \in ReadCounts(pos, LeaderLength) \ {LeaderLength} :
       Return(call, Advance(pos, count), AfterRead(pos, count), NoRecord,
              IF count = 0 THEN "AtEnd" ELSE "MissingData")

LeaderMalformed(call) ==
  /\ CanRead
  /\ LeaderLength \in ReadCounts(pos, LeaderLength)
  /\ ~LeaderIsWellFormed(input, pos)
  /\ Return(call, pos + LeaderLength, AfterRead(pos, LeaderLength), NoRecord, "Malformed")

(* The leader has been read and promises this many more units.             *)
LeaderRead ==
  /\ CanRead
  /\ LeaderLength \in ReadCounts(pos, LeaderLength)
  /\ LeaderIsWellFormed(input, pos)

BodyOffset == pos + LeaderLength
BodyLength == RecordLength(input, pos) - LeaderLength

\* Mutation: a body that is too short is decoded all the same.
BodyUnavailable_IsDecoded(call) ==
  /\ LeaderRead
  /\ \E count \in ReadCounts(BodyOffset, BodyLength) \ {BodyLength} :
       Return(call, Advance(BodyOffset, count), AfterRead(BodyOffset, count),
              RecordAt(pos, RecordLength(input, pos)), NoError)

BodyUnavailable(call) ==
  /\ LeaderRead
  /\ \E count \in ReadCounts(BodyOffset, BodyLength) \ {BodyLength} :
       Return(call, Advance(BodyOffset, count), AfterRead(BodyOffset, count),
              NoRecord, "MissingData")

BodyRead == LeaderRead /\ BodyLength \in ReadCounts(BodyOffset, BodyLength)

(* BibMarcRecordRead asserts what it checks, and no build configuration    *)
(* turns assert() off.                                                     *)
BodyMalformed ==
  /\ BodyRead
  /\ ~BodyIsWellFormed(input, pos, RecordLength(input, pos))
  /\ aborted' = TRUE
  /\ UNCHANGED <<input, transport, pos, inner, own, ownError, delivered,
                 complained, reply>>

\* Mutation: the stream stands where the leader's length was not counted.
RecordRead_ForgetsTheLeader(call) ==
  /\ BodyRead
  /\ BodyIsWellFormed(input, pos, RecordLength(input, pos))
  /\ Return(call, pos + BodyLength, AfterRead(BodyOffset, BodyLength),
            RecordAt(pos, RecordLength(input, pos)), NoError)

\* Mutation: the record is decoded from the length of its body alone.
RecordRead_TakesTheBodyAlone(call) ==
  /\ BodyRead
  /\ BodyIsWellFormed(input, pos, RecordLength(input, pos))
  /\ Return(call, BodyOffset + BodyLength, AfterRead(BodyOffset, BodyLength),
            RecordAt(pos, BodyLength), NoError)

\* Mutation: the record is read without moving on, as a peek would.
RecordRead_Peeks(call) ==
  /\ BodyRead
  /\ BodyIsWellFormed(input, pos, RecordLength(input, pos))
  /\ Return(call, pos, inner, RecordAt(pos, RecordLength(input, pos)), NoError)

RecordRead(call) ==
  /\ BodyRead
  /\ BodyIsWellFormed(input, pos, RecordLength(input, pos))
  /\ Return(call, BodyOffset + BodyLength, AfterRead(BodyOffset, BodyLength),
            RecordAt(pos, RecordLength(input, pos)), NoError)

ReadRecord(call) ==
  \/ ReadUnopened(call)
  \/ NoBytesAvailable(call)
  \/ LeaderUnavailable(call)
  \/ LeaderMalformed(call)
  \/ BodyUnavailable(call)
  \/ BodyMalformed
  \/ RecordRead(call)

-----------------------------------------------------------------------------

(* The creator may hand over a stream in any state.                        *)
Init ==
  /\ input \in Inputs
  /\ transport \in Transports
  /\ pos = 0
  /\ inner \in {"NotOpen", "Open", "Closed"}
  /\ own = inner
  /\ ownError = StreamErrorOf(inner)
  /\ delivered = << >>
  /\ complained = FALSE
  /\ reply = NoReply
  /\ aborted = FALSE

Next ==
  /\ ~aborted
  /\ \/ Open
     \/ Close
     \/ OwnerOpens
     \/ OwnerCloses
     \/ \E call \in Calls : ReadRecord(call)

Spec == Init /\ [][Next]_vars

(* A client that keeps asking for records while the stream is open.        *)
ReadingSpec == Spec /\ WF_vars(~aborted /\ \E call \in Calls : ReadRecord(call))

-----------------------------------------------------------------------------

TypeOK ==
  /\ input \in Seq(Unit)
  /\ transport \in {"memory", "file", "pipe"}
  /\ pos \in 0..Len(input)
  /\ inner \in Status
  /\ own \in Status
  /\ ownError \in Errors
  /\ delivered \in Seq(Record)
  /\ complained \in BOOLEAN
  /\ reply \in [call : Calls \cup {"none"}, record : Record \cup {NoRecord},
                error : Errors, ok : BOOLEAN]
  /\ aborted \in BOOLEAN

(* Until a read returns an error, the records returned are exactly the     *)
(* records the data is made of, from its start and without a gap, and the  *)
(* stream stands where the next one begins: no short read, no malformed    *)
(* leader and no end of data inside a record is passed over in silence.    *)
FramedUntilComplaint ==
  ~complained => IsChain(delivered, input) /\ pos = ChainEnd(delivered)

(* A client told that there are no more records, and told of no other      *)
(* error on the way, has been given all of the data: a record cut off at   *)
(* the end is never mistaken for the end of the stream.                    *)
EndIsComplete ==
  /\ reply.call # "none"
  /\ reply.record = NoRecord
  /\ reply.error \in {NoError, "AtEnd"}
  /\ ~complained
  => ChainEnd(delivered) = Len(input)

(* Whatever goes wrong, no unit of the data is decoded twice: records are  *)
(* delivered in the order of the data and do not overlap, even when the    *)
(* stream has lost its place.                                              *)
NoUnitDecodedTwice ==
  /\ \A i \in DOMAIN delivered : EndOf(delivered[i]) <= pos
  /\ \A i, j \in DOMAIN delivered : i < j => EndOf(delivered[i]) <= delivered[j].at

(* A client that keeps reading an open stream comes to the end of it: some *)
(* read returns nothing (or the stream is closed, or the process aborts).  *)
ReadingEnds ==
  StreamStatus = "Open" ~>
    \/ StreamStatus # "Open"
    \/ reply.call # "none" /\ reply.record = NoRecord
    \/ aborted

=============================================================================

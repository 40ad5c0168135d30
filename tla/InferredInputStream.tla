------------------------ MODULE InferredInputStream ------------------------
(***************************************************************************)
(* A BibRecordInputStream that chooses its own reader: by the extension of *)
(* a path, by the data it is given, or, around an NSInputStream, by        *)
(* peeking at the stream when it is opened.  The bytes it has peeked at    *)
(* stay in a buffer between the stream and the reader it has chosen.       *)
(*                                                                         *)
(* The chosen reader is MARCInputStream's: pos and inner are the wrapped   *)
(* stream's place and status, own and ownError the reader's fields.  What  *)
(* a MARCXML reader reads is not followed here, except for the first read  *)
(* of its parser, which meets the peeked bytes.                            *)
(***************************************************************************)
EXTENDS MARCInputStream

CONSTANT
  ParserRequest  \* what libxml2 reads when a parser is made: 4 bytes, in units

ASSUME ParserAssumption == ParserRequest \in Nat \ {0}

VARIABLES
  source,   \* what the stream was made from: "stream", "data" or "path"
  reader,   \* the class of _recordStream or of the object itself
  peeked,   \* the length of _peekData, not yet read by the reader
  stopped   \* an exception was raised that nothing in the library catches, or
            \* memory was overwritten: "no", "raised", "undefined"

inferredVars == <<vars, source, reader, peeked, stopped>>

Sources == {"stream", "data", "path"}
Readers == {"none", "MARC", "MARCXML", "unknown"}

(* What BibLeader takes for a leader: digits where the two sizes are, and  *)
(* the numbers that never change, with no control character among them.    *)
IsLeader(data) ==
  /\ LeaderIsWellFormed(data, 0)
  /\ \A i \in 3..LeaderLength : data[i].kind = "field"

(* The reader for data of which this many units have been seen.            *)
ReaderFor(data, length) ==
  IF length >= 2 /\ data[1].kind = "markup" /\ data[2].kind = "markup" THEN "MARCXML"
  ELSE IF length >= LeaderLength /\ IsLeader(data) THEN "MARC"
  ELSE "unknown"

-----------------------------------------------------------------------------

(* A stream around an NSInputStream in any state, which its creator still  *)
(* holds.                                                                  *)
FromStream ==
  /\ source = "stream"
  /\ transport \in Transports
  /\ inner \in {"NotOpen", "Open", "Closed"}
  /\ reader = "none"

(* initWithData: looks at the data itself and wraps nothing else.          *)
FromData ==
  /\ source = "data"
  /\ transport = "memory"
  /\ inner = "NotOpen"
  /\ reader = ReaderFor(input, Len(input))

(* initWithURL: and initWithFileAtPath: go by the extension alone.         *)
FromPath ==
  /\ source = "path"
  /\ transport = "file"
  /\ inner = "NotOpen"
  /\ reader \in {"MARC", "MARCXML", "unknown"}

InferredInit ==
  /\ input \in Inputs
  /\ FromStream \/ FromData \/ FromPath
  /\ pos = 0
  /\ peeked = 0
  /\ own = "NotOpen"
  /\ ownError = NoError
  /\ delivered = << >>
  /\ complained = FALSE
  /\ reply = NoReply
  /\ aborted = FALSE
  /\ stopped = "no"

-----------------------------------------------------------------------------

(* What a read of n units does while some are peeked: it hands over just   *)
(* the peeked ones or nothing at all.  Fewer raise a range exception; of   *)
(* more, all are copied and what remains to be read is a difference below  *)
(* zero.                                                                   *)
PeekedRead(available, n) ==
  CASE available = n -> "read"
    [] available < n -> "raised"
    [] available > n -> "undefined"

\* Mutation: the reader is given the wrapped stream and not the buffer.
ChooseMARC_PastTheBuffer(count) ==
  /\ reader' = "MARC"
  /\ peeked' = 0
  /\ own' = AfterRead(0, count)
  /\ ownError' = StreamErrorOf(own')
  /\ UNCHANGED stopped

(* The MARC 21 reader copies the wrapped stream's status.                  *)
ChooseMARC(count) ==
  /\ reader' = "MARC"
  /\ peeked' = count
  /\ own' = AfterRead(0, count)
  /\ ownError' = StreamErrorOf(own')
  /\ UNCHANGED stopped

(* The MARCXML reader is opened at once, and its parser reads.             *)
ChooseMARCXML(count) ==
  LET read == PeekedRead(count, ParserRequest) IN
  /\ reader' = "MARCXML"
  /\ peeked' = IF read = "read" THEN 0 ELSE count
  /\ stopped' = IF read = "read" THEN "no" ELSE read
  /\ UNCHANGED <<own, ownError>>

(* The unknown stream has an open: with an error but not the open that is  *)
(* called: the one it inherits raises an exception.                        *)
ChooseUnknown(count) ==
  /\ reader' = "unknown"
  /\ peeked' = count
  /\ stopped' = "raised"
  /\ UNCHANGED <<own, ownError>>

(* Opening the stream opens the wrapped one, which may fail, and peeks at  *)
(* its first LeaderLength units.                                           *)
OpeningFails ==
  /\ reader = "none" /\ inner = "NotOpen"
  /\ inner' \in OpenedStatus(inner, transport # "memory") \ {"Open"}
  /\ UNCHANGED <<input, transport, pos, own, ownError, delivered, complained,
                 reply, aborted, source, reader, peeked, stopped>>

PeekFails ==
  /\ reader = "none" /\ inner = "NotOpen"
  /\ ReadFailed \in ReadCounts(0, LeaderLength)
  /\ inner' = AfterRead(0, ReadFailed)
  /\ UNCHANGED <<input, transport, pos, own, ownError, delivered, complained,
                 reply, aborted, source, reader, peeked, stopped>>

OpenAndChoose ==
  /\ reader = "none" /\ inner = "NotOpen"
  /\ \E count \in ReadCounts(0, LeaderLength) \ {ReadFailed} :
       /\ pos' = count
       /\ inner' = AfterRead(0, count)
       /\ \/ ReaderFor(input, count) = "MARC" /\ ChooseMARC(count)
          \/ ReaderFor(input, count) = "MARCXML" /\ ChooseMARCXML(count)
          \/ ReaderFor(input, count) = "unknown" /\ ChooseUnknown(count)
  /\ UNCHANGED <<input, transport, delivered, complained, reply, aborted, source>>

CloseUnchosen ==
  /\ reader = "none"
  /\ inner # "Closed"
  /\ inner' \in ClosedStatus(inner)
  /\ UNCHANGED <<input, transport, pos, own, ownError, delivered, complained,
                 reply, aborted, source, reader, peeked, stopped>>

(* A read that no reader answers returns NO, with or without an error.     *)
Refuse(call, error) ==
  /\ reply' = [call |-> call, record |-> NoRecord, error |-> error, ok |-> FALSE]
  /\ UNCHANGED <<input, transport, pos, inner, own, ownError, delivered,
                 complained, aborted, source, reader, peeked, stopped>>

ReadUnchosen(call) ==
  /\ reader = "none"
  /\ Refuse(call, InputStreamNotOpenedError(inner))

-----------------------------------------------------------------------------

(* A stream that was unknown from the start.                               *)
UnknownOpensOrCloses ==
  /\ reader = "unknown"
  /\ stopped' = "raised"
  /\ UNCHANGED <<vars, source, reader, peeked>>

ReadUnknown(call) ==
  /\ reader = "unknown"
  /\ Refuse(call, "Malformed")

-----------------------------------------------------------------------------

(* The MARC 21 reader on the buffered stream.  The first read is of a      *)
(* leader, just what was peeked: it does not touch the wrapped stream, and *)
(* the rest of the record is read behind it.                               *)
LeaderOffset == pos - peeked
BodyOf(offset) == RecordLength(input, offset) - LeaderLength

PeekedLeaderRead ==
  /\ reader = "MARC"
  /\ CanRead
  /\ peeked > 0
  /\ PeekedRead(peeked, LeaderLength) = "read"
  /\ UNCHANGED <<source, reader, stopped>>

BodyUnavailableBehindPeek(call) ==
  /\ PeekedLeaderRead
  /\ peeked' = 0
  /\ \E count \in ReadCounts(pos, BodyOf(LeaderOffset)) \ {BodyOf(LeaderOffset)} :
       Return(call, Advance(pos, count), AfterRead(pos, count), NoRecord, "MissingData")

BodyMalformedBehindPeek ==
  /\ PeekedLeaderRead
  /\ BodyOf(LeaderOffset) \in ReadCounts(pos, BodyOf(LeaderOffset))
  /\ ~BodyIsWellFormed(input, LeaderOffset, RecordLength(input, LeaderOffset))
  /\ aborted' = TRUE
  /\ UNCHANGED <<input, transport, pos, inner, own, ownError, delivered,
                 complained, reply, peeked>>

RecordReadBehindPeek(call) ==
  /\ PeekedLeaderRead
  /\ peeked' = 0
  /\ BodyOf(LeaderOffset) \in ReadCounts(pos, BodyOf(LeaderOffset))
  /\ BodyIsWellFormed(input, LeaderOffset, RecordLength(input, LeaderOffset))
  /\ Return(call, pos + BodyOf(LeaderOffset), AfterRead(pos, BodyOf(LeaderOffset)),
            RecordAt(LeaderOffset, RecordLength(input, LeaderOffset)), NoError)

ReadBehindPeek(call) ==
  \/ BodyUnavailableBehindPeek(call)
  \/ BodyMalformedBehindPeek
  \/ RecordReadBehindPeek(call)

(* With nothing peeked the buffer passes every call on.                    *)
ReadThrough(call) ==
  /\ reader = "MARC"
  /\ \/ ReadUnopened(call)
     \/ peeked = 0 /\ ReadRecord(call)
  /\ UNCHANGED <<source, reader, peeked, stopped>>

OpenOrCloseMARC ==
  /\ reader = "MARC"
  /\ Open \/ Close
  /\ UNCHANGED <<source, reader, peeked, stopped>>

OwnerActs ==
  /\ source = "stream"
  /\ OwnerOpens \/ OwnerCloses
  /\ UNCHANGED <<source, reader, peeked, stopped>>

InferredNext ==
  /\ ~aborted /\ stopped = "no"
  /\ \/ OpeningFails
     \/ PeekFails
     \/ OpenAndChoose
     \/ CloseUnchosen
     \/ UnknownOpensOrCloses
     \/ OpenOrCloseMARC
     \/ OwnerActs
     \/ \E call \in Calls :
          \/ ReadUnchosen(call)
          \/ ReadUnknown(call)
          \/ ReadThrough(call)
          \/ ReadBehindPeek(call)

InferredSpec == InferredInit /\ [][InferredNext]_inferredVars

-----------------------------------------------------------------------------

(* The MARC 21 reader that a client of the stream sees: it has not read    *)
(* what is only peeked, and until there is one its status is the wrapped   *)
(* stream's.                                                               *)
Plain ==
  INSTANCE MARCInputStream WITH
    pos      <- pos - peeked,
    own      <- IF reader = "MARC" THEN own ELSE inner,
    ownError <- IF reader = "MARC" THEN ownError ELSE StreamErrorOf(inner)

(* The two ways in which the buffer shows.  Nothing is peeked, and no      *)
(* reader is ever chosen, when somebody else has opened the stream.  And a *)
(* stream in memory that ends with the peeked leader is at its end before  *)
(* the reader has seen it.                                                 *)
OpenedByAnother == reader = "none" /\ inner = "Open"
EndsWithThePeek == peeked > 0 /\ inner = "AtEnd"

Recognised == reader \in {"none", "MARC"} /\ stopped = "no"

(* The buffer does not show otherwise: every step of a stream that found   *)
(* MARC 21 records by itself, whatever the transport returns, however the  *)
(* calls are interleaved with the creator's, is one a BibMARCInputStream   *)
(* on the same data may take, with the same answers.                       *)
ReadsAsPlainReader ==
  [][ Recognised' /\ ~OpenedByAnother /\ ~EndsWithThePeek /\ ~EndsWithThePeek'
      => [Plain!Next]_(Plain!vars) ]_inferredVars
=============================================================================

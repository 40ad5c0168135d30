------------------------- MODULE InputStream_proofs -------------------------
(***************************************************************************)
(* For every input, every transport and every interleaving of the client   *)
(* with the creator of the wrapped stream: a BibMARCInputStream returns    *)
(* the records its data is made of until it complains, says that it is at  *)
(* the end only when it is, and never decodes a unit twice; and it agrees  *)
(* with the call that decodes the same data at once.                       *)
(*                                                                         *)
(* A stream that infers MARC 21 takes the steps of such a reader that was  *)
(* there from the start, the buffer between them notwithstanding.          *)
(***************************************************************************)
EXTENDS MARCDecoding, InferredInputStream, SequenceTheorems, WellFoundedInduction, TLAPS

(* A read that reaches the wrapped stream, seen from what it returns: it   *)
(* has moved forward, and it returns the record that begins where it       *)
(* started, or an error, or the end of the data at the end of the data.    *)
Outcome(call, offset, status, record, error) ==
  /\ StreamStatus = "Open"
  /\ offset \in pos..Len(input)
  /\ status \in Status
  /\ status = "AtEnd" => offset = Len(input)
  /\ \/ record = NoRecord /\ error \in {"MissingData", "Malformed"}
     \/ record = NoRecord /\ error = "AtEnd" /\ offset = pos /\ pos = Len(input)
     \/ /\ record = RecordAt(pos, RecordLength(input, pos))
        /\ record \in Record
        /\ LeaderIsWellFormed(input, pos)
        /\ offset = EndOf(record)
        /\ error = NoError
  /\ Return(call, offset, status, record, error)

(* What holds of the wrapped stream and of the copy of its status.         *)
AtEndIsTheEnd == inner = "AtEnd" => pos = Len(input)
OwnErrorIsInner == own = "Error" => inner \in {"Error", "Closed"}

IInv ==
  /\ TypeOK
  /\ AtEndIsTheEnd
  /\ OwnErrorIsInner
  /\ FramedUntilComplaint
  /\ EndIsComplete
  /\ NoUnitDecodedTwice

-----------------------------------------------------------------------------

(* A read of an open stream that returns its n bytes has them to return.   *)
LEMMA CountsAreBounded ==
  ASSUME TypeOK, NEW offset \in pos..Len(input), NEW n \in Nat, n > 0,
         NEW count \in ReadCounts(offset, n)
  PROVE  /\ count = ReadFailed \/ (count \in 0..n /\ offset + count <= Len(input))
         /\ count = 0 => offset = Len(input)
         /\ AfterRead(offset, count) \in Status
         /\ Advance(offset, count) \in offset..Len(input)
         /\ AfterRead(offset, count) = "AtEnd" => Advance(offset, count) = Len(input)
<1>1. Len(input) \in Nat /\ offset \in Nat
  BY DEF TypeOK
<1>2. Rest(offset, n) \in 0..n /\ offset + Rest(offset, n) <= Len(input)
  BY <1>1 DEF Rest
<1>3. Rest(offset, n) = 0 => offset = Len(input)
  BY <1>1 DEF Rest
<1>4. count = ReadFailed \/ count = Rest(offset, n) \/ count \in 1..Rest(offset, n)
  BY DEF ReadCounts
<1>5. count = ReadFailed \/ (count \in 0..n /\ offset + count <= Len(input))
  BY <1>1, <1>2, <1>4
<1>6. count = 0 => offset = Len(input)
  BY <1>1, <1>3, <1>4 DEF ReadFailed
<1>7. AfterRead(offset, count) \in Status
  BY <1>1, <1>5 DEF AfterRead, ReadFailed, Status
<1>8. Advance(offset, count) \in offset..Len(input)
  BY <1>1, <1>5 DEF Advance, ReadFailed
<1>9. AfterRead(offset, count) = "AtEnd" => Advance(offset, count) = Len(input)
  BY <1>1, <1>5, <1>6 DEF AfterRead, Advance, ReadFailed
<1> QED BY <1>5, <1>6, <1>7, <1>8, <1>9

(* A leader that was read promises a body, and the record fits a Record.   *)
LEMMA LeaderPromises ==
  ASSUME TypeOK, LeaderRead
  PROVE  /\ BodyOffset \in pos..Len(input)
         /\ BodyLength \in Nat /\ BodyLength > 0
         /\ BodyOffset + BodyLength = pos + RecordLength(input, pos)
         /\ RecordAt(pos, RecordLength(input, pos)) \in Record
<1>1. LeaderLength \in Nat /\ LeaderLength >= 2 /\ MaxRecordLength \in Nat
  BY FramingAssumption
<1>2. Len(input) \in Nat /\ pos \in 0..Len(input) /\ input \in Seq(Unit)
  BY DEF TypeOK
<1>3. pos + LeaderLength <= Len(input)
  BY <1>1, <1>2, CountsAreBounded DEF LeaderRead, ReadFailed
<1>4. input[pos + 1] \in Unit
  <2>1. pos + 1 \in 1..Len(input)
    BY <1>1, <1>2, <1>3
  <2> QED BY <1>2, <2>1
<1>5. input[pos + 1].kind = "len"
  BY DEF LeaderRead, LeaderIsWellFormed
<1>6. RecordLength(input, pos) \in (LeaderLength + 1)..MaxRecordLength
  BY <1>4, <1>5 DEF Unit, RecordLength
<1> QED BY <1>1, <1>2, <1>3, <1>6 DEF BodyOffset, BodyLength, RecordAt, Record

(* Every action of a read of an open stream that returns has an outcome.   *)
LEMMA ReadHasOutcome ==
  ASSUME TypeOK, NEW call \in Calls, ReadRecord(call)
  PROVE  \/ ReadUnopened(call)
         \/ BodyMalformed
         \/ \E offset, status, record, error :
              Outcome(call, offset, status, record, error)
<1>0. /\ LeaderLength \in Nat /\ LeaderLength > 0
      /\ Len(input) \in Nat /\ pos \in pos..Len(input)
      /\ inner \in Status
  BY FramingAssumption DEF TypeOK
<1>1. CASE NoBytesAvailable(call)
  <2>1. inner = "Open"
    BY <1>1 DEF NoBytesAvailable, StreamStatus
  <2>2. pos = Len(input)
    BY <1>0, <1>1, <2>1 DEF NoBytesAvailable, HasBytesAvailable, TypeOK
  <2>3. Outcome(call, pos, inner, NoRecord, "AtEnd")
    BY <1>0, <1>1, <2>1, <2>2 DEF NoBytesAvailable, Outcome
  <2> QED BY <2>3
<1>2. CASE LeaderUnavailable(call)
  <2>1. PICK count \in ReadCounts(pos, LeaderLength) \ {LeaderLength} :
          Return(call, Advance(pos, count), AfterRead(pos, count), NoRecord,
                 IF count = 0 THEN "AtEnd" ELSE "MissingData")
    BY <1>2 DEF LeaderUnavailable
  <2>2. StreamStatus = "Open"
    BY <1>2 DEF LeaderUnavailable, CanRead
  <2>3. count = 0 => Advance(pos, count) = pos
    BY <1>0 DEF Advance, ReadFailed, TypeOK
  <2>4. Outcome(call, Advance(pos, count), AfterRead(pos, count), NoRecord,
                IF count = 0 THEN "AtEnd" ELSE "MissingData")
    BY <1>0, <2>1, <2>2, <2>3, CountsAreBounded DEF Outcome
  <2> QED BY <2>4
<1>3. CASE LeaderMalformed(call)
  <2>1. LeaderLength \in ReadCounts(pos, LeaderLength) /\ StreamStatus = "Open"
    BY <1>3 DEF LeaderMalformed, CanRead
  <2>2. Advance(pos, LeaderLength) = pos + LeaderLength
    BY <1>0 DEF Advance, ReadFailed
  <2>3. Outcome(call, pos + LeaderLength, AfterRead(pos, LeaderLength), NoRecord,
                "Malformed")
    BY <1>0, <1>3, <2>1, <2>2, CountsAreBounded DEF Outcome, LeaderMalformed
  <2> QED BY <2>3
<1>4. CASE BodyUnavailable(call)
  <2>1. LeaderRead /\ StreamStatus = "Open"
    BY <1>4 DEF BodyUnavailable, LeaderRead, CanRead
  <2>2. PICK count \in ReadCounts(BodyOffset, BodyLength) \ {BodyLength} :
          Return(call, Advance(BodyOffset, count), AfterRead(BodyOffset, count),
                 NoRecord, "MissingData")
    BY <1>4 DEF BodyUnavailable
  <2>3. Advance(BodyOffset, count) \in BodyOffset..Len(input)
    BY <2>1, LeaderPromises, CountsAreBounded
  <2>4. Advance(BodyOffset, count) \in pos..Len(input)
    BY <1>0, <2>1, <2>3, LeaderPromises DEF TypeOK
  <2>5. Outcome(call, Advance(BodyOffset, count), AfterRead(BodyOffset, count),
                NoRecord, "MissingData")
    BY <2>1, <2>2, <2>4, LeaderPromises, CountsAreBounded DEF Outcome
  <2> QED BY <2>5
<1>5. CASE RecordRead(call)
  <2>1. /\ LeaderRead /\ StreamStatus = "Open"
        /\ BodyLength \in ReadCounts(BodyOffset, BodyLength)
        /\ LeaderIsWellFormed(input, pos)
    BY <1>5 DEF RecordRead, BodyRead, LeaderRead, CanRead
  <2>2. Advance(BodyOffset, BodyLength) = BodyOffset + BodyLength
    BY <2>1, LeaderPromises DEF Advance, ReadFailed
  <2>3. /\ BodyOffset + BodyLength \in BodyOffset..Len(input)
        /\ AfterRead(BodyOffset, BodyLength) \in Status
        /\ AfterRead(BodyOffset, BodyLength) = "AtEnd"
             => BodyOffset + BodyLength = Len(input)
    BY <2>1, <2>2, LeaderPromises, CountsAreBounded
  <2>4. BodyOffset + BodyLength \in pos..Len(input)
    BY <1>0, <2>1, <2>3, LeaderPromises DEF TypeOK
  <2>5. BodyOffset + BodyLength = EndOf(RecordAt(pos, RecordLength(input, pos)))
    BY <2>1, LeaderPromises DEF EndOf, RecordAt
  <2>6. Outcome(call, BodyOffset + BodyLength, AfterRead(BodyOffset, BodyLength),
                RecordAt(pos, RecordLength(input, pos)), NoError)
    BY <1>5, <2>1, <2>3, <2>4, <2>5, LeaderPromises DEF Outcome, RecordRead
  <2> QED BY <2>6
<1> QED BY <1>1, <1>2, <1>3, <1>4, <1>5 DEF ReadRecord

-----------------------------------------------------------------------------

LEMMA OpenedStatusIsOpenOrError ==
  ASSUME NEW status \in Status, NEW fallible \in BOOLEAN,
         NEW opened \in OpenedStatus(status, fallible)
  PROVE  /\ opened \in Status
         /\ opened = "AtEnd" => status = "AtEnd"
  BY DEF OpenedStatus, Status

LEMMA ClosedStatusIsClosed ==
  ASSUME NEW status \in Status, NEW closed \in ClosedStatus(status)
  PROVE  closed \in Status /\ closed # "AtEnd" /\ closed # "Open"
  BY DEF ClosedStatus, Status

LEMMA InitEstablishesIInv == Init => IInv
<1> SUFFICES ASSUME Init PROVE IInv
  OBVIOUS
<1>1. TypeOK
  <2>1. input \in Seq(Unit) /\ transport \in {"memory", "file", "pipe"}
    BY InputsAssumption DEF Init
  <2>2. pos \in 0..Len(input)
    BY <2>1 DEF Init
  <2>3. inner \in Status /\ own \in Status /\ ownError \in Errors
    BY DEF Init, Status, Errors, StreamErrorOf, NoError
  <2>4. delivered \in Seq(Record)
    BY DEF Init
  <2>5. complained \in BOOLEAN /\ aborted \in BOOLEAN
    BY Zenon DEF Init
  <2>6. reply \in [call : Calls \cup {"none"}, record : Record \cup {NoRecord},
                   error : Errors, ok : BOOLEAN]
    BY DEF Init, NoReply, Errors, NoError
  <2> QED BY Zenon, <2>1, <2>2, <2>3, <2>4, <2>5, <2>6 DEF TypeOK
<1>2. AtEndIsTheEnd /\ OwnErrorIsInner
  BY DEF Init, AtEndIsTheEnd, OwnErrorIsInner
<1>3. FramedUntilComplaint
  BY DEF Init, FramedUntilComplaint, IsChain, ChainEnd
<1>4. EndIsComplete
  BY DEF Init, EndIsComplete, NoReply
<1>5. NoUnitDecodedTwice
  BY DEF Init, NoUnitDecodedTwice
<1> QED BY <1>1, <1>2, <1>3, <1>4, <1>5 DEF IInv

(* The actions that leave the data, the place in it and what was delivered *)
(* alone: all that is left to show is about the statuses.                  *)
LEMMA StatusStepPreservesIInv ==
  ASSUME IInv,
         UNCHANGED <<input, transport, pos, delivered, complained, reply, aborted>>,
         inner' \in Status, own' \in Status, ownError' \in Errors,
         inner' = "AtEnd" => inner = "AtEnd",
         own' = "Error" => inner' \in {"Error", "Closed"}
  PROVE  IInv'
<1>1. TypeOK'
  BY DEF IInv, TypeOK
<1>2. AtEndIsTheEnd' /\ OwnErrorIsInner'
  BY DEF IInv, AtEndIsTheEnd, OwnErrorIsInner
<1>3. FramedUntilComplaint'
  BY DEF IInv, FramedUntilComplaint, IsChain, ChainEnd, LeaderIsWellFormed, RecordLength
<1>4. EndIsComplete'
  BY DEF IInv, EndIsComplete, ChainEnd
<1>5. NoUnitDecodedTwice'
  BY DEF IInv, NoUnitDecodedTwice
<1> QED BY <1>1, <1>2, <1>3, <1>4, <1>5 DEF IInv

(* A record that begins where the chain ends extends the chain.            *)
LEMMA ChainGrows ==
  ASSUME NEW data \in Seq(Unit), NEW records \in Seq(Record), NEW record \in Record,
         IsChain(records, data), record.at = ChainEnd(records),
         EndOf(record) <= Len(data), LeaderIsWellFormed(data, record.at),
         record.length = RecordLength(data, record.at)
  PROVE  /\ IsChain(Append(records, record), data)
         /\ ChainEnd(Append(records, record)) = EndOf(record)
<1> DEFINE longer == Append(records, record)
<1>1. /\ Len(longer) = Len(records) + 1 /\ longer # << >> /\ Len(records) \in Nat
      /\ DOMAIN longer = 1..(Len(records) + 1)
      /\ longer[Len(records) + 1] = record
      /\ \A i \in 1..Len(records) : longer[i] = records[i]
  OBVIOUS
<1>2. ASSUME NEW i \in DOMAIN longer
      PROVE  /\ longer[i].at = IF i = 1 THEN 0 ELSE EndOf(longer[i - 1])
             /\ EndOf(longer[i]) <= Len(data)
             /\ LeaderIsWellFormed(data, longer[i].at)
             /\ longer[i].length = RecordLength(data, longer[i].at)
  <2>1. CASE i \in 1..Len(records)
    <3>1. i # 1 => i - 1 \in 1..Len(records)
      BY <2>1
    <3> QED BY <1>1, <2>1, <3>1 DEF IsChain
  <2>2. CASE i = Len(records) + 1
    <3>1. longer[i] = record
      BY <1>1, <2>2
    <3>2. i = 1 => record.at = 0
      BY <1>1, <2>2 DEF ChainEnd
    <3>3. i # 1 => record.at = EndOf(longer[i - 1])
      <4>1. i # 1 => records # << >> /\ i - 1 = Len(records) /\ Len(records) \in 1..Len(records)
        BY <1>1, <2>2
      <4> QED BY <1>1, <4>1 DEF ChainEnd
    <3> QED BY <3>1, <3>2, <3>3
  <2> QED BY <1>1, <2>1, <2>2
<1>3. IsChain(longer, data)
  BY <1>2 DEF IsChain
<1>4. ChainEnd(longer) = EndOf(record)
  BY <1>1 DEF ChainEnd
<1> QED BY <1>3, <1>4

LEMMA ReadPreservesIInv ==
  ASSUME IInv, NEW call \in Calls,
         NEW offset, NEW status, NEW record, NEW error,
         Outcome(call, offset, status, record, error)
  PROVE  IInv'
<1>1. /\ TypeOK /\ Len(input) \in Nat /\ pos \in Nat /\ pos <= Len(input)
      /\ delivered \in Seq(Record)
  BY DEF IInv, TypeOK
<1>2. /\ offset \in Nat /\ pos <= offset /\ offset <= Len(input)
      /\ StreamStatus = "Open" /\ status \in Status
      /\ status = "AtEnd" => offset = Len(input)
      /\ record = NoRecord \/ record \in Record
      /\ error \in Errors /\ NoRecord \notin Record
  BY <1>1 DEF Outcome, Errors, NoError, NoRecord, RecordAt, Record
<1>3. /\ input' = input /\ transport' = transport /\ aborted' = aborted
      /\ pos' = offset /\ inner' = status
      /\ own' = IF status = "AtEnd" THEN "AtEnd"
                ELSE IF record # NoRecord THEN own
                ELSE IF error = NoError THEN "Error" ELSE "AtEnd"
      /\ ownError' = IF record = NoRecord THEN error ELSE ownError
      /\ delivered' = IF record = NoRecord THEN delivered ELSE Append(delivered, record)
      /\ complained' = (complained \/ error \notin {NoError, "AtEnd"})
      /\ reply' = Reply(call, record, error)
  BY DEF Outcome, Return
<1>4. own # "Error" /\ inner = "Open"
  BY <1>2 DEF StreamStatus
<1>5. record = NoRecord => error \in {"MissingData", "Malformed", "AtEnd"}
  BY <1>2 DEF Outcome
<1>6. TypeOK'
  <2>1. pos' \in 0..Len(input') /\ input' \in Seq(Unit)
        /\ transport' \in {"memory", "file", "pipe"} /\ inner' \in Status
    BY <1>1, <1>2, <1>3 DEF TypeOK
  <2>2. own' \in Status /\ ownError' \in Errors
    BY <1>1, <1>2, <1>3 DEF TypeOK, Status
  <2>3. delivered' \in Seq(Record)
    BY <1>1, <1>2, <1>3
  <2>4. complained' \in BOOLEAN /\ aborted' \in BOOLEAN
    BY Zenon, <1>1, <1>3 DEF TypeOK
  <2>5. reply' \in [call : Calls \cup {"none"}, record : Record \cup {NoRecord},
                    error : Errors, ok : BOOLEAN]
    BY <1>2, <1>3 DEF Reply
  <2> QED BY Zenon, <2>1, <2>2, <2>3, <2>4, <2>5 DEF TypeOK
<1>7. AtEndIsTheEnd'
  BY <1>2, <1>3 DEF AtEndIsTheEnd
<1>8. OwnErrorIsInner'
  BY <1>3, <1>4, <1>5 DEF OwnErrorIsInner, NoError
<1>9. FramedUntilComplaint'
  <2> SUFFICES ASSUME ~complained' PROVE IsChain(delivered, input)' /\ pos' = ChainEnd(delivered)'
    BY DEF FramedUntilComplaint
  <2>1. ~complained /\ error \in {NoError, "AtEnd"}
    BY <1>3
  <2>2. IsChain(delivered, input) /\ pos = ChainEnd(delivered)
    BY <2>1 DEF IInv, FramedUntilComplaint
  <2>3. CASE record = NoRecord
    <3>1. offset = pos
      BY <2>1, <2>3, <1>2 DEF Outcome, NoError, NoRecord, RecordAt, Record
    <3>2. delivered' = delivered /\ input' = input /\ pos' = pos
      BY <1>3, <2>3, <3>1
    <3> QED BY <2>2, <3>2 DEF IsChain, ChainEnd, LeaderIsWellFormed, RecordLength
  <2>4. CASE record # NoRecord
    <3>1. /\ record = RecordAt(pos, RecordLength(input, pos)) /\ record \in Record
          /\ LeaderIsWellFormed(input, pos) /\ offset = EndOf(record)
      BY <2>4 DEF Outcome
    <3>2. record.at = pos /\ record.length = RecordLength(input, pos)
      BY <3>1 DEF RecordAt
    <3>3. /\ IsChain(Append(delivered, record), input)
          /\ ChainEnd(Append(delivered, record)) = offset
      BY <1>1, <1>2, <2>2, <3>1, <3>2, ChainGrows DEF TypeOK
    <3>4. delivered' = Append(delivered, record) /\ input' = input /\ pos' = offset
      BY <1>3, <2>4
    <3> QED BY <3>3, <3>4 DEF IsChain, ChainEnd, LeaderIsWellFormed, RecordLength
  <2> QED BY <2>3, <2>4
<1>10. EndIsComplete'
  <2> SUFFICES ASSUME reply'.record = NoRecord, reply'.error \in {NoError, "AtEnd"},
                      ~complained'
               PROVE  ChainEnd(delivered)' = Len(input)'
    BY DEF EndIsComplete
  <2>1. record = NoRecord /\ error \in {NoError, "AtEnd"}
    BY <1>3 DEF Reply
  <2>2. offset = pos /\ pos = Len(input)
    BY <1>2, <2>1 DEF Outcome, NoError
  <2>3. pos' = ChainEnd(delivered)'
    BY <1>9 DEF FramedUntilComplaint
  <2> QED BY <1>3, <2>2, <2>3
<1>11. NoUnitDecodedTwice'
  <2>1. /\ \A i \in DOMAIN delivered : EndOf(delivered[i]) <= pos
        /\ \A i, j \in DOMAIN delivered : i < j => EndOf(delivered[i]) <= delivered[j].at
    BY DEF IInv, NoUnitDecodedTwice
  <2>2. \A i \in DOMAIN delivered : EndOf(delivered[i]) \in Nat
    <3>1. \A i \in DOMAIN delivered : delivered[i] \in Record
      BY <1>1
    <3> QED BY <3>1 DEF EndOf, Record
  <2>3. CASE record = NoRecord
    BY <1>1, <1>2, <1>3, <2>1, <2>2, <2>3 DEF NoUnitDecodedTwice, EndOf
  <2>4. CASE record # NoRecord
    <3>1. record.at = pos /\ EndOf(record) = offset
      BY <2>4 DEF Outcome, RecordAt
    <3> DEFINE longer == Append(delivered, record)
    <3>2. /\ DOMAIN longer = 1..(Len(delivered) + 1)
          /\ longer[Len(delivered) + 1] = record
          /\ \A i \in 1..Len(delivered) : longer[i] = delivered[i]
          /\ DOMAIN delivered = 1..Len(delivered) /\ Len(delivered) \in Nat
      BY <1>1
    <3>3. \A i \in DOMAIN longer : EndOf(longer[i]) <= offset
      BY <1>1, <1>2, <2>1, <2>2, <3>1, <3>2
    <3>4. \A i, j \in DOMAIN longer : i < j => EndOf(longer[i]) <= longer[j].at
      <4> SUFFICES ASSUME NEW i \in DOMAIN longer, NEW j \in DOMAIN longer, i < j
                   PROVE  EndOf(longer[i]) <= longer[j].at
        OBVIOUS
      <4>1. i \in DOMAIN delivered /\ longer[i] = delivered[i]
        BY <3>2
      <4>2. CASE j \in DOMAIN delivered
        BY <2>1, <3>2, <4>1, <4>2
      <4>3. CASE j = Len(delivered) + 1
        BY <2>1, <3>1, <3>2, <4>1, <4>3
      <4> QED BY <3>2, <4>2, <4>3
    <3>5. delivered' = longer /\ pos' = offset
      BY <1>3, <2>4
    <3> QED BY <3>3, <3>4, <3>5 DEF NoUnitDecodedTwice, EndOf
  <2> QED BY <2>3, <2>4
<1> QED BY <1>6, <1>7, <1>8, <1>9, <1>10, <1>11 DEF IInv

LEMMA ReadUnopenedPreservesIInv ==
  ASSUME IInv, NEW call \in Calls, ReadUnopened(call)
  PROVE  IInv'
<1>1. /\ UNCHANGED <<input, transport, pos, inner, own, ownError, delivered, complained,
                     aborted>>
      /\ StreamStatus # "Open"
  BY DEF ReadUnopened
<1> DEFINE error == IF StreamStatus = "AtEnd" THEN NoError
                    ELSE InputStreamNotOpenedError(inner)
<1>2. reply' = Reply(call, NoRecord, error)
  BY DEF ReadUnopened
<1>3. inner \in Status /\ own \in Status
  BY DEF IInv, TypeOK
<1>4. error \in {NoError, "IO", "NotOpened"}
  <2>1. CASE inner \in {"Open", "AtEnd"}
    BY <2>1 DEF InputStreamNotOpenedError
  <2>2. CASE inner = "Error"
    BY <2>2 DEF InputStreamNotOpenedError, StreamErrorOf
  <2>3. CASE inner \in {"NotOpen", "Closed"}
    BY <2>3 DEF InputStreamNotOpenedError
  <2> QED BY <1>3, <2>1, <2>2, <2>3 DEF Status
<1>5. error = NoError => pos = Len(input)
  <2>1. CASE StreamStatus = "AtEnd"
    BY <2>1 DEF StreamStatus, IInv, AtEndIsTheEnd
  <2>2. CASE own = "Error"
    BY <2>2 DEF StreamStatus, IInv, OwnErrorIsInner, InputStreamNotOpenedError,
                StreamErrorOf, NoError
  <2>3. CASE StreamStatus # "AtEnd" /\ own # "Error"
    <3>1. inner \in {"NotOpen", "Error", "Closed"}
      BY <1>1, <1>3, <2>3 DEF StreamStatus, Status
    <3> QED BY <2>3, <3>1 DEF InputStreamNotOpenedError, StreamErrorOf, NoError
  <2> QED BY <2>1, <2>2, <2>3
<1>6. TypeOK'
  <2>1. reply' \in [call : Calls \cup {"none"}, record : Record \cup {NoRecord},
                    error : Errors, ok : BOOLEAN]
    BY <1>2, <1>4 DEF Reply, Errors, NoError
  <2> QED BY Zenon, <1>1, <2>1 DEF IInv, TypeOK
<1>7. AtEndIsTheEnd' /\ OwnErrorIsInner'
  BY <1>1 DEF IInv, AtEndIsTheEnd, OwnErrorIsInner
<1>8. FramedUntilComplaint'
  BY <1>1 DEF IInv, FramedUntilComplaint, IsChain, ChainEnd, LeaderIsWellFormed, RecordLength
<1>9. EndIsComplete'
  <2> SUFFICES ASSUME reply'.error \in {NoError, "AtEnd"}, ~complained'
               PROVE  ChainEnd(delivered)' = Len(input)'
    BY DEF EndIsComplete
  <2>1. error = NoError
    BY <1>2, <1>4 DEF Reply, NoError
  <2>2. pos = ChainEnd(delivered)
    BY <1>1 DEF IInv, FramedUntilComplaint
  <2> QED BY <1>1, <1>5, <2>1, <2>2 DEF ChainEnd
<1>10. NoUnitDecodedTwice'
  BY <1>1 DEF IInv, NoUnitDecodedTwice
<1> QED BY <1>6, <1>7, <1>8, <1>9, <1>10 DEF IInv

LEMMA StepPreservesIInv == IInv /\ [Next]_vars => IInv'
<1> SUFFICES ASSUME IInv, [Next]_vars PROVE IInv'
  OBVIOUS
<1> USE DEF IInv
<1>0. inner \in Status /\ own \in Status /\ (transport # "memory") \in BOOLEAN
  BY DEF TypeOK
<1>1. CASE Open
  <2>1. inner' \in Status /\ (inner' = "AtEnd" => inner = "AtEnd")
    BY <1>0, <1>1, OpenedStatusIsOpenOrError DEF Open
  <2>2. own' = inner' /\ ownError' = StreamErrorOf(inner')
    BY <1>1 DEF Open
  <2>3. ownError' \in Errors
    BY <2>2 DEF StreamErrorOf, Errors, NoError
  <2> QED BY <1>1, <2>1, <2>2, <2>3, StatusStepPreservesIInv DEF Open
<1>2. CASE Close
  <2>1. inner' \in Status /\ inner' # "AtEnd"
    BY <1>0, <1>2, ClosedStatusIsClosed DEF Close
  <2>2. own' = inner' /\ ownError' = StreamErrorOf(inner')
    BY <1>2 DEF Close
  <2>3. ownError' \in Errors
    BY <2>2 DEF StreamErrorOf, Errors, NoError
  <2> QED BY <1>2, <2>1, <2>2, <2>3, StatusStepPreservesIInv DEF Close
<1>3. CASE OwnerOpens
  <2>1. inner' \in Status /\ (inner' = "AtEnd" => inner = "AtEnd")
    BY <1>0, <1>3, OpenedStatusIsOpenOrError DEF OwnerOpens
  <2>2. own # "Error"
    BY <1>3 DEF OwnerOpens, OwnErrorIsInner
  <2> QED BY <1>0, <1>3, <2>1, <2>2, StatusStepPreservesIInv DEF OwnerOpens, TypeOK
<1>4. CASE OwnerCloses
  <2>1. inner' \in Status /\ inner' # "AtEnd"
    BY <1>0, <1>4, ClosedStatusIsClosed DEF OwnerCloses
  <2>2. own' = "Error" => inner' \in {"Error", "Closed"}
    BY <1>4 DEF OwnerCloses, OwnErrorIsInner, ClosedStatus
  <2> QED BY <1>0, <1>4, <2>1, <2>2, StatusStepPreservesIInv DEF OwnerCloses, TypeOK
<1>5. ASSUME NEW call \in Calls, ReadRecord(call) PROVE IInv'
  <2>1. CASE ReadUnopened(call)
    BY <2>1, ReadUnopenedPreservesIInv
  <2>2. CASE BodyMalformed
    <3>1. /\ UNCHANGED <<input, transport, pos, inner, own, ownError, delivered,
                         complained, reply>>
          /\ aborted' \in BOOLEAN
      BY Zenon, <2>2 DEF BodyMalformed
    <3>2. TypeOK'
      BY Zenon, <3>1 DEF TypeOK
    <3>3. AtEndIsTheEnd' /\ OwnErrorIsInner' /\ EndIsComplete' /\ NoUnitDecodedTwice'
      BY <3>1 DEF AtEndIsTheEnd, OwnErrorIsInner, EndIsComplete, NoUnitDecodedTwice,
                  ChainEnd
    <3>4. FramedUntilComplaint'
      BY <3>1 DEF FramedUntilComplaint, IsChain, ChainEnd, LeaderIsWellFormed,
                  RecordLength
    <3> QED BY <3>2, <3>3, <3>4
  <2>3. CASE \E offset, status, record, error :
               Outcome(call, offset, status, record, error)
    BY <2>3, ReadPreservesIInv
  <2> QED BY <1>5, <2>1, <2>2, <2>3, ReadHasOutcome
<1>6. CASE UNCHANGED vars
  <2>1. TypeOK'
    BY Zenon, <1>6 DEF TypeOK, vars
  <2>2. AtEndIsTheEnd' /\ OwnErrorIsInner' /\ EndIsComplete' /\ NoUnitDecodedTwice'
    BY <1>6 DEF AtEndIsTheEnd, OwnErrorIsInner, EndIsComplete, NoUnitDecodedTwice,
                ChainEnd, vars
  <2>3. FramedUntilComplaint'
    BY <1>6 DEF FramedUntilComplaint, IsChain, ChainEnd, LeaderIsWellFormed,
                RecordLength, vars
  <2> QED BY <2>1, <2>2, <2>3
<1> QED BY <1>1, <1>2, <1>3, <1>4, <1>5, <1>6 DEF Next

-----------------------------------------------------------------------------

(* IInv is an inductive invariant of the stream.                           *)
THEOREM IInvIsInvariant == Spec => []IInv
<1>1. Init => IInv
  BY InitEstablishesIInv
<1>2. IInv /\ [Next]_vars => IInv'
  BY StepPreservesIInv
<1> QED BY <1>1, <1>2, PTL DEF Spec

(* The state of a BibMARCInputStream keeps its type, whatever its client   *)
(* and the creator of the wrapped stream do.                               *)
THEOREM TypeCorrect == Spec => []TypeOK
<1>1. IInv => TypeOK
  BY DEF IInv
<1> QED BY <1>1, IInvIsInvariant, PTL

(* Until readRecord: returns an error, what it has returned is the start   *)
(* of the data cut into records, with nothing left out.                    *)
THEOREM Framed == Spec => []FramedUntilComplaint
<1>1. IInv => FramedUntilComplaint
  BY DEF IInv
<1> QED BY <1>1, IInvIsInvariant, PTL

(* When readRecord: says that there are no more records, and has returned  *)
(* no error before, it has returned all of the data.                       *)
THEOREM CompleteAtEnd == Spec => []EndIsComplete
<1>1. IInv => EndIsComplete
  BY DEF IInv
<1> QED BY <1>1, IInvIsInvariant, PTL

(* Even a stream that has lost its place in the data never returns records *)
(* that overlap.                                                           *)
THEOREM DecodedOnce == Spec => []NoUnitDecodedTwice
<1>1. IInv => NoUnitDecodedTwice
  BY DEF IInv
<1> QED BY <1>1, IInvIsInvariant, PTL

-----------------------------------------------------------------------------
(* Decoding in one call.                                                   *)

(* A set of numbers that has one has a least one.                          *)
LEMMA LeastNumber ==
  ASSUME NEW D, D \subseteq Nat, D # {}
  PROVE  \E x \in D : \A y \in D : x <= y
<1> DEFINE Less == {ss \in Nat \X Nat : ss[1] < ss[2]}
<1>1. IsWellFoundedOn(Less, Nat)
  BY NatLessThanWellFounded DEF OpToRel
<1> HIDE DEF Less
<1>2. PICK x \in D : \A y \in D : ~(<<y, x>> \in Less)
  BY <1>1, WFMin
<1>3. ASSUME NEW y \in D PROVE x <= y
  <2>1. x \in Nat /\ y \in Nat
    OBVIOUS
  <2>2. y < x => <<y, x>> \in Less
    BY <2>1 DEF Less
  <2> QED BY <1>2, <2>1, <2>2
<1> QED BY <1>3

(* What holds of 0, and of a number when it holds of the one before.       *)
LEMMA UpTo ==
  ASSUME NEW n \in Nat, NEW S, 0 \in S, \A k \in 1..n : k - 1 \in S => k \in S
  PROVE  \A k \in 0..n : k \in S
<1> DEFINE D == {k \in 0..n : k \notin S}
<1>1. SUFFICES ASSUME D # {} PROVE FALSE
  OBVIOUS
<1>2. PICK x \in D : \A y \in D : x <= y
  <2>1. D \subseteq Nat
    OBVIOUS
  <2> HIDE DEF D
  <2> QED BY <1>1, <2>1, LeastNumber
<1>3. x \in 1..n /\ x - 1 \in 0..n
  OBVIOUS
<1>4. x - 1 \notin D
  BY <1>2, <1>3
<1> QED BY <1>3, <1>4

(* A record is read from behind its offset up to no more than the end.     *)
LEMMA RecordsMoveOn ==
  ASSUME NEW data \in Seq(Unit), NEW offset \in 0..Len(data),
         RecordFromData(data, offset).record # NoRecord
  PROVE  EndOf(RecordFromData(data, offset).record) \in (offset + 1)..Len(data)
<1> DEFINE length == RecordLength(data, offset)
<1>1. /\ LeaderLength \in Nat /\ LeaderLength >= 2 /\ MaxRecordLength \in Nat
      /\ Len(data) \in Nat
  BY FramingAssumption
<1>2. /\ Len(data) - offset >= LeaderLength
      /\ LeaderIsWellFormed(data, offset)
      /\ Len(data) - offset >= length
      /\ RecordFromData(data, offset).record = RecordAt(offset, length)
  <2> HIDE DEF length
  <2>1. \A x, e, a : [record |-> x, error |-> e, aborted |-> a].record = x
    OBVIOUS
  <2>2. Len(data) - offset < LeaderLength <=> ~(Len(data) - offset >= LeaderLength)
    BY <1>1
  <2>3. CASE Len(data) - offset >= LeaderLength
    <3>1. offset # Len(data)
      BY <1>1, <2>3
    <3>2. LeaderIsWellFormed(data, offset)
      BY <2>1, <2>2, <2>3, <3>1 DEF RecordFromData
    <3>3. ~(Len(data) - offset < RecordLength(data, offset))
      BY <2>1, <2>2, <2>3, <3>1, <3>2 DEF RecordFromData
    <3>4. RecordFromData(data, offset).record = RecordAt(offset, RecordLength(data, offset))
      BY <2>1, <2>2, <2>3, <3>1, <3>2, <3>3 DEF RecordFromData
    <3>5. RecordLength(data, offset) \in Nat
      <4>1. data[offset + 1] \in Unit
        BY <1>1, <2>3, ElementOfSeq
      <4> QED BY <1>1, <4>1 DEF Unit, RecordLength
    <3>6. length = RecordLength(data, offset)
      BY DEF length
    <3> QED BY <1>1, <2>3, <3>2, <3>3, <3>4, <3>5, <3>6
  <2>4. CASE ~(Len(data) - offset >= LeaderLength)
    BY <2>1, <2>2, <2>4 DEF RecordFromData
  <2> QED BY <2>3, <2>4
<1>3. data[offset + 1] \in Unit
  BY <1>1, <1>2, ElementOfSeq
<1>4. length \in (LeaderLength + 1)..MaxRecordLength
  BY <1>2, <1>3 DEF Unit, RecordLength, LeaderIsWellFormed
<1> HIDE DEF length
<1>5. EndOf(RecordAt(offset, length)) = offset + length
  BY DEF EndOf, RecordAt
<1> QED BY <1>1, <1>2, <1>4, <1>5

(* The loop from an offset on, when it is known from the next one on.      *)
FromOffset(f, data, offset) ==
  LET read == RecordFromData(data, offset)
      next == EndOf(read.record)
  IN  IF read.record = NoRecord
      THEN [records |-> << >>, error |-> read.error, aborted |-> read.aborted]
      ELSE IF next = Len(data)
      THEN [records |-> <<read.record>>, error |-> NoError, aborted |-> FALSE]
      ELSE [f[next] EXCEPT !.records = <<read.record>> \o @]

IsFrom(f, data) == f = [offset \in 0..Len(data) |-> FromOffset(f, data, offset)]

(* It looks only at the next one.                                          *)
LEMMA FromOffsetLooksAhead ==
  ASSUME NEW data \in Seq(Unit), NEW offset \in 0..Len(data), NEW f, NEW g,
         \A k \in (offset + 1)..Len(data) : f[k] = g[k]
  PROVE  FromOffset(f, data, offset) = FromOffset(g, data, offset)
<1> DEFINE read == RecordFromData(data, offset)
<1>1. CASE read.record = NoRecord
  BY <1>1 DEF FromOffset
<1>2. CASE read.record # NoRecord
  <2>1. EndOf(read.record) \in (offset + 1)..Len(data)
    BY <1>2, RecordsMoveOn
  <2>2. f[EndOf(read.record)] = g[EndOf(read.record)]
    BY <2>1
  <2> HIDE DEF read
  <2> QED BY <2>2 DEF FromOffset, read
<1> QED BY <1>1, <1>2

LEMMA FromExists ==
  ASSUME NEW data \in Seq(Unit)
  PROVE  \E f : IsFrom(f, data)
<1> DEFINE n == Len(data)
           IsPart(g, m) == g = [k \in (n - m)..n |-> FromOffset(g, data, k)]
           S == {m \in 0..n : \E g : IsPart(g, m)}
<1>1. n \in Nat
  OBVIOUS
<1>2. 0 \in S
  <2> DEFINE g == [k \in (n - 0)..n |-> FromOffset(<< >>, data, k)]
  <2>1. n \in 0..Len(data) /\ (n - 0)..n = {n} /\ (n + 1)..Len(data) = {}
    BY <1>1
  <2>2. FromOffset(<< >>, data, n) = FromOffset(g, data, n)
    <3> HIDE DEF g
    <3> QED BY <2>1, FromOffsetLooksAhead
  <2>3. g = [k \in (n - 0)..n |-> FromOffset(g, data, k)]
    <3>1. \A k \in (n - 0)..n : FromOffset(<< >>, data, k) = FromOffset(g, data, k)
      <4> HIDE DEF g
      <4> QED BY <2>1, <2>2
    <3> DEFINE h == [k \in (n - 0)..n |-> FromOffset(g, data, k)]
    <3>2. g = h
      <4> DEFINE A(k) == FromOffset(<< >>, data, k)
                 B(k) == FromOffset(g, data, k)
      <4>1. \A k \in (n - 0)..n : A(k) = B(k)
        BY <3>1
      <4>2. g = [k \in (n - 0)..n |-> A(k)] /\ h = [k \in (n - 0)..n |-> B(k)]
        OBVIOUS
      <4> HIDE DEF g, h, A, B
      <4> QED BY <4>1, <4>2
    <3> QED BY <3>2
  <2>4. IsPart(g, 0)
    BY <2>3
  <2> HIDE DEF g, IsPart
  <2> QED BY <1>1, <2>4
<1>3. ASSUME NEW m \in 1..n, m - 1 \in S
      PROVE  m \in S
  <2>1. PICK g : IsPart(g, m - 1)
    BY <1>3
  <2> DEFINE h == [k \in (n - m)..n |-> IF k = n - m THEN FromOffset(g, data, n - m) ELSE g[k]]
  <2>2. \A k \in (n - m + 1)..n : g[k] = FromOffset(g, data, k)
    <3>1. n - (m - 1) = n - m + 1
      BY <1>1
    <3> QED BY <2>1, <3>1
  <2>3. \A k \in (n - m + 1)..n : h[k] = g[k]
    BY <1>1
  <2>4. h[n - m] = FromOffset(g, data, n - m)
    BY <1>1
  <2>5. h = [k \in (n - m)..n |-> h[k]]
    OBVIOUS
  <2> HIDE DEF h
  <2>6. ASSUME NEW k \in (n - m)..n
        PROVE  h[k] = FromOffset(h, data, k)
    <3>1. k \in 0..Len(data) /\ \A j \in (k + 1)..Len(data) : h[j] = g[j]
      BY <1>1, <2>3
    <3>2. FromOffset(h, data, k) = FromOffset(g, data, k)
      BY <3>1, FromOffsetLooksAhead
    <3>3. k = n - m \/ k \in (n - m + 1)..n
      BY <1>1
    <3> QED BY <2>2, <2>3, <2>4, <3>2, <3>3
  <2>7. IsPart(h, m)
    BY <2>5, <2>6
  <2> HIDE DEF IsPart
  <2> QED BY <2>7
<1> HIDE DEF S
<1>4. \A m \in 1..n : m - 1 \in S => m \in S
  BY <1>3
<1>5. n \in S
  <2> HIDE DEF n
  <2>1. \A m \in 0..n : m \in S
    BY <1>1, <1>2, <1>4, UpTo
  <2> QED BY <1>1, <2>1
<1>6. PICK g : IsPart(g, n)
  BY <1>5 DEF S
<1>7. n - n = 0
  BY <1>1
<1>8. IsFrom(g, data)
  BY <1>6, <1>7 DEF IsFrom
<1> QED BY <1>8

LEMMA RecordsFromIs ==
  ASSUME NEW data \in Seq(Unit), NEW offset \in 0..Len(data)
  PROVE  RecordsFrom(data)[offset] = FromOffset(RecordsFrom(data), data, offset)
<1> DEFINE f == CHOOSE f : IsFrom(f, data)
<1>1. IsFrom(f, data)
  BY FromExists
<1>2. RecordsFrom(data) = f
  BY DEF RecordsFrom, IsFrom, FromOffset
<1> HIDE DEF f
<1> QED BY <1>1, <1>2 DEF IsFrom

(* Records that the data is made of, with nothing left over.               *)
Decodable(records, data) ==
  /\ records # << >>
  /\ \A i \in DOMAIN records :
       /\ records[i].at = IF i = 1 THEN 0 ELSE EndOf(records[i - 1])
       /\ EndOf(records[i]) <= Len(data)
       /\ records[i].length > LeaderLength
       /\ LeaderIsWellFormed(data, records[i].at)
       /\ records[i].length = RecordLength(data, records[i].at)
       /\ BodyIsWellFormed(data, records[i].at, records[i].length)
  /\ EndOf(records[Len(records)]) = Len(data)

(* What one step of the loop makes of one of them.                         *)
LEMMA DecodableIsRead ==
  ASSUME NEW data \in Seq(Unit), NEW records \in Seq(Record), Decodable(records, data),
         NEW i \in 1..Len(records)
  PROVE  /\ records[i].at \in 0..Len(data)
         /\ records[i] # NoRecord
         /\ RecordFromData(data, records[i].at) =
              [record |-> records[i], error |-> NoError, aborted |-> FALSE]
<1> DEFINE at == records[i].at
           length == records[i].length
<1>1. /\ LeaderLength \in Nat /\ LeaderLength >= 2 /\ Len(data) \in Nat
  BY FramingAssumption
<1>2. records[i] \in [at : Nat, length : Nat]
  BY ElementOfSeq DEF Record
<1>3. records[i] = RecordAt(at, length) /\ at \in Nat /\ length \in Nat
  BY <1>2 DEF RecordAt
<1>4. /\ at + length <= Len(data) /\ length > LeaderLength
      /\ LeaderIsWellFormed(data, at) /\ length = RecordLength(data, at)
      /\ BodyIsWellFormed(data, at, length)
  BY DEF Decodable, EndOf
<1> HIDE DEF at, length
<1>5. RecordAt(at, length) # NoRecord
  BY <1>3 DEF RecordAt, NoRecord
<1>6. /\ at # Len(data) /\ ~(Len(data) - at < LeaderLength) /\ ~(Len(data) - at < length)
      /\ at \in 0..Len(data)
  BY <1>1, <1>3, <1>4
<1>7. RecordFromData(data, at) =
        [record |-> RecordAt(at, length), error |-> NoError, aborted |-> FALSE]
  BY <1>4, <1>6 DEF RecordFromData
<1> QED BY <1>3, <1>5, <1>6, <1>7 DEF at

Behind(record, rest) == [rest EXCEPT !.records = <<record>> \o @]

AfterRecord(f, data, record) ==
  IF EndOf(record) = Len(data)
  THEN [records |-> <<record>>, error |-> NoError, aborted |-> FALSE]
  ELSE Behind(record, f[EndOf(record)])

LEMMA FromOffsetIs ==
  ASSUME NEW f, NEW data, NEW offset, NEW record, record # NoRecord,
         RecordFromData(data, offset) =
           [record |-> record, error |-> NoError, aborted |-> FALSE]
  PROVE  FromOffset(f, data, offset) = AfterRecord(f, data, record)
<1>1. RecordFromData(data, offset).record = record
  OBVIOUS
<1> QED BY <1>1 DEF FromOffset, AfterRecord, Behind

LEMMA AllAreRead ==
  ASSUME NEW data \in Seq(Unit), NEW records \in Seq(Record), Decodable(records, data)
  PROVE  RecordsFrom(data)[0] = [records |-> records, error |-> NoError, aborted |-> FALSE]
<1> DEFINE n == Len(records)
           RestFrom(i) == [j \in 1..(n - i + 1) |-> records[i + j - 1]]
           Read(i) == [records |-> RestFrom(i), error |-> NoError, aborted |-> FALSE]
           f == RecordsFrom(data)
           S == {m \in 0..(n - 1) : f[records[n - m].at] = Read(n - m)}
<1>1. /\ n \in Nat /\ n >= 1 /\ n - 1 \in Nat
      /\ records = [j \in 1..n |-> records[j]]
  <2>1. records # << >>
    BY DEF Decodable
  <2> QED BY <2>1
<1>2. ASSUME NEW i \in 1..n
      PROVE  /\ f[records[i].at] = FromOffset(f, data, records[i].at)
             /\ FromOffset(f, data, records[i].at) = AfterRecord(f, data, records[i])
  <2>1. /\ records[i].at \in 0..Len(data) /\ records[i] # NoRecord
        /\ RecordFromData(data, records[i].at) =
             [record |-> records[i], error |-> NoError, aborted |-> FALSE]
    BY DecodableIsRead
  <2>2. f[records[i].at] = FromOffset(f, data, records[i].at)
    BY <2>1, RecordsFromIs
  <2> HIDE DEF f
  <2>3. FromOffset(f, data, records[i].at) = AfterRecord(f, data, records[i])
    BY <2>1, FromOffsetIs
  <2> QED BY <2>2, <2>3
<1> HIDE DEF f
<1>3. 0 \in S
  <2>1. n - 0 = n /\ n \in 1..n
    BY <1>1
  <2>2. EndOf(records[n]) = Len(data)
    BY DEF Decodable
  <2>3. FromOffset(f, data, records[n].at) =
          [records |-> <<records[n]>>, error |-> NoError, aborted |-> FALSE]
    BY <1>2, <2>1, <2>2 DEF AfterRecord
  <2>4. RestFrom(n) = <<records[n]>>
    <3>1. n - n + 1 = 1 /\ n + 1 - 1 = n
      BY <1>1
    <3> QED BY <3>1
  <2>5. f[records[n].at] = Read(n)
    BY <1>2, <2>1, <2>3, <2>4
  <2> HIDE DEF RestFrom, Read
  <2> QED BY <1>1, <2>1, <2>5
<1>4. ASSUME NEW m \in 1..(n - 1), m - 1 \in S
      PROVE  m \in S
  <2> DEFINE i == n - m
  <2>1. /\ i \in 1..n /\ i + 1 \in 1..n /\ n - (m - 1) = i + 1 /\ n - m = i /\ i # n
        /\ n - (i + 1) + 1 = n - i /\ n - i \in Nat
    BY <1>1
  <2>2. f[records[i + 1].at] = Read(i + 1)
    <3> HIDE DEF Read
    <3> QED BY <1>4, <2>1
  <2> HIDE DEF i
  <2>3. EndOf(records[i]) = records[i + 1].at
    <3>1. PICK k \in DOMAIN records : k = i + 1 /\ k # 1 /\ k - 1 = i
      BY <1>1, <2>1
    <3>2. records[k].at = EndOf(records[k - 1])
      BY <3>1 DEF Decodable
    <3> QED BY <3>1, <3>2
  <2>4. EndOf(records[i]) # Len(data)
    <3>1. records[i + 1] \in [at : Nat, length : Nat]
      BY <2>1, ElementOfSeq DEF Record
    <3>2. /\ records[i + 1].at + records[i + 1].length <= Len(data)
          /\ records[i + 1].length > LeaderLength
      <4>1. i + 1 \in DOMAIN records
        BY <2>1
      <4> QED BY <4>1 DEF Decodable, EndOf
    <3>3. LeaderLength \in Nat /\ Len(data) \in Nat
      BY FramingAssumption
    <3> QED BY <2>3, <3>1, <3>2, <3>3
  <2>5. f[records[i].at] = Behind(records[i], f[records[i + 1].at])
    <3>1. f[records[i].at] = Behind(records[i], f[EndOf(records[i])])
      BY <1>2, <2>1, <2>4 DEF AfterRecord
    <3> QED BY <2>3, <3>1
  <2>6. f[records[i].at] = [records |-> <<records[i]>> \o RestFrom(i + 1), error |-> NoError,
                            aborted |-> FALSE]
    <3>1. ASSUME NEW r, NEW t
          PROVE  Behind(r, [records |-> t, error |-> NoError, aborted |-> FALSE])
                   = [records |-> <<r>> \o t, error |-> NoError, aborted |-> FALSE]
      <4> DEFINE b == [records |-> t, error |-> NoError, aborted |-> FALSE]
                 u == <<r>> \o t
                 x == [b EXCEPT !.records = u]
      <4>1. Behind(r, b) = x
        BY DEF Behind
      <4> HIDE DEF u
      <4>2. /\ b.error = NoError /\ b.aborted = FALSE
            /\ DOMAIN b = {"records", "error", "aborted"}
            /\ b = [k \in DOMAIN b |-> b[k]]
        OBVIOUS
      <4> HIDE DEF b
      <4>3. /\ x.records = u /\ x.error = NoError /\ x.aborted = FALSE
            /\ DOMAIN x = {"records", "error", "aborted"}
            /\ x = [k \in DOMAIN x |-> x[k]]
        BY <4>2
      <4> HIDE DEF x
      <4>4. x = [records |-> u, error |-> NoError, aborted |-> FALSE]
        BY <4>3
      <4> QED BY <4>1, <4>4 DEF b, u
    <3> HIDE DEF RestFrom
    <3> QED BY <2>2, <2>5, <3>1
  <2>7. <<records[i]>> \o RestFrom(i + 1) = RestFrom(i)
    <3>1. RestFrom(i + 1) = [j \in 1..(n - i) |-> records[i + j]]
      <4>1. \A j \in 1..(n - i) : i + 1 + j - 1 = i + j
        BY <2>1
      <4> QED BY <2>1, <4>1
    <3>2. \A j \in 1..(n - i) : records[i + j] \in Record
      BY <1>1, <2>1, ElementOfSeq
    <3> DEFINE t == [j \in 1..(n - i) |-> records[i + j]]
    <3>3. t \in Seq(Record) /\ Len(t) = n - i
      <4>1. t \in [1..(n - i) -> Record]
        BY <3>2
      <4> QED BY <2>1, <4>1
    <3>4. \A j \in 1..(n - i) : t[j] = records[i + j]
      OBVIOUS
    <3> HIDE DEF t
    <3>5. <<records[i]>> \o t
            = [j \in 1..(n - i + 1) |-> IF j = 1 THEN records[i] ELSE t[j - 1]]
      <4> DEFINE a == <<records[i]>>
      <4>1. a \in Seq(Record) /\ Len(a) = 1 /\ a[1] = records[i]
        BY <2>1, ElementOfSeq
      <4> HIDE DEF a
      <4>2. a \o t \in Seq(Record) /\ Len(a \o t) = n - i + 1
        <5>1. t \in Seq(Record) /\ a \in Seq(Record)
          BY <3>3, <4>1
        <5>2. a \o t \in Seq(Record) /\ Len(a \o t) = Len(a) + Len(t)
          BY <5>1, ConcatProperties
        <5>3. n - i + 1 = 1 + (n - i)
          BY <2>1
        <5> QED BY <3>3, <4>1, <5>2, <5>3
      <4>3. \A j \in 1..(n - i + 1) : (a \o t)[j] = IF j = 1 THEN records[i] ELSE t[j - 1]
        <5>1. \A j \in 1..(Len(a) + Len(t)) :
                (a \o t)[j] = IF j <= Len(a) THEN a[j] ELSE t[j - Len(a)]
          BY <3>3, <4>1, ConcatProperties
        <5>2. n - i + 1 = 1 + (n - i)
          BY <2>1
        <5>3. \A j \in 1..(n - i + 1) :
                (a \o t)[j] = IF j <= 1 THEN a[j] ELSE t[j - 1]
          BY <3>3, <4>1, <5>1, <5>2
        <5>4. \A j \in 1..(n - i + 1) : j <= 1 <=> j = 1
          OBVIOUS
        <5> QED BY <4>1, <5>3, <5>4
      <4>4. a \o t = [j \in 1..(n - i + 1) |-> (a \o t)[j]]
        <5> DEFINE u == a \o t
        <5>1. u \in Seq(Record) /\ Len(u) = n - i + 1
          BY <4>2
        <5> HIDE DEF u
        <5>2. u = [j \in 1..(n - i + 1) |-> u[j]]
          BY <5>1
        <5> QED BY <5>2 DEF u
      <4> QED BY <4>3, <4>4 DEF a
    <3>6. \A j \in 1..(n - i + 1) :
            (IF j = 1 THEN records[i] ELSE t[j - 1]) = records[i + j - 1]
      <4> TAKE j \in 1..(n - i + 1)
      <4>1. CASE j = 1
        <5>1. i + j - 1 = i
          BY <2>1, <4>1
        <5> QED BY <4>1, <5>1
      <4>2. CASE j # 1
        <5>1. j - 1 \in 1..(n - i) /\ i + (j - 1) = i + j - 1
          BY <2>1, <4>2
        <5> QED BY <3>4, <4>2, <5>1
      <4> QED BY <4>1, <4>2
    <3>7. <<records[i]>> \o t = RestFrom(i)
      BY <3>5, <3>6
    <3>8. RestFrom(i + 1) = t
      BY <3>1 DEF t
    <3> HIDE DEF RestFrom
    <3> QED BY <3>7, <3>8
  <2>8. f[records[i].at] = Read(i)
    <3> HIDE DEF RestFrom
    <3> QED BY <2>6, <2>7
  <2>9. m \in 0..(n - 1)
    BY <1>1
  <2> HIDE DEF Read
  <2> QED BY <2>1, <2>8, <2>9
<1>5. n - 1 \in S
  <2> HIDE DEF S
  <2>1. \A m \in 1..(n - 1) : m - 1 \in S => m \in S
    BY <1>4
  <2> HIDE DEF n
  <2>2. \A m \in 0..(n - 1) : m \in S
    BY <1>1, <1>3, <2>1, UpTo
  <2> QED BY <1>1, <2>2
<1>6. f[records[1].at] = Read(1)
  <2>1. n - (n - 1) = 1
    BY <1>1
  <2> HIDE DEF Read, n
  <2> QED BY <1>5, <2>1
<1>7. records[1].at = 0
  BY <1>1 DEF Decodable
<1>8. RestFrom(1) = records
  <2>1. n - 1 + 1 = n /\ \A j \in 1..n : 1 + j - 1 = j
    BY <1>1
  <2>2. RestFrom(1) = [j \in 1..n |-> records[j]]
    BY <2>1
  <2> HIDE DEF RestFrom
  <2> QED BY <1>1, <2>2
<1> HIDE DEF RestFrom
<1> QED BY <1>6, <1>7, <1>8 DEF f

LEMMA DecodedInOneCall ==
  ASSUME NEW data \in Seq(Unit), NEW records \in Seq(Record), Decodable(records, data)
  PROVE  RecordsFromData(data) =
           [nil |-> FALSE, records |-> records, error |-> NoError, aborted |-> FALSE]
<1>1. 1 \in 1..Len(records) /\ records[1].at = 0
  <2>1. records # << >>
    BY DEF Decodable
  <2>2. 1 \in 1..Len(records)
    BY <2>1
  <2> QED BY <2>2 DEF Decodable
<1>2. RecordFromData(data, 0).record # NoRecord
  <2>1. /\ records[1] # NoRecord
        /\ RecordFromData(data, records[1].at) =
             [record |-> records[1], error |-> NoError, aborted |-> FALSE]
    BY <1>1, DecodableIsRead
  <2>2. RecordFromData(data, records[1].at).record = records[1]
    BY <2>1
  <2> QED BY <1>1, <2>1, <2>2
<1>3. RecordsFrom(data)[0] = [records |-> records, error |-> NoError, aborted |-> FALSE]
  BY AllAreRead
<1> DEFINE all == RecordsFrom(data)[0]
<1>4. all.error = NoError /\ all.records = records /\ all.aborted = FALSE
  BY <1>3
<1>5. RecordsFromData(data) =
        [nil     |-> all.error # NoError,
         records |-> IF all.error # NoError THEN << >> ELSE all.records,
         error   |-> all.error,
         aborted |-> all.aborted]
  BY <1>2 DEF RecordsFromData
<1> HIDE DEF all
<1> QED BY <1>4, <1>5

-----------------------------------------------------------------------------
(* The two ways of decoding.                                               *)

(* Every record returned has been decoded from a leader and a body.        *)
BodiesAreDecoded ==
  \A i \in DOMAIN delivered :
    /\ delivered[i].length > LeaderLength
    /\ BodyIsWellFormed(input, delivered[i].at, delivered[i].length)

LEMMA StepKeepsBodies ==
  ASSUME TypeOK, BodiesAreDecoded, [Next]_vars
  PROVE  BodiesAreDecoded'
<1>1. CASE UNCHANGED <<input, delivered>>
  BY <1>1 DEF BodiesAreDecoded, BodyIsWellFormed
<1>2. ASSUME NEW call \in Calls, RecordRead(call)
      PROVE  BodiesAreDecoded'
  <2> DEFINE record == RecordAt(pos, RecordLength(input, pos))
  <2>1. LeaderRead
    BY <1>2 DEF RecordRead, BodyRead
  <2>2. record \in Record /\ record.length > LeaderLength
    <3>1. /\ RecordAt(pos, RecordLength(input, pos)) \in Record
          /\ BodyLength \in Nat /\ BodyLength > 0
      BY <2>1, LeaderPromises
    <3>2. record.length = RecordLength(input, pos) /\ RecordLength(input, pos) \in Nat
      BY <3>1 DEF RecordAt, Record
    <3>3. LeaderLength \in Nat
      BY FramingAssumption
    <3> QED BY <3>1, <3>2, <3>3 DEF BodyLength
  <2>3. record # NoRecord
    BY <2>2 DEF NoRecord, RecordAt, Record
  <2>4. BodyIsWellFormed(input, record.at, record.length)
    BY <1>2 DEF RecordRead, RecordAt
  <2>5. input' = input /\ delivered' = Append(delivered, record)
    BY <1>2, <2>3 DEF RecordRead, Return
  <2>6. delivered \in Seq(Record) /\ Len(delivered) \in Nat
    BY DEF TypeOK
  <2> HIDE DEF record
  <2>7. ASSUME NEW i \in DOMAIN delivered'
        PROVE  /\ delivered'[i].length > LeaderLength
               /\ BodyIsWellFormed(input, delivered'[i].at, delivered'[i].length)
    <3>1. CASE i \in 1..Len(delivered)
      <4>1. delivered'[i] = delivered[i] /\ i \in DOMAIN delivered
        BY <2>2, <2>5, <2>6, <3>1
      <4> QED BY <4>1 DEF BodiesAreDecoded
    <3>2. CASE i = Len(delivered) + 1
      <4>1. delivered'[i] = record
        BY <2>2, <2>5, <2>6, <3>2
      <4> QED BY <2>2, <2>4, <4>1
    <3>3. i \in 1..(Len(delivered) + 1)
      BY <2>2, <2>5, <2>6
    <3> QED BY <2>6, <3>1, <3>2, <3>3
  <2> QED BY <2>5, <2>7 DEF BodiesAreDecoded, BodyIsWellFormed
<1>3. CASE Next
  <2>1. ASSUME NEW call \in Calls, ReadRecord(call)
        PROVE  BodiesAreDecoded'
    <3>1. CASE RecordRead(call)
      BY <1>2, <3>1
    <3>2. CASE ~RecordRead(call)
      <4>1. UNCHANGED <<input, delivered>>
        BY <2>1, <3>2 DEF ReadRecord, ReadUnopened, NoBytesAvailable, LeaderUnavailable,
                          LeaderMalformed, BodyUnavailable, BodyMalformed, Return
      <4> QED BY <1>1, <4>1
    <3> QED BY <3>1, <3>2
  <2>2. CASE Open \/ Close \/ OwnerOpens \/ OwnerCloses
    <3>1. UNCHANGED <<input, delivered>>
      BY <2>2 DEF Open, Close, OwnerOpens, OwnerCloses
    <3> QED BY <1>1, <3>1
  <2> QED BY <1>3, <2>1, <2>2 DEF Next
<1>4. CASE UNCHANGED vars
  BY <1>1, <1>4 DEF vars
<1> QED BY <1>3, <1>4

(* When a client is told that there are no more records, and of no other   *)
(* error, one call of +recordsFromData:error: would have given it the same *)
(* records.                                                                *)
LEMMA SameRecords ==
  ASSUME IInv, BodiesAreDecoded
  PROVE  WaysOfDecodingAgree
<1> SUFFICES ASSUME reply.call # "none", reply.record = NoRecord,
                    reply.error \in {NoError, "AtEnd"}, ~complained
             PROVE  /\ RecordsFromData(input).records = delivered
                    /\ RecordsFromData(input).error
                         = IF input = << >> THEN "AtEnd" ELSE NoError
  BY DEF WaysOfDecodingAgree
<1>1. /\ input \in Seq(Unit) /\ delivered \in Seq(Record)
      /\ IsChain(delivered, input) /\ ChainEnd(delivered) = Len(input)
  BY DEF IInv, TypeOK, FramedUntilComplaint, EndIsComplete
<1>2. CASE delivered = << >>
  <2>1. Len(input) = 0
    BY <1>1, <1>2 DEF ChainEnd
  <2>2. input = << >>
    BY <1>1, <2>1
  <2>3. RecordFromData(input, 0) = [record |-> NoRecord, error |-> "AtEnd", aborted |-> FALSE]
    BY <2>1 DEF RecordFromData
  <2>4. /\ RecordFromData(input, 0).record = NoRecord
        /\ RecordFromData(input, 0).error = "AtEnd"
    BY <2>3
  <2> QED BY <1>2, <2>2, <2>4 DEF RecordsFromData
<1>3. CASE delivered # << >>
  <2>1. Decodable(delivered, input)
    BY <1>1, <1>3 DEF Decodable, IsChain, ChainEnd, BodiesAreDecoded
  <2>2. RecordsFromData(input) =
          [nil |-> FALSE, records |-> delivered, error |-> NoError, aborted |-> FALSE]
    BY <1>1, <2>1, DecodedInOneCall
  <2>3. input # << >>
    <3>1. 1 \in DOMAIN delivered /\ delivered[1] \in [at : Nat, length : Nat]
      <4>1. 1 \in 1..Len(delivered) /\ delivered \in Seq(Record)
        BY <1>1, <1>3
      <4>2. delivered[1] \in Record
        BY <4>1, ElementOfSeq
      <4> QED BY <4>1, <4>2 DEF Record
    <3>2. EndOf(delivered[1]) <= Len(input) /\ delivered[1].length > LeaderLength
      BY <2>1, <3>1 DEF Decodable
    <3>3. LeaderLength \in Nat
      BY FramingAssumption
    <3>4. Len(input) # 0
      BY <1>1, <3>1, <3>2, <3>3 DEF EndOf
    <3> QED BY <3>4
  <2> QED BY <2>2, <2>3
<1> QED BY <1>2, <1>3

(* Whatever the data: a client that reads to the end without an error has  *)
(* been given what +recordsFromData:error: makes of the same data in one   *)
(* call.                                                                   *)
THEOREM DecodingAgrees == Spec => []WaysOfDecodingAgree
<1>1. Init => BodiesAreDecoded
  BY DEF Init, BodiesAreDecoded
<1>2. TypeOK /\ BodiesAreDecoded /\ [Next]_vars => BodiesAreDecoded'
  BY StepKeepsBodies
<1>3. IInv /\ BodiesAreDecoded => WaysOfDecodingAgree
  BY SameRecords
<1> QED BY <1>1, <1>2, <1>3, IInvIsInvariant, TypeCorrect, PTL DEF Spec

-----------------------------------------------------------------------------
(* A reader that has been chosen by peeking at the stream.                 *)

(* Before there is a reader nothing has been read.                         *)
NothingReadYet ==
  reader = "none" => pos = 0 /\ peeked = 0 /\ inner # "AtEnd"

(* What is peeked of a stream that goes on is the leader of its first      *)
(* record, and it was read whole.                                          *)
PeekedIsTheLeader ==
  stopped = "no" /\ peeked # 0 =>
    /\ reader = "MARC"
    /\ pos = LeaderLength /\ peeked = LeaderLength
    /\ LeaderLength <= Len(input)
    /\ LeaderIsWellFormed(input, 0)

PeekInv ==
  /\ TypeOK
  /\ peeked \in Nat
  /\ NothingReadYet
  /\ PeekedIsTheLeader

-----------------------------------------------------------------------------

(* What is read of a stream not yet opened is what is peeked.              *)
LEMMA PeekCounts ==
  ASSUME PeekInv, NEW count \in ReadCounts(0, LeaderLength) \ {ReadFailed}
  PROVE  /\ count \in 0..Len(input)
         /\ count <= LeaderLength
         /\ AfterRead(0, count) \in {"Open", "AtEnd"}
<1>1. LeaderLength \in Nat /\ LeaderLength > 0 /\ Len(input) \in Nat
  BY FramingAssumption DEF PeekInv, TypeOK
<1>2. Rest(0, LeaderLength) \in 0..LeaderLength /\ Rest(0, LeaderLength) <= Len(input)
  BY <1>1 DEF Rest
<1>3. count = Rest(0, LeaderLength) \/ count \in 1..Rest(0, LeaderLength)
  BY DEF ReadCounts
<1>4. count \in 0..Len(input) /\ count <= LeaderLength
  BY <1>1, <1>2, <1>3
<1> QED BY <1>1, <1>4 DEF AfterRead, ReadFailed

LEMMA InitEstablishesPeekInv == InferredInit => PeekInv
<1> SUFFICES ASSUME InferredInit PROVE PeekInv
  OBVIOUS
<1>1. input \in Seq(Unit) /\ transport \in {"memory", "file", "pipe"}
  BY InputsAssumption DEF InferredInit, FromStream, FromData, FromPath
<1>2. inner \in {"NotOpen", "Open", "Closed"}
  BY DEF InferredInit, FromStream, FromData, FromPath
<1>3. TypeOK
  <2>1. pos \in 0..Len(input)
    BY <1>1 DEF InferredInit
  <2>2. inner \in Status /\ own \in Status /\ ownError \in Errors
    BY <1>2 DEF InferredInit, Status, Errors, NoError
  <2>3. delivered \in Seq(Record)
    BY DEF InferredInit
  <2>4. complained \in BOOLEAN /\ aborted \in BOOLEAN
    BY Zenon DEF InferredInit
  <2>5. reply \in [call : Calls \cup {"none"}, record : Record \cup {NoRecord},
                   error : Errors, ok : BOOLEAN]
    BY DEF InferredInit, NoReply, Errors, NoError
  <2> QED BY Zenon, <1>1, <2>1, <2>2, <2>3, <2>4, <2>5 DEF TypeOK
<1>4. NothingReadYet /\ PeekedIsTheLeader /\ peeked \in Nat
  BY <1>2 DEF InferredInit, NothingReadYet, PeekedIsTheLeader
<1> QED BY <1>3, <1>4 DEF PeekInv

-----------------------------------------------------------------------------

(* A step that changes no more than statuses keeps the types.              *)
LEMMA StatusStepKeepsType ==
  ASSUME TypeOK,
         UNCHANGED <<input, transport, delivered, complained, aborted>>,
         pos' \in 0..Len(input),
         inner' \in Status, own' \in Status, ownError' \in Errors,
         reply' \in [call : Calls \cup {"none"}, record : Record \cup {NoRecord},
                     error : Errors, ok : BOOLEAN]
  PROVE  TypeOK'
  BY Zenon DEF TypeOK

(* So does what a read returns.                                            *)
LEMMA ReturnKeepsType ==
  ASSUME TypeOK, NEW call \in Calls, NEW offset \in 0..Len(input),
         NEW status \in Status, NEW record \in Record \cup {NoRecord},
         NEW error \in Errors,
         Return(call, offset, status, record, error)
  PROVE  TypeOK'
<1>1. /\ input' = input /\ transport' = transport /\ aborted' = aborted
      /\ pos' = offset /\ inner' = status
      /\ own' = IF status = "AtEnd" THEN "AtEnd"
                ELSE IF record # NoRecord THEN own
                ELSE IF error = NoError THEN "Error" ELSE "AtEnd"
      /\ ownError' = IF record = NoRecord THEN error ELSE ownError
      /\ delivered' = IF record = NoRecord THEN delivered ELSE Append(delivered, record)
      /\ complained' = (complained \/ error \notin {NoError, "AtEnd"})
      /\ reply' = Reply(call, record, error)
  BY DEF Return
<1>2. pos' \in 0..Len(input') /\ input' \in Seq(Unit)
      /\ transport' \in {"memory", "file", "pipe"} /\ inner' \in Status
  BY <1>1 DEF TypeOK
<1>3. own' \in Status /\ ownError' \in Errors
  BY <1>1 DEF TypeOK, Status
<1>4. delivered' \in Seq(Record)
  BY <1>1 DEF TypeOK
<1>5. complained' \in BOOLEAN /\ aborted' \in BOOLEAN
  BY Zenon, <1>1 DEF TypeOK
<1>6. reply' \in [call : Calls \cup {"none"}, record : Record \cup {NoRecord},
                  error : Errors, ok : BOOLEAN]
  BY <1>1 DEF Reply
<1> QED BY Zenon, <1>2, <1>3, <1>4, <1>5, <1>6 DEF TypeOK
-----------------------------------------------------------------------------

LEMMA OpenAndChooseKeepsPeekInv ==
  ASSUME PeekInv, OpenAndChoose
  PROVE  PeekInv'
<1>1. PICK count \in ReadCounts(0, LeaderLength) \ {ReadFailed} :
        /\ pos' = count
        /\ inner' = AfterRead(0, count)
        /\ \/ ReaderFor(input, count) = "MARC" /\ ChooseMARC(count)
           \/ ReaderFor(input, count) = "MARCXML" /\ ChooseMARCXML(count)
           \/ ReaderFor(input, count) = "unknown" /\ ChooseUnknown(count)
  BY DEF OpenAndChoose
<1>2. UNCHANGED <<input, transport, delivered, complained, reply, aborted>>
  BY DEF OpenAndChoose
<1>3. /\ count \in 0..Len(input) /\ count <= LeaderLength /\ count \in Nat
      /\ inner' \in {"Open", "AtEnd"} /\ LeaderLength \in Nat
  BY <1>1, PeekCounts, FramingAssumption DEF PeekInv, TypeOK
<1>4. own' \in Status /\ ownError' \in Errors
  BY <1>1, <1>3 DEF PeekInv, TypeOK, ChooseMARC, ChooseMARCXML, ChooseUnknown, Status,
                   StreamErrorOf, Errors, NoError
<1>5. TypeOK'
  <2>1. inner' \in Status /\ pos' \in 0..Len(input)
    BY <1>1, <1>3 DEF Status
  <2>2. reply' = reply
    BY <1>2
  <2> QED BY <1>2, <1>4, <2>1, <2>2, StatusStepKeepsType DEF PeekInv, TypeOK
<1>6. peeked' \in Nat /\ reader' # "none"
  BY <1>1, <1>3 DEF ChooseMARC, ChooseMARCXML, ChooseUnknown
<1>7. PeekedIsTheLeader'
  <2>1. CASE ReaderFor(input, count) = "MARC" /\ ChooseMARC(count)
    <3>1. count >= LeaderLength /\ LeaderIsWellFormed(input, 0)
      BY <2>1 DEF ReaderFor, IsLeader
    <3>2. count = LeaderLength
      BY <1>3, <3>1
    <3>3. reader' = "MARC" /\ peeked' = count
      BY <2>1 DEF ChooseMARC
    <3>4. LeaderIsWellFormed(input', 0)
      BY <1>2, <3>1
    <3> QED BY <1>1, <1>2, <1>3, <3>2, <3>3, <3>4 DEF PeekedIsTheLeader, LeaderIsWellFormed
  <2>2. CASE ChooseMARCXML(count)
    <3>1. PeekedRead(count, ParserRequest) \in {"read", "raised", "undefined"}
      BY <1>3, ParserAssumption DEF PeekedRead
    <3>2. peeked' = 0 \/ stopped' # "no"
      BY <2>2, <3>1 DEF ChooseMARCXML
    <3> QED BY <3>2 DEF PeekedIsTheLeader
  <2>3. CASE ChooseUnknown(count)
    BY <2>3 DEF ChooseUnknown, PeekedIsTheLeader
  <2> QED BY <1>1, <2>1, <2>2, <2>3
<1> QED BY <1>5, <1>6, <1>7 DEF PeekInv, NothingReadYet

(* The reader read a leader that was peeked: one unit of it is the length. *)
LEMMA PeekedLeaderPromises ==
  ASSUME PeekInv, PeekedLeaderRead, stopped = "no"
  PROVE  /\ pos = LeaderLength /\ peeked = LeaderLength /\ LeaderOffset = 0
         /\ LeaderLength <= Len(input) /\ LeaderIsWellFormed(input, 0)
         /\ BodyOf(LeaderOffset) \in Nat /\ BodyOf(LeaderOffset) > 0
         /\ RecordAt(LeaderOffset, RecordLength(input, LeaderOffset)) \in Record
         /\ pos + BodyOf(LeaderOffset) = RecordLength(input, LeaderOffset)
<1>1. LeaderLength \in Nat /\ LeaderLength >= 2 /\ MaxRecordLength \in Nat
  BY FramingAssumption
<1>2. /\ pos = LeaderLength /\ peeked = LeaderLength
      /\ LeaderLength <= Len(input) /\ LeaderIsWellFormed(input, 0)
  BY <1>1 DEF PeekInv, PeekedIsTheLeader, PeekedLeaderRead
<1>3. LeaderOffset = 0
  BY <1>1, <1>2 DEF LeaderOffset
<1>4. input \in Seq(Unit) /\ Len(input) \in Nat
  BY DEF PeekInv, TypeOK
<1>5. input[1] \in Unit
  BY <1>1, <1>2, <1>4
<1>6. input[1].kind = "len"
  BY <1>2 DEF LeaderIsWellFormed
<1>7. RecordLength(input, 0) \in (LeaderLength + 1)..MaxRecordLength
  BY <1>5, <1>6 DEF Unit, RecordLength
<1> QED BY <1>1, <1>2, <1>3, <1>7 DEF BodyOf, RecordAt, Record

LEMMA ReadBehindPeekKeepsPeekInv ==
  ASSUME PeekInv, stopped = "no", NEW call \in Calls, ReadBehindPeek(call)
  PROVE  PeekInv'
<1>1. PeekedLeaderRead
  BY DEF ReadBehindPeek, BodyUnavailableBehindPeek, BodyMalformedBehindPeek,
         RecordReadBehindPeek
<1> DEFINE n == BodyOf(LeaderOffset)
<1>2. /\ pos \in pos..Len(input) /\ pos \in Nat /\ Len(input) \in Nat
      /\ n \in Nat /\ n > 0 /\ TypeOK
      /\ RecordAt(LeaderOffset, RecordLength(input, LeaderOffset)) \in Record
  BY <1>1, PeekedLeaderPromises DEF PeekInv, TypeOK
<1>3. reader' = "MARC"
  BY <1>1 DEF PeekedLeaderRead
<1>4. CASE BodyUnavailableBehindPeek(call)
  <2>1. PICK count \in ReadCounts(pos, n) \ {n} :
          Return(call, Advance(pos, count), AfterRead(pos, count), NoRecord, "MissingData")
    BY <1>4 DEF BodyUnavailableBehindPeek
  <2>2. Advance(pos, count) \in 0..Len(input) /\ AfterRead(pos, count) \in Status
    BY <1>2, <2>1, CountsAreBounded
  <2>3. TypeOK'
    BY <1>2, <2>1, <2>2, ReturnKeepsType DEF Errors
  <2> QED BY <1>3, <1>4, <2>3 DEF BodyUnavailableBehindPeek, PeekInv, NothingReadYet,
                                PeekedIsTheLeader
<1>5. CASE BodyMalformedBehindPeek
  <2>1. /\ UNCHANGED <<input, transport, pos, inner, own, ownError, delivered,
                       complained, reply, peeked>>
        /\ aborted' \in BOOLEAN
    BY Zenon, <1>5 DEF BodyMalformedBehindPeek
  <2>2. TypeOK'
    BY Zenon, <1>2, <2>1 DEF TypeOK
  <2>3. UNCHANGED stopped /\ reader' = reader
    BY <1>1 DEF PeekedLeaderRead
  <2> QED BY <1>3, <2>1, <2>2, <2>3 DEF PeekInv, NothingReadYet, PeekedIsTheLeader,
                                      LeaderIsWellFormed
<1>6. CASE RecordReadBehindPeek(call)
  <2>1. /\ n \in ReadCounts(pos, n)
        /\ Return(call, pos + n, AfterRead(pos, n),
                  RecordAt(LeaderOffset, RecordLength(input, LeaderOffset)), NoError)
    BY <1>6 DEF RecordReadBehindPeek
  <2>2. Advance(pos, n) = pos + n
    BY <1>2 DEF Advance, ReadFailed
  <2>3. pos + n \in 0..Len(input) /\ AfterRead(pos, n) \in Status
    BY <1>2, <2>1, <2>2, CountsAreBounded
  <2>4. TypeOK'
    BY <1>2, <2>1, <2>3, ReturnKeepsType DEF Errors
  <2> QED BY <1>3, <1>6, <2>4 DEF RecordReadBehindPeek, PeekInv, NothingReadYet,
                                PeekedIsTheLeader
<1> QED BY <1>4, <1>5, <1>6 DEF ReadBehindPeek

(* A read of a stream that is not open returns an error of a status.       *)
LEMMA ReadUnopenedKeepsType ==
  ASSUME TypeOK, NEW call \in Calls, ReadUnopened(call)
  PROVE  TypeOK'
<1> DEFINE error == IF StreamStatus = "AtEnd" THEN NoError
                    ELSE InputStreamNotOpenedError(inner)
<1>1. reply' = Reply(call, NoRecord, error)
  BY DEF ReadUnopened
<1>2. error \in {NoError, "IO", "NotOpened"}
  BY DEF TypeOK, Status, InputStreamNotOpenedError, StreamErrorOf
<1>3. reply' \in [call : Calls \cup {"none"}, record : Record \cup {NoRecord},
                  error : Errors, ok : BOOLEAN]
  BY <1>1, <1>2 DEF Reply, Errors, NoError
<1> QED BY Zenon, <1>3 DEF ReadUnopened, TypeOK

(* With nothing peeked, the types are those of a plain reader's step.      *)
LEMMA ReadRecordKeepsType ==
  ASSUME TypeOK, NEW call \in Calls, ReadRecord(call)
  PROVE  TypeOK'
<1>1. CASE ReadUnopened(call)
  BY <1>1, ReadUnopenedKeepsType
<1>2. CASE BodyMalformed
  <2>1. /\ UNCHANGED <<input, transport, pos, inner, own, ownError, delivered,
                       complained, reply>>
        /\ aborted' \in BOOLEAN
    BY Zenon, <1>2 DEF BodyMalformed
  <2> QED BY Zenon, <2>1 DEF TypeOK
<1>3. ASSUME NEW offset, NEW status, NEW record, NEW error,
             Outcome(call, offset, status, record, error)
      PROVE  TypeOK'
  <2>1. /\ offset \in 0..Len(input) /\ status \in Status
        /\ record \in Record \cup {NoRecord} /\ error \in Errors
        /\ Return(call, offset, status, record, error)
    BY <1>3 DEF Outcome, TypeOK, Errors, NoError
  <2> QED BY <2>1, ReturnKeepsType
<1> QED BY <1>1, <1>2, <1>3, ReadHasOutcome

LEMMA StepKeepsPeekInv == PeekInv /\ [InferredNext]_inferredVars => PeekInv'
<1> SUFFICES ASSUME PeekInv, [InferredNext]_inferredVars PROVE PeekInv'
  OBVIOUS
<1>0. /\ TypeOK /\ inner \in Status /\ (transport # "memory") \in BOOLEAN
      /\ pos \in 0..Len(input) /\ own \in Status /\ ownError \in Errors
      /\ peeked \in Nat
  BY DEF PeekInv, TypeOK
<1> DEFINE StatusStep ==
      /\ UNCHANGED <<input, transport, pos, delivered, complained, aborted>>
      /\ UNCHANGED <<reader, peeked, stopped>>
      /\ inner' \in Status /\ own' \in Status /\ ownError' \in Errors
      /\ reader = "none" => inner' # "AtEnd"
      /\ reply' \in [call : Calls \cup {"none"}, record : Record \cup {NoRecord},
                      error : Errors, ok : BOOLEAN]
<1>1. StatusStep => PeekInv'
  <2> SUFFICES ASSUME StatusStep PROVE PeekInv'
    OBVIOUS
  <2>1. TypeOK'
    BY <1>0, StatusStepKeepsType
  <2>2. NothingReadYet' /\ PeekedIsTheLeader' /\ peeked' \in Nat
    BY <1>0 DEF PeekInv, NothingReadYet, PeekedIsTheLeader, LeaderIsWellFormed
  <2> QED BY <2>1, <2>2 DEF PeekInv
<1>2. reply \in [call : Calls \cup {"none"}, record : Record \cup {NoRecord},
                 error : Errors, ok : BOOLEAN]
  BY <1>0 DEF TypeOK
<1>3. CASE OpeningFails
  <2>1. inner' \in Status /\ inner' # "AtEnd"
    BY <1>0, <1>3, OpenedStatusIsOpenOrError DEF OpeningFails
  <2> QED BY <1>0, <1>1, <1>2, <1>3, <2>1 DEF OpeningFails
<1>4. CASE PeekFails
  <2>1. inner' = "Error"
    BY <1>4 DEF PeekFails, AfterRead, ReadFailed
  <2> QED BY <1>0, <1>1, <1>2, <1>4, <2>1 DEF PeekFails, Status
<1>5. CASE OpenAndChoose
  BY <1>5, OpenAndChooseKeepsPeekInv
<1>6. CASE CloseUnchosen
  <2>1. inner' \in Status /\ inner' # "AtEnd"
    BY <1>0, <1>6, ClosedStatusIsClosed DEF CloseUnchosen
  <2> QED BY <1>0, <1>1, <1>2, <1>6, <2>1 DEF CloseUnchosen
<1>7. CASE UnknownOpensOrCloses
  <2>1. TypeOK'
    BY Zenon, <1>0, <1>7 DEF UnknownOpensOrCloses, vars, TypeOK
  <2> QED BY <1>0, <1>7, <2>1 DEF UnknownOpensOrCloses, vars, PeekInv, NothingReadYet,
                                PeekedIsTheLeader
<1>8. CASE OpenOrCloseMARC
  <2>1. inner' \in Status /\ own' = inner' /\ ownError' = StreamErrorOf(inner')
    BY <1>0, <1>8, OpenedStatusIsOpenOrError, ClosedStatusIsClosed
       DEF OpenOrCloseMARC, Open, Close
  <2>2. ownError' \in Errors
    BY <2>1 DEF StreamErrorOf, Errors, NoError
  <2> QED BY <1>0, <1>1, <1>2, <1>8, <2>1, <2>2 DEF OpenOrCloseMARC, Open, Close
<1>9. CASE OwnerActs
  <2>1. inner' \in Status /\ (inner # "AtEnd" => inner' # "AtEnd")
    BY <1>0, <1>9, OpenedStatusIsOpenOrError, ClosedStatusIsClosed
       DEF OwnerActs, OwnerOpens, OwnerCloses
  <2> QED BY <1>0, <1>1, <1>2, <1>9, <2>1 DEF OwnerActs, OwnerOpens, OwnerCloses, PeekInv,
                                            NothingReadYet
<1>10. ASSUME NEW call \in Calls, NEW error \in Errors, Refuse(call, error)
       PROVE  PeekInv'
  <2>1. reply' \in [call : Calls \cup {"none"}, record : Record \cup {NoRecord},
                    error : Errors, ok : BOOLEAN]
    BY <1>10 DEF Refuse
  <2> QED BY <1>0, <1>1, <1>10, <2>1 DEF Refuse, PeekInv, NothingReadYet
<1>11. ASSUME NEW call \in Calls, ReadUnchosen(call) PROVE PeekInv'
  <2>1. InputStreamNotOpenedError(inner) \in Errors
    BY <1>0 DEF InputStreamNotOpenedError, StreamErrorOf, Status, Errors, NoError
  <2> QED BY <1>10, <1>11, <2>1 DEF ReadUnchosen
<1>12. ASSUME NEW call \in Calls, ReadUnknown(call) PROVE PeekInv'
  BY <1>10, <1>12 DEF ReadUnknown, Errors
<1>13. ASSUME NEW call \in Calls, ReadThrough(call) PROVE PeekInv'
  <2>1. TypeOK' /\ reader' = "MARC" /\ peeked' = peeked /\ stopped' = stopped
    BY <1>0, <1>13, ReadUnopenedKeepsType, ReadRecordKeepsType DEF ReadThrough
  <2>2. CASE peeked = 0
    BY <2>1, <2>2 DEF PeekInv, NothingReadYet, PeekedIsTheLeader
  <2>3. CASE peeked # 0
    <3>1. ReadUnopened(call)
      BY <1>13, <2>3 DEF ReadThrough
    <3>2. input' = input /\ pos' = pos
      BY <3>1 DEF ReadUnopened
    <3> QED BY <1>13, <2>1, <3>2 DEF ReadThrough, PeekInv, NothingReadYet,
                                    PeekedIsTheLeader, LeaderIsWellFormed
  <2> QED BY <2>2, <2>3
<1>14. ASSUME NEW call \in Calls, ReadBehindPeek(call), stopped = "no" PROVE PeekInv'
  BY <1>14, ReadBehindPeekKeepsPeekInv
<1>15. CASE UNCHANGED inferredVars
  BY <1>0, <1>1, <1>2, <1>15 DEF inferredVars, vars, PeekInv, NothingReadYet
<1> QED BY <1>3, <1>4, <1>5, <1>6, <1>7, <1>8, <1>9, <1>11, <1>12, <1>13, <1>14, <1>15
        DEF InferredNext
-----------------------------------------------------------------------------

(* The reader of PeekInv, step by step: what a BibMARCInputStream would do.*)
Simulated == [Plain!Next]_(Plain!vars)

(* Opening, closing and the creator's steps change the same statuses.      *)
LEMMA OpeningIsSimulated ==
  ASSUME PeekInv, ~aborted, reader' = "none",
         OpeningFails \/ PeekFails
  PROVE  Simulated
<1>1. (transport # "memory") \in BOOLEAN /\ Len(input) \in Nat
      /\ LeaderLength \in Nat
  BY FramingAssumption DEF PeekInv, TypeOK
<1>2. reader = "none" /\ inner = "NotOpen"
      /\ UNCHANGED <<input, transport, pos, delivered, complained, reply, aborted, peeked>>
  BY DEF OpeningFails, PeekFails
<1>3. inner' \in OpenedStatus(inner, transport # "memory")
  <2>1. CASE OpeningFails
    BY <2>1 DEF OpeningFails
  <2>2. CASE PeekFails
    <3>1. Rest(0, LeaderLength) \in Nat
      BY <1>1 DEF Rest
    <3>2. transport # "memory"
      BY <2>2, <3>1 DEF PeekFails, ReadCounts, ReadFailed
    <3>3. inner' = "Error"
      BY <2>2 DEF PeekFails, AfterRead, ReadFailed
    <3> QED BY <1>2, <3>2, <3>3 DEF OpenedStatus
  <2> QED BY <2>1, <2>2
<1>4. Plain!Open
  BY <1>2, <1>3 DEF Plain!Open, Plain!StreamStatus, Plain!OpenedStatus, OpenedStatus,
                    Plain!StreamErrorOf, StreamErrorOf, Plain!NoError, NoError
<1> QED BY <1>4 DEF Simulated, Plain!Next

LEMMA ChoosingIsSimulated ==
  ASSUME PeekInv, ~aborted, OpenAndChoose, Recognised', ~EndsWithThePeek'
  PROVE  Simulated
<1>1. PICK count \in ReadCounts(0, LeaderLength) \ {ReadFailed} :
        /\ pos' = count
        /\ inner' = AfterRead(0, count)
        /\ \/ ReaderFor(input, count) = "MARC" /\ ChooseMARC(count)
           \/ ReaderFor(input, count) = "MARCXML" /\ ChooseMARCXML(count)
           \/ ReaderFor(input, count) = "unknown" /\ ChooseUnknown(count)
  BY DEF OpenAndChoose
<1>2. ReaderFor(input, count) = "MARC" /\ ChooseMARC(count)
  BY <1>1 DEF Recognised, ChooseMARCXML, ChooseUnknown
<1>3. count >= LeaderLength /\ LeaderLength > 0 /\ LeaderLength \in Nat
      /\ count \in Nat /\ inner' \in {"Open", "AtEnd"}
  BY <1>1, <1>2, PeekCounts, FramingAssumption DEF ReaderFor
<1>4. inner' = "Open"
  BY <1>2, <1>3 DEF EndsWithThePeek, ChooseMARC
<1>5. /\ reader = "none" /\ inner = "NotOpen" /\ pos = 0 /\ peeked = 0
      /\ UNCHANGED <<input, transport, delivered, complained, reply, aborted>>
  BY DEF OpenAndChoose, PeekInv, NothingReadYet
<1>6. pos' - peeked' = 0 /\ pos - peeked = 0
  BY <1>1, <1>2, <1>3, <1>5 DEF ChooseMARC
<1>7. reader' = "MARC" /\ own' = "Open" /\ ownError' = NoError
  BY <1>1, <1>2, <1>4 DEF ChooseMARC, StreamErrorOf
<1>8. Plain!Open
  BY <1>4, <1>5, <1>6, <1>7
     DEF Plain!Open, Plain!StreamStatus, Plain!OpenedStatus, Plain!StreamErrorOf,
         Plain!NoError, NoError
<1> QED BY <1>8 DEF Simulated, Plain!Next

LEMMA ClosingIsSimulated ==
  ASSUME ~aborted, CloseUnchosen \/ OpenOrCloseMARC
  PROVE  Simulated
<1>1. CASE CloseUnchosen
  <2>1. Plain!Close
    BY <1>1 DEF CloseUnchosen, Plain!Close, Plain!StreamStatus, Plain!ClosedStatus,
                ClosedStatus, Plain!StreamErrorOf, StreamErrorOf, Plain!NoError, NoError
  <2> QED BY <2>1 DEF Simulated, Plain!Next
<1>2. CASE OpenOrCloseMARC
  <2>1. Plain!Open \/ Plain!Close
    BY <1>2 DEF OpenOrCloseMARC, Open, Close, Plain!Open, Plain!Close,
                StreamStatus, Plain!StreamStatus, Plain!OpenedStatus, OpenedStatus,
                Plain!ClosedStatus, ClosedStatus, Plain!StreamErrorOf, StreamErrorOf,
                Plain!NoError, NoError
  <2> QED BY <2>1 DEF Simulated, Plain!Next
<1> QED BY <1>1, <1>2

LEMMA OwnerIsSimulated ==
  ASSUME ~aborted, reader \in {"none", "MARC"}, OwnerActs
  PROVE  Simulated
<1>1. CASE reader = "MARC"
  <2>1. Plain!OwnerOpens \/ Plain!OwnerCloses
    BY <1>1 DEF OwnerActs, OwnerOpens, OwnerCloses, Plain!OwnerOpens, Plain!OwnerCloses,
                Plain!OpenedStatus, OpenedStatus, Plain!ClosedStatus, ClosedStatus
  <2> QED BY <2>1 DEF Simulated, Plain!Next
<1>2. CASE reader = "none"
  <2>1. Plain!Open \/ Plain!Close
    BY <1>2 DEF OwnerActs, OwnerOpens, OwnerCloses, Plain!Open, Plain!Close,
                Plain!StreamStatus, Plain!OpenedStatus, OpenedStatus,
                Plain!ClosedStatus, ClosedStatus, Plain!StreamErrorOf, StreamErrorOf,
                Plain!NoError, NoError
  <2> QED BY <2>1 DEF Simulated, Plain!Next
<1> QED BY <1>1, <1>2

(* A stream that has not chosen refuses as one that is not open does.      *)
LEMMA RefusingIsSimulated ==
  ASSUME PeekInv, ~aborted, ~OpenedByAnother, NEW call \in Calls, ReadUnchosen(call)
  PROVE  Simulated
<1>1. reader = "none" /\ inner \in {"NotOpen", "Error", "Closed"}
  BY DEF ReadUnchosen, OpenedByAnother, PeekInv, NothingReadYet, TypeOK, Status
<1>2. InputStreamNotOpenedError(inner) \in {"NotOpened", "IO"}
  BY <1>1 DEF InputStreamNotOpenedError, StreamErrorOf
<1>3. Plain!InputStreamNotOpenedError(inner) = InputStreamNotOpenedError(inner)
  BY DEF Plain!InputStreamNotOpenedError, InputStreamNotOpenedError,
         Plain!StreamErrorOf, StreamErrorOf, Plain!NoError, NoError
<1>4. UNCHANGED <<input, transport, pos, inner, own, ownError, delivered,
                  complained, aborted, reader, peeked>>
  BY DEF ReadUnchosen, Refuse
<1>5. reply' = [call |-> call, record |-> NoRecord,
                error |-> InputStreamNotOpenedError(inner), ok |-> FALSE]
  BY DEF ReadUnchosen, Refuse
<1>6. reply' = Plain!Reply(call, Plain!NoRecord, Plain!InputStreamNotOpenedError(inner))
  BY <1>2, <1>3, <1>5 DEF Plain!Reply, Plain!NoRecord, NoRecord, Plain!RecordAt, RecordAt,
                          Plain!NoError
<1>7. Plain!StreamStatus \in {"NotOpen", "Error", "Closed"}
  BY <1>1 DEF Plain!StreamStatus
<1>8. Plain!ReadUnopened(call)
  BY <1>1, <1>4, <1>6, <1>7 DEF Plain!ReadUnopened
<1> QED BY <1>8 DEF Simulated, Plain!Next, Plain!ReadRecord, Plain!Calls, Calls
-----------------------------------------------------------------------------

(* The operators of the plain reader that do not mention its state.        *)
LEMMA PlainOperators ==
  /\ \A offset, n : Plain!ReadCounts(offset, n) = ReadCounts(offset, n)
  /\ \A offset, count : Plain!AfterRead(offset, count) = AfterRead(offset, count)
  /\ \A offset, count : Plain!Advance(offset, count) = Advance(offset, count)
  /\ \A offset : Plain!LeaderIsWellFormed(input, offset) = LeaderIsWellFormed(input, offset)
  /\ \A offset : Plain!RecordLength(input, offset) = RecordLength(input, offset)
  /\ \A offset, n : Plain!BodyIsWellFormed(input, offset, n) = BodyIsWellFormed(input, offset, n)
  /\ \A offset, n : Plain!RecordAt(offset, n) = RecordAt(offset, n)
  /\ Plain!NoRecord = NoRecord /\ Plain!NoError = NoError
<1>1. \A offset, n : Plain!ReadCounts(offset, n) = ReadCounts(offset, n)
  BY DEF Plain!ReadCounts, ReadCounts, Plain!Rest, Rest, Plain!ReadFailed, ReadFailed
<1>2. \A offset, count : /\ Plain!AfterRead(offset, count) = AfterRead(offset, count)
                         /\ Plain!Advance(offset, count) = Advance(offset, count)
  BY DEF Plain!AfterRead, AfterRead, Plain!Advance, Advance, Plain!ReadFailed, ReadFailed
<1>3. \A offset : /\ Plain!LeaderIsWellFormed(input, offset) = LeaderIsWellFormed(input, offset)
                  /\ Plain!RecordLength(input, offset) = RecordLength(input, offset)
  BY DEF Plain!LeaderIsWellFormed, LeaderIsWellFormed, Plain!RecordLength, RecordLength
<1>4. \A offset, n : /\ Plain!BodyIsWellFormed(input, offset, n) = BodyIsWellFormed(input, offset, n)
                     /\ Plain!RecordAt(offset, n) = RecordAt(offset, n)
  BY DEF Plain!BodyIsWellFormed, BodyIsWellFormed, Plain!RecordAt, RecordAt
<1>5. Plain!NoRecord = NoRecord /\ Plain!NoError = NoError
  BY DEF Plain!NoRecord, NoRecord, Plain!RecordAt, RecordAt, Plain!NoError, NoError
<1> QED BY <1>1, <1>2, <1>3, <1>4, <1>5

(* When nothing is peeked after a read, it returns what it would.          *)
LEMMA ReturnIsSimulated ==
  ASSUME reader = "MARC", reader' = "MARC", peeked' = 0,
         NEW call, NEW offset \in Int, NEW status, NEW record, NEW error,
         Return(call, offset, status, record, error)
  PROVE  Plain!Return(call, offset, status, record, error)
<1>1. pos' - peeked' = offset
  BY DEF Return
<1>2. Plain!Reply(call, record, error) = Reply(call, record, error)
  BY PlainOperators DEF Plain!Reply, Reply
<1> QED BY <1>1, <1>2, PlainOperators DEF Return, Plain!Return

(* A read of a stream without peeked units is the plain reader's.          *)
LEMMA ReadThroughIsSimulated ==
  ASSUME PeekInv, PeekInv', ~aborted, NEW call \in Calls, ReadThrough(call)
  PROVE  Simulated
<1>1. reader = "MARC" /\ reader' = "MARC" /\ peeked' = peeked /\ call \in Plain!Calls
  BY DEF ReadThrough, Plain!Calls, Calls
<1>2. pos \in Int /\ pos' \in Int /\ peeked \in Int /\ LeaderLength \in Nat
  BY FramingAssumption DEF PeekInv, TypeOK
<1>3. CASE ReadUnopened(call)
  <2>1. Plain!InputStreamNotOpenedError(inner) = InputStreamNotOpenedError(inner)
    BY DEF Plain!InputStreamNotOpenedError, InputStreamNotOpenedError,
           Plain!StreamErrorOf, StreamErrorOf, Plain!NoError, NoError
  <2>2. Plain!StreamStatus = StreamStatus
    BY <1>1 DEF Plain!StreamStatus, StreamStatus
  <2>3. \A error : Plain!Reply(call, Plain!NoRecord, error) = Reply(call, NoRecord, error)
    BY PlainOperators DEF Plain!Reply, Reply
  <2>4. Plain!ReadUnopened(call)
    BY <1>1, <1>3, <2>1, <2>2, <2>3, PlainOperators DEF ReadUnopened, Plain!ReadUnopened
  <2> QED BY <1>1, <2>4 DEF Simulated, Plain!Next, Plain!ReadRecord
<1>4. CASE peeked = 0 /\ ReadRecord(call)
  <2>1. pos - peeked = pos /\ peeked' = 0
    BY <1>1, <1>2, <1>4
  <2>2. Plain!StreamStatus = StreamStatus /\ Plain!HasBytesAvailable = HasBytesAvailable
    BY <1>1, <2>1 DEF Plain!StreamStatus, StreamStatus, Plain!HasBytesAvailable, HasBytesAvailable
  <2>3. Plain!CanRead = CanRead
    BY <2>2 DEF Plain!CanRead, CanRead
  <2>4. Plain!LeaderRead = LeaderRead /\ Plain!BodyOffset = BodyOffset
        /\ Plain!BodyLength = BodyLength
    BY <2>1, <2>3, PlainOperators DEF Plain!LeaderRead, LeaderRead, Plain!BodyOffset,
       BodyOffset, Plain!BodyLength, BodyLength
  <2>5. Plain!BodyRead = BodyRead
    BY <2>4, PlainOperators DEF Plain!BodyRead, BodyRead
  <2>6. CASE NoBytesAvailable(call)
    <3>1. Plain!NoBytesAvailable(call)
      BY <1>1, <1>2, <2>1, <2>2, <2>6, PlainOperators, ReturnIsSimulated
         DEF NoBytesAvailable, Plain!NoBytesAvailable
    <3> QED BY <1>1, <3>1 DEF Simulated, Plain!Next, Plain!ReadRecord
  <2>7. CASE LeaderUnavailable(call)
    <3>1. PICK count \in ReadCounts(pos, LeaderLength) \ {LeaderLength} :
            Return(call, Advance(pos, count), AfterRead(pos, count), NoRecord,
                   IF count = 0 THEN "AtEnd" ELSE "MissingData")
      BY <2>7 DEF LeaderUnavailable
    <3>2. Advance(pos, count) \in Int
      BY <1>2, <3>1 DEF Return
    <3>3. Plain!Return(call, Advance(pos, count), AfterRead(pos, count), NoRecord,
                       IF count = 0 THEN "AtEnd" ELSE "MissingData")
      BY <1>1, <2>1, <3>1, <3>2, ReturnIsSimulated
    <3>4. Plain!LeaderUnavailable(call)
      BY <2>1, <2>3, <2>7, <3>1, <3>3, PlainOperators
         DEF LeaderUnavailable, Plain!LeaderUnavailable
    <3> QED BY <1>1, <3>4 DEF Simulated, Plain!Next, Plain!ReadRecord
  <2>8. CASE LeaderMalformed(call)
    <3>1. Plain!LeaderMalformed(call)
      BY <1>1, <1>2, <2>1, <2>3, <2>8, PlainOperators, ReturnIsSimulated
         DEF LeaderMalformed, Plain!LeaderMalformed
    <3> QED BY <1>1, <3>1 DEF Simulated, Plain!Next, Plain!ReadRecord
  <2>9. CASE BodyUnavailable(call)
    <3>1. PICK count \in ReadCounts(BodyOffset, BodyLength) \ {BodyLength} :
            Return(call, Advance(BodyOffset, count), AfterRead(BodyOffset, count),
                   NoRecord, "MissingData")
      BY <2>9 DEF BodyUnavailable
    <3>2. Advance(BodyOffset, count) \in Int
      BY <1>2, <3>1 DEF Return
    <3>3. Plain!Return(call, Advance(BodyOffset, count), AfterRead(BodyOffset, count),
                       NoRecord, "MissingData")
      BY <1>1, <2>1, <3>1, <3>2, ReturnIsSimulated
    <3>4. Plain!BodyUnavailable(call)
      BY <2>1, <2>4, <2>9, <3>1, <3>3, PlainOperators
         DEF BodyUnavailable, Plain!BodyUnavailable
    <3> QED BY <1>1, <3>4 DEF Simulated, Plain!Next, Plain!ReadRecord
  <2>10. CASE BodyMalformed
    <3>1. Plain!BodyMalformed
      BY <1>1, <2>1, <2>5, <2>10, PlainOperators DEF BodyMalformed, Plain!BodyMalformed
    <3> QED BY <1>1, <3>1 DEF Simulated, Plain!Next, Plain!ReadRecord
  <2>11. CASE RecordRead(call)
    <3>1. BodyOffset + BodyLength \in Int
      BY <1>2, <2>11 DEF RecordRead, Return
    <3>2. Plain!RecordRead(call)
      BY <1>1, <2>1, <2>4, <2>5, <2>11, <3>1, PlainOperators, ReturnIsSimulated
         DEF RecordRead, Plain!RecordRead
    <3> QED BY <1>1, <3>2 DEF Simulated, Plain!Next, Plain!ReadRecord
  <2> QED BY <1>3, <1>4, <2>6, <2>7, <2>8, <2>9, <2>10, <2>11 DEF ReadRecord
<1> QED BY <1>3, <1>4 DEF ReadThrough

(* The first read takes the leader from the buffer and the rest from the   *)
(* stream; together they are one read of the plain reader.                 *)
LEMMA ReadBehindPeekIsSimulated ==
  ASSUME PeekInv, PeekInv', ~aborted, stopped = "no", ~EndsWithThePeek,
         NEW call \in Calls, ReadBehindPeek(call)
  PROVE  Simulated
<1>1. PeekedLeaderRead
  BY DEF ReadBehindPeek, BodyUnavailableBehindPeek, BodyMalformedBehindPeek,
         RecordReadBehindPeek
<1>2. /\ reader = "MARC" /\ reader' = "MARC" /\ call \in Plain!Calls
      /\ LeaderLength \in Nat /\ LeaderLength > 0 /\ Len(input) \in Nat
      /\ pos \in Int /\ pos' \in Int
  BY <1>1, FramingAssumption DEF PeekedLeaderRead, Plain!Calls, Calls, PeekInv, TypeOK
<1>3. /\ pos = LeaderLength /\ peeked = LeaderLength /\ LeaderOffset = 0
      /\ LeaderLength <= Len(input) /\ LeaderIsWellFormed(input, 0)
  BY <1>1, PeekedLeaderPromises
<1>4. pos - peeked = 0
  BY <1>2, <1>3
<1>5. Plain!CanRead
  BY <1>1, <1>2, <1>3, <1>4
     DEF PeekedLeaderRead, CanRead, StreamStatus, HasBytesAvailable,
         Plain!CanRead, Plain!StreamStatus, Plain!HasBytesAvailable
<1>6. LeaderLength \in ReadCounts(0, LeaderLength)
  BY <1>2, <1>3 DEF ReadCounts, Rest
<1>7. Plain!LeaderRead
  BY <1>3, <1>4, <1>5, <1>6, PlainOperators DEF Plain!LeaderRead
<1>8. Plain!BodyOffset = pos /\ Plain!BodyLength = BodyOf(LeaderOffset)
  BY <1>2, <1>3, <1>4, PlainOperators DEF Plain!BodyOffset, Plain!BodyLength, BodyOf
<1> DEFINE n == BodyOf(LeaderOffset)
<1>9. CASE BodyUnavailableBehindPeek(call)
  <2>1. PICK count \in ReadCounts(pos, n) \ {n} :
          Return(call, Advance(pos, count), AfterRead(pos, count), NoRecord, "MissingData")
    BY <1>9 DEF BodyUnavailableBehindPeek
  <2>2. Advance(pos, count) \in Int
    BY <1>2, <2>1 DEF Return
  <2>3. Plain!Return(call, Advance(pos, count), AfterRead(pos, count), NoRecord, "MissingData")
    BY <1>2, <1>9, <2>1, <2>2, ReturnIsSimulated DEF BodyUnavailableBehindPeek
  <2>4. Plain!BodyUnavailable(call)
    BY <1>7, <1>8, <2>1, <2>3, PlainOperators DEF Plain!BodyUnavailable
  <2> QED BY <1>2, <2>4 DEF Simulated, Plain!Next, Plain!ReadRecord
<1>10. CASE BodyMalformedBehindPeek
  <2>1. Plain!BodyRead
    BY <1>7, <1>8, <1>10, PlainOperators DEF Plain!BodyRead, BodyMalformedBehindPeek
  <2>2. Plain!BodyMalformed
    BY <1>2, <1>3, <1>4, <1>10, <2>1, PlainOperators
       DEF BodyMalformedBehindPeek, Plain!BodyMalformed
  <2> QED BY <1>2, <2>2 DEF Simulated, Plain!Next, Plain!ReadRecord
<1>11. CASE RecordReadBehindPeek(call)
  <2>1. Plain!BodyRead
    BY <1>7, <1>8, <1>11, PlainOperators DEF Plain!BodyRead, RecordReadBehindPeek
  <2>2. pos + n \in Int
    BY <1>2, <1>11 DEF RecordReadBehindPeek, Return
  <2>3. Plain!Return(call, pos + n, AfterRead(pos, n),
                     RecordAt(LeaderOffset, RecordLength(input, LeaderOffset)), NoError)
    BY <1>2, <1>11, <2>2, ReturnIsSimulated DEF RecordReadBehindPeek
  <2>4. Plain!RecordRead(call)
    BY <1>3, <1>4, <1>8, <1>11, <2>1, <2>3, PlainOperators
       DEF RecordReadBehindPeek, Plain!RecordRead
  <2> QED BY <1>2, <2>4 DEF Simulated, Plain!Next, Plain!ReadRecord
<1> QED BY <1>9, <1>10, <1>11 DEF ReadBehindPeek

-----------------------------------------------------------------------------

LEMMA StepIsSimulated ==
  ASSUME PeekInv, PeekInv', InferredNext, Recognised', ~OpenedByAnother,
         ~EndsWithThePeek, ~EndsWithThePeek'
  PROVE  Simulated
<1>1. ~aborted /\ stopped = "no"
  BY DEF InferredNext
<1>2. CASE OpeningFails \/ PeekFails
  <2>1. reader' = "none"
    BY <1>2 DEF OpeningFails, PeekFails
  <2> QED BY <1>1, <1>2, <2>1, OpeningIsSimulated
<1>3. CASE OpenAndChoose
  BY <1>1, <1>3, ChoosingIsSimulated
<1>4. CASE CloseUnchosen \/ OpenOrCloseMARC
  BY <1>1, <1>4, ClosingIsSimulated
<1>5. ~UnknownOpensOrCloses
  BY DEF UnknownOpensOrCloses, Recognised
<1>6. CASE OwnerActs
  <2>1. reader \in {"none", "MARC"}
    BY <1>6 DEF OwnerActs, Recognised
  <2> QED BY <1>1, <1>6, <2>1, OwnerIsSimulated
<1>7. ASSUME NEW call \in Calls, ReadUnchosen(call) PROVE Simulated
  BY <1>1, <1>7, RefusingIsSimulated
<1>8. ASSUME NEW call \in Calls PROVE ~ReadUnknown(call)
  BY DEF ReadUnknown, Refuse, Recognised
<1>9. ASSUME NEW call \in Calls, ReadThrough(call) PROVE Simulated
  BY <1>1, <1>9, ReadThroughIsSimulated
<1>10. ASSUME NEW call \in Calls, ReadBehindPeek(call) PROVE Simulated
  BY <1>1, <1>10, ReadBehindPeekIsSimulated
<1> QED BY <1>2, <1>3, <1>4, <1>5, <1>6, <1>7, <1>8, <1>9, <1>10 DEF InferredNext

(* What is peeked is always the leader of the first record, or nothing.    *)
THEOREM PeekInvIsInvariant == InferredSpec => []PeekInv
<1>1. InferredInit => PeekInv
  BY InitEstablishesPeekInv
<1>2. PeekInv /\ [InferredNext]_inferredVars => PeekInv'
  BY StepKeepsPeekInv
<1> QED BY <1>1, <1>2, PTL DEF InferredSpec

(* The buffer does not show: a stream that finds MARC 21 records by itself *)
(* takes the steps of a BibMARCInputStream on the same data, unless        *)
(* somebody else opened the wrapped stream or it ends with what was peeked.*)
THEOREM InferredReadsAsPlain == InferredSpec => ReadsAsPlainReader
<1> DEFINE Step == Recognised' /\ ~OpenedByAnother /\ ~EndsWithThePeek /\ ~EndsWithThePeek'
                     => [Plain!Next]_(Plain!vars)
<1>1. PeekInv /\ PeekInv' /\ [InferredNext]_inferredVars => [Step]_inferredVars
  BY StepIsSimulated DEF Simulated
<1>2. InferredSpec => [][Step]_inferredVars
  BY <1>1, PeekInvIsInvariant, PTL DEF InferredSpec
<1> QED BY <1>2 DEF ReadsAsPlainReader
=============================================================================

---------------------- MODULE MARCOutputStream_proofs ----------------------
(***************************************************************************)
(* For every kind of sink, every set of record lengths, every interleaving *)
(* of the client with the creator of the wrapped stream and any number of  *)
(* sessions: a record BibMARCOutputStream accepts is in the data, whole;   *)
(* what is not an accepted record was left by one that was cut off; and    *)
(* the stream that cut it off writes nothing behind it.                    *)
(***************************************************************************)
EXTENDS MARCOutputStream, SequenceTheorems, TLAPS

(* What a step makes of the data: nothing, a record longer, or the first   *)
(* units of a record longer.                                               *)
GrowsByRecord(length) ==
  /\ sink' = sink \o Serialized(length)
  /\ accepted' = Append(accepted, RecordAt(Len(sink), length))
  /\ tornAt' = tornAt

GrowsByPart(length, count) ==
  /\ sink' = sink \o SubSeq(Serialized(length), 1, count)
  /\ accepted' = accepted
  /\ tornAt' = tornAt \cup {[session |-> session, at |-> Len(sink)]}

Grows ==
  \/ UNCHANGED <<sink, accepted, tornAt>>
  \/ \E length \in RecordLengths : GrowsByRecord(length)
  \/ \E length \in RecordLengths : \E count \in 1..length : GrowsByPart(length, count)

(* The stream that has cut off a record stays failed, or it is closed for  *)
(* good: its wrapped stream was opened once, so that it cannot be again.   *)
TornIsFinal ==
  /\ \A t \in tornAt : t.session <= session
  /\ (\E t \in tornAt : t.session = session) =>
       /\ inner # "NotOpen"
       /\ own = "Error" \/ (own = "Closed" /\ inner = "Closed")

-----------------------------------------------------------------------------

UnitAt(length, i) ==
  IF i = 1 THEN [kind |-> "len", length |-> length]
  ELSE [kind   |-> CASE i = 2                -> "base"
                     [] i = LeaderLength + 1 -> "dir"
                     [] i = length           -> "term"
                     [] OTHER                -> "field",
        length |-> 0]

LEMMA UnitsOfARecord ==
  ASSUME NEW length
  PROVE  Serialized(length) = [i \in 1..length |-> UnitAt(length, i)]
BY Zenon DEF Serialized, UnitAt

LEMMA LengthsAreNumbers ==
  ASSUME NEW length \in RecordLengths
  PROVE  /\ length \in Nat /\ length >= LeaderLength + 2 /\ length <= MaxRecordLength
         /\ LeaderLength \in Nat /\ LeaderLength >= 2 /\ MaxRecordLength \in Nat
BY FramingAssumption, OutputAssumption

(* The units of a record are as many as its leader says.                   *)
LEMMA SerializedIsData ==
  ASSUME NEW length \in RecordLengths
  PROVE  /\ Serialized(length) \in Seq(Unit)
         /\ Len(Serialized(length)) = length
<1>1. Serialized(length) = [i \in 1..length |-> UnitAt(length, i)]
  BY UnitsOfARecord
<1>2. \A i \in 1..length : UnitAt(length, i) \in Unit
  BY LengthsAreNumbers DEF UnitAt, Unit
<1>3. Serialized(length) \in [1..length -> Unit]
  BY <1>1, <1>2
<1>4. ASSUME NEW S, NEW n \in Nat, NEW s \in [1..n -> S]
      PROVE  s \in Seq(S) /\ Len(s) = n
  BY <1>4
<1> QED BY <1>3, <1>4, LengthsAreNumbers, Zenon

(* The leader says it in its first unit, and no other unit says a length.  *)
LEMMA LeaderSaysTheLength ==
  ASSUME NEW length \in RecordLengths
  PROVE  /\ Serialized(length)[1] = [kind |-> "len", length |-> length]
         /\ \A i \in 2..length : Serialized(length)[i].kind # "len"
<1>1. Serialized(length) = [i \in 1..length |-> UnitAt(length, i)]
  BY UnitsOfARecord
<1>2. UnitAt(length, 1) = [kind |-> "len", length |-> length]
  BY DEF UnitAt
<1>3. \A i \in 2..length : UnitAt(length, i).kind # "len"
  BY LengthsAreNumbers DEF UnitAt
<1>4. 1 \in 1..length /\ 2..length \subseteq 1..length
  BY LengthsAreNumbers
<1> QED BY <1>1, <1>2, <1>3, <1>4

(* The first units of a record are data, too.                              *)
LEMMA PartIsData ==
  ASSUME NEW length \in RecordLengths, NEW count \in 1..length
  PROVE  /\ SubSeq(Serialized(length), 1, count) \in Seq(Unit)
         /\ Len(SubSeq(Serialized(length), 1, count)) = count
<1>1. \A i \in 1..count : Serialized(length)[i] \in Unit
  BY SerializedIsData, LengthsAreNumbers, ElementOfSeq
<1> QED BY <1>1, SerializedIsData, LengthsAreNumbers

(* No step does anything else to the data.                                 *)
LEMMA StepGrows ==
  ASSUME TypeOK, Next
  PROVE  Grows
<1>1. CASE Open \/ Close \/ OwnerOpens \/ OwnerCloses \/ NextSession \/ WriteUnopened
  BY <1>1 DEF Open, Close, OwnerOpens, OwnerCloses, NextSession, WriteUnopened, Grows
<1>2. CASE NoSpaceAvailable
  BY <1>2 DEF NoSpaceAvailable, Fail, Grows
<1>3. ASSUME NEW length \in RecordLengths, RecordWritten(length)
      PROVE  Grows
  BY <1>3 DEF RecordWritten, GrowsByRecord, Grows
<1>4. ASSUME NEW length \in RecordLengths, RecordTorn(length)
      PROVE  Grows
  <2>1. PICK count \in WriteCounts(length) \ {length} :
          /\ sink' = sink \o (IF count = WriteFailed THEN << >>
                              ELSE SubSeq(Serialized(length), 1, count))
          /\ tornAt' = IF count > 0
                       THEN tornAt \cup {[session |-> session, at |-> Len(sink)]}
                       ELSE tornAt
    BY <1>4 DEF RecordTorn
  <2>2. accepted' = accepted
    BY <1>4 DEF RecordTorn, Fail
  <2>3. HasSpaceAvailable
    BY <1>4 DEF RecordTorn, CanWrite
  <2>4. length \in Nat /\ Capacity \in Nat /\ Len(sink) \in Nat
    <3>1. sink \in Seq(Unit)
      BY DEF TypeOK
    <3> QED BY <3>1, LengthsAreNumbers, OutputAssumption
  <2>5. count \in {WriteFailed} \cup 0..length
    <3>1. sinkKind \in {"memory", "buffer", "file"}
      BY DEF TypeOK
    <3> QED BY <2>3, <2>4, <3>1 DEF WriteCounts, HasSpaceAvailable, Room
  <2>6. CASE count = WriteFailed \/ count = 0
    <3>1. tornAt' = tornAt
      BY <2>1, <2>6 DEF WriteFailed
    <3>2. SubSeq(Serialized(length), 1, 0) = << >>
      BY SerializedIsData
    <3>3. sink' = sink \o << >>
      BY <2>1, <2>6, <3>2
    <3>4. sink' = sink
      BY <3>3 DEF TypeOK
    <3> QED BY <2>2, <3>1, <3>4 DEF Grows
  <2>7. CASE count \in 1..length
    <3>1. GrowsByPart(length, count)
      <4>1. count \in Nat /\ count > 0 /\ count # -1
        BY <2>4, <2>7
      <4> QED BY <2>1, <2>2, <4>1 DEF GrowsByPart, WriteFailed
    <3> QED BY <2>7, <3>1 DEF Grows
  <2> QED BY <2>4, <2>5, <2>6, <2>7
<1> QED BY <1>1, <1>2, <1>3, <1>4 DEF Next, WriteRecord

-----------------------------------------------------------------------------

(* A status an operation may leave a wrapped stream with.                  *)
LEMMA StatusesAreStatuses ==
  ASSUME NEW status \in Status, NEW fallible \in BOOLEAN
  PROVE  /\ OpenedStatus(status, fallible) \subseteq Status
         /\ ClosedStatus(status) \subseteq Status
         /\ StreamErrorOf(status) \in Errors
         /\ OutputStreamNotOpenedError(status) \in Errors
BY DEF OpenedStatus, ClosedStatus, StreamErrorOf, OutputStreamNotOpenedError, Status, Errors, NoError

LEMMA TypeInit ==
  ASSUME Init
  PROVE  TypeOK
BY OutputAssumption
DEF Init, TypeOK, NoReply, Status, Errors, NoError

(* What the data and its history are when they have grown.                 *)
LEMMA GrowthIsData ==
  ASSUME TypeOK, Grows
  PROVE  /\ sink' \in Seq(Unit)
         /\ accepted' \in Seq([at : Nat, length : Nat])
         /\ tornAt' \subseteq [session : 1..MaxSessions, at : Nat]
<1>1. CASE UNCHANGED <<sink, accepted, tornAt>>
  BY <1>1 DEF TypeOK
<1>2. ASSUME NEW length \in RecordLengths, GrowsByRecord(length)
      PROVE  /\ sink' \in Seq(Unit)
             /\ accepted' \in Seq([at : Nat, length : Nat])
             /\ tornAt' = tornAt
  <2>1. RecordAt(Len(sink), length) \in [at : Nat, length : Nat]
    <3>1. sink \in Seq(Unit)
      BY DEF TypeOK
    <3>2. Len(sink) \in Nat
      BY <3>1
    <3> QED BY <3>2, LengthsAreNumbers DEF RecordAt
  <2>2. sink \in Seq(Unit) /\ accepted \in Seq([at : Nat, length : Nat])
    BY DEF TypeOK
  <2>3. sink' \in Seq(Unit)
    BY <1>2, <2>2, SerializedIsData, ConcatProperties DEF GrowsByRecord
  <2> QED BY <1>2, <2>1, <2>2, <2>3 DEF GrowsByRecord
<1>3. ASSUME NEW length \in RecordLengths, NEW count \in 1..length,
             GrowsByPart(length, count)
      PROVE  /\ sink' \in Seq(Unit)
             /\ accepted' = accepted
             /\ tornAt' \subseteq [session : 1..MaxSessions, at : Nat]
  <2>1. Len(sink) \in Nat
    BY DEF TypeOK
  <2>2. [session |-> session, at |-> Len(sink)] \in [session : 1..MaxSessions, at : Nat]
    BY <2>1 DEF TypeOK
  <2>3. tornAt' \subseteq [session : 1..MaxSessions, at : Nat]
    BY <1>3, <2>2 DEF GrowsByPart, TypeOK
  <2>4. sink \in Seq(Unit)
    BY DEF TypeOK
  <2>5. sink' \in Seq(Unit)
    BY <1>3, <2>4, PartIsData, ConcatProperties DEF GrowsByPart
  <2> QED BY <1>3, <2>3, <2>5 DEF GrowsByPart
<1> QED BY <1>1, <1>2, <1>3 DEF Grows, TypeOK

LEMMA TypeStep ==
  ASSUME TypeOK, [Next]_vars
  PROVE  TypeOK'
<1>1. CASE UNCHANGED vars
  BY <1>1 DEF vars, TypeOK
<1>2. CASE Next
  <2>1. /\ sink' \in Seq(Unit)
        /\ accepted' \in Seq([at : Nat, length : Nat])
        /\ tornAt' \subseteq [session : 1..MaxSessions, at : Nat]
    BY <1>2, StepGrows, GrowthIsData
  <2>2. \A status \in Status, fallible \in BOOLEAN :
          /\ OpenedStatus(status, fallible) \subseteq Status
          /\ ClosedStatus(status) \subseteq Status
          /\ StreamErrorOf(status) \in Errors
          /\ OutputStreamNotOpenedError(status) \in Errors
    BY StatusesAreStatuses
  <2>3. StreamError \in Errors
    BY <2>2 DEF StreamError, TypeOK, Errors, NoError
  <2>4. \A count : AfterWrite(count) \subseteq Status
    BY DEF AfterWrite, Status
  <2>5. NoError \in Errors /\ "AtEnd" \in Errors /\ "Error" \in Status /\ "NotOpen" \in Status
    BY DEF Errors, Status
  <2>6. CASE Open \/ Close
    <3>1. inner' \in Status /\ own' = inner' /\ ownError' = StreamErrorOf(inner')
      BY <2>2, <2>6 DEF Open, Close, TypeOK
    <3> QED BY <2>1, <2>2, <2>6, <3>1 DEF Open, Close, TypeOK
  <2>7. CASE OwnerOpens \/ OwnerCloses
    <3>1. inner' \in Status
      BY <2>2, <2>7 DEF OwnerOpens, OwnerCloses, TypeOK
    <3> QED BY <2>1, <2>7, <3>1 DEF OwnerOpens, OwnerCloses, TypeOK
  <2>8. CASE NextSession
    <3>1. session' \in 1..MaxSessions
      BY <2>8, OutputAssumption DEF NextSession, TypeOK
    <3> QED BY <2>1, <2>5, <2>8, <3>1 DEF NextSession, NoReply, TypeOK
  <2>9. CASE WriteUnopened
    <3>1. reply' \in [ok : BOOLEAN, error : Errors]
      BY <2>2, <2>3, <2>9 DEF WriteUnopened, TypeOK
    <3> QED BY <2>1, <2>9, <3>1 DEF WriteUnopened, TypeOK
  <2>10. CASE NoSpaceAvailable
    BY <2>1, <2>5, <2>10 DEF NoSpaceAvailable, Fail, TypeOK
  <2>11. ASSUME NEW length \in RecordLengths, RecordTorn(length)
         PROVE  TypeOK'
    <3>1. inner' \in Status
      BY <2>4, <2>11 DEF RecordTorn
    <3>2. Fail("AtEnd")
      BY <2>11 DEF RecordTorn
    <3> QED BY <2>1, <2>5, <3>1, <3>2 DEF Fail, TypeOK
  <2>12. ASSUME NEW length \in RecordLengths, RecordWritten(length)
         PROVE  TypeOK'
    BY <2>1, <2>4, <2>5, <2>12 DEF RecordWritten, TypeOK
  <2> QED BY <1>2, <2>6, <2>7, <2>8, <2>9, <2>10, <2>11, <2>12 DEF Next, WriteRecord
<1> QED BY <1>1, <1>2

(* The state of a BibMARCOutputStream and of its sink keeps its type.      *)
THEOREM TypeCorrect == Spec => []TypeOK
<1>1. Init => TypeOK
  BY TypeInit
<1>2. TypeOK /\ [Next]_vars => TypeOK'
  BY TypeStep
<1> QED BY <1>1, <1>2, PTL DEF Spec

-----------------------------------------------------------------------------

(* The accepted records have lengths that were written.                    *)
AcceptedAreRecords ==
  \A i \in DOMAIN accepted :
    accepted[i].at \in Nat /\ accepted[i].length \in RecordLengths

Starts == {accepted[i].at : i \in DOMAIN accepted} \cup {t.at : t \in tornAt}

IInv ==
  /\ TypeOK
  /\ AcceptedAreRecords
  /\ AcceptedIsWhole
  /\ OnlyTornRecordsLeaveGaps
  /\ TornIsFinal

(* What has been written stays, whatever follows it, ...                   *)
LEMMA StillWhole ==
  ASSUME NEW data \in Seq(Unit), NEW part \in Seq(Unit), NEW at \in Nat,
         NEW length \in RecordLengths, at + length <= Len(data)
  PROVE  SubSeq(data \o part, at + 1, at + length) = SubSeq(data, at + 1, at + length)
<1>1. at + 1 \in 1..Len(data) /\ at + length \in 1..Len(data)
  BY LengthsAreNumbers
<1> QED BY <1>1, SubSeqOfConcat1

(* ... and what follows it is whole.                                       *)
LEMMA NewIsWhole ==
  ASSUME NEW data \in Seq(Unit), NEW length \in RecordLengths
  PROVE  SubSeq(data \o Serialized(length), Len(data) + 1, Len(data) + length)
           = Serialized(length)
<1>1. Serialized(length) \in Seq(Unit) /\ Len(Serialized(length)) = length
      /\ length \in Nat /\ length > 0
  BY SerializedIsData, LengthsAreNumbers
<1> HIDE DEF Serialized
<1>2. Len(data) \in Nat
  OBVIOUS
<1>3. SubSeq(data \o Serialized(length), Len(data) + 1, Len(data) + length)
        = SubSeq(Serialized(length), 1, length)
  BY <1>1, <1>2, SubSeqOfConcat2
<1>4. SubSeq(Serialized(length), 1, length) = Serialized(length)
  BY <1>1, SubSeqFull
<1> QED BY <1>3, <1>4

(* Records are accepted one at a time.                                     *)
LEMMA AcceptedGrows ==
  ASSUME TypeOK, NEW length \in RecordLengths, GrowsByRecord(length)
  PROVE  /\ DOMAIN accepted' = 1..(Len(accepted) + 1)
         /\ DOMAIN accepted = 1..Len(accepted) /\ Len(accepted) \in Nat
         /\ \A i \in DOMAIN accepted : accepted'[i] = accepted[i]
         /\ accepted'[Len(accepted) + 1] = RecordAt(Len(sink), length)
<1>1. accepted \in Seq([at : Nat, length : Nat])
  BY DEF TypeOK
<1> QED BY <1>1 DEF GrowsByRecord

LEMMA RecordKeepsWhole ==
  ASSUME TypeOK, AcceptedAreRecords, AcceptedIsWhole,
         NEW length \in RecordLengths, GrowsByRecord(length)
  PROVE  AcceptedAreRecords' /\ AcceptedIsWhole'
<1>1. sink \in Seq(Unit) /\ Len(sink) \in Nat
  BY DEF TypeOK
<1>2. Serialized(length) \in Seq(Unit) /\ Len(Serialized(length)) = length
      /\ length \in Nat /\ length > 0
  BY SerializedIsData, LengthsAreNumbers
<1>3. sink' = sink \o Serialized(length) /\ Len(sink') = Len(sink) + length
  BY <1>1, <1>2, ConcatProperties DEF GrowsByRecord
<1>4. AcceptedAreRecords'
  <2>1. \A i \in DOMAIN accepted' : i \in DOMAIN accepted \/ i = Len(accepted) + 1
    BY AcceptedGrows
  <2>2. \A i \in DOMAIN accepted : accepted'[i] = accepted[i]
    BY AcceptedGrows
  <2>3. accepted'[Len(accepted) + 1] = [at |-> Len(sink), length |-> length]
    BY AcceptedGrows DEF RecordAt
  <2> QED BY <1>1, <2>1, <2>2, <2>3 DEF AcceptedAreRecords
<1>5. ASSUME NEW i \in DOMAIN accepted
      PROVE  /\ EndOf(accepted'[i]) <= Len(sink')
             /\ SubSeq(sink', accepted'[i].at + 1, EndOf(accepted'[i]))
                  = Serialized(accepted'[i].length)
  <2>1. accepted'[i] = accepted[i]
    BY AcceptedGrows
  <2>2. accepted[i].at \in Nat /\ accepted[i].length \in RecordLengths
    BY DEF AcceptedAreRecords
  <2>3. /\ accepted[i].at + accepted[i].length <= Len(sink)
        /\ SubSeq(sink, accepted[i].at + 1, accepted[i].at + accepted[i].length)
             = Serialized(accepted[i].length)
    BY DEF AcceptedIsWhole, EndOf
  <2>4. SubSeq(sink', accepted[i].at + 1, accepted[i].at + accepted[i].length)
          = Serialized(accepted[i].length)
    BY <1>1, <1>2, <1>3, <2>2, <2>3, StillWhole
  <2>5. accepted[i].at + accepted[i].length <= Len(sink')
    <3>1. accepted[i].at \in Nat /\ accepted[i].length \in Nat
      BY <2>2, LengthsAreNumbers
    <3> QED BY <1>1, <1>2, <1>3, <2>3, <3>1
  <2> QED BY <2>1, <2>4, <2>5 DEF EndOf
<1>6. LET i == Len(accepted) + 1
      IN  /\ EndOf(accepted'[i]) <= Len(sink')
          /\ SubSeq(sink', accepted'[i].at + 1, EndOf(accepted'[i]))
               = Serialized(accepted'[i].length)
  <2>1. accepted'[Len(accepted) + 1] = [at |-> Len(sink), length |-> length]
    BY AcceptedGrows DEF RecordAt
  <2>2. SubSeq(sink', Len(sink) + 1, Len(sink) + length) = Serialized(length)
    BY <1>1, <1>3, NewIsWhole
  <2> QED BY <1>1, <1>2, <1>3, <2>1, <2>2 DEF EndOf
<1>7. \A i \in DOMAIN accepted' : i \in DOMAIN accepted \/ i = Len(accepted) + 1
  BY AcceptedGrows
<1>8. AcceptedIsWhole'
  BY <1>5, <1>6, <1>7 DEF AcceptedIsWhole
<1> QED BY <1>4, <1>8

LEMMA PartKeepsWhole ==
  ASSUME TypeOK, AcceptedAreRecords, AcceptedIsWhole,
         NEW length \in RecordLengths, NEW count \in 1..length, GrowsByPart(length, count)
  PROVE  AcceptedAreRecords' /\ AcceptedIsWhole'
<1> DEFINE part == SubSeq(Serialized(length), 1, count)
<1>1. sink \in Seq(Unit) /\ Len(sink) \in Nat
  BY DEF TypeOK
<1>2. part \in Seq(Unit) /\ Len(part) = count
  BY PartIsData
<1>3. sink' = sink \o part /\ accepted' = accepted
  BY DEF GrowsByPart
<1> HIDE DEF part
<1>4. Len(sink') = Len(sink) + count
  BY <1>1, <1>2, <1>3, ConcatProperties
<1>5. AcceptedAreRecords'
  BY <1>3 DEF AcceptedAreRecords
<1>6. ASSUME NEW i \in DOMAIN accepted
      PROVE  /\ EndOf(accepted[i]) <= Len(sink')
             /\ SubSeq(sink', accepted[i].at + 1, EndOf(accepted[i]))
                  = Serialized(accepted[i].length)
  <2>1. accepted[i].at \in Nat /\ accepted[i].length \in RecordLengths
    BY DEF AcceptedAreRecords
  <2>2. /\ accepted[i].at + accepted[i].length <= Len(sink)
        /\ SubSeq(sink, accepted[i].at + 1, accepted[i].at + accepted[i].length)
             = Serialized(accepted[i].length)
    BY DEF AcceptedIsWhole, EndOf
  <2>3. SubSeq(sink', accepted[i].at + 1, accepted[i].at + accepted[i].length)
          = Serialized(accepted[i].length)
    BY <1>1, <1>2, <1>3, <2>1, <2>2, StillWhole
  <2>4. count \in Nat /\ accepted[i].length \in Nat
    BY <2>1, LengthsAreNumbers
  <2>5. accepted[i].at + accepted[i].length <= Len(sink')
    BY <1>1, <1>4, <2>1, <2>2, <2>4
  <2> QED BY <2>3, <2>5 DEF EndOf
<1>7. AcceptedIsWhole'
  BY <1>3, <1>6 DEF AcceptedIsWhole
<1> QED BY <1>5, <1>7

-----------------------------------------------------------------------------

(* Where the data ended, something starts when it grows.                   *)
LEMMA GapsStep ==
  ASSUME TypeOK, OnlyTornRecordsLeaveGaps, Grows
  PROVE  OnlyTornRecordsLeaveGaps'
<1>1. /\ sink # << >> => 0 \in Starts \cup {Len(sink)}
      /\ \A i \in DOMAIN accepted : EndOf(accepted[i]) \in Starts \cup {Len(sink)}
  BY DEF OnlyTornRecordsLeaveGaps, Starts
<1>2. sink \in Seq(Unit) /\ accepted \in Seq([at : Nat, length : Nat])
  BY DEF TypeOK
<1>3. SUFFICES /\ sink' # << >> => 0 \in Starts' \cup {Len(sink')}
               /\ \A i \in DOMAIN accepted' : EndOf(accepted'[i]) \in Starts' \cup {Len(sink')}
  BY DEF OnlyTornRecordsLeaveGaps, Starts
<1>4. CASE UNCHANGED <<sink, accepted, tornAt>>
  BY <1>1, <1>4 DEF Starts
<1>5. ASSUME Starts \cup {Len(sink)} \subseteq Starts'
      PROVE  /\ 0 \in Starts'
             /\ \A i \in DOMAIN accepted : EndOf(accepted[i]) \in Starts'
  <2>1. sink = << >> => Len(sink) = 0
    OBVIOUS
  <2> QED BY <1>1, <1>5, <2>1
<1>6. ASSUME NEW length \in RecordLengths, GrowsByRecord(length)
      PROVE  /\ 0 \in Starts'
             /\ \A i \in DOMAIN accepted' : EndOf(accepted'[i]) \in Starts' \cup {Len(sink')}
  <2>1. /\ DOMAIN accepted' = 1..(Len(accepted) + 1)
        /\ DOMAIN accepted = 1..Len(accepted) /\ Len(accepted) \in Nat
        /\ \A i \in DOMAIN accepted : accepted'[i] = accepted[i]
        /\ accepted'[Len(accepted) + 1] = [at |-> Len(sink), length |-> length]
    BY <1>6, AcceptedGrows DEF RecordAt
  <2>2. tornAt' = tornAt /\ Len(sink') = Len(sink) + length
    <3>1. Serialized(length) \in Seq(Unit) /\ Len(Serialized(length)) = length
      BY SerializedIsData
    <3>2. sink' = sink \o Serialized(length) /\ tornAt' = tornAt
      BY <1>6 DEF GrowsByRecord
    <3> HIDE DEF Serialized
    <3> QED BY <1>2, <3>1, <3>2, ConcatProperties
  <2>3. Len(sink) \in Starts'
    BY <2>1 DEF Starts
  <2>4. Starts \subseteq Starts'
    BY <2>1, <2>2 DEF Starts
  <2>5. \A i \in DOMAIN accepted : EndOf(accepted'[i]) \in Starts'
    BY <1>5, <2>1, <2>3, <2>4
  <2>6. EndOf(accepted'[Len(accepted) + 1]) = Len(sink')
    BY <2>1, <2>2 DEF EndOf
  <2> QED BY <1>5, <2>1, <2>3, <2>4, <2>5, <2>6
<1>7. ASSUME NEW length \in RecordLengths, NEW count \in 1..length,
             GrowsByPart(length, count)
      PROVE  /\ 0 \in Starts'
             /\ \A i \in DOMAIN accepted' : EndOf(accepted'[i]) \in Starts' \cup {Len(sink')}
  <2>1. accepted' = accepted /\ [session |-> session, at |-> Len(sink)] \in tornAt'
        /\ tornAt \subseteq tornAt'
    BY <1>7 DEF GrowsByPart
  <2>2. Len(sink) \in Starts' /\ Starts \subseteq Starts'
    BY <2>1 DEF Starts
  <2> QED BY <1>5, <2>1, <2>2
<1> QED BY <1>3, <1>4, <1>6, <1>7 DEF Grows

(* The stream that has cut off a record stays as TornIsFinal says.         *)
LEMMA TornStep ==
  ASSUME TypeOK, TornIsFinal, Next
  PROVE  TornIsFinal'
<1>1. /\ session \in Nat /\ \A t \in tornAt : t.session \in Nat
      /\ \A t \in tornAt : t.session <= session
  BY DEF TornIsFinal, TypeOK
<1> DEFINE Torn == \E t \in tornAt : t.session = session
<1>2. Torn => /\ inner # "NotOpen"
              /\ own = "Error" \/ (own = "Closed" /\ inner = "Closed")
  BY DEF TornIsFinal
<1>3. CASE Open
  <2>1. tornAt' = tornAt /\ session' = session /\ ~Torn
    BY <1>2, <1>3 DEF Open
  <2> QED BY <1>1, <2>1 DEF TornIsFinal
<1>4. CASE Close
  <2>1. tornAt' = tornAt /\ session' = session /\ own' = inner'
        /\ inner' \in ClosedStatus(inner)
    BY <1>4 DEF Close
  <2>2. Torn => inner' \in {"Closed", "Error"}
    BY <1>2, <2>1 DEF ClosedStatus
  <2> QED BY <1>1, <2>1, <2>2 DEF TornIsFinal
<1>5. CASE OwnerOpens
  <2>1. tornAt' = tornAt /\ session' = session /\ ~Torn
    BY <1>2, <1>5 DEF OwnerOpens
  <2> QED BY <1>1, <2>1 DEF TornIsFinal
<1>6. CASE OwnerCloses
  <2>1. tornAt' = tornAt /\ session' = session /\ own' = own /\ inner # "Closed"
        /\ inner' \in ClosedStatus(inner)
    BY <1>6 DEF OwnerCloses
  <2>2. Torn => inner' \in {"Closed", "Error"} /\ own' = "Error"
    BY <1>2, <2>1 DEF ClosedStatus
  <2> QED BY <1>1, <2>1, <2>2 DEF TornIsFinal
<1>7. CASE NextSession
  <2>1. tornAt' = tornAt /\ session' = session + 1
    BY <1>7 DEF NextSession
  <2>2. \A t \in tornAt' : t.session <= session' /\ t.session # session'
    BY <1>1, <2>1
  <2> QED BY <2>2 DEF TornIsFinal
<1>8. CASE WriteUnopened
  <2>1. UNCHANGED <<tornAt, session, inner, own>>
    BY <1>8 DEF WriteUnopened
  <2> QED BY <1>1, <1>2, <2>1 DEF TornIsFinal
<1>9. CASE NoSpaceAvailable
  <2>1. UNCHANGED <<tornAt, session, inner>> /\ own' = "Error"
    BY <1>9 DEF NoSpaceAvailable, Fail
  <2> QED BY <1>1, <1>2, <2>1 DEF TornIsFinal
<1>10. ASSUME NEW length \in RecordLengths, RecordTorn(length)
       PROVE  TornIsFinal'
  <2>1. own' = "Error" /\ session' = session
    BY <1>10 DEF RecordTorn, Fail
  <2>2. inner' # "NotOpen"
    BY <1>10 DEF RecordTorn, AfterWrite
  <2>3. \A t \in tornAt' : t \in tornAt \/ t.session = session
    BY <1>10 DEF RecordTorn
  <2> QED BY <1>1, <2>1, <2>2, <2>3 DEF TornIsFinal
<1>11. ASSUME NEW length \in RecordLengths, RecordWritten(length)
       PROVE  TornIsFinal'
  <2>1. tornAt' = tornAt /\ session' = session /\ StreamStatus = "Open"
    BY <1>11 DEF RecordWritten, CanWrite
  <2>2. ~Torn
    BY <1>2, <2>1 DEF StreamStatus
  <2> QED BY <1>1, <2>1, <2>2 DEF TornIsFinal
<1> QED BY <1>3, <1>4, <1>5, <1>6, <1>7, <1>8, <1>9, <1>10, <1>11 DEF Next, WriteRecord

-----------------------------------------------------------------------------

LEMMA IInvInit ==
  ASSUME Init
  PROVE  IInv
<1>1. TypeOK
  BY TypeInit
<1>2. sink = << >> /\ accepted = << >> /\ tornAt = {}
  BY DEF Init
<1>3. DOMAIN accepted = {}
  BY <1>2
<1> QED BY <1>1, <1>2, <1>3
DEF IInv, AcceptedAreRecords, AcceptedIsWhole, OnlyTornRecordsLeaveGaps, TornIsFinal

LEMMA IInvStep ==
  ASSUME IInv, [Next]_vars
  PROVE  IInv'
<1>1. TypeOK'
  BY TypeStep DEF IInv
<1>2. CASE UNCHANGED vars
  BY <1>1, <1>2 DEF vars, IInv, AcceptedAreRecords, AcceptedIsWhole,
                    OnlyTornRecordsLeaveGaps, TornIsFinal
<1>3. CASE Next
  <2>1. Grows
    BY <1>3, StepGrows DEF IInv
  <2>2. AcceptedAreRecords' /\ AcceptedIsWhole'
    <3>1. CASE UNCHANGED <<sink, accepted, tornAt>>
      BY <3>1 DEF IInv, AcceptedAreRecords, AcceptedIsWhole
    <3>2. ASSUME NEW length \in RecordLengths, GrowsByRecord(length)
          PROVE  AcceptedAreRecords' /\ AcceptedIsWhole'
      BY <3>2, RecordKeepsWhole DEF IInv
    <3>3. ASSUME NEW length \in RecordLengths, NEW count \in 1..length,
                 GrowsByPart(length, count)
          PROVE  AcceptedAreRecords' /\ AcceptedIsWhole'
      BY <3>3, PartKeepsWhole DEF IInv
    <3> QED BY <2>1, <3>1, <3>2, <3>3 DEF Grows
  <2>3. OnlyTornRecordsLeaveGaps'
    BY <2>1, GapsStep DEF IInv
  <2>4. TornIsFinal'
    BY <1>3, TornStep DEF IInv
  <2> QED BY <1>1, <2>2, <2>3, <2>4 DEF IInv
<1> QED BY <1>2, <1>3

THEOREM IInvIsInvariant == Spec => []IInv
<1>1. Init => IInv
  BY IInvInit
<1>2. IInv /\ [Next]_vars => IInv'
  BY IInvStep
<1> QED BY <1>1, <1>2, PTL DEF Spec

(* A record whose write returned YES is in the data, whole, and stays so.  *)
THEOREM AcceptedStaysWhole == Spec => []AcceptedIsWhole
<1>1. IInv => AcceptedIsWhole
  BY DEF IInv
<1> QED BY <1>1, IInvIsInvariant, PTL

(* What is not part of an accepted record was left by a torn one.          *)
THEOREM GapsAreTorn == Spec => []OnlyTornRecordsLeaveGaps
<1>1. IInv => OnlyTornRecordsLeaveGaps
  BY DEF IInv
<1> QED BY <1>1, IInvIsInvariant, PTL

(* The stream that has cut a record off writes nothing behind it.          *)
THEOREM TornIsLast == Spec => NothingFollowsATornRecord
<1>1. ASSUME IInv, [Next]_vars,
             \E t \in tornAt : t.session = session, session' = session
      PROVE  sink' = sink
  <2>1. own = "Error" \/ (own = "Closed" /\ inner = "Closed")
    BY <1>1 DEF IInv, TornIsFinal
  <2>2. StreamStatus # "Open"
    BY <2>1 DEF StreamStatus
  <2> QED BY <1>1, <2>2
  DEF Next, vars, Open, Close, OwnerOpens, OwnerCloses, NextSession, WriteUnopened,
      NoSpaceAvailable, WriteRecord, RecordTorn, RecordWritten, CanWrite
<1>2. IInv /\ [Next]_vars =>
        [(\E t \in tornAt : t.session = session) /\ session' = session
           => sink' = sink]_vars
  BY <1>1
<1> QED BY <1>2, IInvIsInvariant, PTL DEF Spec, NothingFollowsATornRecord
=============================================================================

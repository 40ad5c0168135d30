------------------------ MODULE MARCPipeline_proofs ------------------------
(***************************************************************************)
(* For every set of record lengths, every sink and transport, any number   *)
(* of sessions and every interleaving: a BibMARCOutputStream and a         *)
(* BibMARCInputStream on the same data implement a RecordChannel, what a   *)
(* cut-off record damages lies behind it, and without one a single call    *)
(* decodes all that was accepted.                                          *)
(***************************************************************************)
EXTENDS MARCPipeline, SequenceTheorems, WellFoundedInduction, TLAPS

Unit == Reader!Unit
Record == Reader!Record
Serialized(length) == Writer!Serialized(length)
EndOf(record) == Reader!EndOf(record)

(* What a step of the writer makes of the data.                            *)
GrowsByRecord(length) ==
  /\ data' = data \o Serialized(length)
  /\ accepted' = Append(accepted, [at |-> Len(data), length |-> length])
  /\ tornAt' = tornAt

GrowsByPart(length, count) ==
  /\ data' = data \o SubSeq(Serialized(length), 1, count)
  /\ accepted' = accepted
  /\ tornAt' = tornAt \cup {[session |-> session, at |-> Len(data)]}

(* What a step of the reader makes of its place in it.                     *)
Complains ==
  /\ pos' \in pos..Len(data)
  /\ delivered' = delivered
  /\ complained' = TRUE

Delivers(length) ==
  /\ pos + length <= Len(data)
  /\ data[pos + 1] = [kind |-> "len", length |-> length]
  /\ pos' = pos + length
  /\ delivered' = Append(delivered, [at |-> pos, length |-> length])
  /\ complained' = complained

-----------------------------------------------------------------------------

TypesOK ==
  /\ data \in Seq(Unit)
  /\ sinkKind \in {"memory", "buffer", "file"}
  /\ accepted \in Seq(Record)
  /\ \A t \in tornAt : t.at \in Nat
  /\ pos \in 0..Len(data)
  /\ delivered \in Seq(Record)
  /\ complained \in BOOLEAN

(* An accepted record is in the data, as far as its leader's first unit;   *)
(* the next one begins behind it.                                          *)
AcceptedIsThere ==
  \A i \in DOMAIN accepted :
    /\ accepted[i].length \in RecordLengths
    /\ EndOf(accepted[i]) <= Len(data)
    /\ data[accepted[i].at + 1] = [kind |-> "len", length |-> accepted[i].length]

AcceptedInOrder ==
  \A i, j \in DOMAIN accepted : i < j => EndOf(accepted[i]) <= accepted[j].at

(* Before anything was cut off, a length can only be read where a record   *)
(* that was accepted begins.                                               *)
LengthsAreStarts ==
  \A p \in 0..(Len(data) - 1) :
    /\ data[p + 1].kind = "len"
    /\ \A t \in tornAt : p < t.at
    => \E j \in DOMAIN accepted : accepted[j].at = p

DeliveredIsBehind ==
  \A i \in DOMAIN delivered : EndOf(delivered[i]) <= pos

(* A reader that has not complained has all the records it has passed.     *)
NoneIsSkipped ==
  tornAt = {} /\ ~complained =>
    \A j \in DOMAIN accepted :
      accepted[j].at < pos => \E i \in DOMAIN delivered : delivered[i] = accepted[j]

PInv ==
  /\ TypesOK
  /\ AcceptedIsThere
  /\ AcceptedInOrder
  /\ LengthsAreStarts
  /\ DeliveredIsBehind
  /\ DamageIsConfined
  /\ NoneIsSkipped

-----------------------------------------------------------------------------

LEMMA LengthsAreNumbers ==
  ASSUME NEW length \in RecordLengths
  PROVE  /\ length \in Nat /\ length >= LeaderLength + 2 /\ length <= MaxRecordLength
         /\ LeaderLength \in Nat /\ LeaderLength >= 2 /\ MaxRecordLength \in Nat
BY PipelineAssumption

LEMMA RecordsAreNumbers ==
  ASSUME NEW s \in Seq(Record)
  PROVE  \A i \in DOMAIN s : s[i] \in [at : Nat, length : Nat]
<1>1. \A i \in DOMAIN s : s[i] \in Record
  BY ElementOfSeq
<1> QED BY <1>1 DEF Record, Reader!Record

(* The units of a record: as many as its leader says in its first one, and *)
(* only there.                                                             *)
UnitAt(length, i) ==
  IF i = 1 THEN [kind |-> "len", length |-> length]
  ELSE [kind   |-> CASE i = 2                -> "base"
                     [] i = LeaderLength + 1 -> "dir"
                     [] i = length           -> "term"
                     [] OTHER                -> "field",
        length |-> 0]

LEMMA SerializedIsData ==
  ASSUME NEW length \in RecordLengths
  PROVE  /\ Serialized(length) \in Seq(Unit)
         /\ Len(Serialized(length)) = length
         /\ Serialized(length)[1] = [kind |-> "len", length |-> length]
         /\ \A i \in 2..length : Serialized(length)[i].kind # "len"
<1>1. Serialized(length) = [i \in 1..length |-> UnitAt(length, i)]
  BY Zenon DEF Serialized, Writer!Serialized, UnitAt
<1>2. \A i \in 1..length : UnitAt(length, i) \in Unit
  BY LengthsAreNumbers DEF UnitAt, Unit, Reader!Unit
<1>3. Serialized(length) \in [1..length -> Unit]
  BY <1>1, <1>2
<1>4. ASSUME NEW S, NEW n \in Nat, NEW s \in [1..n -> S]
      PROVE  s \in Seq(S) /\ Len(s) = n
  BY <1>4
<1>5. Serialized(length) \in Seq(Unit) /\ Len(Serialized(length)) = length
  BY <1>3, <1>4, LengthsAreNumbers, Zenon
<1>6. UnitAt(length, 1) = [kind |-> "len", length |-> length]
  BY DEF UnitAt
<1>7. \A i \in 2..length : UnitAt(length, i).kind # "len"
  BY LengthsAreNumbers DEF UnitAt
<1>8. 1 \in 1..length /\ 2..length \subseteq 1..length
  BY LengthsAreNumbers
<1>9. /\ Serialized(length)[1] = [kind |-> "len", length |-> length]
      /\ \A i \in 2..length : Serialized(length)[i].kind # "len"
  BY <1>1, <1>6, <1>7, <1>8
<1> QED BY <1>5, <1>9

(* The data behind a write, unit by unit.                                  *)
LEMMA DataBehindRecord ==
  ASSUME TypesOK, NEW length \in RecordLengths, GrowsByRecord(length)
  PROVE  /\ data' \in Seq(Unit) /\ Len(data) \in Nat
         /\ length \in Nat /\ length > 0
         /\ Len(data') = Len(data) + length
         /\ \A i \in 1..Len(data) : data'[i] = data[i]
         /\ data'[Len(data) + 1] = [kind |-> "len", length |-> length]
         /\ \A i \in (Len(data) + 2)..Len(data') : data'[i].kind # "len"
<1> DEFINE s == Serialized(length)
<1>1. /\ s \in Seq(Unit) /\ Len(s) = length
      /\ s[1] = [kind |-> "len", length |-> length]
      /\ \A i \in 2..length : s[i].kind # "len"
  BY SerializedIsData
<1>2. data' = data \o s /\ data \in Seq(Unit)
  BY DEF GrowsByRecord, TypesOK
<1>3. length \in Nat /\ length > 0
  BY LengthsAreNumbers
<1> HIDE DEF s
<1>4. data' \in Seq(Unit) /\ Len(data') = Len(data) + length /\ Len(data) \in Nat
  BY <1>1, <1>2, ConcatProperties
<1>5. \A i \in 1..(Len(data) + length) :
        data'[i] = IF i <= Len(data) THEN data[i] ELSE s[i - Len(data)]
  BY <1>1, <1>2, ConcatProperties
<1>6. \A i \in 1..Len(data) : data'[i] = data[i]
  BY <1>3, <1>4, <1>5
<1>7. data'[Len(data) + 1] = s[1]
  BY <1>3, <1>4, <1>5
<1>8. ASSUME NEW i \in (Len(data) + 2)..Len(data')
      PROVE  data'[i].kind # "len"
  <2>1. i - Len(data) \in 2..length /\ i \in 1..(Len(data) + length) /\ ~(i <= Len(data))
    BY <1>3, <1>4
  <2>2. data'[i] = s[i - Len(data)]
    BY <1>5, <2>1
  <2> QED BY <1>1, <2>1, <2>2
<1> QED BY <1>1, <1>3, <1>4, <1>6, <1>7, <1>8

LEMMA DataBehindPart ==
  ASSUME TypesOK, NEW length \in RecordLengths, NEW count \in 1..length,
         GrowsByPart(length, count)
  PROVE  /\ data' \in Seq(Unit) /\ Len(data) \in Nat
         /\ Len(data') = Len(data) + count
         /\ \A i \in 1..Len(data) : data'[i] = data[i]
<1> DEFINE s == SubSeq(Serialized(length), 1, count)
<1>1. Serialized(length) \in Seq(Unit) /\ Len(Serialized(length)) = length
  BY SerializedIsData
<1>2. length \in Nat
  BY LengthsAreNumbers
<1>3. \A i \in 1..count : Serialized(length)[i] \in Unit
  BY <1>1, <1>2, ElementOfSeq
<1>4. s \in Seq(Unit) /\ Len(s) = count
  BY <1>1, <1>2, <1>3
<1>5. data' = data \o s /\ data \in Seq(Unit)
  BY DEF GrowsByPart, TypesOK
<1> HIDE DEF s
<1>6. data' \in Seq(Unit) /\ Len(data') = Len(data) + count /\ Len(data) \in Nat
  <2>1. data' \in Seq(Unit) /\ Len(data') = Len(data) + Len(s)
    BY <1>4, <1>5, ConcatProperties, Zenon
  <2>2. Len(data) \in Nat
    BY <1>5
  <2> QED BY <1>4, <2>1, <2>2
<1>7. \A i \in 1..(Len(data) + count) :
        data'[i] = IF i <= Len(data) THEN data[i] ELSE s[i - Len(data)]
  BY <1>4, <1>5, ConcatProperties
<1>8. \A i \in 1..Len(data) : data'[i] = data[i]
  BY <1>6, <1>7
<1> QED BY <1>6, <1>8

-----------------------------------------------------------------------------

(* A step of the writer grows the data by a record or by a part of one, or *)
(* leaves it alone.                                                        *)
LEMMA WriterStep ==
  ASSUME TypesOK, Writer!Next
  PROVE  /\ sinkKind' = sinkKind
         /\ \/ UNCHANGED <<data, accepted, tornAt>>
            \/ \E length \in RecordLengths : GrowsByRecord(length)
            \/ \E length \in RecordLengths : \E count \in 1..length :
                 GrowsByPart(length, count)
<1>1. CASE Writer!Open \/ Writer!Close \/ Writer!OwnerOpens \/ Writer!OwnerCloses
             \/ Writer!NextSession \/ Writer!WriteUnopened
  BY <1>1 DEF Writer!Open, Writer!Close, Writer!OwnerOpens, Writer!OwnerCloses,
              Writer!NextSession, Writer!WriteUnopened
<1>2. CASE Writer!NoSpaceAvailable
  BY <1>2 DEF Writer!NoSpaceAvailable, Writer!Fail
<1>3. ASSUME NEW length \in RecordLengths, Writer!RecordWritten(length)
      PROVE  sinkKind' = sinkKind /\ GrowsByRecord(length)
  <2>1. /\ data' = data \o Serialized(length)
        /\ accepted' = Append(accepted, Writer!RecordAt(Len(data), length))
        /\ tornAt' = tornAt /\ sinkKind' = sinkKind
    BY <1>3 DEF Writer!RecordWritten, Serialized
  <2>2. Writer!RecordAt(Len(data), length) = [at |-> Len(data), length |-> length]
    BY DEF Writer!RecordAt
  <2> QED BY <2>1, <2>2 DEF GrowsByRecord
<1>4. ASSUME NEW length \in RecordLengths, Writer!RecordTorn(length)
      PROVE  /\ sinkKind' = sinkKind
             /\ \/ UNCHANGED <<data, accepted, tornAt>>
                \/ \E count \in 1..length : GrowsByPart(length, count)
  <2>1. PICK count \in Writer!WriteCounts(length) \ {length} :
          /\ data' = data \o (IF count = Writer!WriteFailed THEN << >>
                              ELSE SubSeq(Serialized(length), 1, count))
          /\ tornAt' = IF count > 0
                       THEN tornAt \cup {[session |-> session, at |-> Len(data)]}
                       ELSE tornAt
    BY <1>4 DEF Writer!RecordTorn, Serialized
  <2>2. accepted' = accepted /\ sinkKind' = sinkKind
    BY <1>4 DEF Writer!RecordTorn, Writer!Fail
  <2>3. Writer!HasSpaceAvailable
    BY <1>4 DEF Writer!RecordTorn, Writer!CanWrite
  <2>4. length \in Nat /\ Capacity \in Nat /\ Len(data) \in Nat
    <3>1. data \in Seq(Unit)
      BY DEF TypesOK
    <3> QED BY <3>1, LengthsAreNumbers, PipelineAssumption
  <2>5. count \in {-1} \cup 0..length
    <3>1. sinkKind \in {"memory", "buffer", "file"}
      BY DEF TypesOK
    <3> QED BY <2>3, <2>4, <3>1
            DEF Writer!WriteCounts, Writer!HasSpaceAvailable, Writer!Room, Writer!WriteFailed
  <2>6. CASE count = -1 \/ count = 0
    <3>1. tornAt' = tornAt
      BY <2>1, <2>6
    <3>2. SubSeq(Serialized(length), 1, 0) = << >>
      BY SubSeqEmpty
    <3>3. data' = data \o << >>
      BY <2>1, <2>6, <3>2 DEF Writer!WriteFailed
    <3>4. data' = data
      BY <3>3 DEF TypesOK
    <3> QED BY <2>2, <3>1, <3>4
  <2>7. CASE count \in 1..length
    <3>1. count \in Nat /\ count > 0 /\ count # -1
      BY <2>4, <2>7
    <3>2. GrowsByPart(length, count)
      BY <2>1, <2>2, <3>1 DEF GrowsByPart, Writer!WriteFailed
    <3> QED BY <2>2, <2>7, <3>2
  <2> QED BY <2>4, <2>5, <2>6, <2>7
<1> QED BY <1>1, <1>2, <1>3, <1>4 DEF Writer!Next, Writer!WriteRecord

-----------------------------------------------------------------------------

(* A read that returns its units has them to return.                       *)
LEMMA CountsAreBounded ==
  ASSUME TypesOK, NEW offset \in 0..Len(data), NEW n \in Nat,
         NEW count \in Reader!ReadCounts(offset, n)
  PROVE  count = -1 \/ (count \in 0..n /\ offset + count <= Len(data))
<1>1. data \in Seq(Unit) /\ Len(data) \in Nat
  BY DEF TypesOK
<1>2. Reader!Rest(offset, n) \in 0..n /\ offset + Reader!Rest(offset, n) <= Len(data)
  BY <1>1 DEF Reader!Rest
<1>3. count = -1 \/ count = Reader!Rest(offset, n) \/ count \in 1..Reader!Rest(offset, n)
  BY DEF Reader!ReadCounts, Reader!ReadFailed
<1> QED BY <1>1, <1>2, <1>3

(* A leader that has been read promises a record longer than itself.       *)
LEMMA LeaderPromises ==
  ASSUME TypesOK, Reader!LeaderRead
  PROVE  /\ pos + LeaderLength <= Len(data)
         /\ Reader!BodyOffset \in 0..Len(data)
         /\ Reader!BodyLength \in Nat
         /\ \E length \in Nat :
              /\ length > 0
              /\ data[pos + 1] = [kind |-> "len", length |-> length]
              /\ Reader!RecordLength(data, pos) = length
              /\ Reader!BodyOffset + Reader!BodyLength = pos + length
<1>1. /\ LeaderLength \in Nat /\ LeaderLength >= 2 /\ MaxRecordLength \in Nat
      /\ data \in Seq(Unit) /\ Len(data) \in Nat /\ pos \in 0..Len(data) /\ pos \in Nat
  BY PipelineAssumption DEF TypesOK
<1>2. LeaderLength \in Reader!ReadCounts(pos, LeaderLength)
      /\ Reader!LeaderIsWellFormed(data, pos)
  BY DEF Reader!LeaderRead
<1>3. pos + LeaderLength <= Len(data)
  <2>1. LeaderLength = -1 \/ (LeaderLength \in 0..LeaderLength /\ pos + LeaderLength <= Len(data))
    BY <1>1, <1>2, CountsAreBounded
  <2> QED BY <1>1, <2>1
<1>4. pos + 1 \in 1..Len(data)
  BY <1>1, <1>3
<1>5. data[pos + 1] \in Unit /\ data[pos + 1].kind = "len"
  BY <1>1, <1>2, <1>4, ElementOfSeq DEF Reader!LeaderIsWellFormed
<1>6. data[pos + 1] \in [kind : {"len"}, length : (LeaderLength + 1)..MaxRecordLength]
  BY <1>5 DEF Unit, Reader!Unit
<1>7. PICK length \in (LeaderLength + 1)..MaxRecordLength :
        data[pos + 1] = [kind |-> "len", length |-> length]
  BY <1>6
<1>8. Reader!RecordLength(data, pos) = length
  BY <1>7 DEF Reader!RecordLength
<1>9. length \in Nat /\ length > LeaderLength
  BY <1>1, <1>7
<1>10. Reader!BodyOffset = pos + LeaderLength /\ Reader!BodyLength = length - LeaderLength
  BY <1>8 DEF Reader!BodyOffset, Reader!BodyLength
<1>11. /\ Reader!BodyOffset \in 0..Len(data) /\ Reader!BodyLength \in Nat /\ length > 0
       /\ Reader!BodyOffset + Reader!BodyLength = pos + length
  BY <1>1, <1>3, <1>9, <1>10
<1> QED BY <1>3, <1>7, <1>8, <1>9, <1>11

(* What returning without a record, or with one, makes of the history.     *)
LEMMA ReturnsNothing ==
  ASSUME TypesOK, NEW call, NEW offset, NEW status,
         NEW error \in {"AtEnd", "MissingData", "Malformed"},
         Reader!Return(call, offset, status, Reader!NoRecord, error)
  PROVE  /\ pos' = offset /\ delivered' = delivered
         /\ error = "AtEnd" => complained' = complained
         /\ error # "AtEnd" => complained' = TRUE
<1>1. /\ pos' = offset /\ delivered' = delivered
      /\ complained' = (complained \/ error \notin {Reader!NoError, "AtEnd"})
  BY DEF Reader!Return
<1>2. CASE error = "AtEnd"
  <2>1. complained \in BOOLEAN
    BY DEF TypesOK
  <2>2. ~(error \notin {Reader!NoError, "AtEnd"})
    BY <1>2
  <2> QED BY <1>1, <1>2, <2>1, <2>2, Zenon
<1>3. CASE error # "AtEnd"
  <2>1. error \notin {Reader!NoError, "AtEnd"}
    BY <1>3 DEF Reader!NoError
  <2>2. (complained \/ error \notin {Reader!NoError, "AtEnd"}) = TRUE
    BY <2>1, Zenon
  <2> QED BY <1>1, <1>3, <2>2, Zenon
<1> QED BY <1>2, <1>3, Zenon

LEMMA ReturnsRecord ==
  ASSUME TypesOK, NEW call, NEW offset, NEW status, NEW length \in Nat, length > 0,
         Reader!Return(call, offset, status, Reader!RecordAt(pos, length), Reader!NoError)
  PROVE  /\ pos' = offset
         /\ delivered' = Append(delivered, [at |-> pos, length |-> length])
         /\ complained' = complained
<1>1. Reader!RecordAt(pos, length) = [at |-> pos, length |-> length]
  BY DEF Reader!RecordAt
<1>2. Reader!RecordAt(pos, length) # Reader!NoRecord
  BY DEF Reader!RecordAt, Reader!NoRecord, TypesOK
<1>3. /\ pos' = offset
      /\ delivered' = Append(delivered, Reader!RecordAt(pos, length))
      /\ complained' = (complained \/ Reader!NoError \notin {Reader!NoError, "AtEnd"})
  BY <1>2 DEF Reader!Return
<1>4. complained' = complained
  <2>1. complained \in BOOLEAN
    BY DEF TypesOK
  <2>2. ~(Reader!NoError \notin {Reader!NoError, "AtEnd"})
    OBVIOUS
  <2> QED BY <1>3, <2>1, <2>2, Zenon
<1> QED BY <1>1, <1>3, <1>4

(* A step of the reader leaves everything alone, complains, or delivers    *)
(* the record that the leader before it promises.                          *)
LEMMA ReaderStep ==
  ASSUME TypesOK, Reader!Next
  PROVE  \/ UNCHANGED <<pos, delivered, complained>>
         \/ Complains
         \/ \E length \in Nat : length > 0 /\ Delivers(length)
<1>0. /\ data \in Seq(Unit) /\ Len(data) \in Nat /\ pos \in 0..Len(data) /\ pos \in Nat
      /\ LeaderLength \in Nat /\ LeaderLength >= 2
  BY PipelineAssumption DEF TypesOK
<1>1. CASE Reader!Open \/ Reader!Close \/ Reader!OwnerOpens \/ Reader!OwnerCloses
  BY <1>1 DEF Reader!Open, Reader!Close, Reader!OwnerOpens, Reader!OwnerCloses
<1>2. ASSUME NEW call, Reader!ReadUnopened(call)
      PROVE  UNCHANGED <<pos, delivered, complained>>
  BY <1>2 DEF Reader!ReadUnopened
<1>3. ASSUME NEW call, Reader!NoBytesAvailable(call)
      PROVE  UNCHANGED <<pos, delivered, complained>>
  <2>1. Reader!Return(call, pos, readerInner, Reader!NoRecord, "AtEnd")
    BY <1>3 DEF Reader!NoBytesAvailable
  <2> QED BY <2>1, ReturnsNothing, Zenon
<1>4. ASSUME NEW call, Reader!LeaderUnavailable(call)
      PROVE  UNCHANGED <<pos, delivered, complained>> \/ Complains
  <2>1. PICK count \in Reader!ReadCounts(pos, LeaderLength) \ {LeaderLength} :
          Reader!Return(call, Reader!Advance(pos, count), Reader!AfterRead(pos, count),
                        Reader!NoRecord, IF count = 0 THEN "AtEnd" ELSE "MissingData")
    BY <1>4 DEF Reader!LeaderUnavailable
  <2>2. count = -1 \/ (count \in 0..LeaderLength /\ pos + count <= Len(data))
    BY <1>0, CountsAreBounded
  <2>3. CASE count = 0
    <3>1. Reader!Advance(pos, count) = pos
      BY <1>0, <2>3 DEF Reader!Advance, Reader!ReadFailed
    <3>2. Reader!Return(call, pos, Reader!AfterRead(pos, count), Reader!NoRecord, "AtEnd")
      BY <2>1, <2>3, <3>1
    <3> QED BY <3>2, ReturnsNothing
  <2>4. CASE count # 0
    <3>1. Reader!Advance(pos, count) \in pos..Len(data)
      BY <1>0, <2>2 DEF Reader!Advance, Reader!ReadFailed
    <3>2. Reader!Return(call, Reader!Advance(pos, count), Reader!AfterRead(pos, count),
                        Reader!NoRecord, "MissingData")
      BY <2>1, <2>4
    <3>3. pos' = Reader!Advance(pos, count) /\ delivered' = delivered /\ complained' = TRUE
      BY <3>2, ReturnsNothing
    <3> QED BY <3>1, <3>3 DEF Complains
  <2> QED BY <2>3, <2>4
<1>5. ASSUME NEW call, Reader!LeaderMalformed(call)
      PROVE  Complains
  <2>1. LeaderLength \in Reader!ReadCounts(pos, LeaderLength)
        /\ Reader!Return(call, pos + LeaderLength, Reader!AfterRead(pos, LeaderLength),
                         Reader!NoRecord, "Malformed")
    BY <1>5 DEF Reader!LeaderMalformed
  <2>2. pos + LeaderLength \in pos..Len(data)
    BY <1>0, <2>1, CountsAreBounded
  <2>3. pos' = pos + LeaderLength /\ delivered' = delivered /\ complained' = TRUE
    BY <2>1, ReturnsNothing
  <2> QED BY <2>2, <2>3 DEF Complains
<1>6. ASSUME NEW call, Reader!BodyUnavailable(call)
      PROVE  Complains
  <2>1. Reader!LeaderRead
    BY <1>6 DEF Reader!BodyUnavailable
  <2> DEFINE start == Reader!BodyOffset
             length == Reader!BodyLength
  <2>2. PICK count \in Reader!ReadCounts(start, length) \ {length} :
          Reader!Return(call, Reader!Advance(start, count), Reader!AfterRead(start, count),
                        Reader!NoRecord, "MissingData")
    BY <1>6 DEF Reader!BodyUnavailable
  <2>3. start \in pos..Len(data) /\ start \in 0..Len(data) /\ length \in Nat
    BY <1>0, <2>1, LeaderPromises DEF Reader!BodyOffset
  <2> HIDE DEF start, length
  <2>4. count = -1 \/ (count \in 0..length /\ start + count <= Len(data))
    BY <2>2, <2>3, CountsAreBounded
  <2>5. Reader!Advance(start, count) \in pos..Len(data)
    BY <1>0, <2>3, <2>4 DEF Reader!Advance, Reader!ReadFailed
  <2>6. pos' = Reader!Advance(start, count) /\ delivered' = delivered /\ complained' = TRUE
    BY <2>2, ReturnsNothing
  <2> QED BY <2>5, <2>6 DEF Complains
<1>7. CASE Reader!BodyMalformed
  BY <1>7 DEF Reader!BodyMalformed
<1>8. ASSUME NEW call, Reader!RecordRead(call)
      PROVE  \E length \in Nat : length > 0 /\ Delivers(length)
  <2>1. /\ Reader!LeaderRead
        /\ Reader!BodyLength \in Reader!ReadCounts(Reader!BodyOffset, Reader!BodyLength)
        /\ Reader!Return(call, Reader!BodyOffset + Reader!BodyLength,
                         Reader!AfterRead(Reader!BodyOffset, Reader!BodyLength),
                         Reader!RecordAt(pos, Reader!RecordLength(data, pos)), Reader!NoError)
    BY <1>8 DEF Reader!RecordRead, Reader!BodyRead
  <2>2. PICK length \in Nat :
          /\ length > 0
          /\ data[pos + 1] = [kind |-> "len", length |-> length]
          /\ Reader!RecordLength(data, pos) = length
          /\ Reader!BodyOffset + Reader!BodyLength = pos + length
    BY <2>1, LeaderPromises
  <2>3. Reader!BodyOffset \in 0..Len(data) /\ Reader!BodyLength \in Nat
    BY <2>1, LeaderPromises
  <2>4. pos + length <= Len(data)
    BY <2>1, <2>2, <2>3, CountsAreBounded
  <2>5. Reader!Return(call, pos + length,
                      Reader!AfterRead(Reader!BodyOffset, Reader!BodyLength),
                      Reader!RecordAt(pos, length), Reader!NoError)
    BY <2>1, <2>2
  <2>6. /\ pos' = pos + length
        /\ delivered' = Append(delivered, [at |-> pos, length |-> length])
        /\ complained' = complained
    BY <2>2, <2>5, ReturnsRecord
  <2> QED BY <2>2, <2>4, <2>6 DEF Delivers
<1> QED BY <1>1, <1>2, <1>3, <1>4, <1>5, <1>6, <1>7, <1>8 DEF Reader!Next, Reader!ReadRecord

-----------------------------------------------------------------------------

(* Everything recorded so far is as it was when the data has only grown.   *)
LEMMA OldRecordsAreThere ==
  ASSUME TypesOK, AcceptedIsThere, Len(data') \in Nat, Len(data) <= Len(data'),
         \A i \in 1..Len(data) : data'[i] = data[i]
  PROVE  \A i \in DOMAIN accepted :
           /\ accepted[i] \in Record
           /\ accepted[i].length \in RecordLengths
           /\ EndOf(accepted[i]) <= Len(data')
           /\ data'[accepted[i].at + 1] = [kind |-> "len", length |-> accepted[i].length]
<1> SUFFICES ASSUME NEW i \in DOMAIN accepted
             PROVE  /\ accepted[i] \in Record
                    /\ accepted[i].length \in RecordLengths
                    /\ EndOf(accepted[i]) <= Len(data')
                    /\ data'[accepted[i].at + 1]
                         = [kind |-> "len", length |-> accepted[i].length]
  OBVIOUS
<1>1. accepted[i] \in Record /\ data \in Seq(Unit)
  BY DEF TypesOK
<1>2. accepted[i].at \in Nat /\ accepted[i].length \in Nat
  BY <1>1 DEF Record, Reader!Record
<1>3. /\ accepted[i].length \in RecordLengths
      /\ accepted[i].at + accepted[i].length <= Len(data)
      /\ data[accepted[i].at + 1] = [kind |-> "len", length |-> accepted[i].length]
  BY DEF AcceptedIsThere, EndOf, Reader!EndOf
<1>4. accepted[i].length > 0
  BY <1>3, LengthsAreNumbers
<1>5. Len(data) \in Nat
  BY <1>1
<1>6. accepted[i].at + 1 \in 1..Len(data)
  BY <1>2, <1>3, <1>4, <1>5
<1>7. accepted[i].at + accepted[i].length <= Len(data')
  BY <1>2, <1>3, <1>5
<1> QED BY <1>1, <1>3, <1>6, <1>7 DEF EndOf, Reader!EndOf

(* The invariant behind a record that was written.                         *)
LEMMA RecordKeepsInv ==
  ASSUME PInv, NEW length \in RecordLengths, GrowsByRecord(length),
         sinkKind' = sinkKind, UNCHANGED <<pos, delivered, complained>>
  PROVE  PInv'
<1> USE DEF PInv
<1>1. /\ data' \in Seq(Unit) /\ Len(data) \in Nat
      /\ length \in Nat /\ length > 0
      /\ Len(data') = Len(data) + length
      /\ \A i \in 1..Len(data) : data'[i] = data[i]
      /\ data'[Len(data) + 1] = [kind |-> "len", length |-> length]
      /\ \A i \in (Len(data) + 2)..Len(data') : data'[i].kind # "len"
  BY DataBehindRecord
<1> DEFINE new == [at |-> Len(data), length |-> length]
           n == Len(accepted) + 1
<1>2. new \in Record /\ new.at = Len(data) /\ new.length = length
  BY <1>1 DEF Record, Reader!Record
<1>3. accepted \in Seq(Record) /\ accepted' = Append(accepted, new)
  BY DEF TypesOK, GrowsByRecord
<1> HIDE DEF new
<1>4. /\ accepted' \in Seq(Record) /\ Len(accepted) \in Nat
      /\ DOMAIN accepted' = 1..n /\ DOMAIN accepted = 1..Len(accepted)
      /\ \A i \in DOMAIN accepted : accepted'[i] = accepted[i]
      /\ accepted'[n] = new
  BY <1>2, <1>3
<1>5. tornAt' = tornAt
  BY DEF GrowsByRecord
<1>6. TypesOK'
  <2>1. pos' \in 0..Len(data')
    BY <1>1 DEF TypesOK
  <2> QED BY <1>1, <1>4, <1>5, <2>1 DEF TypesOK
<1>7. \A i \in DOMAIN accepted :
        /\ accepted[i] \in Record
        /\ accepted[i].length \in RecordLengths
        /\ EndOf(accepted[i]) <= Len(data')
        /\ data'[accepted[i].at + 1] = [kind |-> "len", length |-> accepted[i].length]
  <2>1. Len(data') \in Nat /\ Len(data) <= Len(data')
    BY <1>1
  <2> QED BY <1>1, <2>1, OldRecordsAreThere
<1>8. \A i \in DOMAIN accepted' : i \in DOMAIN accepted \/ i = n
  BY <1>4
<1>9. AcceptedIsThere'
  <2>1. EndOf(new) = Len(data')
    BY <1>1, <1>2 DEF EndOf, Reader!EndOf
  <2>2. ASSUME NEW i \in DOMAIN accepted'
        PROVE  /\ accepted'[i].length \in RecordLengths
               /\ EndOf(accepted'[i]) <= Len(data')
               /\ data'[accepted'[i].at + 1]
                    = [kind |-> "len", length |-> accepted'[i].length]
    <3>1. CASE i \in DOMAIN accepted
      BY <1>4, <1>7, <3>1
    <3>2. CASE i = n
      BY <1>1, <1>2, <1>4, <2>1, <3>2
    <3> QED BY <1>8, <3>1, <3>2
  <2>3. \A i \in DOMAIN accepted' :
          /\ accepted'[i].length \in RecordLengths
          /\ EndOf(accepted'[i]) <= Len(data')
          /\ data'[accepted'[i].at + 1] = [kind |-> "len", length |-> accepted'[i].length]
    BY <2>2, Zenon
  <2> QED BY <2>3, Zenon DEF AcceptedIsThere, EndOf, Reader!EndOf
<1>10. AcceptedInOrder'
  <2>1. ASSUME NEW i \in DOMAIN accepted', NEW j \in DOMAIN accepted', i < j
        PROVE  EndOf(accepted'[i]) <= accepted'[j].at
    <3>1. i \in DOMAIN accepted
      BY <1>4, <2>1
    <3>2. CASE j \in DOMAIN accepted
      BY <1>4, <2>1, <3>1, <3>2 DEF AcceptedInOrder
    <3>3. CASE j = n
      BY <1>2, <1>4, <3>1, <3>3 DEF AcceptedIsThere
    <3> QED BY <1>8, <3>2, <3>3
  <2> QED BY <2>1 DEF AcceptedInOrder, EndOf, Reader!EndOf
<1>11. LengthsAreStarts'
  <2>1. ASSUME NEW p \in 0..(Len(data') - 1), data'[p + 1].kind = "len",
               \A t \in tornAt' : p < t.at
        PROVE  \E j \in DOMAIN accepted' : accepted'[j].at = p
    <3>1. CASE p < Len(data)
      <4>1. p \in 0..(Len(data) - 1) /\ p + 1 \in 1..Len(data)
        BY <1>1, <3>1
      <4>2. data[p + 1].kind = "len" /\ \A t \in tornAt : p < t.at
        BY <1>1, <1>5, <2>1, <4>1
      <4>3. PICK j \in DOMAIN accepted : accepted[j].at = p
        BY <4>1, <4>2 DEF LengthsAreStarts
      <4> QED BY <1>4, <4>3
    <3>2. CASE p = Len(data)
      BY <1>2, <1>4, <3>2
    <3>3. CASE p > Len(data)
      <4>1. p + 1 \in (Len(data) + 2)..Len(data')
        BY <1>1, <3>3
      <4> QED BY <1>1, <2>1, <4>1
    <3> QED BY <1>1, <3>1, <3>2, <3>3
  <2> QED BY <2>1 DEF LengthsAreStarts
<1>12. DeliveredIsBehind'
  BY DEF DeliveredIsBehind, EndOf, Reader!EndOf
<1>13. DamageIsConfined'
  <2>1. \A i \in DOMAIN delivered :
          \/ \E t \in TornOffsets : t < EndOf(delivered[i])
          \/ \E j \in DOMAIN accepted : accepted[j] = delivered[i]
    BY DEF DamageIsConfined, EndOf
  <2>2. \A i \in DOMAIN delivered :
          \/ \E t \in TornOffsets : t < EndOf(delivered[i])
          \/ \E j \in DOMAIN accepted' : accepted'[j] = delivered[i]
    BY <1>4, <2>1
  <2> QED BY <1>5, <2>2 DEF DamageIsConfined, TornOffsets, EndOf, Reader!EndOf
<1>14. NoneIsSkipped'
  <2>1. ~(new.at < pos)
    BY <1>1, <1>2 DEF TypesOK
  <2> QED BY <1>4, <1>5, <1>8, <2>1 DEF NoneIsSkipped
<1> QED BY <1>6, <1>9, <1>10, <1>11, <1>12, <1>13, <1>14

(* The invariant behind a record that was cut off.                         *)
LEMMA PartKeepsInv ==
  ASSUME PInv, NEW length \in RecordLengths, NEW count \in 1..length,
         GrowsByPart(length, count),
         sinkKind' = sinkKind, UNCHANGED <<pos, delivered, complained>>
  PROVE  PInv'
<1> USE DEF PInv
<1>1. /\ data' \in Seq(Unit) /\ Len(data) \in Nat
      /\ Len(data') = Len(data) + count
      /\ \A i \in 1..Len(data) : data'[i] = data[i]
  BY DataBehindPart
<1>2. count \in Nat /\ count > 0
  BY LengthsAreNumbers
<1>3. /\ accepted' = accepted
      /\ tornAt' = tornAt \cup {[session |-> session, at |-> Len(data)]}
  BY DEF GrowsByPart
<1>4. TypesOK'
  <2>1. pos' \in 0..Len(data')
    BY <1>1, <1>2 DEF TypesOK
  <2>2. \A t \in tornAt' : t.at \in Nat
    BY <1>1, <1>3 DEF TypesOK
  <2> QED BY <1>1, <1>3, <2>1, <2>2 DEF TypesOK
<1>5. \A i \in DOMAIN accepted :
        /\ accepted[i] \in Record
        /\ accepted[i].length \in RecordLengths
        /\ EndOf(accepted[i]) <= Len(data')
        /\ data'[accepted[i].at + 1] = [kind |-> "len", length |-> accepted[i].length]
  <2>1. Len(data') \in Nat /\ Len(data) <= Len(data')
    BY <1>1, <1>2
  <2> QED BY <1>1, <2>1, OldRecordsAreThere
<1>6. AcceptedIsThere'
  BY <1>3, <1>5 DEF AcceptedIsThere, EndOf, Reader!EndOf
<1>7. AcceptedInOrder'
  BY <1>3 DEF AcceptedInOrder, EndOf, Reader!EndOf
<1>8. LengthsAreStarts'
  <2>1. ASSUME NEW p \in 0..(Len(data') - 1), data'[p + 1].kind = "len",
               \A t \in tornAt' : p < t.at
        PROVE  \E j \in DOMAIN accepted : accepted[j].at = p
    <3>1. p < Len(data)
      <4> DEFINE cut == [session |-> session, at |-> Len(data)]
      <4>1. cut \in tornAt' /\ cut.at = Len(data)
        BY <1>3
      <4> HIDE DEF cut
      <4>2. p < cut.at
        BY <2>1, <4>1, Zenon
      <4> QED BY <4>1, <4>2
    <3>2. p \in 0..(Len(data) - 1) /\ p + 1 \in 1..Len(data)
      BY <1>1, <3>1
    <3>3. data[p + 1].kind = "len" /\ \A t \in tornAt : p < t.at
      BY <1>1, <1>3, <2>1, <3>2
    <3> QED BY <3>2, <3>3 DEF LengthsAreStarts
  <2> QED BY <1>3, <2>1 DEF LengthsAreStarts
<1>9. DeliveredIsBehind'
  BY DEF DeliveredIsBehind, EndOf, Reader!EndOf
<1>10. DamageIsConfined'
  <2>1. TornOffsets \subseteq TornOffsets'
    BY <1>3 DEF TornOffsets
  <2> QED BY <1>3, <2>1 DEF DamageIsConfined, Reader!EndOf
<1>11. NoneIsSkipped'
  BY <1>3 DEF NoneIsSkipped
<1> QED BY <1>4, <1>6, <1>7, <1>8, <1>9, <1>10, <1>11

-----------------------------------------------------------------------------

(* A record that is delivered before anything was cut off is one that was  *)
(* accepted.                                                               *)
LEMMA DeliversAccepted ==
  ASSUME PInv, NEW length \in Nat, length > 0, Delivers(length),
         \A t \in tornAt : pos < t.at
  PROVE  \E j \in DOMAIN accepted : accepted[j] = [at |-> pos, length |-> length]
<1> USE DEF PInv
<1>1. data \in Seq(Unit) /\ pos \in 0..Len(data) /\ Len(data) \in Nat
  BY DEF TypesOK
<1>2. pos + length <= Len(data) /\ data[pos + 1] = [kind |-> "len", length |-> length]
  BY DEF Delivers
<1>3. pos \in 0..(Len(data) - 1)
  BY <1>1, <1>2
<1>4. PICK j \in DOMAIN accepted : accepted[j].at = pos
  BY <1>2, <1>3 DEF LengthsAreStarts
<1>5. data[pos + 1] = [kind |-> "len", length |-> accepted[j].length]
  BY <1>4 DEF AcceptedIsThere
<1>6. accepted[j].length = length
  BY <1>2, <1>5
<1>7. accepted[j] \in [at : Nat, length : Nat]
  BY RecordsAreNumbers DEF TypesOK
<1>8. accepted[j] = [at |-> pos, length |-> length]
  BY <1>4, <1>6, <1>7
<1> QED BY <1>8

LEMMA DeliveryKeepsInv ==
  ASSUME PInv, NEW length \in Nat, length > 0, Delivers(length), UNCHANGED <<data, writerVars>>
  PROVE  PInv'
<1> USE DEF PInv
<1> DEFINE new == [at |-> pos, length |-> length]
           n == Len(delivered) + 1
<1>1. /\ data \in Seq(Unit) /\ Len(data) \in Nat /\ pos \in 0..Len(data) /\ pos \in Nat
      /\ delivered \in Seq(Record) /\ complained \in BOOLEAN
  BY DEF TypesOK
<1>2. /\ pos + length <= Len(data) /\ pos' = pos + length
      /\ delivered' = Append(delivered, new) /\ complained' = complained
  BY DEF Delivers
<1>3. UNCHANGED <<data, sinkKind, accepted, tornAt, session>>
  BY DEF writerVars
<1>4. new \in Record /\ new.at = pos /\ EndOf(new) = pos'
  BY <1>1, <1>2 DEF Record, Reader!Record, EndOf, Reader!EndOf
<1>5. \A j \in DOMAIN accepted : accepted[j] \in [at : Nat, length : Nat]
  BY RecordsAreNumbers DEF TypesOK
<1>6. (\A t \in tornAt : pos < t.at) => \E j \in DOMAIN accepted : accepted[j] = new
  BY DeliversAccepted
<1> HIDE DEF new
<1>7. /\ delivered' \in Seq(Record) /\ Len(delivered) \in Nat
      /\ DOMAIN delivered' = 1..n /\ DOMAIN delivered = 1..Len(delivered)
      /\ \A i \in DOMAIN delivered : delivered'[i] = delivered[i]
      /\ delivered'[n] = new
  BY <1>1, <1>2, <1>4
<1>8. \A i \in DOMAIN delivered' : i \in DOMAIN delivered \/ i = n
  BY <1>7
<1>9. TypesOK'
  <2>1. pos' \in 0..Len(data)
    BY <1>1, <1>2
  <2> QED BY <1>2, <1>3, <1>7, <2>1 DEF TypesOK
<1>10. AcceptedIsThere' /\ AcceptedInOrder' /\ LengthsAreStarts'
  BY <1>3 DEF AcceptedIsThere, AcceptedInOrder, LengthsAreStarts, EndOf, Reader!EndOf
<1>11. DeliveredIsBehind'
  <2>1. \A i \in DOMAIN delivered : delivered[i] \in [at : Nat, length : Nat]
    BY <1>1, RecordsAreNumbers
  <2>2. \A i \in DOMAIN delivered : EndOf(delivered[i]) <= pos'
    BY <1>1, <1>2, <2>1 DEF DeliveredIsBehind, EndOf, Reader!EndOf
  <2>3. EndOf(new) <= pos'
    BY <1>1, <1>2, <1>4
  <2>4. \A i \in DOMAIN delivered' : EndOf(delivered'[i]) <= pos'
    BY <1>7, <1>8, <2>2, <2>3
  <2> QED BY <2>4 DEF DeliveredIsBehind, EndOf, Reader!EndOf
<1>12. DamageIsConfined'
  <2>1. ASSUME NEW i \in DOMAIN delivered'
        PROVE  \/ \E t \in TornOffsets : t < EndOf(delivered'[i])
               \/ \E j \in DOMAIN accepted : accepted[j] = delivered'[i]
    <3>1. CASE i \in DOMAIN delivered
      BY <1>7, <3>1 DEF DamageIsConfined, EndOf
    <3>2. CASE i = n
      <4>1. CASE \A t \in tornAt : pos < t.at
        BY <1>6, <1>7, <3>2, <4>1
      <4>2. ASSUME NEW t \in tornAt, ~(pos < t.at)
            PROVE  \E o \in TornOffsets : o < EndOf(delivered'[i])
        <5>1. t.at \in Nat
          BY DEF TypesOK
        <5>2. t.at < EndOf(delivered'[i])
          BY <1>1, <1>2, <1>4, <1>7, <3>2, <4>2, <5>1
        <5>3. t.at \in TornOffsets
          BY DEF TornOffsets
        <5> QED BY <5>2, <5>3
      <4> QED BY <4>1, <4>2
    <3> QED BY <1>8, <3>1, <3>2
  <2> QED BY <1>3, <2>1 DEF DamageIsConfined, TornOffsets, EndOf, Reader!EndOf
<1>13. NoneIsSkipped'
  <2>1. SUFFICES ASSUME tornAt = {}, ~complained, NEW j \in DOMAIN accepted,
                        accepted[j].at < pos'
                 PROVE  \E i \in DOMAIN delivered' : delivered'[i] = accepted[j]
    BY <1>2, <1>3 DEF NoneIsSkipped
  <2>2. CASE accepted[j].at < pos
    <3>1. PICK i \in DOMAIN delivered : delivered[i] = accepted[j]
      BY <2>1, <2>2 DEF NoneIsSkipped
    <3> QED BY <1>7, <3>1
  <2>3. CASE ~(accepted[j].at < pos)
    <3>1. PICK k \in DOMAIN accepted : accepted[k] = new
      BY <1>6, <2>1
    <3>2. /\ accepted[j].at \in Nat /\ accepted[j].length \in Nat
          /\ DOMAIN accepted = 1..Len(accepted) /\ Len(accepted) \in Nat
      BY <1>5 DEF TypesOK
    <3>3. ~(k < j)
      BY <1>2, <1>4, <2>1, <3>1, <3>2 DEF AcceptedInOrder
    <3>4. ~(j < k)
      <4>1. accepted[j].length > 0
        <5>1. accepted[j].length \in RecordLengths
          BY DEF AcceptedIsThere
        <5> QED BY <5>1, LengthsAreNumbers
      <4>2. EndOf(accepted[j]) > accepted[j].at
        BY <3>2, <4>1 DEF EndOf, Reader!EndOf
      <4>3. EndOf(accepted[j]) \in Nat
        BY <3>2 DEF EndOf, Reader!EndOf
      <4> QED BY <1>1, <1>4, <2>3, <3>1, <3>2, <4>2, <4>3 DEF AcceptedInOrder
    <3>5. j = k
      BY <3>2, <3>3, <3>4
    <3>6. delivered'[n] = accepted[j] /\ n \in DOMAIN delivered'
      BY <1>7, <3>1, <3>5
    <3> QED BY <3>6
  <2> QED BY <2>2, <2>3
<1> QED BY <1>9, <1>10, <1>11, <1>12, <1>13

LEMMA ComplaintKeepsInv ==
  ASSUME PInv, Complains, UNCHANGED <<data, writerVars>>
  PROVE  PInv'
<1> USE DEF PInv
<1>1. /\ pos' \in pos..Len(data) /\ delivered' = delivered /\ complained' = TRUE
      /\ UNCHANGED <<data, sinkKind, accepted, tornAt, session>>
  BY DEF Complains, writerVars
<1>2. /\ data \in Seq(Unit) /\ pos \in 0..Len(data) /\ Len(data) \in Nat
      /\ delivered \in Seq(Record)
  BY DEF TypesOK
<1>3. TypesOK'
  BY <1>1, <1>2 DEF TypesOK
<1>4. AcceptedIsThere' /\ AcceptedInOrder' /\ LengthsAreStarts'
  BY <1>1 DEF AcceptedIsThere, AcceptedInOrder, LengthsAreStarts, EndOf, Reader!EndOf
<1>5. DeliveredIsBehind'
  <2>1. \A i \in DOMAIN delivered : delivered[i] \in [at : Nat, length : Nat]
    BY <1>2, RecordsAreNumbers
  <2> QED BY <1>1, <1>2, <2>1 DEF DeliveredIsBehind, EndOf, Reader!EndOf
<1>6. DamageIsConfined'
  BY <1>1 DEF DamageIsConfined, TornOffsets, Reader!EndOf
<1>7. NoneIsSkipped'
  BY <1>1 DEF NoneIsSkipped
<1> QED BY <1>3, <1>4, <1>5, <1>6, <1>7

-----------------------------------------------------------------------------

LEMMA PInvInit == Init => PInv
<1> SUFFICES ASSUME Init PROVE PInv
  OBVIOUS
<1>1. /\ data = << >> /\ accepted = << >> /\ tornAt = {} /\ sinkKind \in Sinks
      /\ pos = 0 /\ delivered = << >> /\ complained = FALSE
  BY DEF Init, Writer!Init, Reader!Init
<1>2. sinkKind \in {"memory", "buffer", "file"}
  BY <1>1, PipelineAssumption
<1>3. TypesOK
  <2>1. << >> \in Seq(Unit) /\ << >> \in Seq(Record) /\ 0 \in 0..Len(<< >>)
    OBVIOUS
  <2> QED BY <1>1, <1>2, <2>1 DEF TypesOK
<1>4. AcceptedIsThere /\ AcceptedInOrder /\ DeliveredIsBehind /\ DamageIsConfined /\ NoneIsSkipped
  BY <1>1 DEF AcceptedIsThere, AcceptedInOrder, DeliveredIsBehind, DamageIsConfined,
              NoneIsSkipped
<1>5. LengthsAreStarts
  BY <1>1 DEF LengthsAreStarts
<1> QED BY <1>3, <1>4, <1>5 DEF PInv

(* What a step of either stream makes of the history.                      *)
LEMMA StepOfEither ==
  ASSUME PInv, [Next]_vars
  PROVE  \/ UNCHANGED <<data, sinkKind, accepted, tornAt, pos, delivered, complained>>
         \/ /\ sinkKind' = sinkKind /\ UNCHANGED <<pos, delivered, complained>>
            /\ \/ \E length \in RecordLengths : GrowsByRecord(length)
               \/ \E length \in RecordLengths : \E count \in 1..length :
                    GrowsByPart(length, count)
         \/ /\ UNCHANGED <<data, writerVars>>
            /\ Complains \/ \E length \in Nat : length > 0 /\ Delivers(length)
<1>1. TypesOK
  BY DEF PInv
<1>2. CASE Writer!Next /\ UNCHANGED <<readerVars>>
  <2>1. UNCHANGED <<pos, delivered, complained>>
    BY <1>2 DEF readerVars
  <2> QED BY <1>1, <1>2, <2>1, WriterStep
<1>3. CASE Reader!Next /\ UNCHANGED writerVars
  <2>1. data' = data
    BY <1>3 DEF Reader!Next, Reader!Open, Reader!Close, Reader!OwnerOpens,
                Reader!OwnerCloses, Reader!ReadRecord, Reader!ReadUnopened,
                Reader!NoBytesAvailable, Reader!LeaderUnavailable, Reader!LeaderMalformed,
                Reader!BodyUnavailable, Reader!BodyMalformed, Reader!RecordRead,
                Reader!Return
  <2>2. UNCHANGED <<sinkKind, accepted, tornAt>>
    BY <1>3 DEF writerVars
  <2>3. \/ UNCHANGED <<pos, delivered, complained>>
        \/ Complains \/ \E length \in Nat : length > 0 /\ Delivers(length)
    BY <1>1, <1>3, ReaderStep
  <2> QED BY <1>3, <2>1, <2>2, <2>3
<1>4. CASE UNCHANGED vars
  BY <1>4 DEF vars, writerVars, readerVars
<1> QED BY <1>2, <1>3, <1>4 DEF Next

LEMMA PInvStep == PInv /\ [Next]_vars => PInv'
<1> SUFFICES ASSUME PInv, [Next]_vars PROVE PInv'
  OBVIOUS
<1>1. CASE UNCHANGED <<data, sinkKind, accepted, tornAt, pos, delivered, complained>>
  BY <1>1 DEF PInv, TypesOK, AcceptedIsThere, AcceptedInOrder, LengthsAreStarts,
              DeliveredIsBehind, DamageIsConfined, NoneIsSkipped, TornOffsets, EndOf,
              Reader!EndOf
<1>2. ASSUME sinkKind' = sinkKind, UNCHANGED <<pos, delivered, complained>>,
             NEW length \in RecordLengths, GrowsByRecord(length)
      PROVE  PInv'
  BY <1>2, RecordKeepsInv
<1>3. ASSUME sinkKind' = sinkKind, UNCHANGED <<pos, delivered, complained>>,
             NEW length \in RecordLengths, NEW count \in 1..length,
             GrowsByPart(length, count)
      PROVE  PInv'
  BY <1>3, PartKeepsInv
<1>4. CASE UNCHANGED <<data, writerVars>> /\ Complains
  BY <1>4, ComplaintKeepsInv
<1>5. ASSUME UNCHANGED <<data, writerVars>>, NEW length \in Nat, length > 0, Delivers(length)
      PROVE  PInv'
  BY <1>5, DeliveryKeepsInv
<1> QED BY <1>1, <1>2, <1>3, <1>4, <1>5, StepOfEither, Zenon

THEOREM PInvIsInvariant == Spec => []PInv
BY PInvInit, PInvStep, PTL DEF Spec

(* Whatever is appended behind a record that was cut off, a record that is *)
(* read from before it was accepted.                                       *)
THEOREM DamageStaysBehind == Spec => []DamageIsConfined
<1>1. PInv => DamageIsConfined
  BY DEF PInv
<1> QED BY <1>1, PInvIsInvariant, PTL

-----------------------------------------------------------------------------

LEMMA ChannelInit == Init => Channel!Init
<1> SUFFICES ASSUME Init PROVE Channel!Init
  OBVIOUS
<1>1. accepted = << >> /\ tornAt = {} /\ delivered = << >> /\ complained = FALSE
  BY DEF Init, Writer!Init, Reader!Init
<1>2. (tornAt # {}) = FALSE
  BY <1>1, Zenon
<1> QED BY <1>1, <1>2, Zenon DEF Channel!Init

(* A record that is written is sent.                                       *)
LEMMA RecordIsSent ==
  ASSUME PInv, NEW length \in RecordLengths, GrowsByRecord(length),
         UNCHANGED <<delivered, complained>>
  PROVE  Channel!Send
<1> DEFINE new == [at |-> Len(data), length |-> length]
<1>1. data \in Seq(Unit) /\ accepted \in Seq(Record)
  BY DEF PInv, TypesOK
<1>2. new \in Record
  BY <1>1, LengthsAreNumbers DEF Record, Reader!Record
<1>3. accepted' = Append(accepted, new) /\ tornAt' = tornAt
  BY DEF GrowsByRecord
<1> HIDE DEF new
<1>4. accepted' # << >> /\ accepted'[Len(accepted')] = new
  BY <1>1, <1>2, <1>3
<1>5. Channel!ExtendedByOne(accepted, accepted')
  BY <1>2, <1>3, <1>4 DEF Channel!ExtendedByOne, Record
<1>6. (tornAt # {})' = (tornAt # {})
  BY <1>3, Zenon
<1> QED BY <1>4, <1>5, <1>6, Zenon DEF Channel!Send

(* A record that is delivered is received: the next one, or a later one    *)
(* after a complaint; behind a record that was cut off it may be anything. *)
LEMMA DeliveryIsReceived ==
  ASSUME PInv, NEW length \in Nat, length > 0, Delivers(length), UNCHANGED <<data, writerVars>>
  PROVE  Channel!Receive \/ Channel!ReceiveJunk
<1> DEFINE new == [at |-> pos, length |-> length]
<1>1. /\ pos \in Nat /\ delivered \in Seq(Record) /\ accepted \in Seq(Record)
  BY DEF PInv, TypesOK
<1>2. new \in Record /\ new.at = pos
  BY <1>1 DEF Record, Reader!Record
<1>3. delivered' = Append(delivered, new) /\ complained' = complained
  BY DEF Delivers
<1>4. accepted' = accepted /\ tornAt' = tornAt
  BY DEF writerVars
<1>5. (tornAt # {})' = (tornAt # {})
  BY <1>4, Zenon
<1>6. (\A t \in tornAt : pos < t.at) => \E j \in DOMAIN accepted : accepted[j] = new
  BY DeliversAccepted
<1> HIDE DEF new
<1>7. CASE tornAt # {}
  <2>1. delivered' # << >> /\ delivered'[Len(delivered')] = new
    BY <1>1, <1>2, <1>3
  <2>2. Channel!ExtendedByOne(delivered, delivered')
    BY <1>2, <1>3, <2>1 DEF Channel!ExtendedByOne, Record
  <2> QED BY <1>3, <1>4, <1>5, <1>7, <2>1, <2>2, Zenon DEF Channel!ReceiveJunk
<1>8. CASE tornAt = {}
  <2>1. PICK i \in DOMAIN accepted : accepted[i] = new
    BY <1>6, <1>8
  <2>2. \A j \in DOMAIN accepted : accepted[j] \in [at : Nat, length : Nat]
    BY <1>1, RecordsAreNumbers
  <2>3. ASSUME NEW j \in DOMAIN accepted
        PROVE  /\ accepted[j].at \in Nat /\ EndOf(accepted[j]) \in Nat
               /\ accepted[j].at < EndOf(accepted[j])
    <3>1. accepted[j].length \in RecordLengths
      BY DEF PInv, AcceptedIsThere
    <3>2. accepted[j].length > 0
      BY <3>1, LengthsAreNumbers
    <3> QED BY <2>2, <3>2 DEF EndOf, Reader!EndOf
  <2>4. DOMAIN accepted = 1..Len(accepted) /\ Len(accepted) \in Nat
    BY <1>1
  <2>5. \A j, k \in DOMAIN accepted : j < k => EndOf(accepted[j]) <= accepted[k].at
    BY DEF PInv, AcceptedInOrder
  <2>6. ASSUME NEW j \in DOMAIN accepted, Channel!Arrived(j)
        PROVE  j < i
    <3>1. PICK d \in DOMAIN delivered : delivered[d] = accepted[j]
      BY <2>6 DEF Channel!Arrived
    <3>2. EndOf(accepted[j]) <= pos
      BY <3>1 DEF PInv, DeliveredIsBehind
    <3>3. accepted[j].at < pos
      <4>1. /\ accepted[j].at \in Nat /\ EndOf(accepted[j]) \in Nat
            /\ accepted[j].at < EndOf(accepted[j])
        BY <2>3
      <4> QED BY <1>1, <3>2, <4>1
    <3>4. j # i
      BY <1>1, <1>2, <2>1, <3>3
    <3>5. ~(i < j)
      <4>1. pos < EndOf(accepted[i]) /\ EndOf(accepted[i]) \in Nat
        BY <1>2, <2>1, <2>3
      <4>2. i < j => EndOf(accepted[i]) <= accepted[j].at
        BY <2>5
      <4>3. accepted[j].at \in Nat
        BY <2>2
      <4> QED BY <1>1, <3>3, <4>1, <4>2, <4>3
    <3> QED BY <2>4, <3>4, <3>5
  <2>7. (\A j \in 1..(i - 1) : Channel!Arrived(j)) \/ complained
    <3>1. ASSUME ~complained, NEW j \in 1..(i - 1)
          PROVE  Channel!Arrived(j)
      <4>1. j \in DOMAIN accepted /\ j < i
        BY <2>4
      <4>2. accepted[j].at < pos
        <5>1. EndOf(accepted[j]) <= pos
          BY <1>2, <2>1, <2>5, <4>1
        <5>2. /\ accepted[j].at \in Nat /\ EndOf(accepted[j]) \in Nat
              /\ accepted[j].at < EndOf(accepted[j])
          BY <2>3, <4>1
        <5> QED BY <1>1, <5>1, <5>2
      <4> QED BY <1>8, <3>1, <4>1, <4>2 DEF PInv, NoneIsSkipped, Channel!Arrived
    <3> QED BY <3>1, Zenon
  <2>8. delivered' = Append(delivered, accepted[i])
    BY <1>3, <2>1
  <2> QED BY <1>3, <1>4, <1>5, <2>6, <2>7, <2>8, Zenon DEF Channel!Receive
<1> QED BY <1>7, <1>8

(* Each step of the two streams is a step of the channel or a stutter.     *)
LEMMA ChannelStep == PInv /\ [Next]_vars => [Channel!Next]_(Channel!vars)
<1> SUFFICES ASSUME PInv, [Next]_vars PROVE [Channel!Next]_(Channel!vars)
  OBVIOUS
<1> DEFINE torn == tornAt # {}
<1>1. CASE UNCHANGED <<data, sinkKind, accepted, tornAt, pos, delivered, complained>>
  <2>1. /\ accepted' = accepted /\ delivered' = delivered /\ complained' = complained
        /\ tornAt' = tornAt
    BY <1>1
  <2>2. torn' = torn
    BY <2>1, Zenon
  <2> QED BY <2>1, <2>2, Zenon DEF Channel!vars
<1>2. ASSUME UNCHANGED <<pos, delivered, complained>>,
             NEW length \in RecordLengths, GrowsByRecord(length)
      PROVE  Channel!Next
  <2>1. UNCHANGED <<delivered, complained>>
    BY <1>2
  <2> QED BY <1>2, <2>1, RecordIsSent DEF Channel!Next
<1>3. ASSUME UNCHANGED <<pos, delivered, complained>>,
             NEW length \in RecordLengths, NEW count \in 1..length,
             GrowsByPart(length, count)
      PROVE  Channel!Next
  <2>1. /\ accepted' = accepted /\ delivered' = delivered /\ complained' = complained
        /\ tornAt' # {}
    BY <1>3 DEF GrowsByPart
  <2>2. torn' = TRUE
    BY <2>1, Zenon
  <2>3. Channel!Tear
    BY <2>1, <2>2, Zenon DEF Channel!Tear
  <2> QED BY <2>3 DEF Channel!Next
<1>4. CASE UNCHANGED <<data, writerVars>> /\ Complains
  <2>1. /\ accepted' = accepted /\ delivered' = delivered /\ complained' = TRUE
        /\ tornAt' = tornAt
    BY <1>4 DEF Complains, writerVars
  <2>2. torn' = torn
    BY <2>1, Zenon
  <2>3. Channel!Fault
    BY <2>1, <2>2, Zenon DEF Channel!Fault
  <2> QED BY <2>3 DEF Channel!Next
<1>5. ASSUME UNCHANGED <<data, writerVars>>, NEW length \in Nat, length > 0, Delivers(length)
      PROVE  Channel!Next
  BY <1>5, DeliveryIsReceived DEF Channel!Next
<1> QED BY <1>1, <1>2, <1>3, <1>4, <1>5, StepOfEither, Zenon

(* A BibMARCOutputStream and a BibMARCInputStream on the same data are a   *)
(* record channel: what was accepted arrives in order and at most once,    *)
(* and nothing is skipped or made up without a complaint or a cut-off      *)
(* record.                                                                 *)
THEOREM StreamsAreAChannel == Spec => ImplementsRecordChannel
BY PInvIsInvariant, ChannelInit, ChannelStep, PTL
   DEF Spec, ImplementsRecordChannel, Channel!Spec

-----------------------------------------------------------------------------
(* Decoding in one call: what InputStream_proofs shows of a reader on      *)
(* its own, here of the one that the pipeline instantiates.                *)

(* The operators of the serialization, as the pipeline instantiates them.  *)
NoError == Serialization!NoError
RecordAt(offset, length) == Serialization!RecordAt(offset, length)
NoRecord == Serialization!NoRecord
LeaderIsWellFormed(bytes, offset) == Serialization!LeaderIsWellFormed(bytes, offset)
BodyIsWellFormed(bytes, offset, length) == Serialization!BodyIsWellFormed(bytes, offset, length)
RecordLength(bytes, offset) == Serialization!RecordLength(bytes, offset)
RecordFromData(bytes, offset) == Serialization!RecordFromData(bytes, offset)
RecordsFrom(bytes) == Serialization!RecordsFrom(bytes)
RecordsFromData(bytes) == Serialization!RecordsFromData(bytes)

(* A set of numbers that has one has a least one.                          *)
LEMMA LeastNumber ==
  ASSUME NEW D, D \subseteq Nat, D # {}
  PROVE  \E x \in D : \A y \in D : x <= y
<1> DEFINE Less == {ss \in Nat \X Nat : ss[1] < ss[2]}
<1>1. IsWellFoundedOn(Less, Nat)
  BY NatLessThanWellFounded DEF OpToRel
<1> HIDE DEF Less
<1>2. PICK x \in D : \A y \in D : ~(<<y, x>> \in Less)
  BY <1>1, WFMin
<1>3. ASSUME NEW y \in D PROVE x <= y
  <2>1. x \in Nat /\ y \in Nat
    OBVIOUS
  <2>2. y < x => <<y, x>> \in Less
    BY <2>1 DEF Less
  <2> QED BY <1>2, <2>1, <2>2
<1> QED BY <1>3

(* What holds of 0, and of a number when it holds of the one before.       *)
LEMMA UpTo ==
  ASSUME NEW n \in Nat, NEW S, 0 \in S, \A k \in 1..n : k - 1 \in S => k \in S
  PROVE  \A k \in 0..n : k \in S
<1> DEFINE D == {k \in 0..n : k \notin S}
<1>1. SUFFICES ASSUME D # {} PROVE FALSE
  OBVIOUS
<1>2. PICK x \in D : \A y \in D : x <= y
  <2>1. D \subseteq Nat
    OBVIOUS
  <2> HIDE DEF D
  <2> QED BY <1>1, <2>1, LeastNumber
<1>3. x \in 1..n /\ x - 1 \in 0..n
  OBVIOUS
<1>4. x - 1 \notin D
  BY <1>2, <1>3
<1> QED BY <1>3, <1>4

(* A record is read from behind its offset up to no more than the end.     *)
LEMMA RecordsMoveOn ==
  ASSUME NEW bytes \in Seq(Unit), NEW offset \in 0..Len(bytes),
         RecordFromData(bytes, offset).record # NoRecord
  PROVE  EndOf(RecordFromData(bytes, offset).record) \in (offset + 1)..Len(bytes)
<1> DEFINE length == RecordLength(bytes, offset)
<1>1. /\ LeaderLength \in Nat /\ LeaderLength >= 2 /\ MaxRecordLength \in Nat
      /\ Len(bytes) \in Nat
  BY PipelineAssumption
<1>2. /\ Len(bytes) - offset >= LeaderLength
      /\ LeaderIsWellFormed(bytes, offset)
      /\ Len(bytes) - offset >= length
      /\ RecordFromData(bytes, offset).record = RecordAt(offset, length)
  <2> HIDE DEF length
  <2>1. \A x, e, a : [record |-> x, error |-> e, aborted |-> a].record = x
    OBVIOUS
  <2>2. Len(bytes) - offset < LeaderLength <=> ~(Len(bytes) - offset >= LeaderLength)
    BY <1>1
  <2>3. CASE Len(bytes) - offset >= LeaderLength
    <3>1. offset # Len(bytes)
      BY <1>1, <2>3
    <3>2. LeaderIsWellFormed(bytes, offset)
      BY <2>1, <2>2, <2>3, <3>1
         DEF RecordFromData, Serialization!RecordFromData, NoRecord, NoError, RecordAt,
             RecordLength, LeaderIsWellFormed, BodyIsWellFormed
    <3>3. ~(Len(bytes) - offset < RecordLength(bytes, offset))
      BY <2>1, <2>2, <2>3, <3>1, <3>2
         DEF RecordFromData, Serialization!RecordFromData, NoRecord, NoError, RecordAt,
             RecordLength, LeaderIsWellFormed, BodyIsWellFormed
    <3>4. RecordFromData(bytes, offset).record
            = RecordAt(offset, RecordLength(bytes, offset))
      BY <2>1, <2>2, <2>3, <3>1, <3>2, <3>3
         DEF RecordFromData, Serialization!RecordFromData, NoRecord, NoError, RecordAt,
             RecordLength, LeaderIsWellFormed, BodyIsWellFormed
    <3>5. RecordLength(bytes, offset) \in Nat
      <4>1. bytes[offset + 1] \in Unit
        BY <1>1, <2>3, ElementOfSeq
      <4> QED BY <1>1, <4>1 DEF Unit, Reader!Unit, RecordLength, Serialization!RecordLength
    <3>6. length = RecordLength(bytes, offset)
      BY DEF length
    <3> QED BY <1>1, <2>3, <3>2, <3>3, <3>4, <3>5, <3>6
  <2>4. CASE ~(Len(bytes) - offset >= LeaderLength)
    BY <2>1, <2>2, <2>4
       DEF RecordFromData, Serialization!RecordFromData, NoRecord, NoError, RecordAt,
           RecordLength, LeaderIsWellFormed, BodyIsWellFormed
  <2> QED BY <2>3, <2>4
<1>3. bytes[offset + 1] \in Unit
  BY <1>1, <1>2, ElementOfSeq
<1>4. length \in (LeaderLength + 1)..MaxRecordLength
  BY <1>2, <1>3
     DEF Unit, Reader!Unit, RecordLength, Serialization!RecordLength, LeaderIsWellFormed,
         Serialization!LeaderIsWellFormed
<1> HIDE DEF length
<1>5. EndOf(RecordAt(offset, length)) = offset + length
  BY DEF EndOf, Serialization!EndOf, Reader!EndOf, RecordAt, Serialization!RecordAt
<1> QED BY <1>1, <1>2, <1>4, <1>5

(* The loop from an offset on, when it is known from the next one on.      *)
FromOffset(f, bytes, offset) ==
  LET read == RecordFromData(bytes, offset)
      next == EndOf(read.record)
  IN  IF read.record = NoRecord
      THEN [records |-> << >>, error |-> read.error, aborted |-> read.aborted]
      ELSE IF next = Len(bytes)
      THEN [records |-> <<read.record>>, error |-> NoError, aborted |-> FALSE]
      ELSE [f[next] EXCEPT !.records = <<read.record>> \o @]

IsFrom(f, bytes) == f = [offset \in 0..Len(bytes) |-> FromOffset(f, bytes, offset)]

(* It looks only at the next one.                                          *)
LEMMA FromOffsetLooksAhead ==
  ASSUME NEW bytes \in Seq(Unit), NEW offset \in 0..Len(bytes), NEW f, NEW g,
         \A k \in (offset + 1)..Len(bytes) : f[k] = g[k]
  PROVE  FromOffset(f, bytes, offset) = FromOffset(g, bytes, offset)
<1> DEFINE read == RecordFromData(bytes, offset)
<1>1. CASE read.record = NoRecord
  BY <1>1 DEF FromOffset
<1>2. CASE read.record # NoRecord
  <2>1. EndOf(read.record) \in (offset + 1)..Len(bytes)
    BY <1>2, RecordsMoveOn
  <2>2. f[EndOf(read.record)] = g[EndOf(read.record)]
    BY <2>1
  <2> HIDE DEF read
  <2> QED BY <2>2 DEF FromOffset, read
<1> QED BY <1>1, <1>2

LEMMA FromExists ==
  ASSUME NEW bytes \in Seq(Unit)
  PROVE  \E f : IsFrom(f, bytes)
<1> DEFINE n == Len(bytes)
           IsPart(g, m) == g = [k \in (n - m)..n |-> FromOffset(g, bytes, k)]
           S == {m \in 0..n : \E g : IsPart(g, m)}
<1>1. n \in Nat
  OBVIOUS
<1>2. 0 \in S
  <2> DEFINE g == [k \in (n - 0)..n |-> FromOffset(<< >>, bytes, k)]
  <2>1. n \in 0..Len(bytes) /\ (n - 0)..n = {n} /\ (n + 1)..Len(bytes) = {}
    BY <1>1
  <2>2. FromOffset(<< >>, bytes, n) = FromOffset(g, bytes, n)
    <3> HIDE DEF g
    <3> QED BY <2>1, FromOffsetLooksAhead
  <2>3. g = [k \in (n - 0)..n |-> FromOffset(g, bytes, k)]
    <3>1. \A k \in (n - 0)..n : FromOffset(<< >>, bytes, k) = FromOffset(g, bytes, k)
      <4> HIDE DEF g
      <4> QED BY <2>1, <2>2
    <3> DEFINE h == [k \in (n - 0)..n |-> FromOffset(g, bytes, k)]
    <3>2. g = h
      <4> DEFINE A(k) == FromOffset(<< >>, bytes, k)
                 B(k) == FromOffset(g, bytes, k)
      <4>1. \A k \in (n - 0)..n : A(k) = B(k)
        BY <3>1
      <4>2. g = [k \in (n - 0)..n |-> A(k)] /\ h = [k \in (n - 0)..n |-> B(k)]
        OBVIOUS
      <4> HIDE DEF g, h, A, B
      <4> QED BY <4>1, <4>2
    <3> QED BY <3>2
  <2>4. IsPart(g, 0)
    BY <2>3
  <2> HIDE DEF g, IsPart
  <2> QED BY <1>1, <2>4
<1>3. ASSUME NEW m \in 1..n, m - 1 \in S
      PROVE  m \in S
  <2>1. PICK g : IsPart(g, m - 1)
    BY <1>3
  <2> DEFINE h == [k \in (n - m)..n |-> IF k = n - m THEN FromOffset(g, bytes, n - m) ELSE g[k]]
  <2>2. \A k \in (n - m + 1)..n : g[k] = FromOffset(g, bytes, k)
    <3>1. n - (m - 1) = n - m + 1
      BY <1>1
    <3> QED BY <2>1, <3>1
  <2>3. \A k \in (n - m + 1)..n : h[k] = g[k]
    BY <1>1
  <2>4. h[n - m] = FromOffset(g, bytes, n - m)
    BY <1>1
  <2>5. h = [k \in (n - m)..n |-> h[k]]
    OBVIOUS
  <2> HIDE DEF h
  <2>6. ASSUME NEW k \in (n - m)..n
        PROVE  h[k] = FromOffset(h, bytes, k)
    <3>1. k \in 0..Len(bytes) /\ \A j \in (k + 1)..Len(bytes) : h[j] = g[j]
      BY <1>1, <2>3
    <3>2. FromOffset(h, bytes, k) = FromOffset(g, bytes, k)
      BY <3>1, FromOffsetLooksAhead
    <3>3. k = n - m \/ k \in (n - m + 1)..n
      BY <1>1
    <3> QED BY <2>2, <2>3, <2>4, <3>2, <3>3
  <2>7. IsPart(h, m)
    BY <2>5, <2>6
  <2> HIDE DEF IsPart
  <2> QED BY <2>7
<1> HIDE DEF S
<1>4. \A m \in 1..n : m - 1 \in S => m \in S
  BY <1>3
<1>5. n \in S
  <2> HIDE DEF n
  <2>1. \A m \in 0..n : m \in S
    BY <1>1, <1>2, <1>4, UpTo
  <2> QED BY <1>1, <2>1
<1>6. PICK g : IsPart(g, n)
  BY <1>5 DEF S
<1>7. n - n = 0
  BY <1>1
<1>8. IsFrom(g, bytes)
  BY <1>6, <1>7 DEF IsFrom
<1> QED BY <1>8

LEMMA RecordsFromIs ==
  ASSUME NEW bytes \in Seq(Unit), NEW offset \in 0..Len(bytes)
  PROVE  RecordsFrom(bytes)[offset] = FromOffset(RecordsFrom(bytes), bytes, offset)
<1> DEFINE f == CHOOSE f : IsFrom(f, bytes)
<1>1. IsFrom(f, bytes)
  BY FromExists
<1>2. RecordsFrom(bytes) = f
  BY
     DEF RecordsFrom, Serialization!RecordsFrom, RecordFromData, NoRecord, NoError, RecordAt,
         RecordLength, LeaderIsWellFormed, BodyIsWellFormed, EndOf, Reader!EndOf,
         Serialization!EndOf, IsFrom, FromOffset
<1> HIDE DEF f
<1> QED BY <1>1, <1>2 DEF IsFrom

(* Records that the bytes is made of, with nothing left over.               *)
Decodable(records, bytes) ==
  /\ records # << >>
  /\ \A i \in DOMAIN records :
       /\ records[i].at = IF i = 1 THEN 0 ELSE EndOf(records[i - 1])
       /\ EndOf(records[i]) <= Len(bytes)
       /\ records[i].length > LeaderLength
       /\ LeaderIsWellFormed(bytes, records[i].at)
       /\ records[i].length = RecordLength(bytes, records[i].at)
       /\ BodyIsWellFormed(bytes, records[i].at, records[i].length)
  /\ EndOf(records[Len(records)]) = Len(bytes)

(* What one step of the loop makes of one of them.                         *)
LEMMA DecodableIsRead ==
  ASSUME NEW bytes \in Seq(Unit), NEW records \in Seq(Record), Decodable(records, bytes),
         NEW i \in 1..Len(records)
  PROVE  /\ records[i].at \in 0..Len(bytes)
         /\ records[i] # NoRecord
         /\ RecordFromData(bytes, records[i].at) =
              [record |-> records[i], error |-> NoError, aborted |-> FALSE]
<1> DEFINE at == records[i].at
           length == records[i].length
<1>1. /\ LeaderLength \in Nat /\ LeaderLength >= 2 /\ Len(bytes) \in Nat
  BY PipelineAssumption
<1>2. records[i] \in [at : Nat, length : Nat]
  BY ElementOfSeq DEF Record, Reader!Record
<1>3. records[i] = RecordAt(at, length) /\ at \in Nat /\ length \in Nat
  BY <1>2 DEF RecordAt, Serialization!RecordAt
<1>4. /\ at + length <= Len(bytes) /\ length > LeaderLength
      /\ LeaderIsWellFormed(bytes, at) /\ length = RecordLength(bytes, at)
      /\ BodyIsWellFormed(bytes, at, length)
  BY DEF Decodable, EndOf, Serialization!EndOf, Reader!EndOf
<1> HIDE DEF at, length
<1>5. RecordAt(at, length) # NoRecord
  BY <1>3 DEF RecordAt, Serialization!RecordAt, NoRecord, Serialization!NoRecord
<1>6. /\ at # Len(bytes) /\ ~(Len(bytes) - at < LeaderLength) /\ ~(Len(bytes) - at < length)
      /\ at \in 0..Len(bytes)
  BY <1>1, <1>3, <1>4
<1>7. RecordFromData(bytes, at) =
        [record |-> RecordAt(at, length), error |-> NoError, aborted |-> FALSE]
  BY <1>4, <1>6
     DEF RecordFromData, Serialization!RecordFromData, NoRecord, NoError, RecordAt,
         RecordLength, LeaderIsWellFormed, BodyIsWellFormed
<1> QED BY <1>3, <1>5, <1>6, <1>7 DEF at

Behind(record, rest) == [rest EXCEPT !.records = <<record>> \o @]

AfterRecord(f, bytes, record) ==
  IF EndOf(record) = Len(bytes)
  THEN [records |-> <<record>>, error |-> NoError, aborted |-> FALSE]
  ELSE Behind(record, f[EndOf(record)])

LEMMA FromOffsetIs ==
  ASSUME NEW f, NEW bytes, NEW offset, NEW record, record # NoRecord,
         RecordFromData(bytes, offset) =
           [record |-> record, error |-> NoError, aborted |-> FALSE]
  PROVE  FromOffset(f, bytes, offset) = AfterRecord(f, bytes, record)
<1>1. RecordFromData(bytes, offset).record = record
  OBVIOUS
<1> QED BY <1>1 DEF FromOffset, AfterRecord, Behind

LEMMA AllAreRead ==
  ASSUME NEW bytes \in Seq(Unit), NEW records \in Seq(Record), Decodable(records, bytes)
  PROVE  RecordsFrom(bytes)[0] = [records |-> records, error |-> NoError, aborted |-> FALSE]
<1> DEFINE n == Len(records)
           RestFrom(i) == [j \in 1..(n - i + 1) |-> records[i + j - 1]]
           Read(i) == [records |-> RestFrom(i), error |-> NoError, aborted |-> FALSE]
           f == RecordsFrom(bytes)
           S == {m \in 0..(n - 1) : f[records[n - m].at] = Read(n - m)}
<1>1. /\ n \in Nat /\ n >= 1 /\ n - 1 \in Nat
      /\ records = [j \in 1..n |-> records[j]]
  <2>1. records # << >>
    BY DEF Decodable
  <2> QED BY <2>1
<1>2. ASSUME NEW i \in 1..n
      PROVE  /\ f[records[i].at] = FromOffset(f, bytes, records[i].at)
             /\ FromOffset(f, bytes, records[i].at) = AfterRecord(f, bytes, records[i])
  <2>1. /\ records[i].at \in 0..Len(bytes) /\ records[i] # NoRecord
        /\ RecordFromData(bytes, records[i].at) =
             [record |-> records[i], error |-> NoError, aborted |-> FALSE]
    BY DecodableIsRead
  <2>2. f[records[i].at] = FromOffset(f, bytes, records[i].at)
    BY <2>1, RecordsFromIs
  <2> HIDE DEF f
  <2>3. FromOffset(f, bytes, records[i].at) = AfterRecord(f, bytes, records[i])
    BY <2>1, FromOffsetIs
  <2> QED BY <2>2, <2>3
<1> HIDE DEF f
<1>3. 0 \in S
  <2>1. n - 0 = n /\ n \in 1..n
    BY <1>1
  <2>2. EndOf(records[n]) = Len(bytes)
    BY DEF Decodable
  <2>3. FromOffset(f, bytes, records[n].at) =
          [records |-> <<records[n]>>, error |-> NoError, aborted |-> FALSE]
    BY <1>2, <2>1, <2>2 DEF AfterRecord
  <2>4. RestFrom(n) = <<records[n]>>
    <3>1. n - n + 1 = 1 /\ n + 1 - 1 = n
      BY <1>1
    <3> QED BY <3>1
  <2>5. f[records[n].at] = Read(n)
    BY <1>2, <2>1, <2>3, <2>4
  <2> HIDE DEF RestFrom, Read
  <2> QED BY <1>1, <2>1, <2>5
<1>4. ASSUME NEW m \in 1..(n - 1), m - 1 \in S
      PROVE  m \in S
  <2> DEFINE i == n - m
  <2>1. /\ i \in 1..n /\ i + 1 \in 1..n /\ n - (m - 1) = i + 1 /\ n - m = i /\ i # n
        /\ n - (i + 1) + 1 = n - i /\ n - i \in Nat
    BY <1>1
  <2>2. f[records[i + 1].at] = Read(i + 1)
    <3> HIDE DEF Read
    <3> QED BY <1>4, <2>1
  <2> HIDE DEF i
  <2>3. EndOf(records[i]) = records[i + 1].at
    <3>1. PICK k \in DOMAIN records : k = i + 1 /\ k # 1 /\ k - 1 = i
      BY <1>1, <2>1
    <3>2. records[k].at = EndOf(records[k - 1])
      BY <3>1 DEF Decodable
    <3> QED BY <3>1, <3>2
  <2>4. EndOf(records[i]) # Len(bytes)
    <3>1. records[i + 1] \in [at : Nat, length : Nat]
      BY <2>1, ElementOfSeq DEF Record, Reader!Record
    <3>2. /\ records[i + 1].at + records[i + 1].length <= Len(bytes)
          /\ records[i + 1].length > LeaderLength
      <4>1. i + 1 \in DOMAIN records
        BY <2>1
      <4> QED BY <4>1 DEF Decodable, EndOf, Serialization!EndOf, Reader!EndOf
    <3>3. LeaderLength \in Nat /\ Len(bytes) \in Nat
      BY PipelineAssumption
    <3> QED BY <2>3, <3>1, <3>2, <3>3
  <2>5. f[records[i].at] = Behind(records[i], f[records[i + 1].at])
    <3>1. f[records[i].at] = Behind(records[i], f[EndOf(records[i])])
      BY <1>2, <2>1, <2>4 DEF AfterRecord
    <3> QED BY <2>3, <3>1
  <2>6. f[records[i].at] = [records |-> <<records[i]>> \o RestFrom(i + 1), error |-> NoError,
                            aborted |-> FALSE]
    <3>1. ASSUME NEW r, NEW t
          PROVE  Behind(r, [records |-> t, error |-> NoError, aborted |-> FALSE])
                   = [records |-> <<r>> \o t, error |-> NoError, aborted |-> FALSE]
      <4> DEFINE b == [records |-> t, error |-> NoError, aborted |-> FALSE]
                 u == <<r>> \o t
                 x == [b EXCEPT !.records = u]
      <4>1. Behind(r, b) = x
        BY DEF Behind
      <4> HIDE DEF u
      <4>2. /\ b.error = NoError /\ b.aborted = FALSE
            /\ DOMAIN b = {"records", "error", "aborted"}
            /\ b = [k \in DOMAIN b |-> b[k]]
        OBVIOUS
      <4> HIDE DEF b
      <4>3. /\ x.records = u /\ x.error = NoError /\ x.aborted = FALSE
            /\ DOMAIN x = {"records", "error", "aborted"}
            /\ x = [k \in DOMAIN x |-> x[k]]
        BY <4>2
      <4> HIDE DEF x
      <4>4. x = [records |-> u, error |-> NoError, aborted |-> FALSE]
        BY <4>3
      <4> QED BY <4>1, <4>4 DEF b, u
    <3> HIDE DEF RestFrom
    <3> QED BY <2>2, <2>5, <3>1
  <2>7. <<records[i]>> \o RestFrom(i + 1) = RestFrom(i)
    <3>1. RestFrom(i + 1) = [j \in 1..(n - i) |-> records[i + j]]
      <4>1. \A j \in 1..(n - i) : i + 1 + j - 1 = i + j
        BY <2>1
      <4> QED BY <2>1, <4>1
    <3>2. \A j \in 1..(n - i) : records[i + j] \in Record
      BY <1>1, <2>1, ElementOfSeq
    <3> DEFINE t == [j \in 1..(n - i) |-> records[i + j]]
    <3>3. t \in Seq(Record) /\ Len(t) = n - i
      <4>1. t \in [1..(n - i) -> Record]
        BY <3>2
      <4> QED BY <2>1, <4>1
    <3>4. \A j \in 1..(n - i) : t[j] = records[i + j]
      OBVIOUS
    <3> HIDE DEF t
    <3>5. <<records[i]>> \o t
            = [j \in 1..(n - i + 1) |-> IF j = 1 THEN records[i] ELSE t[j - 1]]
      <4> DEFINE a == <<records[i]>>
      <4>1. a \in Seq(Record) /\ Len(a) = 1 /\ a[1] = records[i]
        BY <2>1, ElementOfSeq
      <4> HIDE DEF a
      <4>2. a \o t \in Seq(Record) /\ Len(a \o t) = n - i + 1
        <5>1. t \in Seq(Record) /\ a \in Seq(Record)
          BY <3>3, <4>1
        <5>2. a \o t \in Seq(Record) /\ Len(a \o t) = Len(a) + Len(t)
          BY <5>1, ConcatProperties
        <5>3. n - i + 1 = 1 + (n - i)
          BY <2>1
        <5> QED BY <3>3, <4>1, <5>2, <5>3
      <4>3. \A j \in 1..(n - i + 1) : (a \o t)[j] = IF j = 1 THEN records[i] ELSE t[j - 1]
        <5>1. \A j \in 1..(Len(a) + Len(t)) :
                (a \o t)[j] = IF j <= Len(a) THEN a[j] ELSE t[j - Len(a)]
          BY <3>3, <4>1, ConcatProperties
        <5>2. n - i + 1 = 1 + (n - i)
          BY <2>1
        <5>3. \A j \in 1..(n - i + 1) :
                (a \o t)[j] = IF j <= 1 THEN a[j] ELSE t[j - 1]
          BY <3>3, <4>1, <5>1, <5>2
        <5>4. \A j \in 1..(n - i + 1) : j <= 1 <=> j = 1
          OBVIOUS
        <5> QED BY <4>1, <5>3, <5>4
      <4>4. a \o t = [j \in 1..(n - i + 1) |-> (a \o t)[j]]
        <5> DEFINE u == a \o t
        <5>1. u \in Seq(Record) /\ Len(u) = n - i + 1
          BY <4>2
        <5> HIDE DEF u
        <5>2. u = [j \in 1..(n - i + 1) |-> u[j]]
          BY <5>1
        <5> QED BY <5>2 DEF u
      <4> QED BY <4>3, <4>4 DEF a
    <3>6. \A j \in 1..(n - i + 1) :
            (IF j = 1 THEN records[i] ELSE t[j - 1]) = records[i + j - 1]
      <4> TAKE j \in 1..(n - i + 1)
      <4>1. CASE j = 1
        <5>1. i + j - 1 = i
          BY <2>1, <4>1
        <5> QED BY <4>1, <5>1
      <4>2. CASE j # 1
        <5>1. j - 1 \in 1..(n - i) /\ i + (j - 1) = i + j - 1
          BY <2>1, <4>2
        <5> QED BY <3>4, <4>2, <5>1
      <4> QED BY <4>1, <4>2
    <3>7. <<records[i]>> \o t = RestFrom(i)
      BY <3>5, <3>6
    <3>8. RestFrom(i + 1) = t
      BY <3>1 DEF t
    <3> HIDE DEF RestFrom
    <3> QED BY <3>7, <3>8
  <2>8. f[records[i].at] = Read(i)
    <3> HIDE DEF RestFrom
    <3> QED BY <2>6, <2>7
  <2>9. m \in 0..(n - 1)
    BY <1>1
  <2> HIDE DEF Read
  <2> QED BY <2>1, <2>8, <2>9
<1>5. n - 1 \in S
  <2> HIDE DEF S
  <2>1. \A m \in 1..(n - 1) : m - 1 \in S => m \in S
    BY <1>4
  <2> HIDE DEF n
  <2>2. \A m \in 0..(n - 1) : m \in S
    BY <1>1, <1>3, <2>1, UpTo
  <2> QED BY <1>1, <2>2
<1>6. f[records[1].at] = Read(1)
  <2>1. n - (n - 1) = 1
    BY <1>1
  <2> HIDE DEF Read, n
  <2> QED BY <1>5, <2>1
<1>7. records[1].at = 0
  BY <1>1 DEF Decodable
<1>8. RestFrom(1) = records
  <2>1. n - 1 + 1 = n /\ \A j \in 1..n : 1 + j - 1 = j
    BY <1>1
  <2>2. RestFrom(1) = [j \in 1..n |-> records[j]]
    BY <2>1
  <2> HIDE DEF RestFrom
  <2> QED BY <1>1, <2>2
<1> HIDE DEF RestFrom
<1> QED BY <1>6, <1>7, <1>8 DEF f

LEMMA DecodedInOneCall ==
  ASSUME NEW bytes \in Seq(Unit), NEW records \in Seq(Record), Decodable(records, bytes)
  PROVE  RecordsFromData(bytes) =
           [nil |-> FALSE, records |-> records, error |-> NoError, aborted |-> FALSE]
<1>1. 1 \in 1..Len(records) /\ records[1].at = 0
  <2>1. records # << >>
    BY DEF Decodable
  <2>2. 1 \in 1..Len(records)
    BY <2>1
  <2> QED BY <2>2 DEF Decodable
<1>2. RecordFromData(bytes, 0).record # NoRecord
  <2>1. /\ records[1] # NoRecord
        /\ RecordFromData(bytes, records[1].at) =
             [record |-> records[1], error |-> NoError, aborted |-> FALSE]
    BY <1>1, DecodableIsRead
  <2>2. RecordFromData(bytes, records[1].at).record = records[1]
    BY <2>1
  <2> QED BY <1>1, <2>1, <2>2
<1>3. RecordsFrom(bytes)[0] = [records |-> records, error |-> NoError, aborted |-> FALSE]
  BY AllAreRead
<1> DEFINE all == RecordsFrom(bytes)[0]
<1>4. all.error = NoError /\ all.records = records /\ all.aborted = FALSE
  BY <1>3
<1>5. RecordsFromData(bytes) =
        [nil     |-> all.error # NoError,
         records |-> IF all.error # NoError THEN << >> ELSE all.records,
         error   |-> all.error,
         aborted |-> all.aborted]
  BY <1>2
     DEF RecordsFromData, Serialization!RecordsFromData, RecordFromData, RecordsFrom, NoRecord,
         NoError, RecordAt, RecordLength, LeaderIsWellFormed, BodyIsWellFormed, EndOf,
         Reader!EndOf, Serialization!EndOf
<1> HIDE DEF all
<1> QED BY <1>4, <1>5

-----------------------------------------------------------------------------
(* One call on data that holds all of the records written.                 *)

(* The data is the accepted records, one behind the other, as long as      *)
(* nothing was cut off.                                                    *)
AcceptedIsAll ==
  tornAt = {} =>
    \/ accepted = << >> /\ data = << >>
    \/ Decodable(accepted, data)

LEMMA SerializedIsDecodable ==
  ASSUME NEW length \in RecordLengths
  PROVE  /\ Serialized(length)[1] = [kind |-> "len", length |-> length]
         /\ Serialized(length)[2].kind = "base"
         /\ Serialized(length)[LeaderLength + 1].kind = "dir"
         /\ Serialized(length)[length].kind = "term"
<1>1. Serialized(length) = [i \in 1..length |-> UnitAt(length, i)]
  BY Zenon DEF Serialized, Writer!Serialized, UnitAt
<1>2. /\ length \in Nat /\ length >= LeaderLength + 2
      /\ LeaderLength \in Nat /\ LeaderLength >= 2
  BY LengthsAreNumbers
<1>3. {1, 2, LeaderLength + 1, length} \subseteq 1..length
  BY <1>2
<1>4. /\ UnitAt(length, 1) = [kind |-> "len", length |-> length]
      /\ UnitAt(length, 2).kind = "base"
      /\ UnitAt(length, LeaderLength + 1).kind = "dir"
      /\ UnitAt(length, length).kind = "term"
  BY <1>2 DEF UnitAt
<1> QED BY <1>1, <1>3, <1>4

(* A record and what it is decoded from, in the data and behind more of it. *)
LEMMA RecordKeepsAll ==
  ASSUME PInv, AcceptedIsAll, tornAt = {}, NEW length \in RecordLengths, GrowsByRecord(length)
  PROVE  Decodable(accepted', data')
<1> DEFINE s == Serialized(length)
           new == [at |-> Len(data), length |-> length]
           n == Len(accepted) + 1
<1>1. /\ data \in Seq(Unit) /\ Len(data) \in Nat /\ accepted \in Seq(Record)
      /\ data' = data \o s /\ accepted' = Append(accepted, new)
  BY DEF PInv, TypesOK, GrowsByRecord
<1>2. /\ s \in Seq(Unit) /\ Len(s) = length
      /\ s[1] = [kind |-> "len", length |-> length]
      /\ s[2].kind = "base" /\ s[LeaderLength + 1].kind = "dir" /\ s[length].kind = "term"
  BY SerializedIsData, SerializedIsDecodable
<1>3. /\ length \in Nat /\ length >= LeaderLength + 2 /\ LeaderLength \in Nat
      /\ LeaderLength >= 2
  BY LengthsAreNumbers
<1> HIDE DEF s
<1>4. /\ Len(data') = Len(data) + length
      /\ \A i \in 1..Len(data) : data'[i] = data[i]
      /\ \A i \in 1..length : data'[Len(data) + i] = s[i]
  <2>1. /\ Len(data') = Len(data) + length
        /\ \A i \in 1..(Len(data) + length) :
             data'[i] = IF i <= Len(data) THEN data[i] ELSE s[i - Len(data)]
    BY <1>1, <1>2, ConcatProperties
  <2>2. ASSUME NEW i \in 1..length
        PROVE  data'[Len(data) + i] = s[i]
    <3>1. /\ Len(data) + i \in 1..(Len(data) + length)
          /\ ~(Len(data) + i <= Len(data)) /\ Len(data) + i - Len(data) = i
      BY <1>1, <1>3
    <3> QED BY <2>1, <3>1
  <2> QED BY <1>1, <1>3, <2>1, <2>2
<1>5. new \in Record /\ new.at = Len(data) /\ new.length = length
  BY <1>1, <1>3 DEF Record, Reader!Record
<1> HIDE DEF new
<1>6. /\ accepted' \in Seq(Record) /\ Len(accepted) \in Nat /\ Len(accepted') = n
      /\ DOMAIN accepted' = 1..n /\ DOMAIN accepted = 1..Len(accepted)
      /\ \A i \in DOMAIN accepted : accepted'[i] = accepted[i]
      /\ accepted'[n] = new /\ accepted' # << >>
  BY <1>1, <1>5
<1>7. Len(data) = IF n = 1 THEN 0 ELSE EndOf(accepted[n - 1])
  <2>1. CASE accepted = << >> /\ data = << >>
    BY <1>6, <2>1
  <2>2. CASE Decodable(accepted, data)
    <3>1. accepted # << >> /\ Len(data) = EndOf(accepted[Len(accepted)])
      BY <2>2 DEF Decodable
    <3>2. n # 1 /\ n - 1 = Len(accepted)
      BY <1>1, <1>6, <3>1
    <3> QED BY <3>1, <3>2
  <2> QED BY <2>1, <2>2 DEF AcceptedIsAll
<1>8. EndOf(new) = Len(data')
  BY <1>4, <1>5 DEF EndOf, Reader!EndOf
<1>9. /\ new.length > LeaderLength
      /\ LeaderIsWellFormed(data', new.at)
      /\ new.length = RecordLength(data', new.at)
      /\ BodyIsWellFormed(data', new.at, new.length)
  <2>1. {1, 2, LeaderLength + 1, length} \subseteq 1..length
    BY <1>3
  <2>2. /\ data'[Len(data) + 1] = [kind |-> "len", length |-> length]
        /\ data'[Len(data) + 2].kind = "base"
        /\ data'[Len(data) + (LeaderLength + 1)].kind = "dir"
        /\ data'[Len(data) + length].kind = "term"
    BY <1>2, <1>4, <2>1
  <2>3. Len(data) + (LeaderLength + 1) = Len(data) + LeaderLength + 1
    BY <1>1, <1>3
  <2>4. new.length > LeaderLength
    BY <1>3, <1>5
  <2> QED BY <1>5, <2>2, <2>3, <2>4
          DEF LeaderIsWellFormed, BodyIsWellFormed, RecordLength,
              Serialization!LeaderIsWellFormed, Serialization!BodyIsWellFormed,
              Serialization!RecordLength
<1>10. ASSUME NEW i \in DOMAIN accepted
       PROVE  /\ accepted[i].at = IF i = 1 THEN 0 ELSE EndOf(accepted[i - 1])
              /\ EndOf(accepted[i]) <= Len(data')
              /\ accepted[i].length > LeaderLength
              /\ LeaderIsWellFormed(data', accepted[i].at)
              /\ accepted[i].length = RecordLength(data', accepted[i].at)
              /\ BodyIsWellFormed(data', accepted[i].at, accepted[i].length)
  <2>1. Decodable(accepted, data)
    <3>1. accepted # << >>
      BY <1>6, <1>10
    <3> QED BY <3>1 DEF AcceptedIsAll
  <2> DEFINE at == accepted[i].at
             l == accepted[i].length
  <2>2. at \in Nat /\ l \in Nat
    BY <1>1, RecordsAreNumbers
  <2>3. /\ at = IF i = 1 THEN 0 ELSE EndOf(accepted[i - 1])
        /\ EndOf(accepted[i]) = at + l /\ at + l <= Len(data) /\ l > LeaderLength
        /\ LeaderIsWellFormed(data, at) /\ l = RecordLength(data, at)
        /\ BodyIsWellFormed(data, at, l)
    BY <2>1 DEF Decodable, EndOf, Reader!EndOf
  <2> HIDE DEF at, l
  <2>4. /\ at + 1 \in 1..Len(data) /\ at + 2 \in 1..Len(data)
        /\ at + LeaderLength + 1 \in 1..Len(data) /\ at + l \in 1..Len(data)
    <3> DEFINE d == Len(data)
    <3>1. d \in Nat /\ at + l <= d /\ l > LeaderLength
      BY <1>1, <2>3
    <3> HIDE DEF d
    <3>2. /\ at + 1 \in 1..d /\ at + 2 \in 1..d
          /\ at + LeaderLength + 1 \in 1..d /\ at + l \in 1..d
      BY <1>3, <2>2, <3>1
    <3> QED BY <3>2 DEF d
  <2>5. /\ data'[at + 1] = data[at + 1] /\ data'[at + 2] = data[at + 2]
        /\ data'[at + LeaderLength + 1] = data[at + LeaderLength + 1]
        /\ data'[at + l] = data[at + l]
    BY <1>4, <2>4
  <2>6. /\ LeaderIsWellFormed(data', at) /\ l = RecordLength(data', at)
        /\ BodyIsWellFormed(data', at, l)
    BY <2>3, <2>5
       DEF LeaderIsWellFormed, BodyIsWellFormed, RecordLength,
           Serialization!LeaderIsWellFormed, Serialization!BodyIsWellFormed,
           Serialization!RecordLength
  <2>7. at + l <= Len(data')
    BY <1>1, <1>3, <1>4, <2>2, <2>3
  <2> QED BY <2>3, <2>6, <2>7 DEF at, l
<1>11. ASSUME NEW i \in DOMAIN accepted'
       PROVE  /\ accepted'[i].at = IF i = 1 THEN 0 ELSE EndOf(accepted'[i - 1])
              /\ EndOf(accepted'[i]) <= Len(data')
              /\ accepted'[i].length > LeaderLength
              /\ LeaderIsWellFormed(data', accepted'[i].at)
              /\ accepted'[i].length = RecordLength(data', accepted'[i].at)
              /\ BodyIsWellFormed(data', accepted'[i].at, accepted'[i].length)
  <2>1. CASE i \in DOMAIN accepted
    <3>1. accepted'[i] = accepted[i] /\ (i # 1 => accepted'[i - 1] = accepted[i - 1])
      <4>1. i # 1 => i - 1 \in DOMAIN accepted
        BY <1>6, <2>1
      <4> QED BY <1>6, <2>1, <4>1
    <3> QED BY <1>10, <2>1, <3>1
  <2>2. CASE i = n
    <3>1. accepted'[i] = new /\ (i # 1 => accepted'[i - 1] = accepted[n - 1])
      <4>1. i # 1 => n - 1 \in DOMAIN accepted
        BY <1>6, <2>2
      <4> QED BY <1>6, <2>2, <4>1
    <3>2. Len(data') \in Nat
      BY <1>1, <1>3, <1>4
    <3>3. EndOf(accepted'[i]) <= Len(data')
      BY <1>8, <3>1, <3>2
    <3>4. accepted'[i].at = IF i = 1 THEN 0 ELSE EndOf(accepted'[i - 1])
      BY <1>5, <1>7, <2>2, <3>1
    <3> QED BY <1>9, <3>1, <3>3, <3>4
  <2>3. i \in DOMAIN accepted \/ i = n
    BY <1>6
  <2> QED BY <2>1, <2>2, <2>3
<1>12. EndOf(accepted'[Len(accepted')]) = Len(data')
  BY <1>6, <1>8
<1> QED BY <1>6, <1>11, <1>12 DEF Decodable

LEMMA StepKeepsAll == PInv /\ AcceptedIsAll /\ [Next]_vars => AcceptedIsAll'
<1> SUFFICES ASSUME PInv, AcceptedIsAll, [Next]_vars PROVE AcceptedIsAll'
  OBVIOUS
<1>1. CASE UNCHANGED <<data, accepted, tornAt>>
  BY <1>1, Zenon DEF AcceptedIsAll
<1>2. ASSUME NEW length \in RecordLengths, GrowsByRecord(length)
      PROVE  AcceptedIsAll'
  <2>1. tornAt' = tornAt
    BY <1>2 DEF GrowsByRecord
  <2>2. tornAt = {} => Decodable(accepted', data')
    BY <1>2, RecordKeepsAll
  <2>3. tornAt' = {} => Decodable(accepted, data)'
    BY <2>1, <2>2 DEF Decodable, LeaderIsWellFormed, BodyIsWellFormed, RecordLength,
                      Serialization!LeaderIsWellFormed, Serialization!BodyIsWellFormed,
                      Serialization!RecordLength, EndOf, Reader!EndOf
  <2> QED BY <2>3 DEF AcceptedIsAll
<1>3. ASSUME NEW length \in RecordLengths, NEW count \in 1..length,
             GrowsByPart(length, count)
      PROVE  AcceptedIsAll'
  <2>1. tornAt' # {}
    BY <1>3 DEF GrowsByPart
  <2> QED BY <2>1 DEF AcceptedIsAll
<1>4. CASE UNCHANGED <<data, writerVars>>
  BY <1>1, <1>4 DEF writerVars
<1> QED BY <1>1, <1>2, <1>3, <1>4, StepOfEither, Zenon

(* Whatever was written, in however many sessions: unless a record was cut *)
(* off, one call of +recordsFromData:error: returns every record that was  *)
(* accepted, in order, and no error.                                       *)
THEOREM BatchReadsAll == Spec => []BatchReadsAllAccepted
<1>1. Init => AcceptedIsAll
  BY DEF Init, Writer!Init, AcceptedIsAll
<1>2. PInv /\ AcceptedIsAll => BatchReadsAllAccepted
  <2> SUFFICES ASSUME PInv, AcceptedIsAll, tornAt = {}, data # << >>
               PROVE  LET read == Serialization!RecordsFromData(data)
                      IN  /\ ~read.nil /\ read.error = Reader!NoError /\ ~read.aborted
                          /\ read.records = accepted
    BY DEF BatchReadsAllAccepted
  <2>1. Decodable(accepted, data)
    BY DEF AcceptedIsAll
  <2>2. data \in Seq(Unit) /\ accepted \in Seq(Record)
    BY DEF PInv, TypesOK
  <2>3. RecordsFromData(data) =
          [nil |-> FALSE, records |-> accepted, error |-> NoError, aborted |-> FALSE]
    BY <2>1, <2>2, DecodedInOneCall
  <2>4. NoError = Reader!NoError
    BY DEF NoError, Serialization!NoError, Reader!NoError
  <2> QED BY <2>3, <2>4 DEF RecordsFromData
<1> QED BY <1>1, <1>2, StepKeepsAll, PInvIsInvariant, PTL DEF Spec
=============================================================================

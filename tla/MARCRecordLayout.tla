-------------------------- MODULE MARCRecordLayout --------------------------
(***************************************************************************)
(* How BibMarcIO lays a record out in bytes and takes it apart again, and  *)
(* a client that copies a record by writing and reading it in turn.        *)
(*                                                                         *)
(* A byte is its distance from the character '0', so that the digits of a  *)
(* size are 0..9.  The bytes of the leader are its two sizes: the other    *)
(* fourteen go with them as a RecordLeader.  Contents are what character   *)
(* conversion has made of them.                                            *)
(***************************************************************************)
EXTENDS Integers, Sequences, FiniteSets, SequencesExt, RecordLeader

CONSTANTS
  RecordDigits,  \* digits of a record length, a base address or a location: 5
  LengthDigits,  \* digits of a field length: 4
  Originals,     \* the records a client copies: a set of sequences of fields
  Leaders,       \* the leaders it starts with, of its own or of another's data
  Kinds, Levels, \* what it may set in a leader of its own
  MaxCopies      \* bound: how often it writes the record it has read

RecordTerminator  == -19
FieldTerminator   == -18
SubfieldDelimiter == -17

LeaderLength == 2 * RecordDigits
TagLength == 3
EntryLength == TagLength + LengthDigits + RecordDigits
IndicatorsLength == 2

NotFound == -1

Byte == -128..127
Digit == 0..9

AsInt8(n) == ((n + 128) % 256) - 128

PowerOf10(n) ==
  LET power[i \in 0..n] == IF i = 0 THEN 1 ELSE 10 * power[i - 1]
  IN  power[n]

(* The first digit takes whatever the others leave, and wraps.             *)
SizeWrite(value, digits) ==
  [i \in 1..digits |->
    AsInt8((IF i = 1 THEN value ELSE value % PowerOf10(digits - i + 1))
             \div PowerOf10(digits - i))]

SizeRead(bytes) ==
  LET value[i \in 0..Len(bytes)] == IF i = 0 THEN 0 ELSE 10 * value[i - 1] + bytes[i]
  IN  IF \A i \in DOMAIN bytes : bytes[i] \in Digit THEN value[Len(bytes)] ELSE NotFound

(* The sums of none of the sizes, of the first one, and on to all.         *)
Sums(sizes) ==
  LET sum[i \in 0..Len(sizes)] == IF i = 0 THEN 0 ELSE sum[i - 1] + sizes[i]
  IN  sum

Total(sizes) == Sums(sizes)[Len(sizes)]

Bytes(bytes, offset, length) == SubSeq(bytes, offset + 1, offset + length)

-----------------------------------------------------------------------------

Subfield == [code : Byte, content : Seq(Byte)]
Field ==
  [tag : [1..TagLength -> Digit], value : Seq(Byte), indicators : Seq(Byte),
   subfields : Seq(Subfield)]

(* A field: a control field has a value, a data field has indicators and   *)
(* subfields.  A field with the tag 000 is neither and is not written.     *)
IsReserved(tag) == tag[1] = 0 /\ tag[2] = 0
IsControlField(field) == IsReserved(field.tag) /\ field.tag[3] # 0
IsDataField(field) == ~IsReserved(field.tag)

HasItsParts(field) ==
  IF IsDataField(field) THEN field.value = << >> /\ Len(field.indicators) = IndicatorsLength
  ELSE field.indicators = << >> /\ field.subfields = << >>

(* Where the length of a record fits, that of a field does not wrap.       *)
ASSUME LayoutAssumption ==
  /\ RecordDigits \in Nat \ {0}
  /\ LengthDigits \in Nat \ {0}
  /\ RecordDigits <= LengthDigits + 1
  /\ \A original \in Originals :
       /\ original \in Seq(Field)
       /\ \A i \in DOMAIN original : HasItsParts(original[i])
  /\ Leaders \subseteq Leader
  /\ Kinds \subseteq RecordKinds
  /\ Levels \subseteq BibliographicLevels \cup {Blank}
  /\ MaxCopies \in Nat

(* The elements that pass the test, in their order.                        *)
Selected(seq, Test(_)) ==
  FlattenSeq([i \in DOMAIN seq |-> IF Test(seq[i]) THEN <<seq[i]>> ELSE << >>])

(* BibMarcRecord keeps control fields before data fields.                  *)
Marshalled(record) ==
  Selected(record, IsControlField) \o Selected(record, IsDataField)

\* Mutation: the terminator of a data field is not counted.
FieldWriteSize_ForgetsTheTerminator(field) ==
  IF IsControlField(field) THEN Len(field.value) + 1
  ELSE IndicatorsLength
         + Total([i \in DOMAIN field.subfields |-> 2 + Len(field.subfields[i].content)])

FieldWriteSize(field) ==
  IF IsControlField(field) THEN Len(field.value) + 1
  ELSE IndicatorsLength
         + Total([i \in DOMAIN field.subfields |-> 2 + Len(field.subfields[i].content)]) + 1

SubfieldWrite(subfield) == <<SubfieldDelimiter, subfield.code>> \o subfield.content

FieldWrite(field) ==
  IF IsControlField(field) THEN Append(field.value, FieldTerminator)
  ELSE field.indicators
         \o FlattenSeq([i \in DOMAIN field.subfields |-> SubfieldWrite(field.subfields[i])])
         \o <<FieldTerminator>>

\* Mutation: the terminator of the directory is not counted.
FieldsLocation_ForgetsTheTerminator(count) == LeaderLength + count * EntryLength

FieldsLocation(count) == LeaderLength + count * EntryLength + 1

FieldSizes(marc) == [i \in DOMAIN marc |-> FieldWriteSize(marc[i])]

RecordWriteSize(marc) == FieldsLocation(Len(marc)) + Total(FieldSizes(marc)) + 1

EntryWrite(marc, i) ==
  marc[i].tag
    \o SizeWrite(FieldSizes(marc)[i], LengthDigits)
    \o SizeWrite(Sums(FieldSizes(marc))[i - 1], RecordDigits)

RecordWrite(record) ==
  LET marc == Marshalled(record)
  IN  SizeWrite(RecordWriteSize(marc), RecordDigits)
        \o SizeWrite(FieldsLocation(Len(marc)), RecordDigits)
        \o FlattenSeq([i \in DOMAIN marc |-> EntryWrite(marc, i)])
        \o <<FieldTerminator>>
        \o FlattenSeq([i \in DOMAIN marc |-> FieldWrite(marc[i])])
        \o <<RecordTerminator>>

-----------------------------------------------------------------------------

EntryRead(bytes, i) ==
  LET at == LeaderLength + (i - 1) * EntryLength
  IN  [tag      |-> Bytes(bytes, at, TagLength),
       length   |-> SizeRead(Bytes(bytes, at + TagLength, LengthDigits)),
       location |-> SizeRead(Bytes(bytes, at + TagLength + LengthDigits, RecordDigits))]

\* Mutation: the subfields come out in reverse.
SubfieldRead_Prepends(bytes, read) ==
  LET ends == {p \in (read.at + 2)..Len(bytes) :
                 bytes[p] \in {SubfieldDelimiter, FieldTerminator}}
      end  == CHOOSE p \in ends : \A q \in ends : p <= q
  IN  IF read.ok /\ bytes[read.at] = SubfieldDelimiter /\ ends # {}
      THEN [at |-> end, ok |-> TRUE,
            subfields |-> <<[code    |-> bytes[read.at + 1],
                             content |-> SubSeq(bytes, read.at + 2, end - 1)]>>
                            \o read.subfields]
      ELSE [read EXCEPT !.ok = FALSE]

(* Reads one subfield for each delimiter in the bytes of a field that      *)
(* follow its indicators.  A failed assert() leaves ok FALSE.              *)
SubfieldRead(bytes, read) ==
  LET ends == {p \in (read.at + 2)..Len(bytes) :
                 bytes[p] \in {SubfieldDelimiter, FieldTerminator}}
      end  == CHOOSE p \in ends : \A q \in ends : p <= q
  IN  IF read.ok /\ bytes[read.at] = SubfieldDelimiter /\ ends # {}
      THEN [at |-> end, ok |-> TRUE,
            subfields |-> Append(read.subfields,
                                 [code    |-> bytes[read.at + 1],
                                  content |-> SubSeq(bytes, read.at + 2, end - 1)])]
      ELSE [read EXCEPT !.ok = FALSE]

SubfieldsRead(bytes) ==
  LET count == Cardinality({p \in DOMAIN bytes : bytes[p] = SubfieldDelimiter})
      read[k \in 0..count] ==
        IF k = 0 THEN [at |-> 1, ok |-> TRUE, subfields |-> << >>]
        ELSE SubfieldRead(bytes, read[k - 1])
  IN  [read[count] EXCEPT !.ok = @ /\ read[count].at = Len(bytes)
                                   /\ bytes[read[count].at] = FieldTerminator]

\* Mutation: a field's bytes are taken to start one byte late.
FieldBytes_OneLate(bytes, start, entry) == Bytes(bytes, start + entry.location + 1, entry.length)

FieldBytes(bytes, start, entry) == Bytes(bytes, start + entry.location, entry.length)

(* Control fields are the entries before the first one of another kind.    *)
IsControlEntry(entries, i) == \A j \in 1..i : IsReserved(entries[j].tag)

ControlFieldRead(entry, bytes) ==
  [tag |-> entry.tag, value |-> SubSeq(bytes, 1, Len(bytes) - 1),
   indicators |-> << >>, subfields |-> << >>]

AfterIndicators(bytes) == Bytes(bytes, IndicatorsLength, Len(bytes) - IndicatorsLength)

ContentFieldRead(entry, bytes) ==
  [tag |-> entry.tag, value |-> << >>,
   indicators |-> Bytes(bytes, 0, IndicatorsLength),
   subfields |-> SubfieldsRead(AfterIndicators(bytes)).subfields]

(* What BibMarcControlFieldRead and BibMarcContentFieldRead assert.        *)
FieldIsReadable(entry, bytes, room, isControl) ==
  /\ entry.length # NotFound /\ entry.location # NotFound
  /\ entry.location + entry.length < room
  /\ ~isControl =>
       /\ entry.length >= IndicatorsLength + 1
       /\ SubfieldsRead(AfterIndicators(bytes)).ok

Failed(outcome) == [outcome |-> outcome, fields |-> << >>]

RecordRead(bytes) ==
  LET length  == SizeRead(Bytes(bytes, 0, RecordDigits))
      base    == SizeRead(Bytes(bytes, RecordDigits, RecordDigits))
      count   == (base - LeaderLength) \div EntryLength
      start   == FieldsLocation(count)
      entries == [i \in 1..count |-> EntryRead(bytes, i)]
      field(i) == FieldBytes(bytes, start, entries[i])
  IN  IF length = NotFound \/ base = NotFound THEN Failed("malformed")
      ELSE IF length > Len(bytes) THEN Failed("missing")
      ELSE IF /\ bytes[start] = FieldTerminator
              /\ \A i \in DOMAIN entries :
                   FieldIsReadable(entries[i], field(i), length - start, IsControlEntry(entries, i))
              /\ bytes[length] = RecordTerminator
        THEN [outcome |-> "record",
              fields  |-> [i \in DOMAIN entries |->
                             IF IsControlEntry(entries, i)
                             THEN ControlFieldRead(entries[i], field(i))
                             ELSE ContentFieldRead(entries[i], field(i))]]
      ELSE Failed("aborted")

-----------------------------------------------------------------------------

VARIABLES
  original,  \* history: the fields the client started with
  leader,    \* the leader of the record it holds
  fields,    \* the fields of the record it holds
  header,    \* what it has written last: the leader, without its sizes
  data,      \* what it has written last: the bytes
  first,     \* history: the header and the bytes that were there first
  copies,    \* how often it has read the record back
  state      \* "record", "data", or why the record could not be read

vars == <<original, leader, fields, header, data, first, copies, state>>

(* A record of the client's own.                                           *)
Created ==
  /\ leader \in {l \in Leaders : LeaderFromData(l) = l}
  /\ header = NoLeader
  /\ data = << >>
  /\ first = << >>
  /\ state = "record"

(* Data that another program has laid out.                                 *)
Received ==
  /\ leader = NoLeader
  /\ header \in Leaders
  /\ data = RecordWrite(original)
  /\ first = <<header, data>>
  /\ state = "data"

Init ==
  /\ original \in Originals
  /\ fields = original
  /\ copies = 0
  /\ Created \/ Received

(* The client describes its record before it writes it.                    *)
Describe ==
  /\ first = << >>
  /\ \/ \E kind \in Kinds : leader' = SetRecordKind(leader, kind)
     \/ \E level \in Levels : leader' = SetBibliographicLevel(leader, level)
  /\ UNCHANGED <<original, fields, header, data, first, copies, state>>

Write ==
  /\ state = "record"
  /\ leader # NoLeader
  /\ copies < MaxCopies
  /\ header' = LeaderToData(leader)
  /\ data' = RecordWrite(fields)
  /\ first' = IF first = << >> THEN <<header', data'>> ELSE first
  /\ state' = "data"
  /\ UNCHANGED <<original, leader, fields, copies>>

(* BibMarcLeaderRead asserts that the record has a leader.                 *)
WriteWithoutLeader ==
  /\ state = "record"
  /\ leader = NoLeader
  /\ state' = "aborted"
  /\ UNCHANGED <<original, leader, fields, header, data, first, copies>>

Read ==
  /\ state = "data"
  /\ LET read == RecordRead(data)
     IN  /\ state' = read.outcome
         /\ leader' = IF read.outcome = "record" THEN LeaderFromData(header) ELSE leader
         /\ fields' = IF read.outcome = "record" THEN read.fields ELSE fields
  /\ copies' = copies + 1
  /\ UNCHANGED <<original, header, data, first>>

Next == Describe \/ Write \/ WriteWithoutLeader \/ Read

Spec == Init /\ [][Next]_vars

-----------------------------------------------------------------------------

Subfields(record) ==
  UNION {{record[i].subfields[j] : j \in DOMAIN record[i].subfields} : i \in DOMAIN record}

(* No subfield holds the bytes that begin and end one.                     *)
HasPlainSubfields(record) ==
  \A subfield \in Subfields(record) :
    /\ subfield.code # SubfieldDelimiter
    /\ \A i \in DOMAIN subfield.content :
         subfield.content[i] \notin {SubfieldDelimiter, FieldTerminator}

(* Every size has as many digits as there is room for.                     *)
FitsTheDigits(record) ==
  /\ \A i \in DOMAIN record : FieldWriteSize(record[i]) < PowerOf10(LengthDigits)
  /\ RecordWriteSize(Marshalled(record)) < PowerOf10(RecordDigits)

(* The first digit of the length does not wrap, and so none does.          *)
IsShort(record) == RecordWriteSize(Marshalled(record)) < 256 * PowerOf10(RecordDigits - 1)

(* Whatever the sizes, a record that is read back is the one written, with *)
(* its control fields first: one that is too long may be refused, or stop  *)
(* the process, but is not read as another record, unless it is so long    *)
(* that its length wraps.                                                  *)
ReadBackIsOriginal ==
  state = "record" /\ copies > 0 /\ HasPlainSubfields(original) /\ IsShort(original)
    => fields = Marshalled(original)

(* A record whose sizes fit is read back, as often as it is copied, unless *)
(* it came with a leader that BibLeader does not take.                     *)
FittingIsReadBack ==
  /\ FitsTheDigits(original) /\ HasPlainSubfields(original)
  /\ header.layout # "other"
  => state \in {"record", "data"}

(* Copies are the same to the byte, even when a content holds delimiters   *)
(* and the record that was read has other subfields, but for a record whose*)
(* length wraps: in the leader too, whatever kind of record it says this   *)
(* is, but for a layout that BibLeader takes although MARC 21 does not, and*)
(* that a copy puts right.                                                 *)
CopiesAreExact ==
  copies > 0 => /\ IsShort(original) => data = first[2]
                /\ header \in {first[1], LeaderToData(first[1])}

(* What is written is framed the way the streams read it: the length in    *)
(* the leader is the length of the data, the directory ends where the base *)
(* address says, and the last byte is a record terminator.                 *)
WrittenIsFramed ==
  data # << >> /\ FitsTheDigits(original) =>
    /\ SizeRead(Bytes(data, 0, RecordDigits)) = Len(data)
    /\ data[SizeRead(Bytes(data, RecordDigits, RecordDigits))] = FieldTerminator
    /\ data[Len(data)] = RecordTerminator
=============================================================================

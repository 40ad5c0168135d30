---------------------------- MODULE MARCFraming ----------------------------
(***************************************************************************)
(* A MARC 21 record as the reader and the writer see it.  A byte string is *)
(* a sequence of units: the first unit of a leader carries the decimal     *)
(* record length, the second the decimal base address of the fields, and   *)
(* the body begins with a directory and ends with a record terminator.     *)
(* The 24 bytes of a leader are LeaderLength units.                        *)
(***************************************************************************)
EXTENDS Integers, Sequences

CONSTANTS
  LeaderLength,    \* kLeaderLength: 24 bytes, here in units
  MaxRecordLength  \* the largest length five decimal digits hold: 99999

ASSUME FramingAssumption ==
  /\ LeaderLength \in Nat
  /\ LeaderLength >= 2
  /\ MaxRecordLength \in Nat

(* "len": five digits; "base": five digits; "dir": a directory, with the   *)
(* fields it describes where it says they are; "term": a record            *)
(* terminator; "markup": the first characters of a MARCXML document;       *)
(* "field": anything else.  A length that is not larger than the leader is *)
(* left out.                                                               *)
Unit ==
  [kind : {"len"}, length : (LeaderLength + 1)..MaxRecordLength]
    \cup [kind : {"base", "dir", "field", "term", "markup"}, length : {0}]

(* A record is known by where it begins in the data and how long it is.    *)
RecordAt(offset, length) == [at |-> offset, length |-> length]
NoRecord == RecordAt(-1, 0)
EndOf(record) == record.at + record.length

(* The two size fields of the leader at an offset hold digits.             *)
LeaderIsWellFormed(data, offset) ==
  /\ data[offset + 1].kind = "len"
  /\ data[offset + 2].kind = "base"

RecordLength(data, offset) == data[offset + 1].length

(* The directory ends in a field terminator, and the record in a record    *)
(* terminator.                                                             *)
BodyIsWellFormed(data, offset, length) ==
  /\ data[offset + LeaderLength + 1].kind = "dir"
  /\ data[offset + length].kind = "term"

(* The units BibMarcRecordWrite lays out for a record of a given length.   *)
Serialized(length) ==
  [i \in 1..length |->
    IF i = 1 THEN [kind |-> "len", length |-> length]
    ELSE [kind |-> CASE i = 2                -> "base"
                     [] i = LeaderLength + 1 -> "dir"
                     [] i = length           -> "term"
                     [] OTHER                -> "field",
          length |-> 0]]

(* A sequence of records that cover the data from its start, each one      *)
(* beginning where the one before it ends and as long as its leader says.  *)
IsChain(records, data) ==
  \A i \in DOMAIN records :
    /\ records[i].at = IF i = 1 THEN 0 ELSE EndOf(records[i - 1])
    /\ EndOf(records[i]) <= Len(data)
    /\ LeaderIsWellFormed(data, records[i].at)
    /\ records[i].length = RecordLength(data, records[i].at)

(* Where the next record of a chain begins.                                *)
ChainEnd(records) ==
  IF records = << >> THEN 0 ELSE EndOf(records[Len(records)])
=============================================================================

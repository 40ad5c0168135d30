-------------------------- MODULE MARCOutputStream --------------------------
(***************************************************************************)
(* BibMARCOutputStream: writes MARC 21 records, one call at a time, to an  *)
(* NSOutputStream that its creator still holds and may open or close.  A   *)
(* session is the life of one BibMARCOutputStream; when the process stops, *)
(* the next session may append to the file the last one left.              *)
(***************************************************************************)
EXTENDS MARCFraming, SerializationStreams

CONSTANTS
  RecordLengths,  \* the serialized lengths of the records a client writes
  Sinks,          \* the kinds of NSOutputStream: "memory", "buffer", "file"
  Capacity,       \* the size of the buffer of a "buffer" stream
  MaxSinkLength,  \* bound: a record is written if the data stays this short
  MaxSessions     \* bound: how many streams append to one file in turn

ASSUME OutputAssumption ==
  /\ RecordLengths \subseteq (LeaderLength + 2)..MaxRecordLength
  /\ Sinks \subseteq {"memory", "buffer", "file"}
  /\ Capacity \in Nat
  /\ MaxSinkLength \in Nat
  /\ MaxSessions \in Nat \ {0}

VARIABLES
  sink,        \* the data written so far
  sinkKind,    \* the kind of the wrapped stream
  inner,       \* the wrapped stream's streamStatus
  own,         \* _streamStatus
  ownError,    \* _streamError
  accepted,    \* history: the records writeRecord:error: said YES to
  tornAt,      \* history: where a record was cut off, by session
  session,     \* which stream this is
  reply        \* what the last write returned

vars == <<sink, sinkKind, inner, own, ownError, accepted, tornAt, session, reply>>

NoReply == [ok |-> TRUE, error |-> NoError]

(***************************************************************************)
(* The wrapped NSOutputStream.  Memory takes everything; a buffer of fixed *)
(* size takes what fits, or fails; a file may take a part of what it is    *)
(* given, when the disk is full, or fail.                                  *)
(***************************************************************************)
WriteFailed == -1

Room == Capacity - Len(sink)

WriteCounts(length) ==
  CASE sinkKind = "memory" -> {length}
    [] sinkKind = "buffer" -> IF length <= Room THEN {length} ELSE {Room, WriteFailed}
    [] sinkKind = "file"   -> {WriteFailed} \cup 0..length

AfterWrite(count) ==
  IF count = WriteFailed THEN {"Error"}
  ELSE {"Open"} \cup (IF sinkKind = "buffer" /\ count = Room THEN {"AtEnd"} ELSE {})

HasSpaceAvailable ==
  /\ inner = "Open"
  /\ sinkKind = "buffer" => Room > 0

OwnerOpens ==
  /\ inner = "NotOpen"
  /\ inner' \in OpenedStatus(inner, sinkKind = "file")
  /\ UNCHANGED <<sink, sinkKind, own, ownError, accepted, tornAt, session, reply>>

OwnerCloses ==
  /\ inner # "Closed"
  /\ inner' \in ClosedStatus(inner)
  /\ UNCHANGED <<sink, sinkKind, own, ownError, accepted, tornAt, session, reply>>

(* The process stops, or drops the stream, at any moment; a new stream     *)
(* appends to the file.                                                    *)
NextSession ==
  /\ sinkKind = "file"
  /\ session < MaxSessions
  /\ session' = session + 1
  /\ inner' = "NotOpen"
  /\ own' = "NotOpen"
  /\ ownError' = NoError
  /\ reply' = NoReply
  /\ UNCHANGED <<sink, sinkKind, accepted, tornAt>>

-----------------------------------------------------------------------------

StreamStatus == IF own = "Error" THEN own ELSE inner

StreamError ==
  IF own # "Error" THEN NoError
  ELSE IF ownError # NoError THEN ownError ELSE StreamErrorOf(inner)

\* Mutation: opening does not look at the status.
Open_Always ==
  /\ inner' \in OpenedStatus(inner, sinkKind = "file")
  /\ own' = inner'
  /\ ownError' = StreamErrorOf(inner')
  /\ UNCHANGED <<sink, sinkKind, accepted, tornAt, session, reply>>

(* Unlike the input stream's, these look at _streamStatus and not at the   *)
(* streamStatus getter: a stream whose creator has opened or closed it     *)
(* directly is opened, or closed, once more.                               *)
Open ==
  /\ own = "NotOpen"
  /\ inner' \in OpenedStatus(inner, sinkKind = "file")
  /\ own' = inner'
  /\ ownError' = StreamErrorOf(inner')
  /\ UNCHANGED <<sink, sinkKind, accepted, tornAt, session, reply>>

Close ==
  /\ own # "Closed"
  /\ inner' \in ClosedStatus(inner)
  /\ own' = inner'
  /\ ownError' = StreamErrorOf(inner')
  /\ UNCHANGED <<sink, sinkKind, accepted, tornAt, session, reply>>

WriteUnopened ==
  /\ StreamStatus # "Open"
  /\ reply' = [ok |-> FALSE,
               error |-> IF StreamStatus = "Error" THEN StreamError
                         ELSE OutputStreamNotOpenedError(inner)]
  /\ UNCHANGED <<sink, sinkKind, inner, own, ownError, accepted, tornAt, session>>

(* A failed write leaves an error that stays.                              *)
Fail(error) ==
  /\ own' = "Error"
  /\ ownError' = error
  /\ reply' = [ok |-> FALSE, error |-> error]
  /\ UNCHANGED <<sinkKind, accepted, session>>

NoSpaceAvailable ==
  /\ StreamStatus = "Open"
  /\ ~HasSpaceAvailable
  /\ Fail("AtEnd")
  /\ UNCHANGED <<sink, inner, tornAt>>

CanWrite(length) ==
  /\ StreamStatus = "Open"
  /\ HasSpaceAvailable
  /\ Len(sink) + length <= MaxSinkLength

(* One call hands the whole record to the wrapped stream; whatever it did  *)
(* not take is lost.                                                       *)
RecordTorn(length) ==
  /\ CanWrite(length)
  /\ \E count \in WriteCounts(length) \ {length} :
       /\ inner' \in AfterWrite(count)
       /\ sink' = sink \o (IF count = WriteFailed THEN << >>
                           ELSE SubSeq(Serialized(length), 1, count))
       /\ tornAt' = IF count > 0 THEN tornAt \cup {[session |-> session, at |-> Len(sink)]}
                    ELSE tornAt
  /\ Fail("AtEnd")

\* Mutation: a partial write counts as success.
RecordWritten_AcceptsAPart(length) ==
  /\ CanWrite(length)
  /\ \E count \in WriteCounts(length) \ {WriteFailed, 0} :
       /\ inner' \in AfterWrite(count)
       /\ sink' = sink \o SubSeq(Serialized(length), 1, count)
  /\ accepted' = Append(accepted, RecordAt(Len(sink), length))
  /\ reply' = [ok |-> TRUE, error |-> NoError]
  /\ UNCHANGED <<sinkKind, own, ownError, tornAt, session>>

\* Mutation: one byte too many goes out with each record.
RecordWritten_AddsAUnit(length) ==
  /\ CanWrite(length + 1)
  /\ length \in WriteCounts(length)
  /\ inner' \in AfterWrite(length)
  /\ sink' = sink \o Append(Serialized(length), [kind |-> "term", length |-> 0])
  /\ accepted' = Append(accepted, RecordAt(Len(sink), length))
  /\ reply' = [ok |-> TRUE, error |-> NoError]
  /\ UNCHANGED <<sinkKind, own, ownError, tornAt, session>>

\* Mutation: the length of the record is written without its leader.
RecordWritten_CountsTheBody(length) ==
  /\ CanWrite(length)
  /\ length \in WriteCounts(length)
  /\ inner' \in AfterWrite(length)
  /\ sink' = sink \o [Serialized(length) EXCEPT ![1].length = length - LeaderLength]
  /\ accepted' = Append(accepted, RecordAt(Len(sink), length))
  /\ reply' = [ok |-> TRUE, error |-> NoError]
  /\ UNCHANGED <<sinkKind, own, ownError, tornAt, session>>

RecordWritten(length) ==
  /\ CanWrite(length)
  /\ length \in WriteCounts(length)
  /\ inner' \in AfterWrite(length)
  /\ sink' = sink \o Serialized(length)
  /\ accepted' = Append(accepted, RecordAt(Len(sink), length))
  /\ reply' = [ok |-> TRUE, error |-> NoError]
  /\ UNCHANGED <<sinkKind, own, ownError, tornAt, session>>

WriteRecord(length) ==
  \/ RecordTorn(length)
  \/ RecordWritten(length)

-----------------------------------------------------------------------------

Init ==
  /\ sink = << >>
  /\ sinkKind \in Sinks
  /\ inner \in {"NotOpen", "Open", "Closed"}
  /\ own = inner
  /\ ownError = NoError
  /\ accepted = << >>
  /\ tornAt = {}
  /\ session = 1
  /\ reply = NoReply

Next ==
  \/ Open
  \/ Close
  \/ OwnerOpens
  \/ OwnerCloses
  \/ NextSession
  \/ WriteUnopened
  \/ NoSpaceAvailable
  \/ \E length \in RecordLengths : WriteRecord(length)

Spec == Init /\ [][Next]_vars

-----------------------------------------------------------------------------

TypeOK ==
  /\ sink \in Seq(Unit)
  /\ sinkKind \in {"memory", "buffer", "file"}
  /\ inner \in Status
  /\ own \in Status
  /\ ownError \in Errors
  /\ accepted \in Seq([at : Nat, length : Nat])
  /\ tornAt \subseteq [session : 1..MaxSessions, at : Nat]
  /\ session \in 1..MaxSessions
  /\ reply \in [ok : BOOLEAN, error : Errors]

(* Once a record has been cut off, the stream that cut it off writes       *)
(* nothing more, whatever its client and the stream's creator do next:     *)
(* opening or closing it never clears the way for another record.          *)
NothingFollowsATornRecord ==
  [][(\E t \in tornAt : t.session = session) /\ session' = session
       => sink' = sink]_vars

(* A record whose write returned YES is in the data, whole, and stays so.  *)
AcceptedIsWhole ==
  \A i \in DOMAIN accepted :
    /\ EndOf(accepted[i]) <= Len(sink)
    /\ SubSeq(sink, accepted[i].at + 1, EndOf(accepted[i])) = Serialized(accepted[i].length)

(* Everything in the data that is not part of an accepted record lies in a *)
(* gap that a torn record has left: a write that returned NO without       *)
(* cutting a record off has written nothing.                               *)
OnlyTornRecordsLeaveGaps ==
  LET starts == {accepted[i].at : i \in DOMAIN accepted} \cup {t.at : t \in tornAt}
                  \cup {Len(sink)}
  IN  /\ sink # << >> => 0 \in starts
      /\ \A i \in DOMAIN accepted : EndOf(accepted[i]) \in starts
=============================================================================

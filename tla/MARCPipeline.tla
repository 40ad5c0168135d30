---------------------------- MODULE MARCPipeline ----------------------------
(***************************************************************************)
(* A BibMARCOutputStream and a BibMARCInputStream on the same data, in any *)
(* interleaving: the reader may be ahead of, behind or between the writes, *)
(* and the writer may be cut off and followed by another one.              *)
(***************************************************************************)
EXTENDS Integers, Sequences

CONSTANTS
  LeaderLength, MaxRecordLength,
  RecordLengths, Sinks, Capacity, MaxSinkLength, MaxSessions,
  Transports

ASSUME PipelineAssumption ==
  /\ LeaderLength \in Nat /\ LeaderLength >= 2
  /\ MaxRecordLength \in Nat
  /\ RecordLengths \subseteq (LeaderLength + 2)..MaxRecordLength
  /\ Sinks \subseteq {"memory", "buffer", "file"}
  /\ Capacity \in Nat

VARIABLES
  data,        \* what the writer has written and the reader reads
  sinkKind, writerInner, writerOwn, writerError, accepted, tornAt, session, writeReply,
  transport, pos, readerInner, readerOwn, readerError, delivered, complained,
  readReply, aborted

writerVars == <<sinkKind, writerInner, writerOwn, writerError, accepted, tornAt,
                session, writeReply>>
readerVars == <<transport, pos, readerInner, readerOwn, readerError, delivered,
                complained, readReply, aborted>>
vars == <<data, writerVars, readerVars>>

Writer == INSTANCE MARCOutputStream
  WITH sink <- data, inner <- writerInner, own <- writerOwn,
       ownError <- writerError, reply <- writeReply

Reader == INSTANCE MARCInputStream
  WITH input <- data, inner <- readerInner, own <- readerOwn,
       ownError <- readerError, reply <- readReply, Inputs <- {<< >>}

Serialization == INSTANCE MARCSerialization

Init ==
  /\ Writer!Init
  /\ Reader!Init

Next ==
  \/ Writer!Next /\ UNCHANGED <<readerVars>>
  \/ Reader!Next /\ UNCHANGED writerVars

Spec == Init /\ [][Next]_vars

-----------------------------------------------------------------------------

Channel == INSTANCE RecordChannel
  WITH Record <- Reader!Record, sent <- accepted, received <- delivered,
       faulted <- complained, torn <- (tornAt # {})

(* The two streams together keep the promise of a record channel.          *)
ImplementsRecordChannel == Channel!Spec

TornOffsets == {t.at : t \in tornAt}

(* Damage reaches only forward: whatever sessions append behind a record   *)
(* that was cut off, each record read from before it is one that was       *)
(* accepted.                                                               *)
DamageIsConfined ==
  \A i \in DOMAIN delivered :
    \/ \E t \in TornOffsets : t < Reader!EndOf(delivered[i])
    \/ \E j \in DOMAIN accepted : accepted[j] = delivered[i]

(* Data without a cut-off record is decoded by one call into all of the    *)
(* records accepted so far.                                                *)
BatchReadsAllAccepted ==
  tornAt = {} /\ ~aborted /\ data # << >> =>
    LET read == Serialization!RecordsFromData(data)
    IN  ~read.nil /\ read.error = Reader!NoError /\ ~read.aborted /\ read.records = accepted
=============================================================================

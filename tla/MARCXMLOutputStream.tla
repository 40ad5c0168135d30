------------------------ MODULE MARCXMLOutputStream ------------------------
(***************************************************************************)
(* BibMARCXMLOutputStream: writes records through libxml2's text writer,   *)
(* which keeps nodes in a buffer of its own and gives them to the wrapped  *)
(* NSOutputStream when it likes, and in any case when it is freed.         *)
(***************************************************************************)
EXTENDS MARCXMLDocument, SerializationStreams

CONSTANTS
  Records,    \* the records a client writes
  MaxRecords  \* bound: how many of them

VARIABLES
  sinkKind,     \* "memory", "buffer" (of fixed size) or "file"
  document,     \* every node given to the text writer
  flushed,      \* how many of them have reached the wrapped stream
  isFull,       \* the wrapped stream takes no more bytes
  inner,        \* the wrapped stream's streamStatus
  own,          \* _streamStatus
  ownError,     \* _streamError
  hasWriter,    \* _writer # NULL
  didStartRecordCollection,
  accepted,     \* history: the records whose write returned YES
  refused       \* history: a write to the open stream returned NO

sink == <<sinkKind, document, flushed, isFull, inner>>
vars == <<sink, own, ownError, hasWriter, didStartRecordCollection, accepted, refused>>

Init ==
  /\ sinkKind \in {"memory", "buffer", "file"}
  /\ document = << >> /\ flushed = 0 /\ isFull = FALSE
  /\ inner = "NotOpen" /\ own = "NotOpen" /\ ownError = NoError
  /\ hasWriter = FALSE
  /\ didStartRecordCollection = FALSE
  /\ accepted = << >> /\ refused = FALSE

OwnerCloses ==
  /\ inner # "Closed"
  /\ inner' \in ClosedStatus(inner)
  /\ isFull' = (isFull \/ inner' = "Closed")
  /\ UNCHANGED <<sinkKind, document, flushed, own, ownError, hasWriter,
                 didStartRecordCollection, accepted, refused>>

Open ==
  /\ own = "NotOpen"
  /\ inner' \in OpenedStatus(inner, sinkKind = "file")
  /\ own' = inner'
  /\ ownError' = StreamErrorOf(inner')
  /\ hasWriter' = (inner' # "Error")
  /\ UNCHANGED <<sinkKind, document, flushed, isFull, didStartRecordCollection,
                 accepted, refused>>

(* The text writer gives its buffer to a stream with room for all or some  *)
(* of it.  A buffer that is full takes zero bytes, which is no error to    *)
(* libxml2; a failed write of a file is one, and the last.                 *)
Flushes(nodes) ==
  IF isFull THEN {flushed} ELSE flushed..Len(nodes)

FillsUp(nodes) ==
  \/ isFull' = isFull
  \/ sinkKind = "buffer" /\ flushed' < Len(nodes) /\ isFull' = TRUE

(* __updateStreamStatusAfterError                                          *)
UpdateStreamStatusAfterError ==
  /\ own' = inner'
  /\ ownError' = StreamErrorOf(inner')

CollectionStart == IF didStartRecordCollection THEN << >> ELSE <<Element("collection", "")>>

WriteRecord(record) ==
  /\ own = "Open"
  /\ Len(accepted) < MaxRecords
  /\ document' = document \o CollectionStart \o RecordNodes(record)
  /\ flushed' \in Flushes(document')
  /\ FillsUp(document')
  /\ inner' = IF isFull' /\ inner = "Open" THEN "AtEnd" ELSE inner
  /\ didStartRecordCollection' = TRUE
  /\ accepted' = Append(accepted, record)
  /\ UNCHANGED <<sinkKind, own, ownError, hasWriter, refused>>

(* A write of the wrapped stream fails: before the document has started or *)
(* after it, and then anywhere, which shows in what was flushed alone.     *)
WriteRecordFails(record) ==
  /\ own = "Open"
  /\ sinkKind = "file" \/ inner = "Closed"
  /\ \/ /\ document' = document \o Front(CollectionStart \o RecordNodes(record))
        /\ didStartRecordCollection' = TRUE
     \/ /\ ~didStartRecordCollection
        /\ UNCHANGED <<document, didStartRecordCollection>>
  /\ flushed' \in Flushes(document')
  /\ isFull' = TRUE
  /\ inner' = IF inner = "Closed" THEN inner ELSE "Error"
  /\ UpdateStreamStatusAfterError
  /\ refused' = TRUE
  /\ UNCHANGED <<sinkKind, hasWriter, accepted>>

(* Ends the document and frees the writer, whatever these calls return; a  *)
(* stream in memory has room for all of it.                                *)
Close ==
  /\ own # "Closed" /\ hasWriter
  /\ document' = document \o (IF didStartRecordCollection
                              THEN <<EndElement("collection")>> ELSE << >>)
  /\ flushed' \in IF sinkKind = "memory" /\ ~isFull THEN {Len(document')}
                  ELSE Flushes(document')
  /\ isFull' = (isFull \/ flushed' < Len(document'))
  /\ inner' \in ClosedStatus(inner)
  /\ own' = inner'
  /\ ownError' = StreamErrorOf(inner')
  /\ hasWriter' = FALSE
  /\ UNCHANGED <<sinkKind, didStartRecordCollection, accepted, refused>>

Next ==
  \/ OwnerCloses
  \/ Open
  \/ \E record \in Records : WriteRecord(record) \/ WriteRecordFails(record)
  \/ Close

Spec == Init /\ [][Next]_vars

-----------------------------------------------------------------------------

Flushed == SubSeq(document, 1, flushed)

(* A closed writer that refused no record has written all it accepted      *)
(* (BibRecordOutputStream.h: YES "successfully written to the output       *)
(* stream").                                                               *)
AcceptedIsWritten ==
  own = "Closed" /\ ~refused /\ accepted # << >> =>
    flushed = Len(document) /\ Last(document) = EndElement("collection")
=============================================================================

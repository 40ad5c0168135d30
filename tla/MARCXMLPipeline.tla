-------------------------- MODULE MARCXMLPipeline --------------------------
(***************************************************************************)
(* What a BibMARCXMLOutputStream has written so far, at any moment, is     *)
(* given to a BibMARCXMLInputStream: after the writer was closed, or after *)
(* its process has stopped.  The reader may be given a document from       *)
(* elsewhere instead.                                                      *)
(***************************************************************************)
EXTENDS MARCXMLDocument

CONSTANTS
  Records, MaxRecords,
  Documents  \* the documents from elsewhere

(* A control field has one content, its value.  A leader has 24 characters *)
(* and digits among them, a tag three.                                     *)
Field ==
  {field \in [isControlField : BOOLEAN, tag : STRING \ {""}, contents : Seq(STRING)] :
     field.isControlField => Len(field.contents) = 1}

ASSUME RecordShapeAssumption ==
  Records \subseteq [leader : STRING \ {"", " "}, fields : Seq(Field)]

ASSUME DocumentsAssumption == \A data \in Documents : ~data.isWritten

VARIABLES
  isReading,  \* the document has been handed over
  sinkKind, document, flushed, isFull, writerInner, writerOwn, writerError, hasWriter,
  didStartRecordCollection, accepted, refused,
  input, at, readerInner, readerOwn, readerError, hasReader, root,
  delivered, failed, reply

writerVars == <<sinkKind, document, flushed, isFull, writerInner, writerOwn, writerError,
                hasWriter, didStartRecordCollection, accepted, refused>>
readerVars == <<input, at, readerInner, readerOwn, readerError, hasReader, root, delivered,
                failed, reply>>
vars == <<isReading, writerVars, readerVars>>

Writer == INSTANCE MARCXMLOutputStream
  WITH inner <- writerInner, own <- writerOwn, ownError <- writerError

Nothing == [nodes |-> << >>, fault |-> "truncated", isWhole |-> FALSE, isWritten |-> FALSE,
            records |-> << >>]

Reader == INSTANCE MARCXMLInputStream
  WITH inner <- readerInner, own <- readerOwn, ownError <- readerError,
       Inputs <- {Nothing}

Init ==
  /\ isReading = FALSE
  /\ Writer!Init
  /\ Reader!Init

Written ==
  [nodes     |-> Writer!Flushed,
   isWhole   |-> /\ document # << >>
                 /\ flushed = Len(document)
                 /\ Last(document) = EndElement("collection"),
   isWritten |-> TRUE,
   records   |-> accepted]

(* The text reader comes to the end of a whole document; of one that is    *)
(* cut off it may miss the last nodes; a read may fail anywhere.           *)
Readings(data) ==
  {[nodes |-> SubSeq(data.nodes, 1, n), fault |-> fault, isWhole |-> data.isWhole,
    isWritten |-> data.isWritten, records |-> data.records] :
     n \in 0..Len(data.nodes),
     fault \in {"io", "truncated"} \ (IF data.isWhole THEN {"truncated"} ELSE {})}
    \cup (IF data.isWhole
          THEN {[nodes |-> data.nodes, fault |-> "end", isWhole |-> TRUE,
                 isWritten |-> data.isWritten, records |-> data.records]}
          ELSE {})

(* The writer and its process are gone: what is left is the document.      *)
HandOver ==
  /\ ~isReading
  /\ isReading' = TRUE
  /\ \E d \in {Written} \cup (IF document = << >> THEN Documents ELSE {}) :
       input' \in Readings(d)
  /\ sinkKind' = "file" /\ document' = << >> /\ flushed' = 0 /\ isFull' = FALSE
  /\ writerInner' = "NotOpen" /\ writerOwn' = "NotOpen" /\ writerError' = Writer!NoError
  /\ hasWriter' = FALSE
  /\ didStartRecordCollection' = FALSE
  /\ accepted' = << >> /\ refused' = FALSE
  /\ UNCHANGED <<at, readerInner, readerOwn, readerError, hasReader, root, delivered,
                 failed, reply>>

Next ==
  \/ ~isReading /\ Writer!Next /\ UNCHANGED <<isReading, readerVars>>
  \/ HandOver
  \/ isReading /\ Reader!Next /\ UNCHANGED <<isReading, writerVars>>

Spec == Init /\ [][Next]_vars

-----------------------------------------------------------------------------

HasOnlyFields ==
  \A i \in DOMAIN input.nodes : input.nodes[i].type = "ELEMENT" =>
    input.nodes[i].name \in
      {"collection", "record", "leader", "controlfield", "datafield", "subfield"}

(* A closed writer that refused no record has written all it accepted:     *)
(* writeRecord:error: returned YES for each (BibRecordOutputStream.h:147,   *)
(* "YES successfully written to the output stream").                       *)
ClosedIsWritten == Writer!AcceptedIsWritten

(* However a document was cut off, and whatever is wrong in it, the        *)
(* records returned are those it was made from, in order and none changed: *)
(* no part of a record, and nothing from beyond one that cannot be read.   *)
(* (Of an element that is not MARCXML, readRecord:error: makes a field.)   *)
DeliveredIsPrefix ==
  HasOnlyFields => IsPrefix(delivered, input.records)

(* readRecord:error: says that there are no more records only when it has  *)
(* returned all of a document that is whole: recordsFromData:error: takes  *)
(* its word for it.                                                        *)
EndIsComplete ==
  HasOnlyFields /\ reply.ok /\ reply.record = Reader!NoRecord =>
    input.isWhole /\ delivered = input.records

(* After a read has failed nothing more is returned, also when the failed  *)
(* stream is closed and its status becomes that of the wrapped stream.     *)
FailureIsFinal == [][failed => delivered' = delivered]_vars

(* A record is readable when every field has contents and none is blank.   *)
IsReadable(record) ==
  \A i \in DOMAIN record.fields :
    LET contents == record.fields[i].contents
    IN  contents # << >> /\ \A j \in DOMAIN contents : contents[j] \notin {"", " "}

(* A document that the writer has finished, of readable records, is read   *)
(* back whole: only the wrapped stream, or an early close, prevents it.    *)
RoundTrip ==
  /\ input.isWritten /\ input.isWhole
  /\ \A i \in DOMAIN input.records : IsReadable(input.records[i])
  /\ failed /\ hasReader /\ reply.error \in {"AtEnd", "MissingData", "Malformed"}
  => delivered = input.records
=============================================================================

------------------------- MODULE MARCXMLInputStream -------------------------
(***************************************************************************)
(* BibMARCXMLInputStream: reads one record per call from libxml2's text    *)
(* reader, which pulls its data from an NSInputStream ahead of the nodes   *)
(* it returns.                                                             *)
(***************************************************************************)
EXTENDS MARCXMLDocument, SerializationStreams

CONSTANTS
  Inputs  \* what the text reader may make of a stream's data: [nodes, fault,
          \* isWhole, records].  Behind the nodes it finds the end of the
          \* document, the end of the data or a failed read ("end",
          \* "truncated", "io").  The records are those the document was
          \* made from; isWhole says that nothing was cut off.

VARIABLES
  input,       \* the data of the wrapped stream
  at,          \* how many nodes have been taken; the last one is current
  inner,       \* the wrapped stream's streamStatus
  own,         \* _streamStatus
  ownError,    \* _streamError
  hasReader,   \* _reader # NULL
  root,        \* the root element read: "none", "collection" or "record"
  delivered,   \* history: the records returned, in order
  failed,      \* history: a read of the open stream returned NO
  reply        \* what the last read returned

vars == <<input, at, inner, own, ownError, hasReader, root, delivered, failed, reply>>

NoRecord == [leader |-> "", fields |-> << >>]

Init ==
  /\ input \in Inputs
  /\ at = 0
  /\ inner = "NotOpen" /\ own = "NotOpen" /\ ownError = NoError
  /\ hasReader = FALSE
  /\ root = "none"
  /\ delivered = << >> /\ failed = FALSE
  /\ reply = [ok |-> FALSE, record |-> NoRecord, error |-> NoError]

OwnerCloses ==
  /\ inner # "Closed"
  /\ inner' \in ClosedStatus(inner)
  /\ UNCHANGED <<input, at, own, ownError, hasReader, root, delivered, failed, reply>>

Open ==
  /\ own = "NotOpen"
  /\ inner' \in OpenedStatus(inner, TRUE)
  /\ own' = inner'
  /\ ownError' = StreamErrorOf(inner')
  /\ hasReader' = (inner' # "Error")
  /\ UNCHANGED <<input, at, root, delivered, failed, reply>>

\* Mutation: the text reader stays.
Close_KeepsTheReader ==
  /\ own # "Closed" /\ hasReader
  /\ own' = inner
  /\ ownError' = StreamErrorOf(inner)
  /\ UNCHANGED <<input, at, inner, hasReader, root, delivered, failed, reply>>

(* Frees the text reader but not its input, which dealloc frees: the       *)
(* wrapped stream stays as it is, and so may the status.                   *)
Close ==
  /\ own # "Closed" /\ hasReader
  /\ hasReader' = FALSE
  /\ own' = inner
  /\ ownError' = StreamErrorOf(inner)
  /\ UNCHANGED <<input, at, inner, root, delivered, failed, reply>>

-----------------------------------------------------------------------------

(* A read of a stream that is not open touches nothing.  The wrapped       *)
(* stream's status may say that there is no error.                         *)
ReadUnopened ==
  /\ own # "Open"
  /\ reply' = [ok |-> FALSE, record |-> NoRecord,
               error |-> IF own = "AtEnd" THEN NoError ELSE InputStreamNotOpenedError(inner)]
  /\ UNCHANGED <<input, at, inner, own, ownError, hasReader, root, delivered, failed>>

(* The wrapped stream was closed or has failed behind the reader's back.   *)
ReadUnavailable ==
  /\ own = "Open"
  /\ InputStreamNotOpenedError(inner) # NoError
  /\ reply' = [ok |-> FALSE, record |-> NoRecord, error |-> InputStreamNotOpenedError(inner)]
  /\ failed' = TRUE
  /\ UNCHANGED <<input, at, inner, own, ownError, hasReader, root, delivered>>

CanRead == own = "Open" /\ InputStreamNotOpenedError(inner) = NoError

Nodes == IF hasReader THEN input.nodes ELSE << >>

(* _advanceReader: when there are no more nodes.                           *)
AdvanceError ==
  IF ~hasReader THEN "AtEnd"
  ELSE CASE input.fault = "end" -> "AtEnd" [] input.fault = "truncated" -> "Malformed" [] input.fault = "io" -> "IO"

(* The parser reads ahead: the wrapped stream may be at its end long       *)
(* before the nodes are.                                                   *)
AfterAdvance(ranOut) ==
  IF ~hasReader THEN {inner}
  ELSE IF ranOut THEN {IF input.fault = "io" THEN "Error" ELSE "AtEnd"}
  ELSE {inner, "AtEnd"}

Fails(ranOut, offset, error) ==
  /\ at' = offset
  /\ inner' \in AfterAdvance(ranOut)
  /\ own' = "Error"
  /\ ownError' = error
  /\ failed' = TRUE
  /\ reply' = [ok |-> FALSE, record |-> NoRecord, error |-> error]
  /\ UNCHANGED <<input, hasReader, root, delivered>>

(* The first node that is not whitespace.                                  *)
RootAt ==
  LET solid == {i \in DOMAIN Nodes : Nodes[i].type # Whitespace.type}
  IN  IF solid = {} THEN 0 ELSE CHOOSE i \in solid : \A j \in solid : i <= j

RootIs(name) == RootAt # 0 /\ Is(Nodes[RootAt], "ELEMENT", name)

ReadsNoRoot ==
  /\ CanRead /\ root = "none"
  /\ RootAt = 0
  /\ Fails(TRUE, Len(Nodes), AdvanceError)

(* No error is made for a root of another name.                            *)
ReadsOtherRoot ==
  /\ CanRead /\ root = "none"
  /\ RootAt # 0 /\ ~RootIs("collection") /\ ~RootIs("record")
  /\ Fails(FALSE, RootAt, NoError)

\* Mutation: a read never advances first.
Descent_ReadsTheCurrentNode(name, offset) ==
  Parse(Take(Parser(offset), input.nodes[offset]), Nodes)

(* Below a collection a read advances first; a root record is read from    *)
(* the node that is current.                                               *)
Descent(name, offset) ==
  Parse(IF name = "collection" THEN Parser(offset)
        ELSE Take(Parser(offset), input.nodes[offset]),
        Nodes)

\* Mutation: data that ends between two records ends the collection.
IsDone_AtTheEndOfTheData(parsed) == parsed.expects \in {"read", "collectionEnd", "record"}

(* A record was read, or the end of the collection.                        *)
IsDone(parsed) == parsed.expects \in {"read", "collectionEnd"}

Read(name, offset) ==
  LET parsed == Descent(name, offset)
      record == IF parsed.expects = "read"
                THEN [leader |-> parsed.leader, fields |-> parsed.fields] ELSE NoRecord
      ranOut == parsed.expects \notin Stopped
  IN  IF IsDone(parsed)
      THEN /\ at' = parsed.at
           /\ inner' \in AfterAdvance(FALSE)
           /\ root' = name
           /\ delivered' = IF record = NoRecord THEN delivered ELSE Append(delivered, record)
           /\ reply' = [ok |-> TRUE, record |-> record, error |-> NoError]
           /\ UNCHANGED <<input, own, ownError, hasReader, failed>>
      ELSE /\ at' = parsed.at
           /\ inner' \in AfterAdvance(ranOut)
           /\ own' = "Error"
           /\ ownError' = IF ranOut THEN AdvanceError
                          ELSE IF parsed.expects = "missing" THEN "MissingData" ELSE "Malformed"
           /\ root' = name
           /\ failed' = TRUE
           /\ reply' = [ok |-> FALSE, record |-> NoRecord, error |-> ownError']
           /\ UNCHANGED <<input, hasReader, delivered>>

ReadRecord ==
  /\ CanRead
  /\ \/ /\ root = "none"
        /\ \E name \in {"collection", "record"} : RootIs(name) /\ Read(name, RootAt)
     \/ /\ root # "none"
        /\ Read(root, at)

Next ==
  \/ OwnerCloses
  \/ Open
  \/ Close
  \/ ReadUnopened
  \/ ReadUnavailable
  \/ ReadsNoRoot
  \/ ReadsOtherRoot
  \/ ReadRecord

Spec == Init /\ [][Next]_vars
=============================================================================

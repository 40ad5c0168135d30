------------------------ MODULE SerializationStreams ------------------------
(***************************************************************************)
(* What the record streams know about the Foundation streams they wrap:    *)
(* the statuses of an NSStream, the errors the serialization code makes    *)
(* from a status, and the status changes that opening and closing an       *)
(* NSStream can cause.                                                     *)
(*                                                                         *)
(* NSStreamStatusOpening, Reading and Writing are left out: Foundation     *)
(* reports them only while a call on the same stream is in progress, and   *)
(* the record streams make one synchronous call at a time.                 *)
(***************************************************************************)

Status == {"NotOpen", "Open", "AtEnd", "Error", "Closed"}

NoError == "none"

(* "AtEnd" and "MissingData" are both BibSerializationStreamAtEndError;    *)
(* they differ in the message alone.  "IO" is the error of the wrapped     *)
(* stream itself.                                                          *)
Errors == {NoError, "NotOpened", "AtEnd", "MissingData", "Malformed", "IO"}

(* [NSStream streamError]: an error while the status is Error.             *)
StreamErrorOf(status) == IF status = "Error" THEN "IO" ELSE NoError

(* The error a read from a stream that is not open returns: reading at the *)
(* end of a stream is allowed and returns nothing.                         *)
InputStreamNotOpenedError(status) ==
  CASE status \in {"Open", "AtEnd"}      -> NoError
    [] status = "Error"                  -> StreamErrorOf(status)
    [] status \in {"NotOpen", "Closed"}  -> "NotOpened"

(* The error a write to a stream that is not open returns.                 *)
OutputStreamNotOpenedError(status) ==
  CASE status = "Open"                   -> NoError
    [] status = "AtEnd"                  -> "AtEnd"
    [] status = "Error"                  -> StreamErrorOf(status)
    [] status \in {"NotOpen", "Closed"}  -> "NotOpened"

(* [NSStream open] acts on a stream that was never opened; a file or a     *)
(* socket may fail to open.                                                *)
OpenedStatus(status, fallible) ==
  IF status # "NotOpen" THEN {status}
  ELSE {"Open"} \cup (IF fallible THEN {"Error"} ELSE {})

(* [NSStream close]: Foundation does not say whether a stream that was     *)
(* never opened, or one that failed, reports Closed afterwards.            *)
ClosedStatus(status) ==
  {"Closed"} \cup (IF status \in {"NotOpen", "Error"} THEN {status} ELSE {})
=============================================================================

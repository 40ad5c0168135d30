---------------------------- MODULE MARCDecoding ----------------------------
(***************************************************************************)
(* The two ways of decoding the same data: record by record, through a     *)
(* BibMARCInputStream, and in one call of +recordsFromData:error:, which   *)
(* runs on a stream of its own.                                            *)
(***************************************************************************)
EXTENDS MARCInputStream, MARCSerialization

(* Both ways tell the same story of the same data.  When one call returns  *)
(* an array without an error, a client that reads to the end without an    *)
(* error has been given that array; when it returns an error, no client    *)
(* reads to the end of the data without being told of one.                 *)
WaysOfDecodingAgree ==
  LET all     == RecordsFromData(input)
      readAll == /\ reply.call # "none" /\ reply.record = NoRecord
                 /\ reply.error \in {NoError, "AtEnd"} /\ ~complained
  IN  readAll =>
        /\ all.records = delivered
        /\ all.error = IF input = << >> THEN "AtEnd" ELSE NoError
=============================================================================

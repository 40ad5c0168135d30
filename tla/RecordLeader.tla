---------------------------- MODULE RecordLeader ----------------------------
(***************************************************************************)
(* BibLeader: what the leader of a record says besides its two sizes.      *)
(***************************************************************************)

(* The kinds of record, by the format of the data that they describe.      *)
BibliographicKinds ==
  {"a", "b", "c", "d", "e", "f", "g", "h", "i", "j", "k", "m", "n", "o", "p", "r", "t"}
CommunityKinds == {"q"}
HoldingsKinds == {"u", "v", "x", "y"}
ClassificationKinds == {"w"}
AuthorityKinds == {"z"}

RecordKinds ==
  BibliographicKinds \cup CommunityKinds \cup HoldingsKinds \cup ClassificationKinds
    \cup AuthorityKinds

\* A byte that names no kind of record.
UnknownKind == "?"

Blank == " "

RecordFormats == {"bibliographic", "authority", "holdings", "classification", "community"}

RecordKindFormat(kind) ==
  CASE kind \in BibliographicKinds  -> "bibliographic"
    [] kind \in CommunityKinds      -> "community"
    [] kind \in HoldingsKinds       -> "holdings"
    [] kind \in ClassificationKinds -> "classification"
    [] kind \in AuthorityKinds      -> "authority"
    [] OTHER                        -> Blank

(* Every kind of record has one of the formats, and only those have one.   *)
ASSUME FormatAssumption ==
  \A kind \in RecordKinds \cup {UnknownKind} :
    RecordKindFormat(kind) \in RecordFormats <=> kind \in RecordKinds

RecordStatuses == {"a", "c", "d", "n", "o", "p", "s", "x"}
BibliographicLevels == {"a", "b", "c", "d", "i", "m", "s"}
BibliographicControlTypes == {Blank, "a"}
Encodings == {Blank, "a"}

(* The layout: a leader of MARC 21 says "22" for the indicators and the    *)
(* subfield codes of a field, and "4500" for the parts of the directory.   *)
(* "lenient" has other bytes only behind the 4.                            *)
Leader ==
  [status   : RecordStatuses,
   kind     : RecordKinds \cup {UnknownKind},
   level    : BibliographicLevels \cup {Blank},
   control  : BibliographicControlTypes,
   encoding : Encodings,
   layout   : {"standard", "lenient", "other"}]

NoLeader == [layout |-> "none"]

(* initWithData: returns nil for a leader with another layout, but looks   *)
(* at a single byte of the four.                                           *)
LeaderFromData(leader) ==
  IF leader.layout \in {"standard", "lenient"} THEN leader ELSE NoLeader

(* What BibMarcLeaderWrite writes in any case.                             *)
LeaderToData(leader) == [leader EXCEPT !.layout = "standard"]

SetRecordKind(leader, kind) == [leader EXCEPT !.kind = kind]

(* Only a bibliographic record has a bibliographic level: in a community   *)
(* record, the same byte is the kind of its data.                          *)
SetBibliographicLevel(leader, level) ==
  IF RecordKindFormat(leader.kind) = "bibliographic"
  THEN [leader EXCEPT !.level = level] ELSE leader
=============================================================================

------------------------ MODULE MCMARCRecordLayout ------------------------
(* Records of up to MCMaxFields fields: control fields and data fields, on *)
(* both sides of every limit a size has, some with delimiters in contents  *)
(* or for a code, and one that is so long that its length wraps.           *)
EXTENDS MARCRecordLayout

CONSTANTS MCMaxFields

Run(n) == [i \in 1..n |-> 49]

ControlField(n) == [tag |-> <<0, 0, 1>>, value |-> Run(n), indicators |-> << >>,
                    subfields |-> << >>]
DataField(contents) ==
  [tag |-> <<2, 4, 5>>, value |-> << >>, indicators |-> <<1, -16>>,
   subfields |-> [i \in DOMAIN contents |-> [code |-> 48 + i, content |-> contents[i]]]]

MCFields ==
  {ControlField(n) : n \in {0, 8, 9}}
    \cup {[ControlField(0) EXCEPT !.tag = <<0, 0, 0>>]}
    \cup {[ControlField(2) EXCEPT !.value = <<RecordTerminator, FieldTerminator>>]}
    \cup {DataField(<< >>)}
    \cup {DataField(<<Run(n)>>) : n \in {0, 4, 5, 90}}
    \cup {DataField(<<Run(1), Run(0)>>)}
    \cup {DataField(<<<<49, b, 49, 49>>>>) : b \in {SubfieldDelimiter, FieldTerminator}}
    \cup {DataField(<<<<SubfieldDelimiter>>>>)}
    \cup {[DataField(<<Run(0)>>) EXCEPT !.subfields[1].code = SubfieldDelimiter]}

\* Its length wraps to 17, and is that of a record in its first bytes.
MCWrapping ==
  <<[ControlField(0) EXCEPT !.value = Run(5) \o <<RecordTerminator>> \o Run(2558)]>>

\* A book, as the client describes it, or with a directory of another layout.
MCLeaders ==
  {[status |-> "n", kind |-> "a", level |-> "m", control |-> Blank, encoding |-> "a",
    layout |-> l] : l \in {"standard", "lenient", "other"}}

MCOriginals == UNION {[1..n -> MCFields] : n \in 0..MCMaxFields} \cup {MCWrapping}
=============================================================================

---------------------------- MODULE RecordFields ----------------------------
(***************************************************************************)
(* The fields of a record as Swift values.  A field has a tag and a        *)
(* content of one of three kinds; the setters change the content only when *)
(* it is of their kind, and a change of tag replaces it only when the tag  *)
(* goes from one kind to another.                                          *)
(***************************************************************************)
EXTENDS Integers, Sequences, SequencesExt

CONSTANTS
  Nil,           \* no value
  Blank,         \* FieldIndicator.blank
  Values,        \* what a control field may hold besides the empty string
  Indicators,    \* the other indicators
  Subfields      \* [code, content]

-----------------------------------------------------------------------------

(* Three digits.                                                           *)
Tag == [1..3 -> 0..9]
ZeroTag == <<0, 0, 0>>

IsControlTag(tag) == tag[1] = 0 /\ tag[2] = 0 /\ tag # ZeroTag
IsDataTag(tag) == ~IsControlTag(tag) /\ tag # ZeroTag

ControlValues == Values \cup {""}
IndicatorPairs == (Indicators \cup {Blank}) \X (Indicators \cup {Blank})

NoContent == [is |-> "none"]
ControlContent(value) == [is |-> "control", value |-> value]
DataContent(indicators, subfields) ==
  [is |-> "data", indicators |-> indicators, subfields |-> subfields]

Content ==
  {NoContent}
    \cup {ControlContent(v) : v \in ControlValues}
    \cup [is : {"data"}, indicators : IndicatorPairs, subfields : Seq(Subfields)]

RecordField == [tag : Tag, content : Content]

-----------------------------------------------------------------------------

(* What a field of this tag holds before anything is put in it.            *)
BlankContent(tag) ==
  IF IsDataTag(tag) THEN DataContent(<<Blank, Blank>>, <<>>)
  ELSE IF IsControlTag(tag) THEN ControlContent("")
  ELSE NoContent

NewField(tag) == [tag |-> tag, content |-> BlankContent(tag)]

(* The preconditions of the private initialiser.                           *)
Fits(tag, content) ==
  \/ content.is = "control" /\ IsControlTag(tag)
  \/ content.is = "data" /\ IsDataTag(tag)
  \/ content.is = "none" /\ ~IsControlTag(tag) /\ ~IsDataTag(tag)

(* didSet: leaving the tag 000 gives the field no content of its new kind. *)
WithTag_KeepsTheContent(field, tag) ==
  [tag |-> tag,
   content |-> IF ~IsControlTag(tag) /\ ~IsDataTag(tag) THEN NoContent ELSE field.content]

WithTag(field, tag) ==
  [tag |-> tag,
   content |->
     IF \/ IsDataTag(tag) /\ IsControlTag(field.tag)
        \/ IsControlTag(tag) /\ IsDataTag(field.tag)
        \/ ~IsControlTag(tag) /\ ~IsDataTag(tag)
     THEN BlankContent(tag) ELSE field.content]

WithControlValue(field, value) ==
  IF field.content.is # "control" THEN field
  ELSE [field EXCEPT !.content = ControlContent(IF value = Nil THEN "" ELSE value)]

WithIndicators(field, indicators) ==
  IF field.content.is # "data" THEN field
  ELSE [field EXCEPT !.content.indicators =
          IF indicators = Nil THEN <<Blank, Blank>> ELSE indicators]

WithSubfields(field, subfields) ==
  IF field.content.is # "data" THEN field
  ELSE [field EXCEPT !.content.subfields = subfields]

(* Every field is a collection of subfields: an empty one unless it has    *)
(* data, and then changing it changes nothing.                             *)
SubfieldsOf(field) ==
  IF field.content.is = "data" THEN field.content.subfields ELSE <<>>

(* The text of a field, in the pieces that are joined.                     *)
StringValue(field) ==
  CASE field.content.is = "none" -> <<>>
    [] field.content.is = "control" -> <<field.content.value>>
    [] field.content.is = "data" ->
         FlattenSeq([i \in DOMAIN SubfieldsOf(field) |->
                       <<"mark", SubfieldsOf(field)[i].code, SubfieldsOf(field)[i].content>>])

-----------------------------------------------------------------------------

(* Codable: the tag with the content, which is null, a string or an        *)
(* object; decoding them has the preconditions of the initialiser.         *)
Encoded(field) == <<field.tag, field.content>>
Decodes(code) == Fits(code[1], code[2])

=============================================================================

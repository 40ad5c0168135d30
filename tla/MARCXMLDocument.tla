-------------------------- MODULE MARCXMLDocument --------------------------
(***************************************************************************)
(* MARCXML as the nodes libxml2's text reader makes of it: what the writer *)
(* emits for a record, and what the reader takes a run of nodes for.       *)
(*                                                                         *)
(* A record has a leader and fields; a field has a tag and contents, one   *)
(* for a control field, one per subfield for a data field.  Indicators and *)
(* subfield codes go the way of the tag and are left out.                  *)
(***************************************************************************)
EXTENDS Integers, Sequences, SequencesExt

Element(name, tag) == [type |-> "ELEMENT", name |-> name, value |-> tag]
EndElement(name)   == [type |-> "END_ELEMENT", name |-> name, value |-> ""]
Text(content)      == [type |-> "TEXT", name |-> "", value |-> content]
Whitespace         == [type |-> "SIGNIFICANT_WHITESPACE", name |-> "", value |-> " "]

(* A string of blanks is whitespace to the reader; an empty one is nothing. *)
TextNodes(content) ==
  CASE content = ""  -> << >>
    [] content = " " -> <<Whitespace>>
    [] OTHER         -> <<Text(content)>>

Enclosed(name, tag, nodes) == <<Element(name, tag)>> \o nodes \o <<EndElement(name)>>

SubfieldNodes(contents) ==
  FlattenSeq([i \in DOMAIN contents |-> Enclosed("subfield", "a", TextNodes(contents[i]))])

(* An element that nothing was written into is self-closing and has no end *)
(* for the reader: a data field without subfields.                         *)
FieldNodes(field) ==
  IF field.isControlField
  THEN Enclosed("controlfield", field.tag, TextNodes(field.contents[1]))
  ELSE IF field.contents = << >> THEN <<Element("datafield", field.tag)>>
  ELSE Enclosed("datafield", field.tag, SubfieldNodes(field.contents))

RecordNodes(record) ==
  Enclosed("record", "",
           Enclosed("leader", "", TextNodes(record.leader))
             \o FlattenSeq([i \in DOMAIN record.fields |-> FieldNodes(record.fields[i])]))

-----------------------------------------------------------------------------

(***************************************************************************)
(* The recursive descent of the reader, from a record's start to its end,  *)
(* as a state that takes one node after another.                           *)
(***************************************************************************)
Parser(offset) ==
  [expects |-> "record", at |-> offset, leader |-> "", tag |-> "", contents |-> << >>,
   fields |-> << >>]

Stopped == {"read", "collectionEnd", "malformed", "missing"}

Stop(parser, outcome) == [parser EXCEPT !.expects = outcome]

Is(node, type, name) == node.type = type /\ node.name = name

ExpectEnd(parser, node, name, next) ==
  Stop(parser, IF Is(node, "END_ELEMENT", name) THEN next ELSE "malformed")

TakeRecord(parser, node) ==
  IF Is(node, "ELEMENT", "record") THEN Stop(parser, "leader")
  ELSE ExpectEnd(parser, node, "collection", "collectionEnd")

TakeLeader(parser, node) ==
  Stop(parser, CASE Is(node, "ELEMENT", "leader")       -> "leaderText"
                 [] Is(node, "ELEMENT", "controlfield") -> "missing"
                 [] Is(node, "ELEMENT", "datafield")    -> "missing"
                 [] OTHER                               -> "malformed")

TakeLeaderText(parser, node) ==
  IF node.type = "TEXT" THEN [parser EXCEPT !.leader = node.value, !.expects = "leaderEnd"]
  ELSE Stop(parser, "malformed")

\* Mutation: the subfields of the field before it stay in the array.
TakeField_KeepsTheContents(parser, node) ==
  IF node.type = "ELEMENT"
  THEN IF node.name \in {"controlfield", "datafield"}
       THEN IF node.value = "" THEN Stop(parser, "missing")
            ELSE [parser EXCEPT !.tag = node.value,
                    !.expects = IF node.name = "controlfield" THEN "value" ELSE "subfield"]
       ELSE IF parser.fields = << >> THEN Stop(parser, "read")
       ELSE [parser EXCEPT !.fields = Append(@, Last(@))]
  ELSE ExpectEnd(parser, node, "record", "read")

(* The start of a field, or the record's end.  An element of another name  *)
(* sets an error that nobody looks at and leaves the field variable alone: *)
(* the field before it is added again; without one, the loop ends.         *)
TakeField(parser, node) ==
  IF node.type = "ELEMENT"
  THEN IF node.name \in {"controlfield", "datafield"}
       THEN IF node.value = "" THEN Stop(parser, "missing")
            ELSE [parser EXCEPT !.tag = node.value, !.contents = << >>,
                    !.expects = IF node.name = "controlfield" THEN "value" ELSE "subfield"]
       ELSE IF parser.fields = << >> THEN Stop(parser, "read")
       ELSE [parser EXCEPT !.fields = Append(@, Last(@))]
  ELSE ExpectEnd(parser, node, "record", "read")

TakeContent(parser, node, next) ==
  IF node.type = "TEXT"
  THEN [parser EXCEPT !.contents = Append(@, node.value), !.expects = next]
  ELSE Stop(parser, "malformed")

AddField(parser, isControlField) ==
  [parser EXCEPT !.expects = "field",
     !.fields = Append(@, [isControlField |-> isControlField, tag |-> parser.tag,
                           contents |-> parser.contents])]

TakeFieldEnd(parser, node) ==
  IF Is(node, "END_ELEMENT", "controlfield") THEN AddField(parser, TRUE)
  ELSE Stop(parser, "malformed")

TakeSubfield(parser, node) ==
  CASE Is(node, "ELEMENT", "subfield") ->
         Stop(parser, IF node.value = "" THEN "missing" ELSE "content")
    [] Is(node, "END_ELEMENT", "datafield") -> AddField(parser, FALSE)
    [] OTHER -> Stop(parser, "malformed")

Take(parser, node) ==
  CASE parser.expects = "record"      -> TakeRecord(parser, node)
    [] parser.expects = "leader"      -> TakeLeader(parser, node)
    [] parser.expects = "leaderText"  -> TakeLeaderText(parser, node)
    [] parser.expects = "leaderEnd"   -> ExpectEnd(parser, node, "leader", "field")
    [] parser.expects = "field"       -> TakeField(parser, node)
    [] parser.expects = "value"       -> TakeContent(parser, node, "fieldEnd")
    [] parser.expects = "fieldEnd"    -> TakeFieldEnd(parser, node)
    [] parser.expects = "subfield"    -> TakeSubfield(parser, node)
    [] parser.expects = "content"     -> TakeContent(parser, node, "subfieldEnd")
    [] parser.expects = "subfieldEnd" -> ExpectEnd(parser, node, "subfield", "subfield")

(* Whitespace is passed over.                                              *)
TakeNext(parser, node) ==
  IF parser.expects \in Stopped THEN parser
  ELSE LET next == [parser EXCEPT !.at = @ + 1]
       IN  IF node.type = Whitespace.type THEN next ELSE Take(next, node)

(* Takes nodes until the parser stops or there are no more.                *)
Parse(parser, nodes) ==
  LET after[k \in parser.at..Len(nodes)] ==
        IF k = parser.at THEN parser ELSE TakeNext(after[k - 1], nodes[k])
  IN  IF nodes = << >> THEN parser ELSE after[Len(nodes)]
=============================================================================

---------------------------- MODULE RecordSearch ----------------------------
(***************************************************************************)
(* Finding fields and subfields: Record and RecordField search sequences   *)
(* of values, BibRecord and BibRecordField the objects they are bridged    *)
(* to.  Indexes count from 1 here, 0 is nil and NSNotFound, and a range is *)
(* [first, last].                                                          *)
(***************************************************************************)
EXTENDS RecordFieldObjects

(* The elements that pass the test, in their order.                        *)
Selected(seq, Test(_)) ==
  FlattenSeq([i \in DOMAIN seq |-> IF Test(seq[i]) THEN <<seq[i]>> ELSE <<>>])

InRange(seq, range) == SubSeq(seq, range.first, range.last)

(* The index in the whole sequence of what was found in a part of it.      *)
InWhole(index, range) == IF index = 0 THEN 0 ELSE index + range.first - 1

-----------------------------------------------------------------------------

FirstIndexOfField(fields, tag) == SelectInSeq(fields, LAMBDA f : f.tag = tag)
LastIndexOfField(fields, tag) == SelectLastInSeq(fields, LAMBDA f : f.tag = tag)
ContainsField(fields, tag) == FirstIndexOfField(fields, tag) # 0

(* A slice keeps the indexes of its array.                                 *)
FirstIndexOfFieldIn(fields, tag, range) ==
  InWhole(FirstIndexOfField(InRange(fields, range), tag), range)

FirstIndexOfSubfield(field, code) ==
  SelectInSeq(SubfieldsOf(field), LAMBDA s : s.code = code)
LastIndexOfSubfield(field, code) ==
  SelectLastInSeq(SubfieldsOf(field), LAMBDA s : s.code = code)
FirstIndexOfSubfieldIn(field, code, range) ==
  InWhole(SelectInSeq(InRange(SubfieldsOf(field), range), LAMBDA s : s.code = code), range)
SubfieldsWith(field, code) == Selected(SubfieldsOf(field), LAMBDA s : s.code = code)

-----------------------------------------------------------------------------

(* A path is to the fields with a tag, or to their subfields with a code;  *)
(* FieldPath(tag:code:) has the precondition.                              *)
IsPath(path) == path.code = Nil \/ ~IsControlTag(path.tag)

PathsToFields(fields, tag) ==
  Selected([i \in DOMAIN fields |-> <<i>>], LAMBDA p : fields[p[1]].tag = tag)

PathsToSubfields_AnyTag(fields, tag, code) ==
  FlattenSeq([i \in DOMAIN fields |->
    Selected([j \in DOMAIN SubfieldsOf(fields[i]) |-> <<i, j>>],
             LAMBDA p : SubfieldsOf(fields[i])[p[2]].code = code)])

PathsToSubfields(fields, tag, code) ==
  FlattenSeq([i \in DOMAIN fields |->
    Selected([j \in DOMAIN SubfieldsOf(fields[i]) |-> <<i, j>>],
             LAMBDA p : /\ fields[i].tag = tag
                         /\ SubfieldsOf(fields[i])[p[2]].code = code)])

IndexPaths(fields, path) ==
  IF path.code = Nil THEN PathsToFields(fields, path.tag)
  ELSE PathsToSubfields(fields, path.tag, path.code)

ContentAt(fields, indexPath) ==
  IF Len(indexPath) = 1 THEN StringValue(fields[indexPath[1]])
  ELSE <<SubfieldsOf(fields[indexPath[1]])[indexPath[2]].content>>

-----------------------------------------------------------------------------

(* indexOfFieldWithTag:inRange: numbers the fields from the start of the   *)
(* range; indexOfSubfieldWithCode:inRange: those of the whole field.       *)
ObjectIndexOfFieldIn(objects, tag, range) ==
  SelectInSeq(InRange(objects, range), LAMBDA o : o.tag = tag)

ObjectIndexOfSubfieldIn(object, code, range) ==
  IF object.subfields = Nil THEN 0
  ELSE InWhole(SelectInSeq(InRange(object.subfields, range), LAMBDA s : s.code = code), range)

(* BibFieldPath has no code with a control tag, and with the tag 000 it is *)
(* none of the three kinds of path.                                        *)
PathObject(path) ==
  [tag |-> path.tag, code |-> IF IsControlTag(path.tag) THEN Nil ELSE path.code]

IsSubfieldPath(object) == IsDataTag(object.tag) /\ object.code # Nil

PathValue(object) ==
  [tag |-> object.tag, code |-> IF IsSubfieldPath(object) THEN object.code ELSE Nil]

(* The record's own loops: a field is met only if its tag is the path's,   *)
(* and then its subfields are.                                             *)
ObjectIndexPaths(objects, path) ==
  IF IsSubfieldPath(path)
  THEN FlattenSeq([i \in DOMAIN objects |->
         IF objects[i].tag # path.tag THEN <<>>
         ELSE Selected([j \in DOMAIN objects[i].subfields |-> <<i, j>>],
                       LAMBDA p : objects[i].subfields[p[2]].code = path.code)])
  ELSE IF IsControlTag(path.tag) \/ IsDataTag(path.tag)
  THEN Selected([i \in DOMAIN objects |-> <<i>>], LAMBDA p : objects[p[1]].tag = path.tag)
  ELSE <<>>

(* Of a data field, the contents of its subfields with spaces between      *)
(* them: the value has their codes too.                                    *)
ObjectContentAt(objects, indexPath) ==
  LET object == objects[indexPath[1]]
  IN IF Len(indexPath) = 2 THEN <<object.subfields[indexPath[2]].content>>
     ELSE IF IsControlTag(object.tag) THEN <<object.controlValue>>
     ELSE IF IsDataTag(object.tag)
     THEN [i \in DOMAIN object.subfields |-> object.subfields[i].content]
     ELSE <<>>

=============================================================================

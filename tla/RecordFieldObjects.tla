------------------------- MODULE RecordFieldObjects -------------------------
(***************************************************************************)
(* BibRecordField and BibMutableRecordField, and how they are bridged to   *)
(* and from the Swift value.  An object keeps every part a field can have  *)
(* and clears those its tag does not go with.                              *)
(***************************************************************************)
EXTENDS RecordFields

FieldObject ==
  [mutable : BOOLEAN,
   tag : Tag,
   controlValue : ControlValues \cup {Nil},
   firstIndicator : Indicators \cup {Blank, Nil},
   secondIndicator : Indicators \cup {Blank, Nil},
   subfields : Seq(Subfields) \cup {Nil},
   growable : BOOLEAN]   \* the subfields are in an array that can be changed

-----------------------------------------------------------------------------

InitWithFieldTag(mutable, tag) ==
  [mutable |-> mutable,
   tag |-> tag,
   controlValue |-> IF IsControlTag(tag) THEN "" ELSE Nil,
   firstIndicator |-> IF IsDataTag(tag) THEN Blank ELSE Nil,
   secondIndicator |-> IF IsDataTag(tag) THEN Blank ELSE Nil,
   subfields |-> IF IsDataTag(tag) THEN <<>> ELSE Nil,
   growable |-> FALSE]

(* Raises unless IsControlTag(tag).                                        *)
InitWithControlValue(mutable, tag, value) ==
  [InitWithFieldTag(mutable, tag) EXCEPT !.controlValue = value]

(* Raises unless IsDataTag(tag).  A mutable field has a lazy array.        *)
InitWithSubfields(mutable, tag, first, second, subfields) ==
  [InitWithFieldTag(mutable, tag) EXCEPT
     !.firstIndicator = first,
     !.secondIndicator = second,
     !.subfields = subfields,
     !.growable = mutable]

(* copy and mutableCopy of the field.                                      *)
CopyOf(object, mutable) ==
  IF IsDataTag(object.tag)
  THEN InitWithSubfields(mutable, object.tag, object.firstIndicator,
                         object.secondIndicator, object.subfields)
  ELSE IF IsControlTag(object.tag)
  THEN InitWithControlValue(mutable, object.tag, object.controlValue)
  ELSE InitWithFieldTag(mutable, object.tag)

-----------------------------------------------------------------------------

SetControlValue(object, value) ==
  [object EXCEPT !.controlValue =
     IF ~IsControlTag(object.tag) THEN Nil ELSE IF value = Nil THEN "" ELSE value]

SetFirstIndicator(object, indicator) ==
  [object EXCEPT !.firstIndicator =
     IF ~IsDataTag(object.tag) THEN Nil ELSE IF indicator = Nil THEN Blank ELSE indicator]

SetSecondIndicator(object, indicator) ==
  [object EXCEPT !.secondIndicator =
     IF ~IsDataTag(object.tag) THEN Nil ELSE IF indicator = Nil THEN Blank ELSE indicator]

SetSubfields(object, subfields) ==
  [object EXCEPT
     !.subfields = IF ~IsDataTag(object.tag) THEN Nil
                   ELSE IF subfields = Nil THEN <<>> ELSE subfields,
     !.growable = IsDataTag(object.tag)]

(* The setters one after the other, each of which looks at the tag.        *)
SetParts(object, value, indicator, subfields) ==
  SetSubfields(
    SetSecondIndicator(
      SetFirstIndicator(SetControlValue(object, value), indicator), indicator),
    subfields)

(* setFieldTag: for a tag that is another object than the field's.  The    *)
(* last condition tests for a data tag twice, and so is also met by a      *)
(* control field that is given a control tag.                              *)
SetFieldTag_ClearsFirst(object, tag) ==
  LET Tagged(cleared) == [cleared EXCEPT !.tag = tag]
  IN IF ~IsControlTag(object.tag) /\ IsControlTag(tag)
     THEN Tagged(SetParts(object, "", Nil, Nil))
     ELSE IF ~IsDataTag(object.tag) /\ IsDataTag(tag)
     THEN Tagged(SetParts(object, Nil, Blank, <<>>))
     ELSE IF ~IsDataTag(tag) /\ ~IsDataTag(tag)
     THEN Tagged(SetParts(object, Nil, Nil, Nil))
     ELSE object

SetFieldTag(object, tag) ==
  LET tagged == [object EXCEPT !.tag = tag]
  IN IF ~IsControlTag(object.tag) /\ IsControlTag(tag)
     THEN SetParts(tagged, "", Nil, Nil)
     ELSE IF ~IsDataTag(object.tag) /\ IsDataTag(tag)
     THEN SetParts(tagged, Nil, Blank, <<>>)
     ELSE IF ~IsDataTag(tag) /\ ~IsDataTag(tag)
     THEN SetParts(tagged, Nil, Nil, Nil)
     ELSE object

(* addSubfield: and its like are sent to the array: nothing happens when   *)
(* there is none, and an array that cannot be changed raises.              *)
TakesSubfields(object) == object.subfields = Nil \/ object.growable

ChangeSubfields(object, changed) ==
  IF object.subfields = Nil THEN object ELSE [object EXCEPT !.subfields = changed]

-----------------------------------------------------------------------------

ToObject(field) ==
  CASE field.content.is = "none" -> InitWithFieldTag(FALSE, field.tag)
    [] field.content.is = "control" ->
         InitWithControlValue(FALSE, field.tag, field.content.value)
    [] field.content.is = "data" ->
         InitWithSubfields(FALSE, field.tag, field.content.indicators[1],
                           field.content.indicators[2], field.content.subfields)

FromObject(object) ==
  [tag |-> object.tag,
   content |->
     IF IsControlTag(object.tag) THEN ControlContent(object.controlValue)
     ELSE IF IsDataTag(object.tag)
     THEN DataContent(<<object.firstIndicator, object.secondIndicator>>, object.subfields)
     ELSE NoContent]

=============================================================================

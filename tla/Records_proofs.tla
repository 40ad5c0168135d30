---------------------------- MODULE Records_proofs ----------------------------
(***************************************************************************)
(* For every set of records, tags, values and edits: a field object always *)
(* has the parts its tag goes with and no others, a Swift field never has  *)
(* the content of another kind of tag, an object and a value that were     *)
(* changed alike are still bridged to each other, and the searches of the  *)
(* two find the same fields and contents.                                  *)
(***************************************************************************)
EXTENDS Records, SequenceTheorems, NaturalsInduction, WellFoundedInduction, TLAPS

(* An object with its parts, and a field that may have lost its content.   *)
IsWhole(object) == object \in FieldObject /\ HasItsParts(object)
IsSound(field) ==
  field \in RecordField /\ (field.content = NoContent \/ Fits(field.tag, field.content))

-----------------------------------------------------------------------------
(* What the constants and tags are.                                        *)

LEMMA NilIsNoValue ==
  /\ Nil # "" /\ Nil # Blank
  /\ Nil \notin ControlValues
  /\ Nil \notin Indicators \cup {Blank}
  /\ Nil \notin Seq(Subfields)
BY RecordsAssumption DEF ControlValues

LEMMA TagIsOfOneKind ==
  ASSUME NEW tag \in Tag
  PROVE  ~(IsControlTag(tag) /\ IsDataTag(tag))
BY DEF IsControlTag, IsDataTag

LEMMA BlankParts ==
  /\ "" \in ControlValues
  /\ Blank \in Indicators \cup {Blank}
  /\ <<>> \in Seq(Subfields)
BY EmptySeq DEF ControlValues

-----------------------------------------------------------------------------
(* New objects.                                                            *)

LEMMA NewObjectIsWhole ==
  ASSUME NEW mutable \in BOOLEAN, NEW tag \in Tag
  PROVE  /\ IsWhole(InitWithFieldTag(mutable, tag))
         /\ InitWithFieldTag(mutable, tag).tag = tag
<1> USE BlankParts, NilIsNoValue DEF IsWhole
<1>1. CASE IsControlTag(tag)
  BY <1>1, TagIsOfOneKind DEF InitWithFieldTag, FieldObject, HasItsParts
<1>2. CASE IsDataTag(tag)
  BY <1>2, TagIsOfOneKind DEF InitWithFieldTag, FieldObject, HasItsParts
<1>3. CASE ~IsControlTag(tag) /\ ~IsDataTag(tag)
  BY <1>3 DEF InitWithFieldTag, FieldObject, HasItsParts
<1> QED
  BY <1>1, <1>2, <1>3

LEMMA ControlObjectIsWhole ==
  ASSUME NEW mutable \in BOOLEAN, NEW tag \in Tag, IsControlTag(tag),
         NEW value \in ControlValues
  PROVE  IsWhole(InitWithControlValue(mutable, tag, value))
<1> DEFINE new == InitWithFieldTag(mutable, tag)
           object == [new EXCEPT !.controlValue = value]
<1>1. new \in FieldObject /\ HasItsParts(new) /\ new.tag = tag
  BY NewObjectIsWhole DEF IsWhole
<1>2. value # Nil
  BY NilIsNoValue
<1> HIDE DEF new
<1>3. /\ object \in FieldObject
      /\ object.tag = new.tag
      /\ object.controlValue = value
      /\ object.firstIndicator = new.firstIndicator
      /\ object.secondIndicator = new.secondIndicator
      /\ object.subfields = new.subfields
  BY <1>1 DEF FieldObject
<1> HIDE DEF object
<1>4. IsWhole(object)
  BY <1>1, <1>2, <1>3, Zenon DEF IsWhole, HasItsParts
<1> QED
  BY <1>4 DEF InitWithControlValue, object, new

LEMMA DataObjectIsWhole ==
  ASSUME NEW mutable \in BOOLEAN, NEW tag \in Tag, IsDataTag(tag),
         NEW first \in Indicators \cup {Blank}, NEW second \in Indicators \cup {Blank},
         NEW subfields \in Seq(Subfields)
  PROVE  IsWhole(InitWithSubfields(mutable, tag, first, second, subfields))
<1> DEFINE new == InitWithFieldTag(mutable, tag)
           object == [new EXCEPT !.firstIndicator = first, !.secondIndicator = second,
                                 !.subfields = subfields, !.growable = mutable]
<1>1. new \in FieldObject /\ HasItsParts(new) /\ new.tag = tag
  BY NewObjectIsWhole DEF IsWhole
<1>2. first # Nil /\ second # Nil /\ subfields # Nil
  BY NilIsNoValue
<1> HIDE DEF new
<1>3. /\ object \in FieldObject
      /\ object.tag = new.tag
      /\ object.controlValue = new.controlValue
      /\ object.firstIndicator = first
      /\ object.secondIndicator = second
      /\ object.subfields = subfields
  BY <1>1 DEF FieldObject
<1> HIDE DEF object
<1>4. IsWhole(object)
  BY <1>1, <1>2, <1>3, Zenon DEF IsWhole, HasItsParts
<1> QED
  BY <1>4 DEF InitWithSubfields, object, new

LEMMA CopyIsWhole ==
  ASSUME NEW object, IsWhole(object), NEW mutable \in BOOLEAN
  PROVE  IsWhole(CopyOf(object, mutable))
<1>1. object.tag \in Tag
  BY DEF IsWhole, FieldObject
<1>2. CASE IsDataTag(object.tag)
  <2>1. /\ object.firstIndicator \in Indicators \cup {Blank}
        /\ object.secondIndicator \in Indicators \cup {Blank}
        /\ object.subfields \in Seq(Subfields)
    BY <1>2 DEF IsWhole, FieldObject, HasItsParts
  <2> QED
    BY <1>1, <1>2, <2>1, DataObjectIsWhole DEF CopyOf
<1>3. CASE ~IsDataTag(object.tag) /\ IsControlTag(object.tag)
  <2>1. object.controlValue \in ControlValues
    BY <1>3 DEF IsWhole, FieldObject, HasItsParts
  <2> QED
    BY <1>1, <1>3, <2>1, ControlObjectIsWhole DEF CopyOf
<1>4. CASE ~IsDataTag(object.tag) /\ ~IsControlTag(object.tag)
  BY <1>1, <1>4, NewObjectIsWhole DEF CopyOf
<1> QED
  BY <1>2, <1>3, <1>4

(* A field that fits, or lost its content, is bridged to a whole object.   *)
LEMMA BridgedIsWhole ==
  ASSUME NEW field, IsSound(field)
  PROVE  IsWhole(ToObject(field))
<1>1. field.tag \in Tag /\ field.content \in Content
  BY DEF IsSound, RecordField
<1>2. CASE field.content.is = "none"
  BY <1>1, <1>2, NewObjectIsWhole DEF ToObject
<1>3. CASE field.content.is = "control"
  <2>1. IsControlTag(field.tag)
    BY <1>3 DEF IsSound, Fits, NoContent
  <2>2. field.content.value \in ControlValues
    BY <1>1, <1>3 DEF Content, NoContent, ControlContent
  <2> QED
    BY <1>1, <1>3, <2>1, <2>2, ControlObjectIsWhole DEF ToObject
<1>4. CASE field.content.is = "data"
  <2>1. IsDataTag(field.tag)
    BY <1>4 DEF IsSound, Fits, NoContent
  <2>2. field.content \in [is : {"data"}, indicators : IndicatorPairs, subfields : Seq(Subfields)]
    BY <1>1, <1>4 DEF Content, NoContent, ControlContent
  <2>3. /\ field.content.indicators[1] \in Indicators \cup {Blank}
        /\ field.content.indicators[2] \in Indicators \cup {Blank}
        /\ field.content.subfields \in Seq(Subfields)
    BY <2>2 DEF IndicatorPairs
  <2> QED
    BY <1>1, <1>4, <2>1, <2>3, DataObjectIsWhole DEF ToObject
<1> QED
  BY <1>1, <1>2, <1>3, <1>4 DEF Content, NoContent, ControlContent

-----------------------------------------------------------------------------
(* The setters of an object: each puts its own part right, and no other.   *)

LEMMA ControlValueIsSet ==
  ASSUME NEW object \in FieldObject, NEW value \in ControlValues \cup {Nil}
  PROVE  LET after == SetControlValue(object, value)
         IN /\ after \in FieldObject
            /\ after.tag = object.tag
            /\ after.controlValue # Nil <=> IsControlTag(object.tag)
            /\ after.firstIndicator = object.firstIndicator
            /\ after.secondIndicator = object.secondIndicator
            /\ after.subfields = object.subfields
<1> DEFINE v == IF ~IsControlTag(object.tag) THEN Nil ELSE IF value = Nil THEN "" ELSE value
           after == [object EXCEPT !.controlValue = v]
<1>1. /\ v \in ControlValues \cup {Nil}
      /\ v # Nil <=> IsControlTag(object.tag)
  BY BlankParts, NilIsNoValue, Zenon
<1> HIDE DEF v
<1>2. /\ after \in FieldObject
      /\ after.tag = object.tag
      /\ after.controlValue = v
      /\ after.firstIndicator = object.firstIndicator
      /\ after.secondIndicator = object.secondIndicator
      /\ after.subfields = object.subfields
  BY <1>1 DEF FieldObject
<1>3. SetControlValue(object, value) = after
  BY DEF SetControlValue, v
<1> QED
  BY <1>1, <1>2, <1>3, Zenon

LEMMA FirstIndicatorIsSet ==
  ASSUME NEW object \in FieldObject, NEW indicator \in Indicators \cup {Blank, Nil}
  PROVE  LET after == SetFirstIndicator(object, indicator)
         IN /\ after \in FieldObject
            /\ after.tag = object.tag
            /\ after.controlValue = object.controlValue
            /\ after.firstIndicator # Nil <=> IsDataTag(object.tag)
            /\ after.secondIndicator = object.secondIndicator
            /\ after.subfields = object.subfields
<1> DEFINE v == IF ~IsDataTag(object.tag) THEN Nil
                ELSE IF indicator = Nil THEN Blank ELSE indicator
           after == [object EXCEPT !.firstIndicator = v]
<1>1. /\ v \in Indicators \cup {Blank, Nil}
      /\ v # Nil <=> IsDataTag(object.tag)
  BY BlankParts, NilIsNoValue, Zenon
<1> HIDE DEF v
<1>2. /\ after \in FieldObject
      /\ after.tag = object.tag
      /\ after.controlValue = object.controlValue
      /\ after.firstIndicator = v
      /\ after.secondIndicator = object.secondIndicator
      /\ after.subfields = object.subfields
  BY <1>1 DEF FieldObject
<1>3. SetFirstIndicator(object, indicator) = after
  BY DEF SetFirstIndicator, v
<1> QED
  BY <1>1, <1>2, <1>3, Zenon

LEMMA SecondIndicatorIsSet ==
  ASSUME NEW object \in FieldObject, NEW indicator \in Indicators \cup {Blank, Nil}
  PROVE  LET after == SetSecondIndicator(object, indicator)
         IN /\ after \in FieldObject
            /\ after.tag = object.tag
            /\ after.controlValue = object.controlValue
            /\ after.firstIndicator = object.firstIndicator
            /\ after.secondIndicator # Nil <=> IsDataTag(object.tag)
            /\ after.subfields = object.subfields
<1> DEFINE v == IF ~IsDataTag(object.tag) THEN Nil
                ELSE IF indicator = Nil THEN Blank ELSE indicator
           after == [object EXCEPT !.secondIndicator = v]
<1>1. /\ v \in Indicators \cup {Blank, Nil}
      /\ v # Nil <=> IsDataTag(object.tag)
  BY BlankParts, NilIsNoValue, Zenon
<1> HIDE DEF v
<1>2. /\ after \in FieldObject
      /\ after.tag = object.tag
      /\ after.controlValue = object.controlValue
      /\ after.firstIndicator = object.firstIndicator
      /\ after.secondIndicator = v
      /\ after.subfields = object.subfields
  BY <1>1 DEF FieldObject
<1>3. SetSecondIndicator(object, indicator) = after
  BY DEF SetSecondIndicator, v
<1> QED
  BY <1>1, <1>2, <1>3, Zenon

LEMMA SubfieldsAreSet ==
  ASSUME NEW object \in FieldObject, NEW subfields \in Seq(Subfields) \cup {Nil}
  PROVE  LET after == SetSubfields(object, subfields)
         IN /\ after \in FieldObject
            /\ after.tag = object.tag
            /\ after.controlValue = object.controlValue
            /\ after.firstIndicator = object.firstIndicator
            /\ after.secondIndicator = object.secondIndicator
            /\ after.subfields # Nil <=> IsDataTag(object.tag)
<1> DEFINE v == IF ~IsDataTag(object.tag) THEN Nil
                ELSE IF subfields = Nil THEN <<>> ELSE subfields
           g == IsDataTag(object.tag)
           after == [object EXCEPT !.subfields = v, !.growable = g]
<1>1. /\ v \in Seq(Subfields) \cup {Nil}
      /\ v # Nil <=> IsDataTag(object.tag)
  BY BlankParts, NilIsNoValue, Zenon
<1>2. g \in BOOLEAN
  BY DEF IsDataTag
<1>3. SetSubfields(object, subfields) = after
  BY DEF SetSubfields
<1> HIDE DEF v, g
<1>4. /\ after \in FieldObject
      /\ after.tag = object.tag
      /\ after.controlValue = object.controlValue
      /\ after.firstIndicator = object.firstIndicator
      /\ after.secondIndicator = object.secondIndicator
      /\ after.subfields = v
  BY <1>1, <1>2 DEF FieldObject
<1> QED
  BY <1>1, <1>3, <1>4, Zenon

(* Together they put all parts right, whatever the object was.             *)
LEMMA PartsAreSet ==
  ASSUME NEW object \in FieldObject, NEW value \in ControlValues \cup {Nil},
         NEW indicator \in Indicators \cup {Blank, Nil},
         NEW subfields \in Seq(Subfields) \cup {Nil}
  PROVE  IsWhole(SetParts(object, value, indicator, subfields))
<1> DEFINE a == SetControlValue(object, value)
           b == SetFirstIndicator(a, indicator)
           c == SetSecondIndicator(b, indicator)
           d == SetSubfields(c, subfields)
<1>1. /\ a \in FieldObject /\ a.tag = object.tag
      /\ a.controlValue # Nil <=> IsControlTag(object.tag)
  BY ControlValueIsSet
<1> HIDE DEF a
<1>2. /\ b \in FieldObject /\ b.tag = a.tag /\ b.controlValue = a.controlValue
      /\ b.firstIndicator # Nil <=> IsDataTag(a.tag)
  BY <1>1, FirstIndicatorIsSet
<1> HIDE DEF b
<1>3. /\ c \in FieldObject /\ c.tag = b.tag /\ c.controlValue = b.controlValue
      /\ c.firstIndicator = b.firstIndicator
      /\ c.secondIndicator # Nil <=> IsDataTag(b.tag)
  BY <1>2, SecondIndicatorIsSet
<1> HIDE DEF c
<1>4. /\ d \in FieldObject /\ d.tag = c.tag /\ d.controlValue = c.controlValue
      /\ d.firstIndicator = c.firstIndicator /\ d.secondIndicator = c.secondIndicator
      /\ d.subfields # Nil <=> IsDataTag(c.tag)
  BY <1>3, SubfieldsAreSet
<1> HIDE DEF d
<1>5. IsWhole(d)
  BY <1>1, <1>2, <1>3, <1>4, Zenon DEF IsWhole, HasItsParts
<1> QED
  BY <1>5, Zenon DEF SetParts, a, b, c, d

-----------------------------------------------------------------------------
(* Each setter keeps an object whole.                                      *)

LEMMA SettingControlValueKeepsWhole ==
  ASSUME NEW object, IsWhole(object), NEW value \in ControlValues \cup {Nil}
  PROVE  IsWhole(SetControlValue(object, value))
<1> DEFINE after == SetControlValue(object, value)
<1>1. /\ after \in FieldObject
      /\ after.tag = object.tag
      /\ after.controlValue # Nil <=> IsControlTag(object.tag)
      /\ after.firstIndicator = object.firstIndicator
      /\ after.secondIndicator = object.secondIndicator
      /\ after.subfields = object.subfields
  BY ControlValueIsSet DEF IsWhole
<1> HIDE DEF after
<1>2. IsWhole(after)
  BY <1>1, Zenon DEF IsWhole, HasItsParts
<1> QED
  BY <1>2 DEF after

LEMMA SettingIndicatorsKeepsWhole ==
  ASSUME NEW object, IsWhole(object),
         NEW first \in Indicators \cup {Blank, Nil}, NEW second \in Indicators \cup {Blank, Nil}
  PROVE  IsWhole(SetSecondIndicator(SetFirstIndicator(object, first), second))
<1> DEFINE a == SetFirstIndicator(object, first)
           b == SetSecondIndicator(a, second)
<1>1. /\ a \in FieldObject
      /\ a.tag = object.tag
      /\ a.controlValue = object.controlValue
      /\ a.firstIndicator # Nil <=> IsDataTag(object.tag)
      /\ a.subfields = object.subfields
  BY FirstIndicatorIsSet DEF IsWhole
<1> HIDE DEF a
<1>2. /\ b \in FieldObject
      /\ b.tag = a.tag
      /\ b.controlValue = a.controlValue
      /\ b.firstIndicator = a.firstIndicator
      /\ b.secondIndicator # Nil <=> IsDataTag(a.tag)
      /\ b.subfields = a.subfields
  BY <1>1, SecondIndicatorIsSet
<1> HIDE DEF b
<1>3. IsWhole(b)
  BY <1>1, <1>2, Zenon DEF IsWhole, HasItsParts
<1> QED
  BY <1>3 DEF a, b

LEMMA SettingSubfieldsKeepsWhole ==
  ASSUME NEW object, IsWhole(object), NEW subfields \in Seq(Subfields) \cup {Nil}
  PROVE  IsWhole(SetSubfields(object, subfields))
<1> DEFINE after == SetSubfields(object, subfields)
<1>1. /\ after \in FieldObject
      /\ after.tag = object.tag
      /\ after.controlValue = object.controlValue
      /\ after.firstIndicator = object.firstIndicator
      /\ after.secondIndicator = object.secondIndicator
      /\ after.subfields # Nil <=> IsDataTag(object.tag)
  BY SubfieldsAreSet DEF IsWhole
<1> HIDE DEF after
<1>2. IsWhole(after)
  BY <1>1, Zenon DEF IsWhole, HasItsParts
<1> QED
  BY <1>2 DEF after

(* A change of the array leaves a list where there was one.                *)
LEMMA ChangingSubfieldsKeepsWhole ==
  ASSUME NEW object, IsWhole(object), NEW changed,
         object.subfields # Nil => changed \in Seq(Subfields)
  PROVE  IsWhole(ChangeSubfields(object, changed))
<1>1. CASE object.subfields = Nil
  BY <1>1 DEF ChangeSubfields
<1>2. CASE object.subfields # Nil
  <2> DEFINE after == [object EXCEPT !.subfields = changed]
  <2>1. object \in FieldObject /\ changed \in Seq(Subfields) /\ changed # Nil
    BY <1>2, NilIsNoValue DEF IsWhole
  <2>2. /\ after \in FieldObject
        /\ after.tag = object.tag
        /\ after.controlValue = object.controlValue
        /\ after.firstIndicator = object.firstIndicator
        /\ after.secondIndicator = object.secondIndicator
        /\ after.subfields = changed
    BY <2>1 DEF FieldObject
  <2>3. ChangeSubfields(object, changed) = after
    BY <1>2 DEF ChangeSubfields
  <2> HIDE DEF after
  <2>4. IsWhole(after)
    BY <1>2, <2>1, <2>2, Zenon DEF IsWhole, HasItsParts
  <2> QED
    BY <2>3, <2>4
<1> QED
  BY <1>1, <1>2

(* Whatever the tag was and becomes; the change that is ignored too.       *)
LEMMA SettingTagKeepsWhole ==
  ASSUME NEW object, IsWhole(object), NEW tag \in Tag
  PROVE  IsWhole(SetFieldTag(object, tag))
<1> DEFINE tagged == [object EXCEPT !.tag = tag]
<1>1. object \in FieldObject
  BY DEF IsWhole
<1>2. tagged \in FieldObject
  BY <1>1 DEF FieldObject
<1> HIDE DEF tagged
<1>3. /\ IsWhole(SetParts(tagged, "", Nil, Nil))
      /\ IsWhole(SetParts(tagged, Nil, Blank, <<>>))
      /\ IsWhole(SetParts(tagged, Nil, Nil, Nil))
  BY <1>2, PartsAreSet, BlankParts
<1> QED
  BY <1>3, Zenon DEF SetFieldTag, tagged

-----------------------------------------------------------------------------
(* The Swift fields: content is only replaced by content of its kind.      *)

LEMMA NewFieldIsSound ==
  ASSUME NEW tag \in Tag
  PROVE  /\ BlankContent(tag) \in Content
         /\ Fits(tag, BlankContent(tag))
<1>1. <<Blank, Blank>> \in IndicatorPairs
  BY DEF IndicatorPairs
<1> QED
  BY <1>1, BlankParts, TagIsOfOneKind
  DEF BlankContent, Content, Fits, NoContent, ControlContent, DataContent

LEMMA SettingTagKeepsSound ==
  ASSUME NEW field, IsSound(field), NEW tag \in Tag
  PROVE  IsSound(WithTag(field, tag))
<1>1. field.tag \in Tag /\ field.content \in Content
  BY DEF IsSound, RecordField
<1>2. CASE \/ IsDataTag(tag) /\ IsControlTag(field.tag)
           \/ IsControlTag(tag) /\ IsDataTag(field.tag)
           \/ ~IsControlTag(tag) /\ ~IsDataTag(tag)
  <2>1. WithTag(field, tag) = [tag |-> tag, content |-> BlankContent(tag)]
    BY <1>2 DEF WithTag
  <2> QED
    BY <2>1, NewFieldIsSound DEF IsSound, RecordField
<1>3. CASE ~(\/ IsDataTag(tag) /\ IsControlTag(field.tag)
             \/ IsControlTag(tag) /\ IsDataTag(field.tag)
             \/ ~IsControlTag(tag) /\ ~IsDataTag(tag))
  <2>1. WithTag(field, tag) = [tag |-> tag, content |-> field.content]
    BY <1>3 DEF WithTag
  <2>2. field.content = NoContent \/ Fits(tag, field.content)
    <3>1. CASE field.content = NoContent
      BY <3>1
    <3>2. CASE field.content.is = "control" /\ IsControlTag(field.tag)
      BY <1>3, <3>2 DEF Fits
    <3>3. CASE field.content.is = "data" /\ IsDataTag(field.tag)
      BY <1>3, <3>3 DEF Fits
    <3>4. CASE field.content.is = "none"
      BY <1>1, <3>4 DEF Content, NoContent, ControlContent
    <3> QED
      BY <3>1, <3>2, <3>3, <3>4 DEF IsSound, Fits
  <2> QED
    BY <1>1, <2>1, <2>2 DEF IsSound, RecordField
<1> QED
  BY <1>2, <1>3

LEMMA ReplacingContentKeepsSound ==
  ASSUME NEW field, IsSound(field), NEW content \in Content,
         field.content # NoContent, content.is = field.content.is
  PROVE  IsSound([field EXCEPT !.content = content])
<1>1. field \in RecordField /\ Fits(field.tag, field.content)
  BY DEF IsSound
<1>2. /\ [field EXCEPT !.content = content] \in RecordField
      /\ [field EXCEPT !.content = content].tag = field.tag
      /\ [field EXCEPT !.content = content].content = content
  BY <1>1 DEF RecordField
<1>3. Fits(field.tag, content)
  BY <1>1 DEF Fits
<1> QED
  BY <1>2, <1>3, Zenon DEF IsSound

LEMMA SettingValueKeepsSound ==
  ASSUME NEW field, IsSound(field), NEW value \in ControlValues \cup {Nil}
  PROVE  IsSound(WithControlValue(field, value))
<1>1. CASE field.content.is # "control"
  BY <1>1 DEF WithControlValue
<1>2. CASE field.content.is = "control"
  <2> DEFINE v == IF value = Nil THEN "" ELSE value
  <2>1. v \in ControlValues
    BY BlankParts
  <2>2. WithControlValue(field, value) = [field EXCEPT !.content = ControlContent(v)]
    BY <1>2 DEF WithControlValue
  <2> HIDE DEF v
  <2>3. ControlContent(v) \in Content /\ ControlContent(v).is = "control"
    BY <2>1 DEF Content, ControlContent
  <2>4. field.content # NoContent
    BY <1>2 DEF NoContent
  <2> QED
    BY <1>2, <2>2, <2>3, <2>4, ReplacingContentKeepsSound
<1> QED
  BY <1>1, <1>2

DataContents == [is : {"data"}, indicators : IndicatorPairs, subfields : Seq(Subfields)]

LEMMA DataContentIsData ==
  ASSUME NEW field, IsSound(field), field.content.is = "data"
  PROVE  field.content \in DataContents /\ field.content # NoContent
<1>1. field.content \in Content
  BY DEF IsSound, RecordField
<1> QED
  BY <1>1 DEF Content, NoContent, ControlContent, DataContents

LEMMA SettingPairKeepsSound ==
  ASSUME NEW field, IsSound(field), NEW indicators \in IndicatorPairs \cup {Nil}
  PROVE  IsSound(WithIndicators(field, indicators))
<1>1. CASE field.content.is # "data"
  BY <1>1 DEF WithIndicators
<1>2. CASE field.content.is = "data"
  <2> DEFINE v == IF indicators = Nil THEN <<Blank, Blank>> ELSE indicators
             content == [field.content EXCEPT !.indicators = v]
  <2>1. v \in IndicatorPairs
    BY DEF IndicatorPairs
  <2>2. WithIndicators(field, indicators) = [field EXCEPT !.content = content]
    BY <1>2 DEF WithIndicators
  <2> HIDE DEF v
  <2>3. field.content \in DataContents /\ field.content # NoContent
    BY <1>2, DataContentIsData
  <2>4. content \in DataContents
    BY <2>1, <2>3 DEF DataContents
  <2> HIDE DEF content
  <2>5. content \in Content /\ content.is = "data"
    BY <2>4 DEF Content, DataContents
  <2> QED
    BY <1>2, <2>2, <2>3, <2>5, ReplacingContentKeepsSound
<1> QED
  BY <1>1, <1>2

LEMMA SettingListKeepsSound ==
  ASSUME NEW field, IsSound(field), NEW subfields \in Seq(Subfields)
  PROVE  IsSound(WithSubfields(field, subfields))
<1>1. CASE field.content.is # "data"
  BY <1>1 DEF WithSubfields
<1>2. CASE field.content.is = "data"
  <2> DEFINE content == [field.content EXCEPT !.subfields = subfields]
  <2>1. WithSubfields(field, subfields) = [field EXCEPT !.content = content]
    BY <1>2 DEF WithSubfields
  <2>2. field.content \in DataContents /\ field.content # NoContent
    BY <1>2, DataContentIsData
  <2>3. content \in DataContents
    BY <2>2 DEF DataContents
  <2> HIDE DEF content
  <2>4. content \in Content /\ content.is = "data"
    BY <2>3 DEF Content, DataContents
  <2> QED
    BY <1>2, <2>1, <2>2, <2>4, ReplacingContentKeepsSound
<1> QED
  BY <1>1, <1>2

LEMMA SubfieldsAreAList ==
  ASSUME NEW field, IsSound(field)
  PROVE  SubfieldsOf(field) \in Seq(Subfields)
BY DataContentIsData, BlankParts DEF SubfieldsOf, DataContents

(* A whole object is bridged to a field that fits.                         *)
LEMMA FromWholeIsSound ==
  ASSUME NEW object, IsWhole(object)
  PROVE  IsSound(FromObject(object))
<1>1. object.tag \in Tag
  BY DEF IsWhole, FieldObject
<1>2. CASE IsControlTag(object.tag)
  <2>1. object.controlValue \in ControlValues
    BY <1>2 DEF IsWhole, FieldObject, HasItsParts
  <2> QED
    BY <1>1, <1>2, <2>1
    DEF FromObject, IsSound, RecordField, Content, ControlContent, Fits, NoContent
<1>3. CASE ~IsControlTag(object.tag) /\ IsDataTag(object.tag)
  <2> DEFINE content == DataContent(<<object.firstIndicator, object.secondIndicator>>,
                                    object.subfields)
  <2>1. /\ object.firstIndicator \in Indicators \cup {Blank}
        /\ object.secondIndicator \in Indicators \cup {Blank}
        /\ object.subfields \in Seq(Subfields)
    BY <1>3 DEF IsWhole, FieldObject, HasItsParts
  <2>2. content \in Content /\ content.is = "data"
    BY <2>1 DEF Content, DataContent, IndicatorPairs
  <2>3. FromObject(object) = [tag |-> object.tag, content |-> content]
    BY <1>3 DEF FromObject
  <2> QED
    BY <1>1, <1>3, <2>2, <2>3 DEF IsSound, RecordField, Fits
<1>4. CASE ~IsControlTag(object.tag) /\ ~IsDataTag(object.tag)
  BY <1>1, <1>4 DEF FromObject, IsSound, RecordField, Content, NoContent
<1> QED
  BY <1>2, <1>3, <1>4

-----------------------------------------------------------------------------
(* Sequences.                                                              *)

LEMMA FunctionIsSeq ==
  ASSUME NEW S, NEW n \in Nat, NEW f \in [1..n -> S]
  PROVE  f \in Seq(S) /\ Len(f) = n
OBVIOUS

LEMMA ReplacedIsSeq ==
  ASSUME NEW S, NEW s \in Seq(S), NEW i \in 1..Len(s), NEW e \in S
  PROVE  ReplaceAt(s, i, e) \in Seq(S) /\ Len(ReplaceAt(s, i, e)) = Len(s)
BY ExceptSeq DEF ReplaceAt

LEMMA InsertedIsSeq ==
  ASSUME NEW S, NEW s \in Seq(S), NEW i \in 1..Len(s) + 1, NEW e \in S
  PROVE  InsertAt(s, i, e) \in Seq(S) /\ Len(InsertAt(s, i, e)) = Len(s) + 1
<1> DEFINE before == SubSeq(s, 1, i - 1)
           after == SubSeq(s, i, Len(s))
<1>1. Len(s) \in Nat /\ i \in Int
  BY LenProperties
<1>2. before \in Seq(S) /\ Len(before) = i - 1
  <2>1. \A k \in 1..(i - 1) : s[k] \in S
    BY <1>1, ElementOfSeq
  <2> QED
    BY <1>1, <2>1, SubSeqProperties
<1>3. after \in Seq(S) /\ Len(after) = Len(s) - i + 1
  <2>1. \A k \in i..Len(s) : s[k] \in S
    BY <1>1, ElementOfSeq
  <2> QED
    BY <1>1, <2>1, SubSeqProperties
<1>4. <<e>> \in Seq(S) /\ Len(<<e>>) = 1
  OBVIOUS
<1> HIDE DEF before, after
<1>5. before \o <<e>> \in Seq(S) /\ Len(before \o <<e>>) = i
  BY <1>1, <1>2, <1>4, ConcatProperties
<1>6. /\ before \o <<e>> \o after \in Seq(S)
      /\ Len(before \o <<e>> \o after) = Len(before \o <<e>>) + Len(after)
  BY <1>3, <1>5, ConcatProperties
<1>7. Len(before \o <<e>> \o after) = Len(s) + 1
  BY <1>1, <1>3, <1>5, <1>6
<1> QED
  BY <1>6, <1>7 DEF InsertAt, before, after

LEMMA RemovedIsSeq ==
  ASSUME NEW S, NEW s \in Seq(S), NEW i \in 1..Len(s)
  PROVE  RemoveAt(s, i) \in Seq(S) /\ Len(RemoveAt(s, i)) = Len(s) - 1
<1> DEFINE before == SubSeq(s, 1, i - 1)
           after == SubSeq(s, i + 1, Len(s))
<1>1. Len(s) \in Nat /\ i \in Int
  BY LenProperties
<1>2. before \in Seq(S) /\ Len(before) = i - 1
  <2>1. \A k \in 1..(i - 1) : s[k] \in S
    BY <1>1, ElementOfSeq
  <2> QED
    BY <1>1, <2>1, SubSeqProperties
<1>3. after \in Seq(S) /\ Len(after) = Len(s) - i
  <2>1. \A k \in (i + 1)..Len(s) : s[k] \in S
    BY <1>1, ElementOfSeq
  <2> QED
    BY <1>1, <2>1, SubSeqProperties
<1> HIDE DEF before, after
<1>4. before \o after \in Seq(S) /\ Len(before \o after) = Len(before) + Len(after)
  BY <1>2, <1>3, ConcatProperties
<1>5. Len(before \o after) = Len(s) - 1
  BY <1>1, <1>2, <1>3, <1>4
<1> QED
  BY <1>4, <1>5 DEF RemoveAt, before, after

-----------------------------------------------------------------------------
(* The inductive invariant: every object is whole; a record has fields     *)
(* that were made, and its value is a record of as many sound ones.        *)

Objects == {object \in FieldObject : HasItsParts(object)} \cup {Nil}
SoundField ==
  {field \in RecordField : field.content = NoContent \/ Fits(field.tag, field.content)}

Held(objs) == {k \in DOMAIN objs : objs[k] # Nil}
RecordObject == [mutable : BOOLEAN, leader : Leaders, fields : Seq(Nat)]
SoundRecord == [leader : Leaders, fields : Seq(SoundField)]

Matches(held, record, value) ==
  /\ record \in RecordObject
  /\ record.fields \in Seq(held)
  /\ value \in SoundRecord
  /\ Len(value.fields) = Len(record.fields)

(* The invariant of these objects, record objects and values.              *)
IsKept(objs, recs, vals) ==
  /\ objs \in Seq(Objects)
  /\ recs \in [Names -> RecordObject \cup {Nil}]
  /\ vals \in [Names -> SoundRecord \cup {Nil}]
  /\ \A n \in Names : recs[n] # Nil => Matches(Held(objs), recs[n], vals[n])

IInv == IsKept(objects, records, values)

LEMMA NilIsNoRecord ==
  Nil \notin RecordObject /\ Nil \notin FieldObject
BY RecordsAssumption DEF RecordObject

(* What is there stays when more objects are there.                        *)
LEMMA MatchesStays ==
  ASSUME NEW held, NEW more, held \subseteq more, NEW record, NEW value,
         Matches(held, record, value)
  PROVE  Matches(more, record, value)
BY SeqMonotonic DEF Matches

LEMMA OneRecordChanges ==
  ASSUME NEW objs, NEW recs, NEW vals, IsKept(objs, recs, vals), NEW n \in Names,
         NEW more \in Seq(Objects), Held(objs) \subseteq Held(more),
         NEW record, NEW value, Matches(Held(more), record, value)
  PROVE  IsKept(more, [recs EXCEPT ![n] = record], [vals EXCEPT ![n] = value])
<1> DEFINE r == [recs EXCEPT ![n] = record]
           v == [vals EXCEPT ![n] = value]
<1>1. /\ record \in RecordObject
      /\ value \in SoundRecord
      /\ recs \in [Names -> RecordObject \cup {Nil}]
      /\ vals \in [Names -> SoundRecord \cup {Nil}]
  BY DEF Matches, IsKept
<1>2. /\ r \in [Names -> RecordObject \cup {Nil}]
      /\ v \in [Names -> SoundRecord \cup {Nil}]
  BY <1>1
<1>3. ASSUME NEW k \in Names, r[k] # Nil
      PROVE  Matches(Held(more), r[k], v[k])
  <2>1. CASE k = n
    BY <1>1, <2>1
  <2>2. CASE k # n
    <3>1. r[k] = recs[k] /\ v[k] = vals[k]
      BY <1>1, <2>2
    <3>2. Matches(Held(objs), recs[k], vals[k])
      BY <1>3, <3>1 DEF IsKept
    <3> QED
      BY <3>1, <3>2, MatchesStays
  <2> QED
    BY <2>1, <2>2
<1> QED
  BY <1>2, <1>3 DEF IsKept

LEMMA ChangedFields ==
  ASSUME NEW record \in RecordObject, NEW fields \in Seq(Nat)
  PROVE  /\ [record EXCEPT !.fields = fields] \in RecordObject
         /\ [record EXCEPT !.fields = fields].fields = fields
BY DEF RecordObject

LEMMA ChangedFieldValues ==
  ASSUME NEW value \in SoundRecord, NEW fields \in Seq(SoundField)
  PROVE  /\ [value EXCEPT !.fields = fields] \in SoundRecord
         /\ [value EXCEPT !.fields = fields].fields = fields
BY DEF SoundRecord

LEMMA FieldsChangeAlike ==
  ASSUME NEW held \in SUBSET Nat, NEW record, NEW value, Matches(held, record, value),
         NEW ids \in Seq(held), NEW fields \in Seq(SoundField), Len(ids) = Len(fields)
  PROVE  Matches(held, [record EXCEPT !.fields = ids], [value EXCEPT !.fields = fields])
<1>1. ids \in Seq(Nat)
  BY SeqMonotonic
<1> QED
  BY <1>1, ChangedFields, ChangedFieldValues, Zenon DEF Matches

LEMMA HeldIsNat ==
  ASSUME NEW objs \in Seq(Objects)
  PROVE  Held(objs) \in SUBSET Nat
BY LenProperties DEF Held

LEMMA HeldIsWhole ==
  ASSUME NEW objs \in Seq(Objects), NEW k \in Held(objs)
  PROVE  IsWhole(objs[k])
BY ElementOfSeq, LenProperties DEF Held, Objects, IsWhole

LEMMA WholeIsObject ==
  ASSUME NEW object, IsWhole(object)
  PROVE  object \in Objects /\ object # Nil
BY NilIsNoRecord DEF Objects, IsWhole

(* Adding objects.                                                         *)
LEMMA ObjectsAreAdded ==
  ASSUME NEW objs \in Seq(Objects), NEW new \in Seq(Objects)
  PROVE  /\ objs \o new \in Seq(Objects)
         /\ Len(objs \o new) = Len(objs) + Len(new)
         /\ Held(objs) \subseteq Held(objs \o new)
         /\ \A i \in 1..Len(new) : (objs \o new)[Len(objs) + i] = new[i]
         /\ \A i \in 1..Len(new) : new[i] # Nil => Len(objs) + i \in Held(objs \o new)
<1>1. /\ objs \o new \in Seq(Objects)
      /\ Len(objs \o new) = Len(objs) + Len(new)
      /\ Len(objs) \in Nat /\ Len(new) \in Nat
      /\ DOMAIN objs = 1..Len(objs)
      /\ DOMAIN (objs \o new) = 1..Len(objs \o new)
      /\ \A i \in 1..Len(objs) + Len(new) :
           (objs \o new)[i] = IF i <= Len(objs) THEN objs[i] ELSE new[i - Len(objs)]
  BY ConcatProperties, LenProperties
<1>2. \A i \in 1..Len(new) :
        /\ Len(objs) + i \in DOMAIN (objs \o new)
        /\ (objs \o new)[Len(objs) + i] = new[i]
  <2> SUFFICES ASSUME NEW i \in 1..Len(new)
               PROVE  /\ Len(objs) + i \in DOMAIN (objs \o new)
                      /\ (objs \o new)[Len(objs) + i] = new[i]
    OBVIOUS
  <2>1. /\ Len(objs) + i \in 1..Len(objs) + Len(new)
        /\ ~(Len(objs) + i <= Len(objs))
        /\ Len(objs) + i - Len(objs) = i
    BY <1>1
  <2> QED
    BY <1>1, <2>1
<1>3. Held(objs) \subseteq Held(objs \o new)
  BY <1>1 DEF Held
<1> QED
  BY <1>1, <1>2, <1>3 DEF Held

-----------------------------------------------------------------------------
(* Reading the fields of a record leaves it objects of its own.            *)

LEMMA LiveMatches ==
  ASSUME IInv, NEW n \in Names, Live(n)
  PROVE  Matches(Held(objects), records[n], values[n])
BY DEF IInv, IsKept, Live

LEMMA ReadingKeepsObjects ==
  ASSUME IInv, NEW n \in Names, Live(n)
  PROVE  /\ ReadObjects(n) \in Seq(Objects)
         /\ Held(objects) \subseteq Held(ReadObjects(n))
         /\ ReadFields(n) \in Seq(Held(ReadObjects(n)))
         /\ Len(ReadFields(n)) = Len(records[n].fields)
<1> DEFINE ids == records[n].fields
           new == [i \in 1..Len(ids) |->
                     IF IsStale(n, i) THEN CopyOf(objects[ids[i]], TRUE) ELSE Nil]
<1>1. /\ objects \in Seq(Objects)
      /\ ids \in Seq(Held(objects))
      /\ Len(ids) \in Nat
      /\ Len(objects) \in Nat
  BY LiveMatches, LenProperties DEF IInv, IsKept, Matches
<1>2. \A i \in 1..Len(ids) : ids[i] \in Held(objects) /\ IsWhole(objects[ids[i]])
  BY <1>1, ElementOfSeq, HeldIsWhole
<1>3. \A i \in 1..Len(ids) : IsWhole(CopyOf(objects[ids[i]], TRUE))
  BY <1>2, CopyIsWhole
<1>4. \A i \in 1..Len(ids) :
        /\ CopyOf(objects[ids[i]], TRUE) \in Objects
        /\ CopyOf(objects[ids[i]], TRUE) # Nil
  BY <1>3, WholeIsObject
<1>5. new \in [1..Len(ids) -> Objects]
  BY <1>4, Zenon DEF Objects
<1>6. \A i \in 1..Len(ids) : IsStale(n, i) => new[i] # Nil
  BY <1>4
<1> HIDE DEF new
<1>7. new \in Seq(Objects) /\ Len(new) = Len(ids)
  BY <1>1, <1>5, FunctionIsSeq
<1>8. CASE \A i \in DOMAIN ids : ~IsStale(n, i)
  <2>1. ReadObjects(n) = objects
    BY <1>8 DEF ReadObjects
  <2>2. \A i \in 1..Len(ids) : ~IsStale(n, i)
    BY <1>1, <1>8, LenProperties
  <2>3. ReadFields(n) \in [1..Len(ids) -> Held(objects)]
    BY <1>2, <2>2 DEF ReadFields
  <2> QED
    BY <1>1, <2>1, <2>3, FunctionIsSeq
<1>9. CASE ~(\A i \in DOMAIN ids : ~IsStale(n, i))
  <2>1. ReadObjects(n) = objects \o new
    BY <1>9 DEF ReadObjects, new
  <2>2. /\ objects \o new \in Seq(Objects)
        /\ Held(objects) \subseteq Held(objects \o new)
        /\ \A i \in 1..Len(new) : new[i] # Nil => Len(objects) + i \in Held(objects \o new)
    BY <1>1, <1>7, ObjectsAreAdded
  <2>3. \A i \in 1..Len(ids) :
          (IF IsStale(n, i) THEN Len(objects) + i ELSE ids[i]) \in Held(objects \o new)
    BY <1>2, <1>6, <1>7, <2>2
  <2>4. ReadFields(n) \in [1..Len(ids) -> Held(objects \o new)]
    BY <2>3 DEF ReadFields
  <2> QED
    BY <1>1, <2>1, <2>2, <2>4, FunctionIsSeq
<1> QED
  BY <1>8, <1>9

(* A record that was read, beside its value.                               *)
LEMMA ReadingKeeps ==
  ASSUME IInv, NEW n \in Names, Live(n)
  PROVE  LET read == [records[n] EXCEPT !.fields = ReadFields(n)]
         IN /\ Matches(Held(ReadObjects(n)), read, values[n])
            /\ read.fields = ReadFields(n)
            /\ IsKept(ReadObjects(n), [records EXCEPT ![n] = read], values)
<1> DEFINE read == [records[n] EXCEPT !.fields = ReadFields(n)]
<1>1. /\ ReadObjects(n) \in Seq(Objects)
      /\ Held(objects) \subseteq Held(ReadObjects(n))
      /\ ReadFields(n) \in Seq(Held(ReadObjects(n)))
      /\ Len(ReadFields(n)) = Len(records[n].fields)
  BY ReadingKeepsObjects
<1>2. Matches(Held(objects), records[n], values[n])
  BY LiveMatches
<1>3. Held(ReadObjects(n)) \in SUBSET Nat
  BY <1>1, HeldIsNat
<1>4. ReadFields(n) \in Seq(Nat)
  BY <1>1, <1>3, SeqMonotonic
<1>5. read \in RecordObject /\ read.fields = ReadFields(n)
  BY <1>2, <1>4, ChangedFields DEF Matches
<1> HIDE DEF read
<1>6. Matches(Held(ReadObjects(n)), read, values[n])
  BY <1>1, <1>2, <1>5, Zenon DEF Matches
<1>7. IsKept(ReadObjects(n), [records EXCEPT ![n] = read], [values EXCEPT ![n] = values[n]])
  BY <1>1, <1>6, OneRecordChanges DEF IInv
<1>8. values = [values EXCEPT ![n] = values[n]]
  BY DEF IInv, IsKept
<1>9. IsKept(ReadObjects(n), [records EXCEPT ![n] = read], values)
  BY <1>7, <1>8
<1> QED
  BY <1>5, <1>6, <1>9 DEF read

LEMMA BridgedIsSound ==
  ASSUME IInv, NEW n \in Names, Live(n)
  PROVE  /\ Bridged(n) \in SoundRecord
         /\ Len(Bridged(n).fields) = Len(records[n].fields)
<1> DEFINE ids == records[n].fields
           fields == [i \in 1..Len(ids) |-> FromObject(objects[ids[i]])]
<1>1. /\ objects \in Seq(Objects)
      /\ records[n] \in RecordObject
      /\ ids \in Seq(Held(objects))
      /\ Len(ids) \in Nat
  BY LiveMatches, LenProperties DEF IInv, IsKept, Matches
<1>2. \A i \in 1..Len(ids) : IsWhole(objects[ids[i]])
  BY <1>1, ElementOfSeq, HeldIsWhole
<1>3. \A i \in 1..Len(ids) : FromObject(objects[ids[i]]) \in SoundField
  BY <1>2, FromWholeIsSound DEF IsSound, SoundField
<1>4. fields \in Seq(SoundField) /\ Len(fields) = Len(ids)
  BY <1>1, <1>3, FunctionIsSeq
<1>5. Bridged(n) = [leader |-> records[n].leader, fields |-> fields]
  BY DEF Bridged
<1> HIDE DEF fields
<1>6. records[n].leader \in Leaders
  BY <1>1 DEF RecordObject
<1> QED
  BY <1>4, <1>5, <1>6 DEF SoundRecord

-----------------------------------------------------------------------------
(* The steps.                                                              *)

LEMMA SequenceOfSound ==
  ASSUME NEW fields \in Seq(RecordField),
         \A i \in DOMAIN fields : Fits(fields[i].tag, fields[i].content)
  PROVE  fields \in Seq(SoundField)
<1>1. fields \in [1..Len(fields) -> RecordField] /\ Len(fields) \in Nat
      /\ DOMAIN fields = 1..Len(fields)
  BY LenProperties
<1>2. \A i \in 1..Len(fields) : fields[i] \in SoundField
  BY <1>1 DEF SoundField
<1>3. fields \in [1..Len(fields) -> SoundField]
  BY <1>1, <1>2
<1> QED
  BY <1>1, <1>3, FunctionIsSeq

LEMMA OriginalIsSound ==
  ASSUME NEW original \in Originals
  PROVE  original \in SoundRecord
<1>1. /\ original.leader \in Leaders
      /\ original.fields \in Seq(RecordField)
      /\ \A i \in DOMAIN original.fields :
           Fits(original.fields[i].tag, original.fields[i].content)
      /\ original = [leader |-> original.leader, fields |-> original.fields]
  BY RecordsAssumption DEF Record
<1>2. original.fields \in Seq(SoundField)
  BY <1>1, SequenceOfSound
<1> QED
  BY <1>1, <1>2 DEF SoundRecord

LEMMA NewFieldsAreSound ==
  ASSUME NEW field \in NewFields
  PROVE  field \in SoundField /\ IsSound(field)
BY RecordsAssumption DEF SoundField, IsSound

LEMMA InitKeeps ==
  Init => IInv
<1> SUFFICES ASSUME Init PROVE IInv
  OBVIOUS
<1>1. objects \in Seq(Objects)
  BY EmptySeq DEF Init
<1>2. /\ records \in [Names -> RecordObject \cup {Nil}]
      /\ values \in [Names -> SoundRecord \cup {Nil}]
      /\ \A n \in Names : records[n] = Nil
  BY DEF Init
<1> QED
  BY <1>1, <1>2 DEF IInv, IsKept

LEMMA BridgeKeeps ==
  ASSUME IInv, NEW n \in Names, NEW value \in Originals, Bridge(n, value)
  PROVE  IInv'
<1> DEFINE new == [i \in 1..Len(value.fields) |-> ToObject(value.fields[i])]
           ids == [i \in 1..Len(value.fields) |-> Len(objects) + i]
           record == [mutable |-> FALSE, leader |-> value.leader, fields |-> ids]
           more == objects \o new
<1>1. /\ value \in SoundRecord
      /\ value.leader \in Leaders
      /\ value.fields \in Seq(SoundField)
      /\ Len(value.fields) \in Nat
      /\ objects \in Seq(Objects)
      /\ Len(objects) \in Nat
  BY OriginalIsSound, LenProperties DEF SoundRecord, IInv, IsKept
<1>2. \A i \in 1..Len(value.fields) : IsSound(value.fields[i])
  BY <1>1, ElementOfSeq DEF SoundField, IsSound
<1>3. \A i \in 1..Len(value.fields) :
        ToObject(value.fields[i]) \in Objects /\ ToObject(value.fields[i]) # Nil
  BY <1>2, BridgedIsWhole, WholeIsObject
<1>4. /\ new \in [1..Len(value.fields) -> Objects]
      /\ \A i \in 1..Len(value.fields) : new[i] # Nil
  BY <1>3
<1> HIDE DEF new
<1>5. new \in Seq(Objects) /\ Len(new) = Len(value.fields)
  BY <1>1, <1>4, FunctionIsSeq
<1>6. /\ more \in Seq(Objects)
      /\ Held(objects) \subseteq Held(more)
      /\ \A i \in 1..Len(value.fields) : Len(objects) + i \in Held(more)
  BY <1>1, <1>4, <1>5, ObjectsAreAdded
<1> HIDE DEF more
<1>7. ids \in [1..Len(value.fields) -> Held(more)]
  BY <1>6
<1> HIDE DEF ids
<1>8. ids \in Seq(Held(more)) /\ Len(ids) = Len(value.fields) /\ ids \in Seq(Nat)
  BY <1>1, <1>6, <1>7, FunctionIsSeq, HeldIsNat, SeqMonotonic
<1>9. record \in RecordObject /\ record.fields = ids
  BY <1>1, <1>8 DEF RecordObject
<1> HIDE DEF record
<1>10. Matches(Held(more), record, value)
  BY <1>1, <1>8, <1>9 DEF Matches
<1>11. IsKept(more, [records EXCEPT ![n] = record], [values EXCEPT ![n] = value])
  BY <1>6, <1>10, OneRecordChanges DEF IInv
<1>12. /\ objects' = more
       /\ records' = [records EXCEPT ![n] = record]
       /\ values' = [values EXCEPT ![n] = value]
  BY DEF Bridge, more, new, record, ids
<1> QED
  BY <1>11, <1>12 DEF IInv

LEMMA ReadKeeps ==
  ASSUME IInv, NEW n \in Names, Read(n)
  PROVE  IInv'
<1> DEFINE read == [records[n] EXCEPT !.fields = ReadFields(n)]
<1>1. IsKept(ReadObjects(n), [records EXCEPT ![n] = read], values)
  BY ReadingKeeps DEF Read
<1>2. /\ objects' = ReadObjects(n)
      /\ records' = [records EXCEPT ![n] = read]
      /\ values' = values
  BY DEF Read
<1> QED
  BY <1>1, <1>2 DEF IInv

LEMMA BridgeBackKeeps ==
  ASSUME IInv, NEW n \in Names, BridgeBack(n)
  PROVE  IInv'
<1> DEFINE read == [records[n] EXCEPT !.fields = ReadFields(n)]
<1>1. Live(n)
  BY DEF BridgeBack
<1>2. /\ Matches(Held(ReadObjects(n)), read, values[n])
      /\ read.fields = ReadFields(n)
  BY <1>1, ReadingKeeps
<1>3. /\ ReadObjects(n) \in Seq(Objects)
      /\ Held(objects) \subseteq Held(ReadObjects(n))
      /\ Len(ReadFields(n)) = Len(records[n].fields)
  BY <1>1, ReadingKeepsObjects
<1>4. Bridged(n) \in SoundRecord /\ Len(Bridged(n).fields) = Len(records[n].fields)
  BY <1>1, BridgedIsSound
<1> HIDE DEF read
<1>5. Matches(Held(ReadObjects(n)), read, Bridged(n))
  BY <1>2, <1>3, <1>4, Zenon DEF Matches
<1>6. IsKept(ReadObjects(n), [records EXCEPT ![n] = read], [values EXCEPT ![n] = Bridged(n)])
  BY <1>3, <1>5, OneRecordChanges DEF IInv
<1>7. /\ objects' = ReadObjects(n)
      /\ records' = [records EXCEPT ![n] = read]
      /\ values' = [values EXCEPT ![n] = Bridged(n)]
  BY DEF BridgeBack, read
<1> QED
  BY <1>6, <1>7 DEF IInv

LEMMA MakeCopyKeeps ==
  ASSUME IInv, NEW n \in Names, NEW copy \in Names, NEW mutable \in BOOLEAN,
         MakeCopy(n, copy, mutable)
  PROVE  IInv'
<1> DEFINE read == [records[n] EXCEPT !.fields = ReadFields(n)]
           new == [mutable |-> mutable, leader |-> records[n].leader, fields |-> ReadFields(n)]
           once == [records EXCEPT ![n] = read]
<1>1. Live(n)
  BY DEF MakeCopy
<1>2. /\ Matches(Held(ReadObjects(n)), read, values[n])
      /\ read.fields = ReadFields(n)
      /\ IsKept(ReadObjects(n), once, values)
  BY <1>1, ReadingKeeps
<1>3. records[n] \in RecordObject /\ records[n].leader \in Leaders
  BY <1>1, LiveMatches DEF Matches, RecordObject
<1>4. read \in RecordObject /\ read.fields = ReadFields(n)
  BY <1>2 DEF Matches
<1>5. /\ records' = [once EXCEPT ![copy] = new]
      /\ values' = [values EXCEPT ![copy] = values[n]]
      /\ objects' = ReadObjects(n)
  BY DEF MakeCopy
<1> HIDE DEF read, once
<1>6. new \in RecordObject /\ new.fields = ReadFields(n)
  BY <1>3, <1>4 DEF RecordObject
<1> HIDE DEF new
<1>7. Matches(Held(ReadObjects(n)), new, values[n])
  BY <1>2, <1>6, Zenon DEF Matches
<1>8. ReadObjects(n) \in Seq(Objects)
  BY <1>1, ReadingKeepsObjects
<1>9. IsKept(ReadObjects(n), [once EXCEPT ![copy] = new], [values EXCEPT ![copy] = values[n]])
  BY <1>2, <1>7, <1>8, OneRecordChanges
<1> QED
  BY <1>5, <1>9 DEF IInv

LEMMA SetLeaderKeeps ==
  ASSUME IInv, NEW n \in Names, NEW leader \in Leaders, SetLeader(n, leader)
  PROVE  IInv'
<1> DEFINE record == [records[n] EXCEPT !.leader = leader]
           value == [values[n] EXCEPT !.leader = leader]
<1>1. Matches(Held(objects), records[n], values[n])
  BY LiveMatches DEF SetLeader, Edit
<1>2. records[n] \in RecordObject /\ values[n] \in SoundRecord
  BY <1>1 DEF Matches
<1>3. /\ record \in RecordObject /\ record.fields = records[n].fields
      /\ value \in SoundRecord /\ value.fields = values[n].fields
  BY <1>2 DEF RecordObject, SoundRecord
<1>4. /\ objects' = objects
      /\ records' = [records EXCEPT ![n] = record]
      /\ values' = [values EXCEPT ![n] = value]
  BY DEF SetLeader
<1> HIDE DEF record, value
<1>5. Matches(Held(objects), record, value)
  BY <1>1, <1>3, Zenon DEF Matches
<1>6. objects \in Seq(Objects)
  BY DEF IInv, IsKept
<1>7. IsKept(objects, [records EXCEPT ![n] = record], [values EXCEPT ![n] = value])
  BY <1>5, <1>6, OneRecordChanges DEF IInv
<1> QED
  BY <1>4, <1>7 DEF IInv

(* A change of one record's fields and its value's, in step.               *)
LEMMA ChangeOfFieldsKeeps ==
  ASSUME IInv, NEW n \in Names, Live(n),
         NEW more \in Seq(Objects), Held(objects) \subseteq Held(more),
         NEW ids \in Seq(Held(more)), NEW fields \in Seq(SoundField),
         Len(ids) = Len(fields),
         objects' = more,
         records' = [records EXCEPT ![n].fields = ids],
         values' = [values EXCEPT ![n].fields = fields]
  PROVE  IInv'
<1> DEFINE record == [records[n] EXCEPT !.fields = ids]
           value == [values[n] EXCEPT !.fields = fields]
<1>1. Matches(Held(more), records[n], values[n])
  BY LiveMatches, MatchesStays
<1>2. Held(more) \in SUBSET Nat
  BY HeldIsNat
<1>3. Matches(Held(more), record, value)
  BY <1>1, <1>2, FieldsChangeAlike
<1>4. /\ records' = [records EXCEPT ![n] = record]
      /\ values' = [values EXCEPT ![n] = value]
  OBVIOUS
<1> HIDE DEF record, value
<1>5. IsKept(more, [records EXCEPT ![n] = record], [values EXCEPT ![n] = value])
  BY <1>3, OneRecordChanges DEF IInv
<1> QED
  BY <1>4, <1>5 DEF IInv

(* The fields of a live record and of its value.                           *)
LEMMA FieldsOfLive ==
  ASSUME IInv, NEW n \in Names, Live(n)
  PROVE  /\ objects \in Seq(Objects)
         /\ records[n].fields \in Seq(Held(objects))
         /\ values[n].fields \in Seq(SoundField)
         /\ Len(values[n].fields) = Len(records[n].fields)
         /\ Len(records[n].fields) \in Nat
BY LiveMatches, LenProperties DEF Matches, SoundRecord, IInv, IsKept

LEMMA ObjectIsAppended ==
  ASSUME NEW objs \in Seq(Objects), NEW object, IsWhole(object)
  PROVE  /\ Append(objs, object) \in Seq(Objects)
         /\ Held(objs) \subseteq Held(Append(objs, object))
         /\ Len(objs) + 1 \in Held(Append(objs, object))
<1>1. object \in Objects /\ object # Nil
  BY WholeIsObject
<1>2. /\ Append(objs, object) \in Seq(Objects)
      /\ Len(Append(objs, object)) = Len(objs) + 1
      /\ \A i \in 1..Len(objs) : Append(objs, object)[i] = objs[i]
      /\ Append(objs, object)[Len(objs) + 1] = object
      /\ Len(objs) \in Nat
      /\ DOMAIN objs = 1..Len(objs)
      /\ DOMAIN Append(objs, object) = 1..Len(Append(objs, object))
  BY <1>1, AppendProperties, LenProperties
<1> QED
  BY <1>1, <1>2 DEF Held

LEMMA NewObjectsAreWhole ==
  ASSUME NEW field \in NewFields
  PROVE  /\ IsWhole(CopyOf(ToObject(field), TRUE))
         /\ IsWhole(InitWithFieldTag(TRUE, field.tag))
<1>1. IsSound(field) /\ field.tag \in Tag
  BY NewFieldsAreSound DEF IsSound, RecordField
<1> QED
  BY <1>1, BridgedIsWhole, CopyIsWhole, NewObjectIsWhole

LEMMA InsertFieldKeeps ==
  ASSUME IInv, NEW n \in Names, Live(n), NEW i \in 1..Len(records[n].fields) + 1,
         NEW field \in NewFields, NEW object, IsWhole(object),
         InsertField(n, i, field, object)
  PROVE  IInv'
<1> DEFINE more == Append(objects, object)
           ids == InsertAt(records[n].fields, i, Len(objects) + 1)
           fields == InsertAt(values[n].fields, i, field)
<1>1. /\ objects \in Seq(Objects)
      /\ records[n].fields \in Seq(Held(objects))
      /\ values[n].fields \in Seq(SoundField)
      /\ Len(values[n].fields) = Len(records[n].fields)
  BY FieldsOfLive
<1>2. /\ more \in Seq(Objects)
      /\ Held(objects) \subseteq Held(more)
      /\ Len(objects) + 1 \in Held(more)
  BY <1>1, ObjectIsAppended
<1>3. objects' = more
  BY DEF InsertField
<1> HIDE DEF more
<1>4. records[n].fields \in Seq(Held(more))
  BY <1>1, <1>2, SeqMonotonic
<1>5. ids \in Seq(Held(more)) /\ Len(ids) = Len(records[n].fields) + 1
  BY <1>2, <1>4, InsertedIsSeq
<1>6. field \in SoundField
  BY NewFieldsAreSound
<1>7. i \in 1..Len(values[n].fields) + 1
  BY <1>1
<1>8. fields \in Seq(SoundField) /\ Len(fields) = Len(values[n].fields) + 1
  BY <1>1, <1>6, <1>7, InsertedIsSeq
<1>9. Len(ids) = Len(fields)
  BY <1>1, <1>5, <1>8
<1>10. /\ records' = [records EXCEPT ![n].fields = ids]
       /\ values' = [values EXCEPT ![n].fields = fields]
  BY DEF InsertField
<1> HIDE DEF ids, fields
<1> QED
  BY <1>2, <1>3, <1>5, <1>8, <1>9, <1>10, ChangeOfFieldsKeeps

LEMMA ReplaceFieldKeeps ==
  ASSUME IInv, NEW n \in Names, Live(n), NEW i \in 1..Len(records[n].fields),
         NEW field \in NewFields, NEW object, IsWhole(object),
         ReplaceField(n, i, field, object)
  PROVE  IInv'
<1> DEFINE more == Append(objects, object)
           ids == ReplaceAt(records[n].fields, i, Len(objects) + 1)
           fields == ReplaceAt(values[n].fields, i, field)
<1>1. /\ objects \in Seq(Objects)
      /\ records[n].fields \in Seq(Held(objects))
      /\ values[n].fields \in Seq(SoundField)
      /\ Len(values[n].fields) = Len(records[n].fields)
  BY FieldsOfLive
<1>2. /\ more \in Seq(Objects)
      /\ Held(objects) \subseteq Held(more)
      /\ Len(objects) + 1 \in Held(more)
  BY <1>1, ObjectIsAppended
<1>3. objects' = more
  BY DEF ReplaceField
<1> HIDE DEF more
<1>4. records[n].fields \in Seq(Held(more))
  BY <1>1, <1>2, SeqMonotonic
<1>5. ids \in Seq(Held(more)) /\ Len(ids) = Len(records[n].fields)
  BY <1>2, <1>4, ReplacedIsSeq
<1>6. field \in SoundField
  BY NewFieldsAreSound
<1>7. i \in 1..Len(values[n].fields)
  BY <1>1
<1>8. fields \in Seq(SoundField) /\ Len(fields) = Len(values[n].fields)
  BY <1>1, <1>6, <1>7, ReplacedIsSeq
<1>9. Len(ids) = Len(fields)
  BY <1>1, <1>5, <1>8
<1>10. /\ records' = [records EXCEPT ![n].fields = ids]
       /\ values' = [values EXCEPT ![n].fields = fields]
  BY DEF ReplaceField
<1> HIDE DEF ids, fields
<1> QED
  BY <1>2, <1>3, <1>5, <1>8, <1>9, <1>10, ChangeOfFieldsKeeps

LEMMA RemoveFieldKeeps ==
  ASSUME IInv, NEW n \in Names, Live(n), NEW i \in 1..Len(records[n].fields),
         RemoveField(n, i)
  PROVE  IInv'
<1> DEFINE ids == RemoveAt(records[n].fields, i)
           fields == RemoveAt(values[n].fields, i)
<1>1. /\ objects \in Seq(Objects)
      /\ records[n].fields \in Seq(Held(objects))
      /\ values[n].fields \in Seq(SoundField)
      /\ Len(values[n].fields) = Len(records[n].fields)
  BY FieldsOfLive
<1>2. ids \in Seq(Held(objects)) /\ Len(ids) = Len(records[n].fields) - 1
  BY <1>1, RemovedIsSeq
<1>3. i \in 1..Len(values[n].fields)
  BY <1>1
<1>4. fields \in Seq(SoundField) /\ Len(fields) = Len(values[n].fields) - 1
  BY <1>1, <1>3, RemovedIsSeq
<1>5. Len(ids) = Len(fields)
  BY <1>1, <1>2, <1>4
<1>6. /\ objects' = objects
      /\ records' = [records EXCEPT ![n].fields = ids]
      /\ values' = [values EXCEPT ![n].fields = fields]
  BY DEF RemoveField
<1> HIDE DEF ids, fields
<1> QED
  BY <1>1, <1>2, <1>4, <1>5, <1>6, ChangeOfFieldsKeeps

LEMMA SetFieldsKeeps ==
  ASSUME IInv, NEW n \in Names, NEW m \in Names, SetFields(n, m)
  PROVE  IInv'
<1> DEFINE read == [records[m] EXCEPT !.fields = ReadFields(m)]
           once == [records EXCEPT ![m] = read]
           record == [records[n] EXCEPT !.fields = ReadFields(m)]
           value == [values[n] EXCEPT !.fields = values[m].fields]
           more == ReadObjects(m)
<1>1. n # m /\ Live(n) /\ Live(m)
  BY DEF SetFields, Edit
<1>2. /\ more \in Seq(Objects)
      /\ Held(objects) \subseteq Held(more)
      /\ ReadFields(m) \in Seq(Held(more))
      /\ Len(ReadFields(m)) = Len(records[m].fields)
  BY <1>1, ReadingKeepsObjects
<1>3. IsKept(more, once, values)
  BY <1>1, ReadingKeeps
<1>4. values[m].fields \in Seq(SoundField) /\ Len(values[m].fields) = Len(records[m].fields)
  BY <1>1, FieldsOfLive
<1>5. Matches(Held(more), records[n], values[n])
  BY <1>1, <1>2, LiveMatches, MatchesStays
<1>6. Held(more) \in SUBSET Nat
  BY <1>2, HeldIsNat
<1>7. Matches(Held(more), record, value)
  BY <1>2, <1>4, <1>5, <1>6, FieldsChangeAlike
<1>8. /\ objects' = more
      /\ values' = [values EXCEPT ![n] = value]
  BY DEF SetFields
<1>9. records' = [once EXCEPT ![n] = record]
  <2>1. records' = [records EXCEPT ![m].fields = ReadFields(m), ![n].fields = ReadFields(m)]
    BY DEF SetFields
  <2>2. records \in [Names -> RecordObject \cup {Nil}]
    BY DEF IInv, IsKept
  <2> QED
    BY <1>1, <2>1, <2>2
<1> HIDE DEF more, once, record, value, read
<1>10. IsKept(more, [once EXCEPT ![n] = record], [values EXCEPT ![n] = value])
  BY <1>2, <1>3, <1>7, OneRecordChanges
<1> QED
  BY <1>8, <1>9, <1>10 DEF IInv

-----------------------------------------------------------------------------
(* The edits of a field.                                                   *)

LEMMA FieldsAtAreSound ==
  ASSUME IInv, NEW n \in Names, Live(n), NEW i \in 1..Len(records[n].fields)
  PROVE  /\ ReadFields(n)[i] \in Held(ReadObjects(n))
         /\ IsWhole(FieldObjectAt(n, i))
         /\ IsSound(FieldValueAt(n, i))
<1>1. /\ ReadObjects(n) \in Seq(Objects)
      /\ ReadFields(n) \in Seq(Held(ReadObjects(n)))
      /\ Len(ReadFields(n)) = Len(records[n].fields)
  BY ReadingKeepsObjects
<1>2. ReadFields(n)[i] \in Held(ReadObjects(n))
  BY <1>1, ElementOfSeq
<1>3. values[n].fields \in Seq(SoundField) /\ Len(values[n].fields) = Len(records[n].fields)
  BY FieldsOfLive
<1>4. values[n].fields[i] \in SoundField
  BY <1>3, ElementOfSeq
<1> QED
  BY <1>1, <1>2, <1>4, HeldIsWhole DEF FieldObjectAt, FieldValueAt, SoundField, IsSound

LEMMA EditFieldKeeps ==
  ASSUME IInv, NEW n \in Names, Live(n), NEW i \in 1..Len(records[n].fields),
         NEW after, IsWhole(after), NEW fieldAfter, IsSound(fieldAfter), NEW parts,
         EditField(n, i, after, fieldAfter, parts)
  PROVE  IInv'
<1> DEFINE id == ReadFields(n)[i]
           read == ReadObjects(n)
           more == [read EXCEPT ![id] = after]
           fields == [values[n].fields EXCEPT ![i] = fieldAfter]
<1>1. /\ read \in Seq(Objects)
      /\ Held(objects) \subseteq Held(read)
      /\ ReadFields(n) \in Seq(Held(read))
      /\ Len(ReadFields(n)) = Len(records[n].fields)
  BY ReadingKeepsObjects
<1>2. id \in Held(read)
  BY FieldsAtAreSound
<1>3. after \in Objects /\ after # Nil
  BY WholeIsObject
<1>4. /\ objects' = more
      /\ records' = [records EXCEPT ![n].fields = ReadFields(n)]
      /\ values' = [values EXCEPT ![n].fields = fields]
  BY DEF EditField
<1> HIDE DEF read, id
<1>5. id \in 1..Len(read) /\ DOMAIN read = 1..Len(read)
  BY <1>1, <1>2, LenProperties DEF Held
<1>6. /\ more \in Seq(Objects)
      /\ DOMAIN more = DOMAIN read
      /\ \A k \in DOMAIN read : more[k] = IF k = id THEN after ELSE read[k]
  BY <1>1, <1>3, <1>5, ExceptSeq
<1> HIDE DEF more
<1>7. Held(read) \subseteq Held(more)
  BY <1>3, <1>6 DEF Held
<1>8. ReadFields(n) \in Seq(Held(more))
  BY <1>1, <1>7, SeqMonotonic
<1>9. /\ values[n].fields \in Seq(SoundField)
      /\ Len(values[n].fields) = Len(records[n].fields)
  BY FieldsOfLive
<1>10. fieldAfter \in SoundField
  BY DEF IsSound, SoundField
<1>11. fields \in Seq(SoundField) /\ Len(fields) = Len(values[n].fields)
  BY <1>9, <1>10, ExceptSeq
<1> HIDE DEF fields
<1>12. Held(objects) \subseteq Held(more) /\ Len(ReadFields(n)) = Len(fields)
  BY <1>1, <1>7, <1>9, <1>11
<1> QED
  BY <1>4, <1>6, <1>8, <1>11, <1>12, ChangeOfFieldsKeeps

LEMMA ChangeFieldKeeps ==
  ASSUME IInv, NEW n \in Names, Live(n), NEW i \in 1..Len(records[n].fields),
         ChangeField(n, i)
  PROVE  IInv'
<1> DEFINE object == FieldObjectAt(n, i)
           field == FieldValueAt(n, i)
<1>0. IsWhole(object) /\ IsSound(field)
  BY FieldsAtAreSound
<1>1. CASE \E tag \in NewTags : SetTag(n, i, tag)
  <2>1. PICK tag \in NewTags : SetTag(n, i, tag)
    BY <1>1
  <2>2. tag \in Tag
    BY RecordsAssumption
  <2>3. IsWhole(SetFieldTag(object, tag)) /\ IsSound(WithTag(field, tag))
    BY <1>0, <2>2, SettingTagKeepsWhole, SettingTagKeepsSound
  <2>4. CASE EditField(n, i, SetFieldTag(object, tag), WithTag(field, tag),
                       TagParts(object.tag, tag))
    BY <2>3, <2>4, EditFieldKeeps
  <2>5. CASE EditField(n, i, object, WithTag(field, tag), FALSE)
    BY <1>0, <2>3, <2>5, EditFieldKeeps
  <2> QED
    BY <2>1, <2>4, <2>5 DEF SetTag
<1>2. CASE \E value \in Values \cup {Nil} : SetValue(n, i, value)
  <2>1. PICK value \in Values \cup {Nil} : SetValue(n, i, value)
    BY <1>2
  <2>2. value \in ControlValues \cup {Nil}
    BY DEF ControlValues
  <2>3. IsWhole(SetControlValue(object, value)) /\ IsSound(WithControlValue(field, value))
    BY <1>0, <2>2, SettingControlValueKeepsWhole, SettingValueKeepsSound
  <2> QED
    BY <2>1, <2>3, EditFieldKeeps DEF SetValue
<1>3. CASE \E first, second \in Indicators : SetIndicators(n, i, first, second)
  <2>1. PICK first \in Indicators, second \in Indicators : SetIndicators(n, i, first, second)
    BY <1>3
  <2>2. IsWhole(SetSecondIndicator(SetFirstIndicator(object, first), second))
    BY <1>0, SettingIndicatorsKeepsWhole
  <2>3. <<first, second>> \in IndicatorPairs
    BY DEF IndicatorPairs
  <2>4. IsSound(WithIndicators(field, <<first, second>>))
    BY <1>0, <2>3, SettingPairKeepsSound
  <2> QED
    BY <2>1, <2>2, <2>4, EditFieldKeeps DEF SetIndicators
<1>4. CASE ClearIndicators(n, i)
  <2>1. IsWhole(SetSecondIndicator(SetFirstIndicator(object, Nil), Nil))
    BY <1>0, SettingIndicatorsKeepsWhole
  <2>2. IsSound(WithIndicators(field, Nil))
    BY <1>0, SettingPairKeepsSound
  <2> QED
    BY <1>4, <2>1, <2>2, EditFieldKeeps DEF ClearIndicators
<1>5. CASE \E subfield \in Subfields : ReplaceSubfields(n, i, <<subfield>>)
  <2>1. PICK subfield \in Subfields : ReplaceSubfields(n, i, <<subfield>>)
    BY <1>5
  <2>2. <<subfield>> \in Seq(Subfields)
    OBVIOUS
  <2>3. IsWhole(SetSubfields(object, <<subfield>>)) /\ IsSound(WithSubfields(field, <<subfield>>))
    BY <1>0, <2>2, SettingSubfieldsKeepsWhole, SettingListKeepsSound
  <2> QED
    BY <2>1, <2>3, EditFieldKeeps DEF ReplaceSubfields
<1>6. CASE \E subfield \in Subfields : AddSubfield(n, i, subfield)
  <2> DEFINE list == SubfieldsOf(field)
  <2>1. PICK subfield \in Subfields : AddSubfield(n, i, subfield)
    BY <1>6
  <2>2. object.subfields # Nil => Append(object.subfields, subfield) \in Seq(Subfields)
    BY <1>0, AppendProperties DEF IsWhole, FieldObject
  <2>3. IsWhole(ChangeSubfields(object, Append(object.subfields, subfield)))
    BY <1>0, <2>2, ChangingSubfieldsKeepsWhole
  <2>4. list \in Seq(Subfields)
    BY <1>0, SubfieldsAreAList
  <2>5. Append(list, subfield) \in Seq(Subfields)
    BY <2>4, AppendProperties
  <2>6. IsSound(WithSubfields(field, Append(list, subfield)))
    BY <1>0, <2>5, SettingListKeepsSound
  <2> QED
    BY <2>1, <2>3, <2>6, EditFieldKeeps DEF AddSubfield
<1>7. CASE \E j \in 1..Len(SubfieldsOf(FieldValueAt(n, i))) : RemoveSubfield(n, i, j)
  <2> DEFINE list == SubfieldsOf(field)
  <2>1. PICK j \in 1..Len(list) : RemoveSubfield(n, i, j)
    BY <1>7
  <2>2. object.subfields # Nil => j \in 1..Len(object.subfields)
    BY <2>1 DEF RemoveSubfield
  <2>3. object.subfields # Nil => RemoveAt(object.subfields, j) \in Seq(Subfields)
    BY <1>0, <2>2, RemovedIsSeq DEF IsWhole, FieldObject
  <2>4. IsWhole(ChangeSubfields(object, RemoveAt(object.subfields, j)))
    BY <1>0, <2>3, ChangingSubfieldsKeepsWhole
  <2>5. list \in Seq(Subfields)
    BY <1>0, SubfieldsAreAList
  <2>6. RemoveAt(list, j) \in Seq(Subfields)
    BY <2>5, RemovedIsSeq
  <2>7. IsSound(WithSubfields(field, RemoveAt(list, j)))
    BY <1>0, <2>6, SettingListKeepsSound
  <2> QED
    BY <2>1, <2>4, <2>7, EditFieldKeeps DEF RemoveSubfield
<1> QED
  BY <1>1, <1>2, <1>3, <1>4, <1>5, <1>6, <1>7 DEF ChangeField

-----------------------------------------------------------------------------

LEMMA NextKeeps ==
  IInv /\ [Next]_vars => IInv'
<1> SUFFICES ASSUME IInv, [Next]_vars PROVE IInv'
  OBVIOUS
<1>1. CASE UNCHANGED vars
  BY <1>1 DEF IInv, IsKept, Held, vars
<1>2. CASE Next
  <2>1. PICK n \in Names :
          \/ \E value \in Originals : Bridge(n, value)
          \/ \E copy \in Names, mutable \in BOOLEAN : MakeCopy(n, copy, mutable)
          \/ Read(n)
          \/ BridgeBack(n)
          \/ \E leader \in Leaders : SetLeader(n, leader)
          \/ \E m \in Names : SetFields(n, m)
          \/ /\ Live(n)
             /\ \E i \in 1..Len(records[n].fields) + 1, field \in NewFields :
                  \E object \in {CopyOf(ToObject(field), TRUE),
                                 InitWithFieldTag(TRUE, field.tag)} :
                    IsNewObject(object, field) /\ InsertField(n, i, field, object)
          \/ /\ Live(n)
             /\ \E i \in 1..Len(records[n].fields) :
                  \/ \E field \in NewFields :
                       ReplaceField(n, i, field, CopyOf(ToObject(field), TRUE))
                  \/ RemoveField(n, i)
                  \/ ChangeField(n, i)
    BY <1>2, Zenon DEF Next
  <2>2. CASE \E value \in Originals : Bridge(n, value)
    BY <2>2, BridgeKeeps
  <2>3. CASE \E copy \in Names, mutable \in BOOLEAN : MakeCopy(n, copy, mutable)
    BY <2>3, MakeCopyKeeps
  <2>4. CASE Read(n)
    BY <2>4, ReadKeeps
  <2>5. CASE BridgeBack(n)
    BY <2>5, BridgeBackKeeps
  <2>6. CASE \E leader \in Leaders : SetLeader(n, leader)
    BY <2>6, SetLeaderKeeps
  <2>7. CASE \E m \in Names : SetFields(n, m)
    BY <2>7, SetFieldsKeeps
  <2>8. CASE /\ Live(n)
             /\ \E i \in 1..Len(records[n].fields) + 1, field \in NewFields :
                  \E object \in {CopyOf(ToObject(field), TRUE),
                                 InitWithFieldTag(TRUE, field.tag)} :
                    IsNewObject(object, field) /\ InsertField(n, i, field, object)
    <3>1. PICK i \in 1..Len(records[n].fields) + 1, field \in NewFields :
            \E object \in {CopyOf(ToObject(field), TRUE), InitWithFieldTag(TRUE, field.tag)} :
              InsertField(n, i, field, object)
      BY <2>8, Zenon
    <3>2. PICK object \in {CopyOf(ToObject(field), TRUE), InitWithFieldTag(TRUE, field.tag)} :
            InsertField(n, i, field, object)
      BY <3>1
    <3>3. IsWhole(object)
      BY <3>2, NewObjectsAreWhole
    <3> QED
      BY <2>8, <3>2, <3>3, InsertFieldKeeps
  <2>9. CASE /\ Live(n)
             /\ \E i \in 1..Len(records[n].fields) :
                  \/ \E field \in NewFields :
                       ReplaceField(n, i, field, CopyOf(ToObject(field), TRUE))
                  \/ RemoveField(n, i)
                  \/ ChangeField(n, i)
    <3>1. PICK i \in 1..Len(records[n].fields) :
            \/ \E field \in NewFields :
                 ReplaceField(n, i, field, CopyOf(ToObject(field), TRUE))
            \/ RemoveField(n, i)
            \/ ChangeField(n, i)
      BY <2>9
    <3>2. CASE \E field \in NewFields : ReplaceField(n, i, field, CopyOf(ToObject(field), TRUE))
      BY <2>9, <3>2, NewObjectsAreWhole, ReplaceFieldKeeps
    <3>3. CASE RemoveField(n, i)
      BY <2>9, <3>3, RemoveFieldKeeps
    <3>4. CASE ChangeField(n, i)
      BY <2>9, <3>4, ChangeFieldKeeps
    <3> QED
      BY <3>1, <3>2, <3>3, <3>4
  <2> QED
    BY <2>1, <2>2, <2>3, <2>4, <2>5, <2>6, <2>7, <2>8, <2>9
<1> QED
  BY <1>1, <1>2

LEMMA InvariantHolds ==
  Spec => []IInv
BY InitKeeps, NextKeeps, PTL DEF Spec

(* However field objects are made, copied, edited, shared and bridged, each *)
(* has the parts its tag goes with and no others.                          *)
THEOREM PartsFollowTheTag ==
  Spec => []FieldHasItsParts
<1>1. IInv => FieldHasItsParts
  <2> SUFFICES ASSUME IInv, NEW k \in DOMAIN objects, objects[k] # Nil
               PROVE  objects[k] \in FieldObject /\ HasItsParts(objects[k])
    BY DEF FieldHasItsParts
  <2>1. objects \in Seq(Objects) /\ k \in Held(objects)
    BY DEF IInv, IsKept, Held
  <2> QED
    BY <2>1, HeldIsWhole DEF IsWhole
<1> QED
  BY <1>1, InvariantHolds, PTL

(* However Swift fields are edited and bridged, none has the content of    *)
(* another kind of tag than its own.                                       *)
THEOREM ContentFollowsTheTag ==
  Spec => []ContentFitsItsTag
<1>1. IInv => ContentFitsItsTag
  <2> SUFFICES ASSUME IInv, NEW n \in Names, Live(n), NEW i \in DOMAIN values[n].fields,
                      values[n].fields[i].content # NoContent
               PROVE  Decodes(Encoded(values[n].fields[i]))
    BY DEF ContentFitsItsTag
  <2>1. values[n].fields \in Seq(SoundField)
    BY FieldsOfLive
  <2>2. values[n].fields[i] \in SoundField
    BY <2>1, ElementOfSeq, LenProperties
  <2> QED
    BY <2>2 DEF SoundField, Decodes, Encoded
<1> QED
  BY <1>1, InvariantHolds, PTL

-----------------------------------------------------------------------------
(* An object and the value it is bridged to, made, copied and set alike.   *)

(* The content of a field is that of its tag's kind.                       *)
LEMMA KindOfSound ==
  ASSUME NEW field, IsSound(field)
  PROVE  /\ field.tag \in Tag
         /\ field.content.is = "control" => IsControlTag(field.tag) /\ ~IsDataTag(field.tag)
         /\ field.content.is = "data" => IsDataTag(field.tag) /\ ~IsControlTag(field.tag)
         /\ field = [tag |-> field.tag, content |-> field.content]
<1>1. field \in RecordField
  BY DEF IsSound
<1>2. field.tag \in Tag /\ field = [tag |-> field.tag, content |-> field.content]
  BY <1>1 DEF RecordField
<1>3. field.content.is # "none" => Fits(field.tag, field.content)
  BY DEF IsSound, NoContent
<1> QED
  BY <1>2, <1>3, TagIsOfOneKind DEF Fits

LEMMA FieldReturns ==
  ASSUME NEW field, IsSound(field), Fits(field.tag, field.content)
  PROVE  FromObject(ToObject(field)) = field
<1>1. /\ field.tag \in Tag /\ field.content \in Content
      /\ field = [tag |-> field.tag, content |-> field.content]
  BY KindOfSound DEF IsSound, RecordField
<1>2. CASE field.content.is = "none"
  <2>1. field.content = NoContent
    BY <1>1, <1>2 DEF Content, NoContent, ControlContent
  <2>2. ~IsControlTag(field.tag) /\ ~IsDataTag(field.tag)
    BY <1>2 DEF Fits
  <2>3. ToObject(field) = InitWithFieldTag(FALSE, field.tag)
    BY <1>2 DEF ToObject
  <2>4. FromObject(InitWithFieldTag(FALSE, field.tag)) = [tag |-> field.tag, content |-> NoContent]
    BY <2>2 DEF FromObject, InitWithFieldTag
  <2> QED
    BY <1>1, <2>1, <2>3, <2>4
<1>3. CASE field.content.is = "control"
  <2>1. IsControlTag(field.tag)
    BY <1>3, KindOfSound
  <2>2. field.content = ControlContent(field.content.value)
    BY <1>1, <1>3 DEF Content, NoContent, ControlContent
  <2>3. ToObject(field) = InitWithControlValue(FALSE, field.tag, field.content.value)
    BY <1>3 DEF ToObject
  <2>4. ToObject(field).tag = field.tag /\ ToObject(field).controlValue = field.content.value
    BY <2>3 DEF InitWithControlValue, InitWithFieldTag
  <2> QED
    BY <1>1, <2>1, <2>2, <2>4 DEF FromObject
<1>4. CASE field.content.is = "data"
  <2> DEFINE content == field.content
  <2>1. IsDataTag(field.tag) /\ ~IsControlTag(field.tag)
    BY <1>4, KindOfSound
  <2>2. content \in DataContents
    BY <1>4, DataContentIsData
  <2>3. content = DataContent(<<content.indicators[1], content.indicators[2]>>, content.subfields)
    BY <2>2 DEF DataContents, DataContent, IndicatorPairs
  <2>4. ToObject(field) = InitWithSubfields(FALSE, field.tag, content.indicators[1],
                                            content.indicators[2], content.subfields)
    BY <1>4 DEF ToObject
  <2>5. /\ ToObject(field).tag = field.tag
        /\ ToObject(field).firstIndicator = content.indicators[1]
        /\ ToObject(field).secondIndicator = content.indicators[2]
        /\ ToObject(field).subfields = content.subfields
    BY <2>4 DEF InitWithSubfields, InitWithFieldTag
  <2> QED
    BY <1>1, <2>1, <2>3, <2>5 DEF FromObject
<1> QED
  BY <1>2, <1>3, <1>4 DEF Fits

(* A copy is bridged to the value that the object is bridged to.           *)
LEMMA CopyIsBridgedAlike ==
  ASSUME NEW object, IsWhole(object), NEW mutable \in BOOLEAN
  PROVE  FromObject(CopyOf(object, mutable)) = FromObject(object)
<1>1. object.tag \in Tag
  BY DEF IsWhole, FieldObject
<1>2. CASE IsDataTag(object.tag)
  BY <1>1, <1>2, TagIsOfOneKind
  DEF CopyOf, FromObject, InitWithSubfields, InitWithFieldTag
<1>3. CASE ~IsDataTag(object.tag) /\ IsControlTag(object.tag)
  BY <1>3 DEF CopyOf, FromObject, InitWithControlValue, InitWithFieldTag
<1>4. CASE ~IsDataTag(object.tag) /\ ~IsControlTag(object.tag)
  BY <1>4 DEF CopyOf, FromObject, InitWithFieldTag
<1> QED
  BY <1>2, <1>3, <1>4

LEMMA NewObjectIsBridged ==
  ASSUME NEW mutable \in BOOLEAN, NEW tag \in Tag
  PROVE  FromObject(InitWithFieldTag(mutable, tag)) = NewField(tag)
BY TagIsOfOneKind DEF FromObject, InitWithFieldTag, NewField, BlankContent

LEMMA ValueIsSetAlike ==
  ASSUME NEW object, IsWhole(object), NEW value
  PROVE  FromObject(SetControlValue(object, value)) =
           WithControlValue(FromObject(object), value)
<1>1. object \in FieldObject /\ object.tag \in Tag
  BY DEF IsWhole, FieldObject
<1>2. CASE IsControlTag(object.tag)
  BY <1>1, <1>2
  DEF FieldObject, SetControlValue, FromObject, WithControlValue, ControlContent
<1>3. CASE ~IsControlTag(object.tag) /\ IsDataTag(object.tag)
  BY <1>1, <1>3
  DEF FieldObject, SetControlValue, FromObject, WithControlValue, DataContent
<1>4. CASE ~IsControlTag(object.tag) /\ ~IsDataTag(object.tag)
  BY <1>1, <1>4
  DEF FieldObject, SetControlValue, FromObject, WithControlValue, NoContent
<1> QED
  BY <1>2, <1>3, <1>4

LEMMA IndicatorsAreSetAlike ==
  ASSUME NEW object, IsWhole(object), NEW first, NEW second,
         NEW pair \in {<<first, second>>, Nil},
         pair = Nil => first = Nil /\ second = Nil,
         pair # Nil => first # Nil /\ second # Nil
  PROVE  FromObject(SetSecondIndicator(SetFirstIndicator(object, first), second)) =
           WithIndicators(FromObject(object), pair)
<1>1. object \in FieldObject /\ object.tag \in Tag
  BY DEF IsWhole, FieldObject
<1> DEFINE after == SetSecondIndicator(SetFirstIndicator(object, first), second)
<1>2. CASE IsControlTag(object.tag)
  BY <1>1, <1>2, TagIsOfOneKind
  DEF FieldObject, SetFirstIndicator, SetSecondIndicator, FromObject, WithIndicators, ControlContent
<1>3. CASE ~IsControlTag(object.tag) /\ IsDataTag(object.tag)
  <2>1. /\ after.tag = object.tag
        /\ after.firstIndicator = IF first = Nil THEN Blank ELSE first
        /\ after.secondIndicator = IF second = Nil THEN Blank ELSE second
        /\ after.subfields = object.subfields
    BY <1>1, <1>3 DEF FieldObject, SetFirstIndicator, SetSecondIndicator
  <2> HIDE DEF after
  <2>2. <<after.firstIndicator, after.secondIndicator>> =
          IF pair = Nil THEN <<Blank, Blank>> ELSE pair
    BY <2>1
  <2>3. FromObject(after) =
          [tag |-> object.tag,
           content |-> DataContent(IF pair = Nil THEN <<Blank, Blank>> ELSE pair, object.subfields)]
    BY <1>3, <2>1, <2>2 DEF FromObject
  <2>4. FromObject(object) =
          [tag |-> object.tag,
           content |-> DataContent(<<object.firstIndicator, object.secondIndicator>>,
                                   object.subfields)]
    BY <1>3 DEF FromObject
  <2>5. WithIndicators(FromObject(object), pair) =
          [tag |-> object.tag,
           content |-> DataContent(IF pair = Nil THEN <<Blank, Blank>> ELSE pair, object.subfields)]
    BY <2>4 DEF WithIndicators, DataContent
  <2> QED
    BY <2>3, <2>5 DEF after
<1>4. CASE ~IsControlTag(object.tag) /\ ~IsDataTag(object.tag)
  BY <1>1, <1>4
  DEF FieldObject, SetFirstIndicator, SetSecondIndicator, FromObject, WithIndicators, NoContent
<1> QED
  BY <1>2, <1>3, <1>4

LEMMA SubfieldsAreSetAlike ==
  ASSUME NEW object, IsWhole(object), NEW subfields, subfields # Nil
  PROVE  FromObject(SetSubfields(object, subfields)) =
           WithSubfields(FromObject(object), subfields)
<1>1. object \in FieldObject /\ object.tag \in Tag
  BY DEF IsWhole, FieldObject
<1>2. CASE IsControlTag(object.tag)
  BY <1>1, <1>2
  DEF FieldObject, SetSubfields, FromObject, WithSubfields, ControlContent
<1>3. CASE ~IsControlTag(object.tag) /\ IsDataTag(object.tag)
  BY <1>1, <1>3
  DEF FieldObject, SetSubfields, FromObject, WithSubfields, DataContent
<1>4. CASE ~IsControlTag(object.tag) /\ ~IsDataTag(object.tag)
  BY <1>1, <1>4
  DEF FieldObject, SetSubfields, FromObject, WithSubfields, NoContent
<1> QED
  BY <1>2, <1>3, <1>4

LEMMA SubfieldsAreChangedAlike ==
  ASSUME NEW object, IsWhole(object), NEW changed
  PROVE  FromObject(ChangeSubfields(object, changed)) =
           WithSubfields(FromObject(object), changed)
<1>1. object \in FieldObject /\ object.tag \in Tag
  BY DEF IsWhole, FieldObject
<1>2. object.subfields # Nil <=> IsDataTag(object.tag)
  BY DEF IsWhole, HasItsParts
<1>3. CASE IsDataTag(object.tag)
  BY <1>1, <1>2, <1>3, TagIsOfOneKind
  DEF FieldObject, ChangeSubfields, FromObject, WithSubfields, DataContent
<1>4. CASE ~IsDataTag(object.tag)
  BY <1>2, <1>4
  DEF ChangeSubfields, FromObject, WithSubfields, NoContent, ControlContent
<1> QED
  BY <1>3, <1>4

LEMMA SubfieldsOfBridged ==
  ASSUME NEW object, IsWhole(object), object.subfields # Nil
  PROVE  SubfieldsOf(FromObject(object)) = object.subfields
BY TagIsOfOneKind DEF IsWhole, FieldObject, HasItsParts, SubfieldsOf, FromObject, DataContent

(* What the setters leave when the tag has changed the kind of the field.  *)
LEMMA PartsAreBridged ==
  ASSUME NEW object \in FieldObject, NEW value, NEW indicator, NEW subfields,
         value = "" \/ value = Nil, indicator = Blank \/ indicator = Nil,
         subfields = <<>> \/ subfields = Nil
  PROVE  FromObject(SetParts(object, value, indicator, subfields)) = NewField(object.tag)
<1>1. object.tag \in Tag
  BY DEF FieldObject
<1> DEFINE after == SetParts(object, value, indicator, subfields)
<1>2. /\ after.tag = object.tag
      /\ after.controlValue = IF IsControlTag(object.tag) THEN "" ELSE Nil
      /\ after.firstIndicator = IF IsDataTag(object.tag) THEN Blank ELSE Nil
      /\ after.secondIndicator = IF IsDataTag(object.tag) THEN Blank ELSE Nil
      /\ after.subfields = IF IsDataTag(object.tag) THEN <<>> ELSE Nil
  <2> DEFINE a == SetControlValue(object, value)
             b == SetFirstIndicator(a, indicator)
             c == SetSecondIndicator(b, indicator)
             d == SetSubfields(c, subfields)
  <2>1. /\ a \in FieldObject /\ a.tag = object.tag
        /\ a.controlValue = IF IsControlTag(object.tag) THEN "" ELSE Nil
    BY BlankParts DEF SetControlValue, FieldObject
  <2> HIDE DEF a
  <2>2. /\ b \in FieldObject /\ b.tag = a.tag /\ b.controlValue = a.controlValue
        /\ b.firstIndicator = IF IsDataTag(a.tag) THEN Blank ELSE Nil
    BY <2>1 DEF SetFirstIndicator, FieldObject
  <2> HIDE DEF b
  <2>3. /\ c \in FieldObject /\ c.tag = b.tag /\ c.controlValue = b.controlValue
        /\ c.firstIndicator = b.firstIndicator
        /\ c.secondIndicator = IF IsDataTag(b.tag) THEN Blank ELSE Nil
    BY <2>2 DEF SetSecondIndicator, FieldObject
  <2> HIDE DEF c
  <2>4. /\ d.tag = c.tag /\ d.controlValue = c.controlValue
        /\ d.firstIndicator = c.firstIndicator /\ d.secondIndicator = c.secondIndicator
        /\ d.subfields = IF IsDataTag(c.tag) THEN <<>> ELSE Nil
    BY <2>3 DEF SetSubfields, FieldObject
  <2> HIDE DEF d
  <2>5. after = d
    BY DEF SetParts, a, b, c, d
  <2> QED
    BY <2>1, <2>2, <2>3, <2>4, <2>5
<1> HIDE DEF after
<1>3. FromObject(after) = NewField(object.tag)
  BY <1>1, <1>2, TagIsOfOneKind DEF FromObject, NewField, BlankContent
<1> QED
  BY <1>3 DEF after

(* Unless the change is one that parts them.                               *)
LEMMA TagIsSetAlike ==
  ASSUME NEW object, IsWhole(object), NEW tag \in Tag, ~TagParts(object.tag, tag)
  PROVE  FromObject(SetFieldTag(object, tag)) = WithTag(FromObject(object), tag)
<1> DEFINE tagged == [object EXCEPT !.tag = tag]
           before == object.tag
<1>1. /\ object \in FieldObject /\ before \in Tag
      /\ tagged \in FieldObject /\ tagged.tag = tag
      /\ FromObject(object).tag = before
  BY DEF IsWhole, FieldObject, FromObject
<1> HIDE DEF tagged
<1>2. /\ FromObject(SetParts(tagged, "", Nil, Nil)) = NewField(tag)
      /\ FromObject(SetParts(tagged, Nil, Blank, <<>>)) = NewField(tag)
      /\ FromObject(SetParts(tagged, Nil, Nil, Nil)) = NewField(tag)
  BY <1>1, PartsAreBridged
<1>3. CASE IsDataTag(before) /\ IsDataTag(tag)
  <2>1. before = tag
    BY <1>3 DEF TagParts
  <2>2. ~IsControlTag(before)
    BY <1>1, <1>3, TagIsOfOneKind
  <2>3. SetFieldTag(object, tag) = object
    BY <1>1, <1>3, <2>1, <2>2, TagIsOfOneKind DEF SetFieldTag
  <2>4. WithTag(FromObject(object), tag) = FromObject(object)
    BY <1>1, <1>3, <2>1, <2>2 DEF WithTag, FromObject
  <2> QED
    BY <2>3, <2>4
<1>4. CASE ~(IsDataTag(before) /\ IsDataTag(tag))
  <2>1. /\ FromObject(SetFieldTag(object, tag)) = NewField(tag)
    BY <1>2, <1>4, TagIsOfOneKind, Zenon DEF SetFieldTag, tagged
  <2>2. WithTag(FromObject(object), tag) = NewField(tag)
    BY <1>1, <1>4, TagIsOfOneKind DEF WithTag, NewField, TagParts, IsDataTag, IsControlTag
  <2> QED
    BY <2>1, <2>2
<1> QED
  BY <1>3, <1>4

LEMMA SameTagIsSetAlike ==
  ASSUME NEW object, IsWhole(object)
  PROVE  WithTag(FromObject(object), object.tag) = FromObject(object)
BY TagIsOfOneKind DEF IsWhole, FieldObject, WithTag, FromObject, BlankContent

-----------------------------------------------------------------------------
(* The strengthening of the agreement: no record has a field twice; two    *)
(* records that have a field that can be changed are known to share it;    *)
(* and an immutable record that shares nothing has no field that can be    *)
(* changed, so that its copies need not be known.                          *)

Has(record, id) == \E i \in 1..Len(record.fields) : record.fields[i] = id

HasNoTwins(record) ==
  \A i, j \in 1..Len(record.fields) : record.fields[i] = record.fields[j] => i = j

Apart(objs, recs, rel) ==
  /\ \A n \in Names : recs[n] # Nil => HasNoTwins(recs[n])
  /\ \A a, b \in Names, id \in Held(objs) :
       /\ a # b /\ recs[a] # Nil /\ recs[b] # Nil
       /\ Has(recs[a], id) /\ Has(recs[b], id)
       /\ objs[id].mutable
       => b \in rel[a]
  /\ \A n \in Names, id \in Held(objs) :
       recs[n] # Nil /\ ~recs[n].mutable /\ rel[n] = {} /\ Has(recs[n], id)
       => ~objs[id].mutable

Alike(objs, record, value) ==
  \A i \in 1..Len(record.fields) : FromObject(objs[record.fields[i]]) = value.fields[i]

(* The leaders are alike even of those that were parted.                   *)
Agree(objs, recs, vals, par) ==
  \A n \in Names : recs[n] # Nil =>
    /\ recs[n].leader = vals[n].leader
    /\ n \notin par => Alike(objs, recs[n], vals[n])

AgreementInv ==
  /\ IInv
  /\ Apart(objects, records, kin)
  /\ Agree(objects, records, values, parted)

LEMMA FieldsAreHeld ==
  ASSUME NEW objs, NEW recs, NEW vals, IsKept(objs, recs, vals),
         NEW n \in Names, recs[n] # Nil
  PROVE  /\ \A i \in 1..Len(recs[n].fields) : recs[n].fields[i] \in Held(objs)
         /\ \A id : Has(recs[n], id) => id \in Held(objs)
<1>1. recs[n].fields \in Seq(Held(objs))
  BY DEF IsKept, Matches
<1>2. \A i \in 1..Len(recs[n].fields) : recs[n].fields[i] \in Held(objs)
  BY <1>1, ElementOfSeq
<1> QED
  BY <1>2 DEF Has

(* One record is made or changed, and more of the others are known to      *)
(* share its fields.                                                       *)
LEMMA StaysApart ==
  ASSUME NEW objs, NEW recs, NEW vals, IsKept(objs, recs, vals),
         NEW rel, Apart(objs, recs, rel), NEW n \in Names,
         NEW more, Held(objs) \subseteq Held(more),
         \A k \in Held(objs) : more[k] = objs[k],
         NEW record, HasNoTwins(record), NEW rel2,
         \A b \in Names, id \in Held(objs) :
           /\ b # n /\ recs[b] # Nil /\ Has(recs[b], id) /\ Has(record, id)
           /\ objs[id].mutable
           => b \in rel2[n] /\ n \in rel2[b],
         \A a \in Names : a # n => rel[a] \subseteq rel2[a],
         ~record.mutable /\ rel2[n] = {} =>
           \A id \in Held(more) : Has(record, id) => ~more[id].mutable
  PROVE  Apart(more, [recs EXCEPT ![n] = record], rel2)
<1> DEFINE r == [recs EXCEPT ![n] = record]
<1>1. /\ r[n] = record
      /\ \A k \in Names : k # n => r[k] = recs[k]
  BY DEF IsKept
<1> HIDE DEF r
<1>2. ASSUME NEW k \in Names, r[k] # Nil
      PROVE  HasNoTwins(r[k])
  BY <1>1, <1>2 DEF Apart
<1>3. ASSUME NEW a \in Names, NEW b \in Names, NEW id \in Held(more),
             a # b, r[a] # Nil, r[b] # Nil, Has(r[a], id), Has(r[b], id), more[id].mutable
      PROVE  b \in rel2[a]
  <2>1. id \in Held(objs) /\ objs[id].mutable
    <3>1. \E k \in {a, b} : k # n /\ recs[k] # Nil /\ Has(recs[k], id)
      BY <1>1, <1>3
    <3>2. id \in Held(objs)
      BY <3>1, FieldsAreHeld
    <3> QED
      BY <1>3, <3>2
  <2>2. CASE a = n
    BY <1>1, <1>3, <2>1, <2>2
  <2>3. CASE b = n
    BY <1>1, <1>3, <2>1, <2>3
  <2>4. CASE a # n /\ b # n
    <3>1. b \in rel[a]
      BY <1>1, <1>3, <2>1, <2>4 DEF Apart
    <3> QED
      BY <2>4, <3>1
  <2> QED
    BY <2>2, <2>3, <2>4
<1>4. ASSUME NEW k \in Names, NEW id \in Held(more),
             r[k] # Nil, ~r[k].mutable, rel2[k] = {}, Has(r[k], id)
      PROVE  ~more[id].mutable
  <2>1. CASE k = n
    BY <1>1, <1>4, <2>1
  <2>2. CASE k # n
    <3>1. recs[k] # Nil /\ ~recs[k].mutable /\ Has(recs[k], id) /\ rel[k] = {}
      BY <1>1, <1>4, <2>2
    <3>2. id \in Held(objs)
      BY <3>1, FieldsAreHeld
    <3>3. ~objs[id].mutable
      BY <3>1, <3>2 DEF Apart
    <3> QED
      BY <3>2, <3>3
  <2> QED
    BY <2>1, <2>2
<1>5. Apart(more, r, rel2)
  BY <1>2, <1>3, <1>4 DEF Apart
<1> QED
  BY <1>5 DEF r

LEMMA StaysAlike ==
  ASSUME NEW objs, NEW recs, NEW vals, IsKept(objs, recs, vals),
         NEW par, Agree(objs, recs, vals, par), NEW n \in Names,
         NEW more, \A k \in Held(objs) : more[k] = objs[k],
         NEW record, NEW value, record.leader = value.leader,
         NEW par2, par \subseteq par2 \cup {n},
         n \notin par2 => Alike(more, record, value)
  PROVE  Agree(more, [recs EXCEPT ![n] = record], [vals EXCEPT ![n] = value], par2)
<1> DEFINE r == [recs EXCEPT ![n] = record]
           v == [vals EXCEPT ![n] = value]
<1>1. /\ r[n] = record /\ v[n] = value
      /\ \A k \in Names : k # n => r[k] = recs[k] /\ v[k] = vals[k]
  BY DEF IsKept
<1> HIDE DEF r, v
<1>2. ASSUME NEW k \in Names, r[k] # Nil
      PROVE  r[k].leader = v[k].leader /\ (k \notin par2 => Alike(more, r[k], v[k]))
  <2>1. CASE k = n
    BY <1>1, <1>2, <2>1
  <2>2. CASE k # n
    <3>1. /\ r[k] = recs[k] /\ v[k] = vals[k] /\ recs[k] # Nil
          /\ k \notin par2 => k \notin par
      BY <1>1, <1>2, <2>2
    <3>2. /\ recs[k].leader = vals[k].leader
          /\ k \notin par => Alike(objs, recs[k], vals[k])
      BY <3>1 DEF Agree
    <3>3. \A i \in 1..Len(recs[k].fields) : recs[k].fields[i] \in Held(objs)
      BY <3>1, FieldsAreHeld
    <3> QED
      BY <3>1, <3>2, <3>3 DEF Alike
  <2> QED
    BY <2>1, <2>2
<1>3. Agree(more, r, v, par2)
  BY <1>2 DEF Agree
<1> QED
  BY <1>3 DEF r, v

(* A field that can be changed is changed, and those that share it are     *)
(* parted from their values.                                               *)
LEMMA EditStaysApart ==
  ASSUME NEW objs, NEW recs, NEW vals, IsKept(objs, recs, vals),
         NEW rel, Apart(objs, recs, rel),
         NEW id \in Held(objs), objs[id].mutable, NEW after, after # Nil
  PROVE  Apart([objs EXCEPT ![id] = after], recs, rel)
<1> DEFINE more == [objs EXCEPT ![id] = after]
<1>1. /\ Held(more) = Held(objs)
      /\ \A k \in Held(objs) : more[k] = IF k = id THEN after ELSE objs[k]
  BY DEF Held
<1> HIDE DEF more
<1>2. \A k \in Held(objs) : more[k].mutable => objs[k].mutable
  BY <1>1
<1>3. \A k \in Held(objs) : ~objs[k].mutable => ~more[k].mutable
  BY <1>1
<1>4. Apart(more, recs, rel)
  <2>1. ASSUME NEW a \in Names, NEW b \in Names, NEW k \in Held(more),
               a # b, recs[a] # Nil, recs[b] # Nil, Has(recs[a], k), Has(recs[b], k),
               more[k].mutable
        PROVE  b \in rel[a]
    BY <1>1, <1>2, <2>1 DEF Apart
  <2>2. ASSUME NEW a \in Names, NEW k \in Held(more),
               recs[a] # Nil, ~recs[a].mutable, rel[a] = {}, Has(recs[a], k)
        PROVE  ~more[k].mutable
    BY <1>1, <1>3, <2>2 DEF Apart
  <2> QED
    BY <2>1, <2>2 DEF Apart
<1> QED
  BY <1>4 DEF more

-----------------------------------------------------------------------------
(* What reading leaves alike.                                              *)

LEMMA CopyIsMutable ==
  ASSUME NEW object, IsWhole(object), NEW mutable \in BOOLEAN
  PROVE  CopyOf(object, mutable).mutable = mutable
<1>1. \A tag : InitWithFieldTag(mutable, tag).mutable = mutable
  BY DEF InitWithFieldTag
<1> QED
  BY <1>1 DEF CopyOf, InitWithSubfields, InitWithControlValue, InitWithFieldTag

LEMMA ReadingIsAlike ==
  ASSUME IInv, Apart(objects, records, kin), NEW n \in Names, Live(n)
  PROVE  /\ \A k \in Held(objects) : ReadObjects(n)[k] = objects[k]
         /\ \A i \in 1..Len(records[n].fields) :
              /\ \/ ReadFields(n)[i] = records[n].fields[i]
                 \/ records[n].mutable /\ ReadFields(n)[i] \notin Held(objects)
              /\ FromObject(ReadObjects(n)[ReadFields(n)[i]]) =
                   FromObject(objects[records[n].fields[i]])
              /\ records[n].mutable => ReadObjects(n)[ReadFields(n)[i]].mutable
         /\ \A i, j \in 1..Len(records[n].fields) : ReadFields(n)[i] = ReadFields(n)[j] => i = j
<1> DEFINE ids == records[n].fields
           new == [i \in 1..Len(ids) |->
                     IF IsStale(n, i) THEN CopyOf(objects[ids[i]], TRUE) ELSE Nil]
<1>1. /\ objects \in Seq(Objects)
      /\ ids \in Seq(Held(objects))
      /\ Len(ids) \in Nat
      /\ Len(objects) \in Nat
      /\ DOMAIN objects = 1..Len(objects)
  BY LiveMatches, LenProperties DEF IInv, IsKept, Matches
<1>2. \A i \in 1..Len(ids) :
        /\ ids[i] \in Held(objects)
        /\ ids[i] \in 1..Len(objects)
        /\ IsWhole(objects[ids[i]])
  BY <1>1, ElementOfSeq, HeldIsWhole DEF Held
<1>3. \A i, j \in 1..Len(ids) : ids[i] = ids[j] => i = j
  BY DEF Apart, HasNoTwins, Live
<1>4. \A i \in 1..Len(ids) :
        ReadFields(n)[i] = IF IsStale(n, i) THEN Len(objects) + i ELSE ids[i]
  BY DEF ReadFields
<1>5. \A i, j \in 1..Len(ids) : ReadFields(n)[i] = ReadFields(n)[j] => i = j
  BY <1>1, <1>2, <1>3, <1>4
<1>6. \A i \in 1..Len(ids) :
        \/ ~IsStale(n, i) /\ ReadFields(n)[i] = ids[i]
        \/ /\ IsStale(n, i) /\ records[n].mutable
           /\ ReadFields(n)[i] = Len(objects) + i
           /\ ReadFields(n)[i] \notin Held(objects)
  BY <1>1, <1>4 DEF Held, IsStale
<1>7. \A i \in 1..Len(ids) :
        /\ CopyOf(objects[ids[i]], TRUE).mutable
        /\ FromObject(CopyOf(objects[ids[i]], TRUE)) = FromObject(objects[ids[i]])
        /\ CopyOf(objects[ids[i]], TRUE) \in Objects
  BY <1>2, CopyIsMutable, CopyIsBridgedAlike, CopyIsWhole, WholeIsObject
<1>8. /\ \A k \in Held(objects) : ReadObjects(n)[k] = objects[k]
      /\ \A i \in 1..Len(ids) :
           IsStale(n, i) => ReadObjects(n)[Len(objects) + i] = CopyOf(objects[ids[i]], TRUE)
  <2>1. CASE \A i \in DOMAIN ids : ~IsStale(n, i)
    <3>1. \A i \in 1..Len(ids) : ~IsStale(n, i)
      BY <1>1, <2>1, LenProperties
    <3> QED
      BY <2>1, <3>1 DEF ReadObjects
  <2>2. CASE ~(\A i \in DOMAIN ids : ~IsStale(n, i))
    <3>1. ReadObjects(n) = objects \o new
      BY <2>2 DEF ReadObjects
    <3>2. /\ new \in [1..Len(ids) -> Objects]
          /\ \A i \in 1..Len(ids) : IsStale(n, i) => new[i] = CopyOf(objects[ids[i]], TRUE)
      BY <1>7, Zenon DEF Objects
    <3> HIDE DEF new
    <3>3. new \in Seq(Objects) /\ Len(new) = Len(ids)
      BY <1>1, <3>2, FunctionIsSeq
    <3>4. /\ \A i \in 1..Len(new) : (objects \o new)[Len(objects) + i] = new[i]
          /\ \A k \in 1..Len(objects) : (objects \o new)[k] = objects[k]
      BY <1>1, <3>3, ObjectsAreAdded, ConcatProperties
    <3> QED
      BY <1>1, <3>1, <3>2, <3>3, <3>4 DEF Held
  <2> QED
    BY <2>1, <2>2
<1>9. ASSUME NEW i \in 1..Len(ids)
      PROVE  /\ FromObject(ReadObjects(n)[ReadFields(n)[i]]) = FromObject(objects[ids[i]])
             /\ records[n].mutable => ReadObjects(n)[ReadFields(n)[i]].mutable
  <2>1. CASE IsStale(n, i)
    BY <1>6, <1>7, <1>8, <2>1
  <2>2. CASE ~IsStale(n, i)
    <3>1. ReadObjects(n)[ReadFields(n)[i]] = objects[ids[i]]
      BY <1>2, <1>6, <1>8, <2>2
    <3> QED
      BY <2>2, <3>1 DEF IsStale
  <2> QED
    BY <2>1, <2>2
<1> QED
  BY <1>5, <1>6, <1>8, <1>9

(* The record once it was read, beside its value.                          *)
LEMMA ReadingAgrees ==
  ASSUME AgreementInv, NEW n \in Names, Live(n)
  PROVE  LET read == [records[n] EXCEPT !.fields = ReadFields(n)]
             once == [records EXCEPT ![n] = read]
         IN /\ IsKept(ReadObjects(n), once, values)
            /\ Apart(ReadObjects(n), once, kin)
            /\ Agree(ReadObjects(n), once, values, parted)
            /\ once[n] = read /\ once[n] # Nil
            /\ \A k \in Names : k # n => once[k] = records[k]
            /\ read.fields = ReadFields(n)
            /\ read.mutable = records[n].mutable
            /\ read.leader = records[n].leader
            /\ HasNoTwins(read)
            /\ \A i \in 1..Len(ReadFields(n)) :
                 FromObject(ReadObjects(n)[ReadFields(n)[i]]) = Bridged(n).fields[i]
<1> DEFINE read == [records[n] EXCEPT !.fields = ReadFields(n)]
           once == [records EXCEPT ![n] = read]
<1>1. /\ IsKept(objects, records, values)
      /\ Apart(objects, records, kin)
      /\ Agree(objects, records, values, parted)
  BY DEF AgreementInv, IInv
<1>2. /\ read.fields = ReadFields(n)
      /\ IsKept(ReadObjects(n), once, values)
      /\ Matches(Held(ReadObjects(n)), read, values[n])
  BY ReadingKeeps DEF AgreementInv
<1>3. records[n] \in RecordObject /\ records[n] # Nil
  BY LiveMatches DEF AgreementInv, Matches, Live
<1>4. read.mutable = records[n].mutable /\ read.leader = records[n].leader
  BY <1>3 DEF RecordObject
<1>5. /\ Held(objects) \subseteq Held(ReadObjects(n))
      /\ Len(ReadFields(n)) = Len(records[n].fields)
  BY ReadingKeepsObjects DEF AgreementInv
<1>6. /\ \A k \in Held(objects) : ReadObjects(n)[k] = objects[k]
      /\ \A i \in 1..Len(records[n].fields) :
           /\ \/ ReadFields(n)[i] = records[n].fields[i]
              \/ records[n].mutable /\ ReadFields(n)[i] \notin Held(objects)
           /\ FromObject(ReadObjects(n)[ReadFields(n)[i]]) =
                FromObject(objects[records[n].fields[i]])
      /\ \A i, j \in 1..Len(records[n].fields) : ReadFields(n)[i] = ReadFields(n)[j] => i = j
  BY ReadingIsAlike DEF AgreementInv
<1>7. read \in RecordObject /\ read # Nil
  BY <1>2, NilIsNoRecord DEF Matches
<1>8. /\ once[n] = read
      /\ \A k \in Names : k # n => once[k] = records[k]
  BY <1>1 DEF IsKept
<1> HIDE DEF read, once
<1>9. HasNoTwins(read)
  BY <1>2, <1>5, <1>6 DEF HasNoTwins
<1>10. \A id \in Held(objects) : Has(read, id) => Has(records[n], id)
  BY <1>2, <1>5, <1>6 DEF Has
<1>11. ~records[n].mutable => \A id : Has(read, id) => Has(records[n], id)
  BY <1>2, <1>5, <1>6 DEF Has
<1>12. Apart(ReadObjects(n), once, kin)
  <2>1. ASSUME NEW b \in Names, NEW id \in Held(objects),
               b # n, records[b] # Nil, Has(records[b], id), Has(read, id), objects[id].mutable
        PROVE  b \in kin[n] /\ n \in kin[b]
    BY <1>1, <1>3, <1>10, <2>1 DEF Apart
  <2>2. ASSUME ~read.mutable, kin[n] = {}, NEW id \in Held(ReadObjects(n)), Has(read, id)
        PROVE  ~ReadObjects(n)[id].mutable
    <3>1. Has(records[n], id)
      BY <1>4, <1>11, <2>2
    <3>2. id \in Held(objects)
      BY <1>1, <1>3, <3>1, FieldsAreHeld
    <3> QED
      BY <1>1, <1>3, <1>4, <1>6, <2>2, <3>1, <3>2 DEF Apart
  <2>3. Apart(ReadObjects(n), [records EXCEPT ![n] = read], kin)
    BY <1>1, <1>5, <1>6, <1>9, <2>1, <2>2, StaysApart
  <2> QED
    BY <2>3 DEF once
<1>13. \A i \in 1..Len(ReadFields(n)) :
         FromObject(ReadObjects(n)[ReadFields(n)[i]]) = Bridged(n).fields[i]
  BY <1>5, <1>6 DEF Bridged
<1>14. Agree(ReadObjects(n), once, values, parted)
  <2>1. /\ read.leader = values[n].leader
        /\ n \notin parted => Alike(ReadObjects(n), read, values[n])
    BY <1>1, <1>2, <1>3, <1>4, <1>5, <1>6 DEF Agree, Alike
  <2>2. Agree(ReadObjects(n), [records EXCEPT ![n] = read],
              [values EXCEPT ![n] = values[n]], parted)
    BY <1>1, <1>6, <2>1, StaysAlike
  <2>3. values = [values EXCEPT ![n] = values[n]]
    BY <1>1 DEF IsKept
  <2> QED
    BY <2>2, <2>3 DEF once
<1> QED
  BY <1>2, <1>4, <1>7, <1>8, <1>9, <1>12, <1>13, <1>14 DEF read, once

-----------------------------------------------------------------------------
(* The elements of a sequence that is changed.                             *)

LEMMA ReplacedElements ==
  ASSUME NEW S, NEW s \in Seq(S), NEW i \in 1..Len(s), NEW e
  PROVE  \A k \in 1..Len(s) : ReplaceAt(s, i, e)[k] = IF k = i THEN e ELSE s[k]
BY LenProperties DEF ReplaceAt

IsInsertion(longer, s, i, e) ==
  \A k \in 1..Len(s) + 1 :
    longer[k] = IF k < i THEN s[k] ELSE IF k = i THEN e ELSE s[k - 1]

LEMMA InsertedElements ==
  ASSUME NEW S, NEW s \in Seq(S), NEW i \in 1..Len(s) + 1, NEW e \in S
  PROVE  IsInsertion(InsertAt(s, i, e), s, i, e)
<1> DEFINE before == SubSeq(s, 1, i - 1)
           after == SubSeq(s, i, Len(s))
<1>1. Len(s) \in Nat /\ i \in Int
  BY LenProperties
<1>2. /\ before \in Seq(S) /\ Len(before) = i - 1
      /\ \A k \in 1..(i - 1) : before[k] = s[k]
  <2>1. \A k \in 1..(i - 1) : s[k] \in S
    BY <1>1, ElementOfSeq
  <2> QED
    BY <1>1, <2>1, SubSeqProperties
<1>3. /\ after \in Seq(S) /\ Len(after) = Len(s) - i + 1
      /\ \A k \in 1..(Len(s) - i + 1) : after[k] = s[i + k - 1]
  <2>1. \A k \in i..Len(s) : s[k] \in S
    BY <1>1, ElementOfSeq
  <2> QED
    BY <1>1, <2>1, SubSeqProperties
<1>4. <<e>> \in Seq(S) /\ Len(<<e>>) = 1 /\ <<e>>[1] = e
  OBVIOUS
<1> HIDE DEF before, after
<1>5. /\ before \o <<e>> \in Seq(S) /\ Len(before \o <<e>>) = i
      /\ \A k \in 1..i : (before \o <<e>>)[k] = IF k < i THEN s[k] ELSE e
  BY <1>1, <1>2, <1>4, ConcatProperties
<1> DEFINE most == before \o <<e>>
<1> HIDE DEF most
<1>6. /\ most \in Seq(S) /\ Len(most) = i
      /\ \A k \in 1..i : most[k] = IF k < i THEN s[k] ELSE e
  BY <1>5 DEF most
<1>7. \A k \in 1..Len(most) + Len(after) :
        (most \o after)[k] = IF k <= Len(most) THEN most[k] ELSE after[k - Len(most)]
  BY <1>3, <1>6, ConcatProperties
<1>8. Len(most) + Len(after) = Len(s) + 1
  BY <1>1, <1>3, <1>6
<1>9. ASSUME NEW k \in 1..Len(s) + 1
      PROVE  (most \o after)[k] = IF k < i THEN s[k] ELSE IF k = i THEN e ELSE s[k - 1]
  <2>1. CASE k <= i
    BY <1>1, <1>6, <1>7, <1>8, <2>1
  <2>2. CASE ~(k <= i)
    <3>1. /\ k - i \in 1..(Len(s) - i + 1) /\ i + (k - i) - 1 = k - 1
          /\ ~(k < i) /\ k # i
      BY <1>1, <2>2
    <3>2. (most \o after)[k] = after[k - i]
      BY <1>6, <1>7, <1>8, <2>2
    <3>3. after[k - i] = s[i + (k - i) - 1]
      BY <1>3, <3>1
    <3> QED
      BY <3>1, <3>2, <3>3
  <2> QED
    BY <2>1, <2>2
<1> QED
  BY <1>9 DEF IsInsertion, InsertAt, most, before, after

LEMMA RemovedElements ==
  ASSUME NEW S, NEW s \in Seq(S), NEW i \in 1..Len(s)
  PROVE  \A k \in 1..Len(s) - 1 : RemoveAt(s, i)[k] = IF k < i THEN s[k] ELSE s[k + 1]
<1> DEFINE before == SubSeq(s, 1, i - 1)
           after == SubSeq(s, i + 1, Len(s))
<1>1. Len(s) \in Nat /\ i \in Int
  BY LenProperties
<1>2. /\ before \in Seq(S) /\ Len(before) = i - 1
      /\ \A k \in 1..(i - 1) : before[k] = s[k]
  <2>1. \A k \in 1..(i - 1) : s[k] \in S
    BY <1>1, ElementOfSeq
  <2> QED
    BY <1>1, <2>1, SubSeqProperties
<1>3. /\ after \in Seq(S) /\ Len(after) = Len(s) - i
      /\ \A k \in 1..(Len(s) - i) : after[k] = s[i + k]
  <2>1. \A k \in (i + 1)..Len(s) : s[k] \in S
    BY <1>1, ElementOfSeq
  <2>2. /\ after \in Seq(S)
        /\ Len(after) = IF i + 1 <= Len(s) THEN Len(s) - (i + 1) + 1 ELSE 0
        /\ \A k \in 1..Len(s) - (i + 1) + 1 : after[k] = s[(i + 1) + k - 1]
    BY <1>1, <2>1, SubSeqProperties
  <2>3. \A k \in 1..(Len(s) - i) :
          k \in 1..Len(s) - (i + 1) + 1 /\ (i + 1) + k - 1 = i + k
    BY <1>1
  <2> QED
    BY <1>1, <2>2, <2>3
<1> HIDE DEF before, after
<1>4. \A k \in 1..Len(before) + Len(after) :
        (before \o after)[k] = IF k <= Len(before) THEN before[k] ELSE after[k - Len(before)]
  BY <1>2, <1>3, ConcatProperties
<1>5. Len(before) + Len(after) = Len(s) - 1
  BY <1>1, <1>2, <1>3
<1>6. ASSUME NEW k \in 1..Len(s) - 1
      PROVE  (before \o after)[k] = IF k < i THEN s[k] ELSE s[k + 1]
  <2>1. CASE k < i
    BY <1>1, <1>2, <1>4, <1>5, <2>1
  <2>2. CASE ~(k < i)
    <3>1. k - (i - 1) \in 1..(Len(s) - i) /\ i + (k - (i - 1)) = k + 1 /\ ~(k <= i - 1)
      BY <1>1, <2>2
    <3>2. (before \o after)[k] = after[k - (i - 1)]
      BY <1>2, <1>4, <1>5, <3>1
    <3>3. after[k - (i - 1)] = s[i + (k - (i - 1))]
      BY <1>3, <3>1
    <3> QED
      BY <2>2, <3>1, <3>2, <3>3
  <2> QED
    BY <2>1, <2>2
<1> QED
  BY <1>6 DEF RemoveAt, before, after

-----------------------------------------------------------------------------
(* The steps keep records apart, and alike to their values.                *)

Agrees == Apart(objects, records, kin) /\ Agree(objects, records, values, parted)

LEMMA BridgeAgrees ==
  ASSUME AgreementInv, NEW n \in Names, NEW value \in Originals, Bridge(n, value)
  PROVE  Agrees'
<1> DEFINE new == [i \in 1..Len(value.fields) |-> ToObject(value.fields[i])]
           ids == [i \in 1..Len(value.fields) |-> Len(objects) + i]
           record == [mutable |-> FALSE, leader |-> value.leader, fields |-> ids]
           more == objects \o new
<1>0. /\ IsKept(objects, records, values)
      /\ Apart(objects, records, kin)
      /\ Agree(objects, records, values, parted)
  BY DEF AgreementInv, IInv
<1>1. /\ value.fields \in Seq(SoundField)
      /\ Len(value.fields) \in Nat
      /\ objects \in Seq(Objects)
      /\ Len(objects) \in Nat
      /\ DOMAIN objects = 1..Len(objects)
  BY <1>0, OriginalIsSound, LenProperties DEF SoundRecord, IsKept
<1>2. \A i \in 1..Len(value.fields) :
        /\ IsSound(value.fields[i])
        /\ Fits(value.fields[i].tag, value.fields[i].content)
  <2> SUFFICES ASSUME NEW i \in 1..Len(value.fields)
               PROVE  /\ IsSound(value.fields[i])
                      /\ Fits(value.fields[i].tag, value.fields[i].content)
    OBVIOUS
  <2>1. value.fields[i] \in SoundField
    BY <1>1, ElementOfSeq
  <2>2. i \in DOMAIN value.fields
    BY <1>1, LenProperties
  <2>3. Fits(value.fields[i].tag, value.fields[i].content)
    BY <2>2, RecordsAssumption
  <2> QED
    BY <2>1, <2>3 DEF SoundField, IsSound
<1>3. \A i \in 1..Len(value.fields) :
        /\ ToObject(value.fields[i]) \in Objects
        /\ ToObject(value.fields[i]) # Nil
        /\ FromObject(ToObject(value.fields[i])) = value.fields[i]
        /\ ~ToObject(value.fields[i]).mutable
  <2> SUFFICES ASSUME NEW i \in 1..Len(value.fields)
               PROVE  /\ ToObject(value.fields[i]) \in Objects
                      /\ ToObject(value.fields[i]) # Nil
                      /\ FromObject(ToObject(value.fields[i])) = value.fields[i]
                      /\ ~ToObject(value.fields[i]).mutable
    OBVIOUS
  <2> DEFINE field == value.fields[i]
  <2>1. IsSound(field) /\ Fits(field.tag, field.content)
    BY <1>2
  <2> HIDE DEF field
  <2>2. IsWhole(ToObject(field)) /\ FromObject(ToObject(field)) = field
    BY <2>1, BridgedIsWhole, FieldReturns
  <2>3. ~ToObject(field).mutable
    BY <2>1 DEF Fits, ToObject, InitWithFieldTag, InitWithControlValue, InitWithSubfields
  <2>4. ToObject(field) \in Objects /\ ToObject(field) # Nil
    BY <2>2, WholeIsObject
  <2> QED
    BY <2>2, <2>3, <2>4 DEF field
<1>4. /\ new \in [1..Len(value.fields) -> Objects]
      /\ \A i \in 1..Len(value.fields) :
           /\ new[i] # Nil /\ ~new[i].mutable
           /\ FromObject(new[i]) = value.fields[i]
  BY <1>3
<1> HIDE DEF new
<1>5. new \in Seq(Objects) /\ Len(new) = Len(value.fields)
  BY <1>1, <1>4, FunctionIsSeq
<1>6. /\ Held(objects) \subseteq Held(more)
      /\ \A k \in 1..Len(objects) : more[k] = objects[k]
      /\ \A i \in 1..Len(new) : more[Len(objects) + i] = new[i]
  BY <1>1, <1>5, ObjectsAreAdded, ConcatProperties
<1>7. \A k \in Held(objects) : more[k] = objects[k]
  BY <1>1, <1>6 DEF Held
<1> HIDE DEF more
<1>8. /\ ids \in [1..Len(value.fields) -> Nat]
      /\ \A i \in 1..Len(value.fields) : ids[i] = Len(objects) + i
  BY <1>1
<1> HIDE DEF ids
<1>9. Len(ids) = Len(value.fields)
  BY <1>1, <1>8, FunctionIsSeq
<1>10. /\ record.fields = ids /\ ~record.mutable /\ record.leader = value.leader
  OBVIOUS
<1> HIDE DEF record
<1>11. HasNoTwins(record)
  BY <1>1, <1>8, <1>9, <1>10 DEF HasNoTwins
<1>12. \A id : Has(record, id) =>
         /\ id \notin Held(objects)
         /\ ~more[id].mutable
  <2> SUFFICES ASSUME NEW i \in 1..Len(value.fields)
               PROVE  ids[i] \notin Held(objects) /\ ~more[ids[i]].mutable
    BY <1>9, <1>10 DEF Has
  <2>1. ids[i] = Len(objects) + i
    BY <1>8
  <2>2. ids[i] \notin 1..Len(objects)
    BY <1>1, <2>1
  <2>3. more[ids[i]] = new[i]
    BY <1>5, <1>6, <2>1
  <2> QED
    BY <1>1, <1>4, <2>2, <2>3 DEF Held
<1>13. Apart(more, [records EXCEPT ![n] = record], kin)
  BY <1>0, <1>6, <1>7, <1>11, <1>12, StaysApart
<1>14. Alike(more, record, value)
  BY <1>4, <1>5, <1>6, <1>8, <1>9, <1>10 DEF Alike
<1>15. Agree(more, [records EXCEPT ![n] = record], [values EXCEPT ![n] = value], parted)
  BY <1>0, <1>7, <1>10, <1>14, StaysAlike
<1>16. /\ objects' = more
       /\ records' = [records EXCEPT ![n] = record]
       /\ values' = [values EXCEPT ![n] = value]
       /\ kin' = kin /\ parted' = parted
  BY DEF Bridge, more, new, record, ids
<1> QED
  BY <1>13, <1>15, <1>16 DEF Agrees

LEMMA ReadAgrees ==
  ASSUME AgreementInv, NEW n \in Names, Read(n)
  PROVE  Agrees'
<1> DEFINE once == [records EXCEPT ![n] = [records[n] EXCEPT !.fields = ReadFields(n)]]
<1>1. /\ Apart(ReadObjects(n), once, kin)
      /\ Agree(ReadObjects(n), once, values, parted)
  BY ReadingAgrees DEF Read
<1>2. /\ objects' = ReadObjects(n) /\ records' = once
      /\ values' = values /\ kin' = kin /\ parted' = parted
  BY DEF Read
<1> HIDE DEF once
<1> QED
  BY <1>1, <1>2 DEF Agrees

LEMMA BridgeBackAgrees ==
  ASSUME AgreementInv, NEW n \in Names, BridgeBack(n)
  PROVE  Agrees'
<1> DEFINE read == [records[n] EXCEPT !.fields = ReadFields(n)]
           once == [records EXCEPT ![n] = read]
           more == ReadObjects(n)
<1>1. /\ IsKept(more, once, values)
      /\ Apart(more, once, kin)
      /\ Agree(more, once, values, parted)
      /\ once[n] = read
      /\ read.fields = ReadFields(n)
      /\ read.leader = records[n].leader
      /\ \A i \in 1..Len(ReadFields(n)) : FromObject(more[ReadFields(n)[i]]) = Bridged(n).fields[i]
  BY ReadingAgrees DEF BridgeBack
<1>2. /\ objects' = more /\ records' = once
      /\ values' = [values EXCEPT ![n] = Bridged(n)]
      /\ kin' = kin /\ parted' = parted \ {n}
  BY DEF BridgeBack
<1>3. Bridged(n).leader = records[n].leader
  BY DEF Bridged
<1>4. once = [once EXCEPT ![n] = read]
  BY <1>1 DEF IsKept
<1> HIDE DEF once, read, more
<1>5. Alike(more, read, Bridged(n))
  BY <1>1, <1>3 DEF Alike
<1>6. Agree(more, [once EXCEPT ![n] = read], [values EXCEPT ![n] = Bridged(n)], parted \ {n})
  BY <1>1, <1>3, <1>5, StaysAlike
<1> QED
  BY <1>1, <1>2, <1>4, <1>6 DEF Agrees

LEMMA MakeCopyAgrees ==
  ASSUME AgreementInv, NEW n \in Names, NEW copy \in Names, NEW mutable \in BOOLEAN,
         MakeCopy(n, copy, mutable)
  PROVE  Agrees'
<1> DEFINE read == [records[n] EXCEPT !.fields = ReadFields(n)]
           once == [records EXCEPT ![n] = read]
           more == ReadObjects(n)
           new == [mutable |-> mutable, leader |-> records[n].leader, fields |-> ReadFields(n)]
<1>0. Live(n) /\ ~Live(copy) /\ n # copy
  BY DEF MakeCopy
<1>1. /\ IsKept(more, once, values)
      /\ Apart(more, once, kin)
      /\ Agree(more, once, values, parted)
      /\ once[n] = read /\ once[n] # Nil
      /\ \A k \in Names : k # n => once[k] = records[k]
      /\ read.fields = ReadFields(n)
      /\ read.mutable = records[n].mutable
      /\ read.leader = records[n].leader
      /\ HasNoTwins(read)
  BY <1>0, ReadingAgrees
<1>2. /\ objects' = more
      /\ records' = [once EXCEPT ![copy] = new]
      /\ values' = [values EXCEPT ![copy] = values[n]]
      /\ parted' = IF n \in parted THEN parted \cup {copy} ELSE parted
  BY DEF MakeCopy
<1>3. new.fields = ReadFields(n) /\ new.mutable = mutable /\ new.leader = records[n].leader
  OBVIOUS
<1> HIDE DEF read, once, more, new
<1>4. HasNoTwins(new)
  BY <1>1, <1>3 DEF HasNoTwins
<1>5. \A id : Has(new, id) <=> Has(once[n], id)
  BY <1>1, <1>3 DEF Has
<1>6. \A b \in Names, id \in Held(more) :
        b # n /\ once[b] # Nil /\ Has(once[b], id) /\ Has(new, id) /\ more[id].mutable
        => b \in kin[n] /\ n \in kin[b]
  BY <1>1, <1>5 DEF Apart
<1>7. Apart(more, [once EXCEPT ![copy] = new], kin')
  <2>1. CASE CopyLeavesFields(n)
    <3>1. kin' = kin
      BY <2>1 DEF MakeCopy
    <3>2. ~once[n].mutable /\ kin[n] = {}
      BY <1>1, <2>1 DEF CopyLeavesFields
    <3>3. \A id \in Held(more) : Has(new, id) => ~more[id].mutable
      BY <1>1, <1>5, <3>2 DEF Apart
    <3>4. Apart(more, [once EXCEPT ![copy] = new], kin)
      BY <1>1, <1>4, <3>3, StaysApart
    <3> QED
      BY <3>1, <3>4
  <2>2. CASE ~CopyLeavesFields(n)
    <3> DEFINE rel == [k \in Names |->
                         IF k = copy THEN {n} \cup kin[n]
                         ELSE IF k = n \/ k \in kin[n] THEN kin[k] \cup {copy}
                         ELSE kin[k]]
    <3>1. kin' = rel
      BY <2>2 DEF MakeCopy
    <3>2. /\ rel[copy] = {n} \cup kin[n]
          /\ \A k \in Names : k # copy => kin[k] \subseteq rel[k]
          /\ \A k \in Names : k # copy /\ k \in {n} \cup kin[n] => copy \in rel[k]
      OBVIOUS
    <3> HIDE DEF rel
    <3>3. \A b \in Names, id \in Held(more) :
            b # copy /\ once[b] # Nil /\ Has(once[b], id) /\ Has(new, id) /\ more[id].mutable
            => b \in rel[copy] /\ copy \in rel[b]
      BY <1>6, <3>2
    <3>4. rel[copy] # {}
      BY <3>2
    <3>5. Apart(more, [once EXCEPT ![copy] = new], rel)
      BY <1>1, <1>4, <3>2, <3>3, <3>4, StaysApart
    <3> QED
      BY <3>1, <3>5
  <2> QED
    BY <2>1, <2>2
<1>8. /\ new.leader = values[n].leader
      /\ n \notin parted => Alike(more, new, values[n])
  BY <1>1, <1>3 DEF Agree, Alike
<1>9. parted \subseteq parted' \cup {copy} /\ (copy \notin parted' => n \notin parted)
  BY <1>2
<1>10. Agree(more, [once EXCEPT ![copy] = new], [values EXCEPT ![copy] = values[n]], parted')
  BY <1>1, <1>8, <1>9, StaysAlike
<1> QED
  BY <1>2, <1>7, <1>10 DEF Agrees

LEMMA SetLeaderAgrees ==
  ASSUME AgreementInv, NEW n \in Names, NEW leader \in Leaders, SetLeader(n, leader)
  PROVE  Agrees'
<1> DEFINE record == [records[n] EXCEPT !.leader = leader]
           value == [values[n] EXCEPT !.leader = leader]
<1>0. /\ IsKept(objects, records, values)
      /\ Apart(objects, records, kin)
      /\ Agree(objects, records, values, parted)
      /\ Live(n) /\ records[n] # Nil /\ records[n].mutable
  BY DEF AgreementInv, IInv, SetLeader, Edit, Live
<1>1. records[n] \in RecordObject /\ values[n] \in SoundRecord
  BY <1>0, LiveMatches DEF Matches, IInv
<1>2. /\ record.fields = records[n].fields /\ record.mutable = records[n].mutable
      /\ record.leader = leader
      /\ value.leader = leader /\ value.fields = values[n].fields
  BY <1>1 DEF RecordObject, SoundRecord
<1>3. /\ objects' = objects /\ kin' = kin /\ parted' = parted
      /\ records' = [records EXCEPT ![n] = record]
      /\ values' = [values EXCEPT ![n] = value]
  BY DEF SetLeader
<1> HIDE DEF record, value
<1>4. HasNoTwins(record) /\ \A id : Has(record, id) <=> Has(records[n], id)
  BY <1>0, <1>2 DEF Apart, HasNoTwins, Has
<1>5. \A b \in Names, id \in Held(objects) :
        b # n /\ records[b] # Nil /\ Has(records[b], id) /\ Has(record, id) /\ objects[id].mutable
        => b \in kin[n] /\ n \in kin[b]
  BY <1>0, <1>4 DEF Apart
<1>6. Apart(objects, [records EXCEPT ![n] = record], kin)
  BY <1>0, <1>2, <1>4, <1>5, StaysApart
<1>7. n \notin parted => Alike(objects, record, value)
  BY <1>0, <1>2 DEF Agree, Alike
<1>8. Agree(objects, [records EXCEPT ![n] = record], [values EXCEPT ![n] = value], parted)
  BY <1>0, <1>2, <1>7, StaysAlike
<1> QED
  BY <1>3, <1>6, <1>8 DEF Agrees

(* A change of one mutable record's fields and its value's: no field twice, *)
(* and of the objects there were only those it had.                        *)
IsChange(n, more, ids, fields) ==
  /\ Held(objects) \subseteq Held(more)
  /\ \A k \in Held(objects) : more[k] = objects[k]
  /\ \A i, j \in 1..Len(ids) : ids[i] = ids[j] => i = j
  /\ \A i \in 1..Len(ids) : ids[i] \in Held(objects) => Has(records[n], ids[i])
  /\ n \notin parted => \A i \in 1..Len(ids) : FromObject(more[ids[i]]) = fields[i]

LEMMA ChangeOfFieldsAgrees ==
  ASSUME AgreementInv, NEW n \in Names, Live(n), records[n].mutable,
         NEW more, NEW ids \in Seq(Nat), NEW fields \in Seq(SoundField),
         IsChange(n, more, ids, fields),
         objects' = more,
         records' = [records EXCEPT ![n].fields = ids],
         values' = [values EXCEPT ![n].fields = fields],
         kin' = kin, parted' = parted
  PROVE  Agrees'
<1> DEFINE record == [records[n] EXCEPT !.fields = ids]
           value == [values[n] EXCEPT !.fields = fields]
<1>0. /\ IsKept(objects, records, values)
      /\ Apart(objects, records, kin)
      /\ Agree(objects, records, values, parted)
      /\ records[n] # Nil
  BY DEF AgreementInv, IInv, Live
<1>0a. /\ Held(objects) \subseteq Held(more)
       /\ \A k \in Held(objects) : more[k] = objects[k]
  BY DEF IsChange
<1>1. records[n] \in RecordObject /\ values[n] \in SoundRecord
  BY <1>0, LiveMatches DEF Matches, IInv
<1>2. /\ record.fields = ids /\ record.mutable /\ record.leader = records[n].leader
      /\ value.leader = values[n].leader /\ value.fields = fields
  BY <1>1 DEF RecordObject, SoundRecord
<1>3. /\ records' = [records EXCEPT ![n] = record]
      /\ values' = [values EXCEPT ![n] = value]
  OBVIOUS
<1> HIDE DEF record, value
<1>4. HasNoTwins(record)
  BY <1>2 DEF HasNoTwins, IsChange
<1>5. \A b \in Names, id \in Held(objects) :
        b # n /\ records[b] # Nil /\ Has(records[b], id) /\ Has(record, id) /\ objects[id].mutable
        => b \in kin[n] /\ n \in kin[b]
  <2>1. ASSUME NEW id \in Held(objects), Has(record, id)
        PROVE  Has(records[n], id)
    <3>1. PICK i \in 1..Len(ids) : ids[i] = id
      BY <1>2, <2>1 DEF Has
    <3> QED
      BY <3>1 DEF IsChange
  <2> QED
    BY <1>0, <2>1 DEF Apart
<1>6. Apart(more, [records EXCEPT ![n] = record], kin)
  BY <1>0, <1>2, <1>4, <1>5, <1>0a, StaysApart
<1>7. /\ record.leader = value.leader
      /\ n \notin parted => Alike(more, record, value)
  BY <1>0, <1>2 DEF Agree, Alike, IsChange
<1>8. Agree(more, [records EXCEPT ![n] = record], [values EXCEPT ![n] = value], parted)
  BY <1>0, <1>7, <1>0a, StaysAlike
<1> QED
  BY <1>3, <1>6, <1>8 DEF Agrees

(* The fields of a live record: held, none twice, and alike to the value's. *)
LEMMA FieldsAreAlike ==
  ASSUME AgreementInv, NEW n \in Names, Live(n)
  PROVE  /\ \A i \in 1..Len(records[n].fields) :
              /\ records[n].fields[i] \in Held(objects)
              /\ Has(records[n], records[n].fields[i])
              /\ n \notin parted => FromObject(objects[records[n].fields[i]]) = values[n].fields[i]
         /\ \A i, j \in 1..Len(records[n].fields) :
              records[n].fields[i] = records[n].fields[j] => i = j
<1>1. IsKept(objects, records, values) /\ records[n] # Nil
  BY DEF AgreementInv, IInv, Live
<1>2. \A i \in 1..Len(records[n].fields) : records[n].fields[i] \in Held(objects)
  BY <1>1, FieldsAreHeld
<1> QED
  BY <1>1, <1>2 DEF AgreementInv, Apart, Agree, Alike, Has, HasNoTwins

(* An object that is added.                                                *)
LEMMA AddedObject ==
  ASSUME NEW objs \in Seq(Objects), NEW object, IsWhole(object)
  PROVE  /\ \A k \in Held(objs) : Append(objs, object)[k] = objs[k]
         /\ Append(objs, object)[Len(objs) + 1] = object
         /\ Len(objs) + 1 \notin Held(objs)
         /\ Len(objs) + 1 \in Nat
<1>1. object \in Objects
  BY WholeIsObject
<1>2. /\ Len(objs) \in Nat /\ DOMAIN objs = 1..Len(objs)
      /\ \A i \in 1..Len(objs) : Append(objs, object)[i] = objs[i]
      /\ Append(objs, object)[Len(objs) + 1] = object
  BY <1>1, AppendProperties, LenProperties
<1> QED
  BY <1>2 DEF Held

LEMMA NewObjectsAreAlike ==
  ASSUME NEW field \in NewFields
  PROVE  /\ FromObject(CopyOf(ToObject(field), TRUE)) = field
         /\ field = NewField(field.tag) =>
              FromObject(InitWithFieldTag(TRUE, field.tag)) = field
<1>1. IsSound(field) /\ Fits(field.tag, field.content) /\ field.tag \in Tag
  BY RecordsAssumption, NewFieldsAreSound DEF IsSound, RecordField
<1>2. IsWhole(ToObject(field)) /\ FromObject(ToObject(field)) = field
  BY <1>1, BridgedIsWhole, FieldReturns
<1> QED
  BY <1>1, <1>2, CopyIsBridgedAlike, NewObjectIsBridged

LEMMA InsertFieldAgrees ==
  ASSUME AgreementInv, NEW n \in Names, Live(n), NEW i \in 1..Len(records[n].fields) + 1,
         NEW field \in NewFields, NEW object, IsWhole(object), FromObject(object) = field,
         InsertField(n, i, field, object)
  PROVE  Agrees'
<1> DEFINE more == Append(objects, object)
           old == records[n].fields
           ids == InsertAt(old, i, Len(objects) + 1)
           fields == InsertAt(values[n].fields, i, field)
<1>0. records[n].mutable /\ IInv
  BY DEF InsertField, Edit, AgreementInv
<1>1. /\ objects \in Seq(Objects)
      /\ old \in Seq(Held(objects))
      /\ values[n].fields \in Seq(SoundField)
      /\ Len(values[n].fields) = Len(old)
      /\ Len(old) \in Nat
  BY <1>0, FieldsOfLive
<1>2. /\ Held(objects) \subseteq Held(more)
      /\ \A k \in Held(objects) : more[k] = objects[k]
      /\ more[Len(objects) + 1] = object
      /\ Len(objects) + 1 \notin Held(objects)
      /\ Len(objects) + 1 \in Nat
  BY <1>1, ObjectIsAppended, AddedObject
<1>3. old \in Seq(Nat)
  BY <1>1, HeldIsNat, SeqMonotonic
<1>4. ids \in Seq(Nat) /\ Len(ids) = Len(old) + 1
  BY <1>2, <1>3, InsertedIsSeq
<1>4a. IsInsertion(ids, old, i, Len(objects) + 1)
  BY <1>2, <1>3, InsertedElements
<1>5. field \in SoundField /\ i \in 1..Len(values[n].fields) + 1
  BY <1>1, NewFieldsAreSound
<1>6. fields \in Seq(SoundField)
  BY <1>1, <1>5, InsertedIsSeq
<1>6a. IsInsertion(fields, values[n].fields, i, field)
  BY <1>1, <1>5, InsertedElements
<1>7. /\ objects' = more
      /\ records' = [records EXCEPT ![n].fields = ids]
      /\ values' = [values EXCEPT ![n].fields = fields]
      /\ kin' = kin /\ parted' = parted
  BY DEF InsertField
<1>8. /\ \A k \in 1..Len(old) :
           /\ old[k] \in Held(objects)
           /\ Has(records[n], old[k])
           /\ n \notin parted => FromObject(objects[old[k]]) = values[n].fields[k]
      /\ \A k, j \in 1..Len(old) : old[k] = old[j] => k = j
  BY FieldsAreAlike
<1> HIDE DEF more, ids, fields
<1>9. ASSUME NEW k \in 1..Len(ids)
      PROVE  \/ k < i /\ k \in 1..Len(old) /\ ids[k] = old[k]
                /\ fields[k] = values[n].fields[k]
             \/ k = i /\ ids[k] = Len(objects) + 1 /\ fields[k] = field
             \/ i < k /\ k - 1 \in 1..Len(old) /\ ids[k] = old[k - 1]
                /\ fields[k] = values[n].fields[k - 1]
  BY <1>1, <1>4, <1>4a, <1>6a DEF IsInsertion
<1>10. ASSUME NEW k \in 1..Len(ids), NEW j \in 1..Len(ids), ids[k] = ids[j]
       PROVE  k = j
  <2>1. /\ Len(ids) \in Nat /\ i \in Int /\ k \in Int /\ j \in Int
        /\ \A a \in 1..Len(old) : old[a] # Len(objects) + 1
    BY <1>1, <1>2, <1>4, <1>8
  <2>2. CASE k < i
    BY <1>8, <1>9, <1>10, <2>1, <2>2
  <2>3. CASE k = i
    BY <1>8, <1>9, <1>10, <2>1, <2>3
  <2>4. CASE i < k
    <3>1. k - 1 \in 1..Len(old) /\ ids[k] = old[k - 1]
      <4>1. ~(k < i) /\ k # i
        BY <2>1, <2>4
      <4> QED
        BY <1>9, <4>1
    <3>2. CASE j < i
      <4>1. j \in 1..Len(old) /\ ids[j] = old[j]
        BY <1>9, <2>1, <3>2
      <4>2. k - 1 = j
        BY <1>8, <1>10, <3>1, <4>1
      <4> QED
        BY <2>1, <2>4, <3>2, <4>2
    <3>3. CASE j = i
      <4>1. ids[j] = Len(objects) + 1
        BY <1>9, <2>1, <3>3
      <4> QED
        BY <1>10, <2>1, <3>1, <4>1
    <3>4. CASE i < j
      <4>1. j - 1 \in 1..Len(old) /\ ids[j] = old[j - 1]
        BY <1>9, <2>1, <3>4
      <4>2. k - 1 = j - 1
        BY <1>8, <1>10, <3>1, <4>1
      <4> QED
        BY <2>1, <4>2
    <3> QED
      BY <2>1, <3>2, <3>3, <3>4
  <2> QED
    BY <1>9, <2>2, <2>3, <2>4
<1>11. ASSUME NEW k \in 1..Len(ids), ids[k] \in Held(objects)
       PROVE  Has(records[n], ids[k])
  <2>1. \E j \in 1..Len(old) : ids[k] = old[j]
    BY <1>2, <1>9, <1>11
  <2> QED
    BY <1>8, <2>1
<1>12. ASSUME n \notin parted, NEW k \in 1..Len(ids)
       PROVE  FromObject(more[ids[k]]) = fields[k]
  <2>1. \/ ids[k] = Len(objects) + 1 /\ fields[k] = field
        \/ \E j \in 1..Len(old) : ids[k] = old[j] /\ fields[k] = values[n].fields[j]
    BY <1>9
  <2> QED
    BY <1>2, <1>8, <1>12, <2>1
<1>13. IsChange(n, more, ids, fields)
  BY <1>2, <1>10, <1>11, <1>12 DEF IsChange
<1> QED
  BY <1>0, <1>4, <1>6, <1>7, <1>13, ChangeOfFieldsAgrees

LEMMA ReplaceFieldAgrees ==
  ASSUME AgreementInv, NEW n \in Names, Live(n), NEW i \in 1..Len(records[n].fields),
         NEW field \in NewFields, NEW object, IsWhole(object), FromObject(object) = field,
         ReplaceField(n, i, field, object)
  PROVE  Agrees'
<1> DEFINE more == Append(objects, object)
           old == records[n].fields
           ids == ReplaceAt(old, i, Len(objects) + 1)
           fields == ReplaceAt(values[n].fields, i, field)
<1>0. records[n].mutable /\ IInv
  BY DEF ReplaceField, Edit, AgreementInv
<1>1. /\ objects \in Seq(Objects)
      /\ old \in Seq(Held(objects))
      /\ values[n].fields \in Seq(SoundField)
      /\ Len(values[n].fields) = Len(old)
      /\ Len(old) \in Nat
  BY <1>0, FieldsOfLive
<1>2. /\ Held(objects) \subseteq Held(more)
      /\ \A k \in Held(objects) : more[k] = objects[k]
      /\ more[Len(objects) + 1] = object
      /\ Len(objects) + 1 \notin Held(objects)
      /\ Len(objects) + 1 \in Nat
  BY <1>1, ObjectIsAppended, AddedObject
<1>3. old \in Seq(Nat)
  BY <1>1, HeldIsNat, SeqMonotonic
<1>4. ids \in Seq(Nat) /\ Len(ids) = Len(old)
  BY <1>2, <1>3, ReplacedIsSeq
<1>4a. \A k \in 1..Len(old) : ids[k] = IF k = i THEN Len(objects) + 1 ELSE old[k]
  BY <1>3, ReplacedElements
<1>5. field \in SoundField /\ i \in 1..Len(values[n].fields)
  BY <1>1, NewFieldsAreSound
<1>6. fields \in Seq(SoundField)
  BY <1>1, <1>5, ReplacedIsSeq
<1>6a. \A k \in 1..Len(old) : fields[k] = IF k = i THEN field ELSE values[n].fields[k]
  BY <1>1, <1>5, ReplacedElements
<1>7. /\ objects' = more
      /\ records' = [records EXCEPT ![n].fields = ids]
      /\ values' = [values EXCEPT ![n].fields = fields]
      /\ kin' = kin /\ parted' = parted
  BY DEF ReplaceField
<1>8. /\ \A k \in 1..Len(old) :
           /\ old[k] \in Held(objects)
           /\ Has(records[n], old[k])
           /\ n \notin parted => FromObject(objects[old[k]]) = values[n].fields[k]
      /\ \A k, j \in 1..Len(old) : old[k] = old[j] => k = j
  BY FieldsAreAlike
<1> HIDE DEF more, ids, fields
<1>9. \A k, j \in 1..Len(ids) : ids[k] = ids[j] => k = j
  BY <1>2, <1>4, <1>4a, <1>8
<1>10. \A k \in 1..Len(ids) : ids[k] \in Held(objects) => Has(records[n], ids[k])
  BY <1>2, <1>4, <1>4a, <1>8
<1>11. n \notin parted => \A k \in 1..Len(ids) : FromObject(more[ids[k]]) = fields[k]
  BY <1>2, <1>4, <1>4a, <1>6a, <1>8
<1>12. IsChange(n, more, ids, fields)
  BY <1>2, <1>9, <1>10, <1>11 DEF IsChange
<1> QED
  BY <1>0, <1>4, <1>6, <1>7, <1>12, ChangeOfFieldsAgrees

LEMMA RemoveFieldAgrees ==
  ASSUME AgreementInv, NEW n \in Names, Live(n), NEW i \in 1..Len(records[n].fields),
         RemoveField(n, i)
  PROVE  Agrees'
<1> DEFINE old == records[n].fields
           ids == RemoveAt(old, i)
           fields == RemoveAt(values[n].fields, i)
<1>0. records[n].mutable /\ IInv
  BY DEF RemoveField, Edit, AgreementInv
<1>1. /\ objects \in Seq(Objects)
      /\ old \in Seq(Held(objects))
      /\ values[n].fields \in Seq(SoundField)
      /\ Len(values[n].fields) = Len(old)
      /\ Len(old) \in Nat
  BY <1>0, FieldsOfLive
<1>2. old \in Seq(Nat)
  BY <1>1, HeldIsNat, SeqMonotonic
<1>3. /\ ids \in Seq(Nat) /\ Len(ids) = Len(old) - 1
      /\ \A k \in 1..Len(old) - 1 : ids[k] = IF k < i THEN old[k] ELSE old[k + 1]
  BY <1>2, RemovedIsSeq, RemovedElements
<1>4. i \in 1..Len(values[n].fields)
  BY <1>1
<1>5. /\ fields \in Seq(SoundField)
      /\ \A k \in 1..Len(old) - 1 :
           fields[k] = IF k < i THEN values[n].fields[k] ELSE values[n].fields[k + 1]
  BY <1>1, <1>4, RemovedIsSeq, RemovedElements
<1>6. /\ objects' = objects
      /\ records' = [records EXCEPT ![n].fields = ids]
      /\ values' = [values EXCEPT ![n].fields = fields]
      /\ kin' = kin /\ parted' = parted
  BY DEF RemoveField
<1>7. /\ \A k \in 1..Len(old) :
           /\ old[k] \in Held(objects)
           /\ Has(records[n], old[k])
           /\ n \notin parted => FromObject(objects[old[k]]) = values[n].fields[k]
      /\ \A k, j \in 1..Len(old) : old[k] = old[j] => k = j
  BY FieldsAreAlike
<1> HIDE DEF ids, fields
<1>8. ASSUME NEW k \in 1..Len(ids)
      PROVE  \/ k < i /\ k \in 1..Len(old) /\ ids[k] = old[k]
                /\ fields[k] = values[n].fields[k]
             \/ ~(k < i) /\ k + 1 \in 1..Len(old) /\ ids[k] = old[k + 1]
                /\ fields[k] = values[n].fields[k + 1]
  BY <1>1, <1>3, <1>5
<1>9. \A k, j \in 1..Len(ids) : ids[k] = ids[j] => k = j
  BY <1>1, <1>3, <1>7, <1>8
<1>10. \A k \in 1..Len(ids) : ids[k] \in Held(objects) => Has(records[n], ids[k])
  BY <1>7, <1>8
<1>11. n \notin parted => \A k \in 1..Len(ids) : FromObject(objects[ids[k]]) = fields[k]
  BY <1>7, <1>8
<1>12. IsChange(n, objects, ids, fields)
  BY <1>9, <1>10, <1>11 DEF IsChange
<1> QED
  BY <1>0, <1>3, <1>5, <1>6, <1>12, ChangeOfFieldsAgrees

LEMMA SetFieldsAgrees ==
  ASSUME AgreementInv, NEW n \in Names, NEW m \in Names, SetFields(n, m)
  PROVE  Agrees'
<1> DEFINE read == [records[m] EXCEPT !.fields = ReadFields(m)]
           once == [records EXCEPT ![m] = read]
           more == ReadObjects(m)
           record == [records[n] EXCEPT !.fields = ReadFields(m)]
           value == [values[n] EXCEPT !.fields = values[m].fields]
           rel == [k \in Names |->
                     IF k = n THEN (kin[n] \cup {m} \cup kin[m]) \ {n}
                     ELSE IF k = m \/ k \in kin[m] THEN kin[k] \cup {n}
                     ELSE kin[k]]
           par == IF m \in parted THEN parted \cup {n} ELSE parted \ {n}
<1>0. n # m /\ Live(n) /\ Live(m) /\ records[n].mutable /\ records[m].mutable
  BY DEF SetFields, Edit
<1>1. /\ IsKept(more, once, values)
      /\ Apart(more, once, kin)
      /\ Agree(more, once, values, parted)
      /\ once[m] = read /\ once[m] # Nil
      /\ \A k \in Names : k # m => once[k] = records[k]
      /\ read.fields = ReadFields(m)
      /\ HasNoTwins(read)
  BY <1>0, ReadingAgrees
<1>2. IsKept(objects, records, values) /\ IInv
  BY DEF AgreementInv, IInv
<1>3. records[n] \in RecordObject /\ values[n] \in SoundRecord /\ values[m] \in SoundRecord
  BY <1>0, <1>2, LiveMatches DEF Matches
<1>4. ReadFields(m) \in Seq(Nat)
  BY <1>0, <1>2, ReadingKeepsObjects, HeldIsNat, SeqMonotonic
<1>5. /\ record.fields = ReadFields(m) /\ record.mutable /\ record.leader = records[n].leader
      /\ value.fields = values[m].fields /\ value.leader = values[n].leader
  BY <1>0, <1>3, <1>4 DEF RecordObject, SoundRecord
<1>6. /\ objects' = more
      /\ records' = [once EXCEPT ![n] = record]
      /\ values' = [values EXCEPT ![n] = value]
      /\ kin' = rel /\ parted' = par
  <2>1. records' = [records EXCEPT ![m].fields = ReadFields(m), ![n].fields = ReadFields(m)]
    BY DEF SetFields
  <2>2. records \in [Names -> RecordObject \cup {Nil}]
    BY <1>2 DEF IsKept
  <2>3. records' = [once EXCEPT ![n] = record]
    BY <1>0, <2>1, <2>2
  <2> QED
    BY <2>3 DEF SetFields
<1>7. /\ rel[n] = (kin[n] \cup {m} \cup kin[m]) \ {n}
      /\ \A k \in Names : k # n => kin[k] \subseteq rel[k]
      /\ \A k \in Names : k # n /\ k \in {m} \cup kin[m] => n \in rel[k]
  OBVIOUS
<1> HIDE DEF read, once, more, record, value, rel
<1>8. HasNoTwins(record) /\ \A id : Has(record, id) <=> Has(once[m], id)
  BY <1>1, <1>5 DEF HasNoTwins, Has
<1>9. \A b \in Names, id \in Held(more) :
        b # n /\ once[b] # Nil /\ Has(once[b], id) /\ Has(record, id) /\ more[id].mutable
        => b \in rel[n] /\ n \in rel[b]
  <2>1. \A b \in Names, id \in Held(more) :
          b # m /\ once[b] # Nil /\ Has(once[b], id) /\ Has(record, id) /\ more[id].mutable
          => b \in kin[m]
    BY <1>1, <1>8 DEF Apart
  <2> QED
    BY <1>7, <2>1
<1>10. Apart(more, [once EXCEPT ![n] = record], rel)
  BY <1>1, <1>5, <1>7, <1>8, <1>9, StaysApart
<1>11. n \notin par => Alike(more, record, value)
  <2> SUFFICES ASSUME n \notin par PROVE Alike(more, record, value)
    OBVIOUS
  <2>1. m \notin parted
    OBVIOUS
  <2>2. Alike(more, read, values[m])
    BY <1>1, <2>1 DEF Agree
  <2> QED
    BY <1>1, <1>5, <2>2 DEF Alike
<1>12. parted \subseteq par \cup {n} /\ record.leader = value.leader
  BY <1>0, <1>2, <1>5 DEF AgreementInv, Agree, Live
<1>13. Agree(more, [once EXCEPT ![n] = record], [values EXCEPT ![n] = value], par)
  BY <1>1, <1>11, <1>12, StaysAlike
<1> QED
  BY <1>6, <1>10, <1>13 DEF Agrees

(* A field of a mutable record is edited as its value is, unless that      *)
(* parts them; the records that share it are parted from their values.     *)
LEMMA EditFieldAgrees ==
  ASSUME AgreementInv, NEW n \in Names, Live(n), NEW i \in 1..Len(records[n].fields),
         NEW after, IsWhole(after), NEW fieldAfter, NEW parts \in BOOLEAN,
         ~parts /\ n \notin parted /\ FieldValueAt(n, i) = FromObject(FieldObjectAt(n, i))
           => FromObject(after) = fieldAfter,
         EditField(n, i, after, fieldAfter, parts)
  PROVE  Agrees'
<1> DEFINE read == [records[n] EXCEPT !.fields = ReadFields(n)]
           once == [records EXCEPT ![n] = read]
           more == ReadObjects(n)
           ids == ReadFields(n)
           id == ids[i]
           edited == [more EXCEPT ![id] = after]
           value == [values[n] EXCEPT !.fields[i] = fieldAfter]
           vals == [values EXCEPT ![n] = value]
           sharing == Sharing(n, id)
           par == parted \cup sharing \cup (IF parts THEN {n} ELSE {})
<1>1. /\ IsKept(more, once, values)
      /\ Apart(more, once, kin)
      /\ Agree(more, once, values, parted)
      /\ once[n] = read /\ once[n] # Nil
      /\ \A k \in Names : k # n => once[k] = records[k]
      /\ read.fields = ids
      /\ read.leader = records[n].leader
      /\ HasNoTwins(read)
  BY ReadingAgrees
<1>2. /\ objects' = edited /\ records' = once /\ values' = vals
      /\ kin' = kin /\ parted' = par
      /\ records[n].mutable
  BY DEF EditField, Edit
<1>3. /\ ids \in Seq(Held(more)) /\ Len(ids) = Len(records[n].fields)
      /\ more \in Seq(Objects)
      /\ id \in Held(more)
  BY ReadingKeepsObjects, FieldsAtAreSound DEF AgreementInv
<1>4. more[id].mutable
  BY <1>2, ReadingIsAlike DEF AgreementInv
<1>5. after # Nil
  BY WholeIsObject
<1>6. values[n] \in SoundRecord /\ Len(values[n].fields) = Len(records[n].fields)
      /\ values \in [Names -> SoundRecord \cup {Nil}]
      /\ values[n].fields \in Seq(SoundField)
      /\ Len(records[n].fields) \in Nat
  BY LiveMatches, FieldsOfLive DEF AgreementInv, Matches, IInv, IsKept
<1>7. /\ value.leader = values[n].leader
      /\ \A k \in 1..Len(ids) :
           value.fields[k] = IF k = i THEN fieldAfter ELSE values[n].fields[k]
      /\ vals[n] = value
      /\ \A k \in Names : k # n => vals[k] = values[k]
  <2>1. value.leader = values[n].leader /\ value.fields = [values[n].fields EXCEPT ![i] = fieldAfter]
    BY <1>6 DEF SoundRecord
  <2>2. DOMAIN values[n].fields = 1..Len(ids)
    BY <1>3, <1>6, LenProperties
  <2> QED
    BY <1>3, <1>6, <2>1, <2>2
<1>8. /\ sharing = {k \in kin[n] : id \in Range(records[k].fields)}
      /\ FieldObjectAt(n, i) = more[id] /\ FieldValueAt(n, i) = values[n].fields[i]
  BY DEF Sharing, FieldObjectAt, FieldValueAt
<1> HIDE DEF read, once, more, ids, id, value, vals, sharing, edited
<1>9. \A k \in Held(more) : edited[k] = IF k = id THEN after ELSE more[k]
  BY <1>3 DEF edited, Held
<1>10. Apart(edited, once, kin)
  BY <1>1, <1>3, <1>4, <1>5, EditStaysApart DEF edited
<1>11. \A k \in Names : once[k] # Nil =>
         \A j \in 1..Len(once[k].fields) : once[k].fields[j] \in Held(more)
  BY <1>1, FieldsAreHeld
<1>12. ASSUME NEW k \in Names, once[k] # Nil
       PROVE  once[k].leader = vals[k].leader /\ (k \notin par => Alike(edited, once[k], vals[k]))
  <2>1. /\ once[k].leader = values[k].leader
        /\ k \notin parted => Alike(more, once[k], values[k])
    BY <1>1, <1>12 DEF Agree
  <2>2. once[k].leader = vals[k].leader
    BY <1>7, <2>1
  <2>3. ASSUME k \notin par, k = n
        PROVE  Alike(edited, once[k], vals[k])
    <3>1. ~parts /\ n \notin parted
      BY <2>3
    <3>2. \A j \in 1..Len(ids) : FromObject(more[ids[j]]) = values[n].fields[j]
      BY <1>1, <2>1, <2>3, <3>1 DEF Alike
    <3>3. i \in 1..Len(ids)
      BY <1>3
    <3>4. FromObject(after) = fieldAfter
      BY <1>8, <3>1, <3>2, <3>3 DEF id
    <3>5. \A j \in 1..Len(ids) : ids[j] = id => j = i
      BY <1>1, <3>3 DEF HasNoTwins, id
    <3>6. ASSUME NEW j \in 1..Len(ids)
          PROVE  FromObject(edited[ids[j]]) = value.fields[j]
      <4>1. ids[j] \in Held(more)
        BY <1>3, ElementOfSeq
      <4>2. CASE j = i
        BY <1>7, <1>9, <3>4, <4>1, <4>2 DEF id
      <4>3. CASE j # i
        BY <1>7, <1>9, <3>2, <3>5, <4>1, <4>3
      <4> QED
        BY <4>2, <4>3
    <3> QED
      BY <1>1, <1>7, <2>3, <3>6 DEF Alike
  <2>4. ASSUME k \notin par, k # n
        PROVE  Alike(edited, once[k], vals[k])
    <3>1. k \notin parted /\ k \notin sharing
      BY <2>4
    <3>2. ~Has(once[k], id)
      <4>1. SUFFICES ASSUME Has(once[k], id) PROVE FALSE
        OBVIOUS
      <4>2. Has(read, id)
        <5>1. i \in 1..Len(ids)
          BY <1>3
        <5> QED
          BY <1>1, <5>1 DEF Has, id
      <4>3. k \in kin[n]
        BY <1>1, <1>3, <1>4, <1>12, <2>4, <4>1, <4>2 DEF Apart
      <4>4. id \in Range(records[k].fields)
        <5>1. PICK j \in 1..Len(records[k].fields) : records[k].fields[j] = id
          BY <1>1, <2>4, <4>1 DEF Has
        <5>2. records[k].fields \in Seq(Held(objects))
          BY <1>1, <1>12, <2>4, FieldsOfLive DEF AgreementInv, Live
        <5>3. j \in DOMAIN records[k].fields
          BY <5>1, <5>2, LenProperties
        <5> QED
          BY <5>1, <5>3 DEF Range
      <4> QED
        BY <1>8, <3>1, <4>3, <4>4
    <3>3. \A j \in 1..Len(once[k].fields) : edited[once[k].fields[j]] = more[once[k].fields[j]]
      BY <1>9, <1>11, <1>12, <3>2 DEF Has
    <3> QED
      BY <1>7, <2>1, <2>4, <3>1, <3>3 DEF Alike
  <2> QED
    BY <2>2, <2>3, <2>4
<1>13. Agree(edited, once, vals, par)
  BY <1>12 DEF Agree
<1> QED
  BY <1>2, <1>10, <1>13 DEF Agrees

(* A list that is changed as the value's is, when they were alike.          *)
LEMMA ListsAreChangedAlike ==
  ASSUME NEW object, IsWhole(object), NEW listed, NEW ofValue,
         object.subfields # Nil /\ SubfieldsOf(FromObject(object)) = object.subfields
           => listed = ofValue
  PROVE  FromObject(ChangeSubfields(object, listed)) =
           WithSubfields(FromObject(object), ofValue)
<1>1. CASE object.subfields # Nil
  BY <1>1, SubfieldsOfBridged, SubfieldsAreChangedAlike
<1>2. CASE object.subfields = Nil
  <2>1. object.tag \in Tag /\ ~IsDataTag(object.tag)
    BY <1>2 DEF IsWhole, FieldObject, HasItsParts
  <2> QED
    BY <1>2, <2>1 DEF ChangeSubfields, FromObject, WithSubfields, NoContent, ControlContent
<1> QED
  BY <1>1, <1>2

LEMMA ChangeFieldAgrees ==
  ASSUME AgreementInv, NEW n \in Names, Live(n), NEW i \in 1..Len(records[n].fields),
         ChangeField(n, i)
  PROVE  Agrees'
<1> DEFINE object == FieldObjectAt(n, i)
           field == FieldValueAt(n, i)
<1>0. IsWhole(object) /\ IsSound(field)
  BY FieldsAtAreSound DEF AgreementInv
<1>1. CASE \E tag \in NewTags : SetTag(n, i, tag)
  <2>1. PICK tag \in NewTags : SetTag(n, i, tag)
    BY <1>1
  <2>2. tag \in Tag
    BY RecordsAssumption
  <2>3. CASE EditField(n, i, SetFieldTag(object, tag), WithTag(field, tag),
                       TagParts(object.tag, tag))
    <3>1. IsWhole(SetFieldTag(object, tag))
      BY <1>0, <2>2, SettingTagKeepsWhole
    <3>2. TagParts(object.tag, tag) \in BOOLEAN
      BY DEF TagParts
    <3>3. ~TagParts(object.tag, tag) =>
            FromObject(SetFieldTag(object, tag)) = WithTag(FromObject(object), tag)
      BY <1>0, <2>2, TagIsSetAlike
    <3> QED
      BY <2>3, <3>1, <3>2, <3>3, EditFieldAgrees
  <2>4. CASE tag = object.tag /\ EditField(n, i, object, WithTag(field, tag), FALSE)
    <3>1. FromObject(object) = WithTag(FromObject(object), tag)
      BY <1>0, <2>4, SameTagIsSetAlike
    <3> QED
      BY <1>0, <2>4, <3>1, EditFieldAgrees
  <2> QED
    BY <2>1, <2>3, <2>4 DEF SetTag
<1>2. CASE \E value \in Values \cup {Nil} : SetValue(n, i, value)
  <2>1. PICK value \in Values \cup {Nil} : SetValue(n, i, value)
    BY <1>2
  <2>2. value \in ControlValues \cup {Nil}
    BY DEF ControlValues
  <2>3. /\ IsWhole(SetControlValue(object, value))
        /\ FromObject(SetControlValue(object, value)) = WithControlValue(FromObject(object), value)
    BY <1>0, <2>2, SettingControlValueKeepsWhole, ValueIsSetAlike
  <2> QED
    BY <2>1, <2>3, EditFieldAgrees DEF SetValue
<1>3. CASE \E first, second \in Indicators : SetIndicators(n, i, first, second)
  <2> DEFINE After(first, second) == SetSecondIndicator(SetFirstIndicator(object, first), second)
  <2>1. PICK first \in Indicators, second \in Indicators : SetIndicators(n, i, first, second)
    BY <1>3
  <2>2. IsWhole(After(first, second))
    BY <1>0, SettingIndicatorsKeepsWhole
  <2>3. first # Nil /\ second # Nil /\ <<first, second>> # Nil
    <3>1. first # Nil /\ second # Nil
      BY NilIsNoValue
    <3>2. <<first, second>> # Nil
      <4>1. <<first, second>> \in IndicatorPairs
        BY DEF IndicatorPairs
      <4> QED
        BY <4>1, RecordsAssumption
    <3> QED
      BY <3>1, <3>2
  <2>4. FromObject(After(first, second)) = WithIndicators(FromObject(object), <<first, second>>)
    BY <1>0, <2>3, IndicatorsAreSetAlike
  <2> QED
    BY <2>1, <2>2, <2>4, EditFieldAgrees DEF SetIndicators
<1>4. CASE ClearIndicators(n, i)
  <2> DEFINE after == SetSecondIndicator(SetFirstIndicator(object, Nil), Nil)
  <2>1. IsWhole(after)
    BY <1>0, SettingIndicatorsKeepsWhole
  <2>2. FromObject(after) = WithIndicators(FromObject(object), Nil)
    BY <1>0, IndicatorsAreSetAlike
  <2> QED
    BY <1>4, <2>1, <2>2, EditFieldAgrees DEF ClearIndicators
<1>5. CASE \E subfield \in Subfields : ReplaceSubfields(n, i, <<subfield>>)
  <2>1. PICK subfield \in Subfields : ReplaceSubfields(n, i, <<subfield>>)
    BY <1>5
  <2>2. <<subfield>> \in Seq(Subfields)
    OBVIOUS
  <2>2a. <<subfield>> # Nil
    BY <2>2, NilIsNoValue
  <2>3. /\ IsWhole(SetSubfields(object, <<subfield>>))
        /\ FromObject(SetSubfields(object, <<subfield>>)) =
             WithSubfields(FromObject(object), <<subfield>>)
    BY <1>0, <2>2, <2>2a, SettingSubfieldsKeepsWhole, SubfieldsAreSetAlike
  <2> QED
    BY <2>1, <2>3, EditFieldAgrees DEF ReplaceSubfields
<1>6. CASE \E subfield \in Subfields : AddSubfield(n, i, subfield)
  <2> DEFINE list == SubfieldsOf(field)
             after(subfield) == ChangeSubfields(object, Append(object.subfields, subfield))
  <2>1. PICK subfield \in Subfields : AddSubfield(n, i, subfield)
    BY <1>6
  <2>2. object.subfields # Nil => Append(object.subfields, subfield) \in Seq(Subfields)
    BY <1>0, AppendProperties DEF IsWhole, FieldObject
  <2>3. IsWhole(after(subfield))
    BY <1>0, <2>2, ChangingSubfieldsKeepsWhole
  <2>4. field = FromObject(object) =>
          FromObject(after(subfield)) = WithSubfields(field, Append(list, subfield))
    BY <1>0, ListsAreChangedAlike
  <2> QED
    BY <2>1, <2>3, <2>4, EditFieldAgrees DEF AddSubfield
<1>7. CASE \E j \in 1..Len(SubfieldsOf(FieldValueAt(n, i))) : RemoveSubfield(n, i, j)
  <2> DEFINE list == SubfieldsOf(field)
             after(j) == ChangeSubfields(object, RemoveAt(object.subfields, j))
  <2>1. PICK j \in 1..Len(list) : RemoveSubfield(n, i, j)
    BY <1>7
  <2>2. object.subfields # Nil => j \in 1..Len(object.subfields)
    BY <2>1 DEF RemoveSubfield
  <2>3. object.subfields # Nil => RemoveAt(object.subfields, j) \in Seq(Subfields)
    BY <1>0, <2>2, RemovedIsSeq DEF IsWhole, FieldObject
  <2>4. IsWhole(after(j))
    BY <1>0, <2>3, ChangingSubfieldsKeepsWhole
  <2>5. field = FromObject(object) =>
          FromObject(after(j)) = WithSubfields(field, RemoveAt(list, j))
    BY <1>0, ListsAreChangedAlike
  <2> QED
    BY <2>1, <2>4, <2>5, EditFieldAgrees DEF RemoveSubfield
<1> QED
  BY <1>1, <1>2, <1>3, <1>4, <1>5, <1>6, <1>7 DEF ChangeField

LEMMA NextAgrees ==
  AgreementInv /\ [Next]_vars => AgreementInv'
<1> SUFFICES ASSUME AgreementInv, [Next]_vars PROVE AgreementInv'
  OBVIOUS
<1>0. IInv'
  BY NextKeeps DEF AgreementInv
<1>1. CASE UNCHANGED vars
  BY <1>0, <1>1 DEF AgreementInv, Apart, Agree, Alike, Held, vars
<1>2. CASE Next
  <2> SUFFICES Agrees'
    BY <1>0 DEF AgreementInv, Agrees
  <2>1. PICK n \in Names :
          \/ \E value \in Originals : Bridge(n, value)
          \/ \E copy \in Names, mutable \in BOOLEAN : MakeCopy(n, copy, mutable)
          \/ Read(n)
          \/ BridgeBack(n)
          \/ \E leader \in Leaders : SetLeader(n, leader)
          \/ \E m \in Names : SetFields(n, m)
          \/ /\ Live(n)
             /\ \E i \in 1..Len(records[n].fields) + 1, field \in NewFields :
                  \E object \in {CopyOf(ToObject(field), TRUE),
                                 InitWithFieldTag(TRUE, field.tag)} :
                    IsNewObject(object, field) /\ InsertField(n, i, field, object)
          \/ /\ Live(n)
             /\ \E i \in 1..Len(records[n].fields) :
                  \/ \E field \in NewFields :
                       ReplaceField(n, i, field, CopyOf(ToObject(field), TRUE))
                  \/ RemoveField(n, i)
                  \/ ChangeField(n, i)
    BY <1>2, Zenon DEF Next
  <2>2. CASE \E value \in Originals : Bridge(n, value)
    BY <2>2, BridgeAgrees
  <2>3. CASE \E copy \in Names, mutable \in BOOLEAN : MakeCopy(n, copy, mutable)
    BY <2>3, MakeCopyAgrees
  <2>4. CASE Read(n)
    BY <2>4, ReadAgrees
  <2>5. CASE BridgeBack(n)
    BY <2>5, BridgeBackAgrees
  <2>6. CASE \E leader \in Leaders : SetLeader(n, leader)
    BY <2>6, SetLeaderAgrees
  <2>7. CASE \E m \in Names : SetFields(n, m)
    BY <2>7, SetFieldsAgrees
  <2>8. CASE /\ Live(n)
             /\ \E i \in 1..Len(records[n].fields) + 1, field \in NewFields :
                  \E object \in {CopyOf(ToObject(field), TRUE),
                                 InitWithFieldTag(TRUE, field.tag)} :
                    IsNewObject(object, field) /\ InsertField(n, i, field, object)
    <3>1. PICK i \in 1..Len(records[n].fields) + 1, field \in NewFields :
            \E object \in {CopyOf(ToObject(field), TRUE), InitWithFieldTag(TRUE, field.tag)} :
              IsNewObject(object, field) /\ InsertField(n, i, field, object)
      BY <2>8, Zenon
    <3>2. PICK object \in {CopyOf(ToObject(field), TRUE), InitWithFieldTag(TRUE, field.tag)} :
            IsNewObject(object, field) /\ InsertField(n, i, field, object)
      BY <3>1
    <3>3. IsWhole(object) /\ FromObject(object) = field
      BY <3>2, NewObjectsAreWhole, NewObjectsAreAlike DEF IsNewObject
    <3> QED
      BY <2>8, <3>2, <3>3, InsertFieldAgrees
  <2>9. CASE /\ Live(n)
             /\ \E i \in 1..Len(records[n].fields) :
                  \/ \E field \in NewFields :
                       ReplaceField(n, i, field, CopyOf(ToObject(field), TRUE))
                  \/ RemoveField(n, i)
                  \/ ChangeField(n, i)
    <3>1. PICK i \in 1..Len(records[n].fields) :
            \/ \E field \in NewFields :
                 ReplaceField(n, i, field, CopyOf(ToObject(field), TRUE))
            \/ RemoveField(n, i)
            \/ ChangeField(n, i)
      BY <2>9
    <3>2. CASE \E field \in NewFields : ReplaceField(n, i, field, CopyOf(ToObject(field), TRUE))
      BY <2>9, <3>2, NewObjectsAreWhole, NewObjectsAreAlike, ReplaceFieldAgrees
    <3>3. CASE RemoveField(n, i)
      BY <2>9, <3>3, RemoveFieldAgrees
    <3>4. CASE ChangeField(n, i)
      BY <2>9, <3>4, ChangeFieldAgrees
    <3> QED
      BY <3>1, <3>2, <3>3, <3>4
  <2> QED
    BY <2>1, <2>2, <2>3, <2>4, <2>5, <2>6, <2>7, <2>8, <2>9
<1> QED
  BY <1>1, <1>2

LEMMA InitAgrees ==
  Init => AgreementInv
BY InitKeeps DEF Init, AgreementInv, Apart, Agree

(* However records are copied, edited and bridged back, an object and the  *)
(* value that were changed alike are bridged to each other, except through *)
(* a field that is shared because a mutable record was copied.             *)
THEOREM RecordsFollowTheirValues ==
  Spec => []ObjectsAgreeWithValues
<1>1. AgreementInv => ObjectsAgreeWithValues
  <2> SUFFICES ASSUME AgreementInv, NEW n \in Names, Live(n), n \notin parted
               PROVE  Bridged(n) = values[n]
    BY DEF ObjectsAgreeWithValues
  <2> DEFINE value == values[n]
             fields == [i \in 1..Len(records[n].fields) |->
                          FromObject(objects[records[n].fields[i]])]
  <2>1. /\ records[n].leader = value.leader
        /\ \A i \in 1..Len(records[n].fields) :
             FromObject(objects[records[n].fields[i]]) = value.fields[i]
    BY DEF AgreementInv, Agree, Alike, Live
  <2>2. /\ value \in SoundRecord /\ value.fields \in Seq(SoundField)
        /\ Len(value.fields) = Len(records[n].fields)
    BY LiveMatches, FieldsOfLive DEF AgreementInv, Matches
  <2>3. value.fields = fields
    <3>1. DOMAIN value.fields = 1..Len(records[n].fields)
          /\ value.fields \in [1..Len(records[n].fields) -> SoundField]
      BY <2>2, LenProperties
    <3> QED
      BY <2>1, <3>1
  <2>4. value = [leader |-> value.leader, fields |-> value.fields]
    BY <2>2 DEF SoundRecord
  <2> QED
    BY <2>1, <2>3, <2>4 DEF Bridged
<1> QED
  BY <1>1, InitAgrees, NextAgrees, PTL DEF Spec

-----------------------------------------------------------------------------
(* Numbers and sequences put together, for the searches.                   *)

(* A set of numbers that has one has a least one.                          *)
LEMMA LeastNumber ==
  ASSUME NEW D, D \subseteq Nat, D # {}
  PROVE  \E x \in D : \A y \in D : x <= y
<1> DEFINE Less == {ss \in Nat \X Nat : ss[1] < ss[2]}
<1>1. IsWellFoundedOn(Less, Nat)
  BY NatLessThanWellFounded DEF OpToRel
<1> HIDE DEF Less
<1>2. PICK x \in D : \A y \in D : ~(<<y, x>> \in Less)
  BY <1>1, WFMin
<1>3. ASSUME NEW y \in D PROVE x <= y
  <2>1. x \in Nat /\ y \in Nat
    OBVIOUS
  <2>2. y < x => <<y, x>> \in Less
    BY <2>1 DEF Less
  <2> QED
    BY <1>2, <2>1, <2>2
<1> QED
  BY <1>3

(* What holds of 0, and of a number when it holds of the one before.       *)
LEMMA UpTo ==
  ASSUME NEW n \in Nat, NEW S, 0 \in S, \A k \in 1..n : k - 1 \in S => k \in S
  PROVE  \A k \in 0..n : k \in S
<1> DEFINE D == {k \in 0..n : k \notin S}
<1>1. SUFFICES ASSUME D # {} PROVE FALSE
  OBVIOUS
<1>2. PICK x \in D : \A y \in D : x <= y
  <2>1. D \subseteq Nat
    OBVIOUS
  <2> HIDE DEF D
  <2> QED
    BY <1>1, <2>1, LeastNumber
<1>3. x \in 1..n /\ x - 1 \in 0..n
  OBVIOUS
<1>4. x - 1 \notin D
  BY <1>2, <1>3
<1> QED
  BY <1>3, <1>4

-----------------------------------------------------------------------------
(* Sequences put together.                                                 *)

(* A function on the first numbers is a sequence.                          *)
LEMMA Numbered ==
  ASSUME NEW n \in Nat, NEW S, NEW s, DOMAIN s = 1..n, s = [i \in 1..n |-> s[i]],
         \A i \in 1..n : s[i] \in S
  PROVE  s \in Seq(S) /\ Len(s) = n
OBVIOUS

IsFlatten(f, seqs) ==
  f = [i \in 1..Len(seqs) |-> IF i = 1 THEN seqs[i] ELSE f[i - 1] \o seqs[i]]

(* FlattenSeq is defined by choosing such a function.                      *)
LEMMA FlattenExists ==
  ASSUME NEW S, NEW seqs \in Seq(Seq(S))
  PROVE  \E f : IsFlatten(f, seqs)
<1> DEFINE IsPart(g, m) == g = [k \in 1..m |-> IF k = 1 THEN seqs[k] ELSE g[k - 1] \o seqs[k]]
           T == {m \in 0..Len(seqs) : \E g : IsPart(g, m)}
<1>1. Len(seqs) \in Nat
  BY LenProperties
<1>2. 0 \in T
  <2>1. IsPart([k \in 1..0 |-> 0], 0)
    OBVIOUS
  <2> HIDE DEF IsPart
  <2> QED
    BY <1>1, <2>1
<1>3. ASSUME NEW m \in 1..Len(seqs), m - 1 \in T
      PROVE  m \in T
  <2>1. PICK g : IsPart(g, m - 1)
    BY <1>3
  <2> DEFINE h == [k \in 1..m |-> IF k = 1 THEN seqs[1]
                               ELSE IF k = m THEN g[m - 1] \o seqs[m] ELSE g[k]]
  <2>2. \A k \in 1..(m - 1) : g[k] = IF k = 1 THEN seqs[1] ELSE g[k - 1] \o seqs[k]
    BY <2>1
  <2>3. \A k \in 1..m : h[k] = IF k = 1 THEN seqs[k] ELSE h[k - 1] \o seqs[k]
    <3>1. h[1] = seqs[1]
      OBVIOUS
    <3>2. ASSUME NEW k \in 2..m PROVE h[k] = h[k - 1] \o seqs[k]
      <4> DEFINE p == k - 1
      <4>1. p \in 1..(m - 1) /\ p \in 1..m /\ p # m /\ k \in 1..m /\ k # 1
        OBVIOUS
      <4>2. p = 1 => g[p] = seqs[1]
        BY <2>2, <4>1
      <4>3. h[p] = g[p]
        BY <4>1, <4>2
      <4>4. k # m => k \in 1..(m - 1)
        OBVIOUS
      <4>5. k # m => g[k] = g[p] \o seqs[k]
        BY <2>2, <4>1, <4>4
      <4>6. h[k] = g[p] \o seqs[k]
        BY <4>1, <4>5
      <4> QED
        BY <4>3, <4>6
    <3> HIDE DEF h
    <3>3. ASSUME NEW k \in 1..m PROVE k = 1 \/ k \in 2..m
      OBVIOUS
    <3> QED
      BY <3>1, <3>2, <3>3
  <2>4. IsPart(h, m)
    <3>1. h = [k \in 1..m |-> h[k]]
      OBVIOUS
    <3> HIDE DEF h
    <3> QED
      BY <2>3, <3>1
  <2> HIDE DEF h, IsPart
  <2> QED
    BY <1>1, <2>4
<1> HIDE DEF T
<1>4. \A m \in 0..Len(seqs) : m \in T
  BY <1>1, <1>2, <1>3, UpTo
<1>5. Len(seqs) \in T
  BY <1>1, <1>4
<1>6. PICK g : IsPart(g, Len(seqs))
  BY <1>5 DEF T
<1> QED
  BY <1>6 DEF IsFlatten

(* Where each of the parts begins in a flattened sequence.                 *)
ArePlaces(places, seqs, whole) ==
  /\ places \in [0..Len(seqs) -> Nat]
  /\ places[0] = 0
  /\ \A i \in 1..Len(seqs) :
       /\ places[i] = places[i - 1] + Len(seqs[i])
       /\ \A j \in 1..Len(seqs[i]) : whole[places[i - 1] + j] = seqs[i][j]
  /\ places[Len(seqs)] = Len(whole)

(* Two sequences put together.                                             *)
LEMMA Beside ==
  ASSUME NEW S, NEW s \in Seq(S), NEW t \in Seq(S)
  PROVE  /\ s \o t \in Seq(S) /\ Len(s \o t) = Len(s) + Len(t)
         /\ \A j \in 1..Len(s) : (s \o t)[j] = s[j]
         /\ \A j \in 1..Len(t) : (s \o t)[Len(s) + j] = t[j]
<1>1. Len(s) \in Nat /\ Len(t) \in Nat
  BY LenProperties
<1>2. ASSUME NEW j \in 1..Len(t) PROVE (s \o t)[Len(s) + j] = t[j]
  <2> DEFINE k == Len(s) + j
  <2>1. k \in 1..Len(s) + Len(t) /\ ~(k <= Len(s)) /\ k - Len(s) = j
    BY <1>1
  <2> HIDE DEF k
  <2>2. (s \o t)[k] = t[j]
    BY <2>1, ConcatProperties
  <2> QED
    BY <2>2 DEF k
<1> QED
  BY <1>1, <1>2, ConcatProperties

(* A flattened sequence has the elements of each of its parts in its place. *)
LEMMA FlattenIs ==
  ASSUME NEW S, NEW seqs \in Seq(Seq(S))
  PROVE  FlattenSeq(seqs) \in Seq(S) /\ \E places : ArePlaces(places, seqs, FlattenSeq(seqs))
<1> DEFINE n == Len(seqs)
           whole == FlattenSeq(seqs)
<1>1. n \in Nat /\ \A i \in 1..n : seqs[i] \in Seq(S) /\ Len(seqs[i]) \in Nat
  BY ElementOfSeq, LenProperties
<1>2. CASE n = 0
  <2>1. seqs = << >> /\ whole = << >>
    BY <1>2, EmptySeq DEF FlattenSeq
  <2>2. ArePlaces([i \in 0..0 |-> 0], seqs, whole)
    BY <2>1 DEF ArePlaces
  <2> QED
    BY <2>1, <2>2
<1>3. CASE n # 0
  <2> DEFINE f == CHOOSE f : f = [i \in 1..n |-> IF i = 1 THEN seqs[i] ELSE f[i - 1] \o seqs[i]]
  <2>1. f = [i \in 1..n |-> IF i = 1 THEN seqs[i] ELSE f[i - 1] \o seqs[i]]
    BY FlattenExists DEF IsFlatten
  <2>2. whole = f[n]
    BY <1>3 DEF FlattenSeq
  <2> HIDE DEF f, whole
  <2>3. \A i \in 1..n : f[i] = IF i = 1 THEN seqs[i] ELSE f[i - 1] \o seqs[i]
    BY <2>1
  <2> DEFINE T == {i \in 0..n : i = 0 \/ f[i] \in Seq(S)}
  <2>4. \A i \in 1..n : i - 1 \in T => i \in T
    <3>1. ASSUME NEW i \in 1..n, i - 1 \in T PROVE i \in T
      <4>1. CASE i = 1
        BY <1>1, <2>3, <4>1
      <4>2. CASE i # 1
        <5>1. f[i - 1] \in Seq(S) /\ seqs[i] \in Seq(S) /\ f[i] = f[i - 1] \o seqs[i]
          <6>1. i - 1 # 0
            BY <4>2
          <6>2. f[i] = f[i - 1] \o seqs[i]
            BY <2>3, <4>2
          <6> QED
            BY <1>1, <3>1, <6>1, <6>2
        <5>2. f[i] \in Seq(S)
          BY <5>1, ConcatProperties
        <5> QED
          BY <5>2
      <4> QED
        BY <4>1, <4>2
    <3> QED
      BY <3>1
  <2>5. 0 \in T
    BY <1>1
  <2> HIDE DEF T
  <2>6. \A i \in 0..n : i \in T
    BY <1>1, <2>4, <2>5, UpTo
  <2>7. \A i \in 1..n : f[i] \in Seq(S) /\ Len(f[i]) \in Nat
    <3>1. \A i \in 1..n : f[i] \in Seq(S)
      BY <2>6 DEF T
    <3> QED
      BY <3>1, LenProperties
  <2> DEFINE places == [i \in 0..n |-> IF i = 0 THEN 0 ELSE Len(f[i])]
  <2>8. ASSUME NEW i \in 1..n
        PROVE  /\ places[i] = places[i - 1] + Len(seqs[i])
               /\ \A j \in 1..Len(seqs[i]) : f[i][places[i - 1] + j] = seqs[i][j]
               /\ \A j \in 1..places[i - 1] : f[i][j] = f[i - 1][j]
    <3>1. CASE i = 1
      BY <1>1, <2>3, <3>1
    <3>2. CASE i # 1
      <4> DEFINE p == i - 1
      <4>1. p \in 1..n /\ p \in 0..n /\ p # 0 /\ i \in 0..n /\ i # 0
        BY <1>1, <3>2
      <4>2. f[i] = f[p] \o seqs[i]
        BY <2>3, <3>2
      <4>3. f[p] \in Seq(S) /\ seqs[i] \in Seq(S)
        BY <1>1, <2>7, <4>1
      <4>4. places[p] = Len(f[p]) /\ places[i] = Len(f[i])
        BY <4>1
      <4> HIDE DEF p, places
      <4>5. /\ Len(f[i]) = Len(f[p]) + Len(seqs[i])
            /\ \A j \in 1..Len(seqs[i]) : f[i][Len(f[p]) + j] = seqs[i][j]
            /\ \A j \in 1..Len(f[p]) : f[i][j] = f[p][j]
        <5> DEFINE a == f[p]
                   b == seqs[i]
        <5>1. a \in Seq(S) /\ b \in Seq(S) /\ f[i] = a \o b
          BY <4>2, <4>3
        <5> HIDE DEF a, b
        <5>2. /\ Len(f[i]) = Len(a) + Len(b)
              /\ \A j \in 1..Len(b) : f[i][Len(a) + j] = b[j]
              /\ \A j \in 1..Len(a) : f[i][j] = a[j]
          BY <5>1, Beside
        <5> QED
          BY <5>2 DEF a, b
      <4>6. /\ places[i] = places[p] + Len(seqs[i])
            /\ \A j \in 1..Len(seqs[i]) : f[i][places[p] + j] = seqs[i][j]
            /\ \A j \in 1..places[p] : f[i][j] = f[p][j]
        BY <4>4, <4>5
      <4> QED
        BY <4>6 DEF p
    <3> QED
      BY <3>1, <3>2
  <2>9. \A i \in 0..n : places[i] \in Nat
    BY <2>7
  <2>10. places[0] = 0 /\ places[n] = Len(f[n]) /\ places \in [0..n -> Nat]
    BY <1>1, <1>3, <2>7
  <2> HIDE DEF places
  <2> DEFINE U == {m \in 0..n : \A i \in 1..m : \A j \in 1..Len(seqs[i]) :
                      f[m][places[i - 1] + j] = seqs[i][j] /\ places[i] <= places[m]}
  <2>11. 0 \in U
    BY <1>1
  <2>12. ASSUME NEW m \in 1..n, m - 1 \in U PROVE m \in U
    <3>1. ASSUME NEW i \in 1..m, NEW j \in 1..Len(seqs[i])
          PROVE  f[m][places[i - 1] + j] = seqs[i][j] /\ places[i] <= places[m]
      <4>1. CASE i = m
        BY <2>8, <2>9, <4>1
      <4>2. CASE i # m
        <5>1. i \in 1..(m - 1) /\ i \in 1..n /\ i - 1 \in 0..n /\ m - 1 \in 0..n
          BY <4>2
        <5>2. f[m - 1][places[i - 1] + j] = seqs[i][j] /\ places[i] <= places[m - 1]
          BY <2>12, <5>1
        <5>3. /\ places[i] = places[i - 1] + Len(seqs[i])
              /\ places[m] = places[m - 1] + Len(seqs[m])
              /\ \A q \in 1..places[m - 1] : f[m][q] = f[m - 1][q]
          BY <2>8, <5>1
        <5>4. /\ places[i - 1] \in Nat /\ places[i] \in Nat
              /\ places[m - 1] \in Nat /\ places[m] \in Nat
              /\ Len(seqs[i]) \in Nat /\ Len(seqs[m]) \in Nat
          BY <1>1, <2>9, <5>1
        <5> DEFINE q == places[i - 1] + j
        <5>5. q \in 1..places[m - 1]
          <6> DEFINE a == places[i - 1]
                     b == places[i]
                     c == places[m - 1]
                     d == Len(seqs[i])
          <6>1. /\ a \in Nat /\ b \in Nat /\ c \in Nat /\ d \in Nat
                /\ j \in 1..d /\ b = a + d /\ b <= c
            BY <5>2, <5>3, <5>4
          <6> HIDE DEF a, b, c, d
          <6>2. a + j \in 1..c
            BY <6>1
          <6> QED
            BY <6>2 DEF a, c
        <5>6. f[m][q] = f[m - 1][q]
          BY <5>3, <5>5
        <5>7. places[i] <= places[m]
          BY <5>2, <5>3, <5>4
        <5> QED
          BY <5>2, <5>6, <5>7
      <4> QED
        BY <4>1, <4>2
    <3> QED
      BY <3>1
  <2> HIDE DEF U
  <2>13. \A m \in 0..n : m \in U
    BY <1>1, <2>11, <2>12, UpTo
  <2>14. n \in U
    BY <1>1, <2>13
  <2>15. ArePlaces(places, seqs, whole)
    BY <2>2, <2>8, <2>10, <2>14 DEF ArePlaces, U
  <2>16. whole \in Seq(S)
    BY <1>1, <1>3, <2>2, <2>7
  <2> QED
    BY <2>15, <2>16 DEF whole
<1> QED
  BY <1>2, <1>3

-----------------------------------------------------------------------------
(* What the searches of objects and of values find.                        *)

(* The least and the greatest of the first numbers.                        *)
LEMMA MinIs ==
  ASSUME NEW I \in SUBSET Nat, I # {}
  PROVE  Min(I) \in I /\ \A i \in I : Min(I) <= i
<1>1. \E x \in I : \A y \in I : x <= y
  BY LeastNumber
<1> QED
  BY <1>1 DEF Min

LEMMA MaxIs ==
  ASSUME NEW n \in Nat, NEW I \in SUBSET (1..n), I # {}
  PROVE  Max(I) \in I /\ \A i \in I : i <= Max(I)
<1> DEFINE D == {n - i : i \in I}
<1>1. D \subseteq Nat /\ D # {}
  <2>1. \A i \in I : n - i \in Nat
    OBVIOUS
  <2> QED
    BY <2>1
<1> HIDE DEF D
<1>2. PICK d \in D : \A y \in D : d <= y
  BY <1>1, LeastNumber
<1>3. PICK x \in I : d = n - x
  BY DEF D
<1>4. ASSUME NEW i \in I PROVE i <= x
  <2>1. n - i \in D
    BY DEF D
  <2>2. d <= n - i
    BY <1>2, <2>1
  <2> QED
    BY <1>3, <2>2
<1>5. \E m \in I : \A y \in I : m >= y
  BY <1>4
<1>6. Max(I) \in I /\ \A y \in I : Max(I) >= y
  BY <1>5 DEF Max
<1> QED
  BY <1>6

IsSelection(seqs, n, I, e) ==
  seqs = [i \in 1..n |-> IF i \in I THEN <<e[i]>> ELSE <<>>]

(* A sequence of those elements that are among the selected ones: its      *)
(* first is the least of them and its last is the greatest.                *)
LEMMA SelectionIs ==
  ASSUME NEW n \in Nat, NEW I \in SUBSET (1..n), NEW S, NEW e, \A i \in I : e[i] \in S,
         NEW seqs, IsSelection(seqs, n, I, e)
  PROVE  /\ FlattenSeq(seqs) \in Seq(S)
         /\ I = {} <=> FlattenSeq(seqs) = <<>>
         /\ I # {} => /\ Head(FlattenSeq(seqs)) = e[Min(I)]
                      /\ Last(FlattenSeq(seqs)) = e[Max(I)]
<1> DEFINE whole == FlattenSeq(seqs)
<1>1. \A i \in 1..n : seqs[i] = IF i \in I THEN <<e[i]>> ELSE <<>>
  BY DEF IsSelection
<1>2. \A i \in 1..n : seqs[i] \in Seq(S)
  <2>1. \A i \in I : <<e[i]>> \in Seq(S)
    OBVIOUS
  <2> QED
    BY <1>1, <2>1, EmptySeq
<1>3. seqs \in Seq(Seq(S)) /\ Len(seqs) = n
  <2>1. DOMAIN seqs = 1..n /\ seqs = [i \in 1..n |-> seqs[i]]
    BY DEF IsSelection
  <2> QED
    BY <1>2, <2>1, FunctionIsSeq
<1>4. whole \in Seq(S)
  BY <1>3, FlattenIs
<1>5. PICK places : ArePlaces(places, seqs, whole)
  BY <1>3, FlattenIs
<1> HIDE DEF whole
<1>6. ASSUME NEW i \in 1..n
      PROVE  /\ places[i - 1] \in Nat /\ places[i] \in Nat
             /\ i \notin I => places[i] = places[i - 1]
             /\ i \in I => places[i] = places[i - 1] + 1 /\ whole[places[i]] = e[i]
  <2>1. places[i - 1] \in Nat /\ places[i] \in Nat
    BY <1>3, <1>5 DEF ArePlaces
  <2>2. /\ places[i] = places[i - 1] + Len(seqs[i])
        /\ \A j \in 1..Len(seqs[i]) : whole[places[i - 1] + j] = seqs[i][j]
    BY <1>3, <1>5 DEF ArePlaces
  <2>3. CASE i \notin I
    <3>1. seqs[i] = <<>>
      BY <1>1, <2>3
    <3>2. Len(seqs[i]) = 0
      BY <3>1, EmptySeq
    <3> QED
      BY <2>1, <2>2, <2>3, <3>2
  <2>4. CASE i \in I
    <3>1. seqs[i] = <<e[i]>>
      BY <1>1, <2>4
    <3>2. Len(seqs[i]) = 1 /\ seqs[i][1] = e[i]
      BY <3>1
    <3>3. 1 \in 1..Len(seqs[i])
      BY <3>2
    <3>4. whole[places[i - 1] + 1] = seqs[i][1]
      BY <2>2, <3>3
    <3> QED
      BY <2>1, <2>2, <2>4, <3>2, <3>4
  <2> QED
    BY <2>3, <2>4
<1>7. places[0] = 0 /\ places[n] = Len(whole)
  BY <1>3, <1>5 DEF ArePlaces
(* Nothing has been put in before the first that is selected.              *)
<1>8. ASSUME NEW m \in 1..n, \A i \in I : m <= i
      PROVE  places[m - 1] = 0
  <2> DEFINE T == {i \in 0..(m - 1) : places[i] = 0}
  <2>1. 0 \in T
    BY <1>7
  <2>2. ASSUME NEW i \in 1..(m - 1), i - 1 \in T PROVE i \in T
    <3>1. i \in 1..n /\ i \notin I
      BY <1>8
    <3> QED
      BY <1>6, <2>2, <3>1
  <2> HIDE DEF T
  <2>3. m - 1 \in Nat
    OBVIOUS
  <2>4. \A i \in 0..(m - 1) : i \in T
    BY <2>1, <2>2, <2>3, UpTo
  <2>5. m - 1 \in T
    BY <2>4, <2>3
  <2> QED
    BY <2>5 DEF T
(* Nor behind the last.                                                    *)
<1>9. ASSUME NEW m \in 1..n, \A i \in I : i <= m
      PROVE  places[n] = places[m]
  <2> DEFINE k == n - m
             T == {i \in 0..k : places[m + i] = places[m]}
  <2>1. k \in Nat
    OBVIOUS
  <2>2. 0 \in T
    BY <1>9, <2>1
  <2>3. ASSUME NEW i \in 1..k, i - 1 \in T PROVE i \in T
    <3>1. m + i \in 1..n /\ m + i \notin I
      BY <1>9
    <3>2. places[m + i] = places[(m + i) - 1]
      BY <1>6, <3>1
    <3>3. (m + i) - 1 = m + (i - 1)
      OBVIOUS
    <3>4. places[m + (i - 1)] = places[m]
      BY <2>3
    <3>5. places[m + i] = places[m]
      BY <3>2, <3>3, <3>4
    <3> QED
      BY <3>5
  <2> HIDE DEF T
  <2>4. \A i \in 0..k : i \in T
    BY <2>1, <2>2, <2>3, UpTo
  <2>5. k \in T /\ m + k = n
    BY <2>1, <2>4
  <2> QED
    BY <2>5 DEF T
<1>10. CASE I = {}
  <2>1. CASE n = 0
    BY <1>4, <1>7, <1>10, <2>1, EmptySeq DEF whole
  <2>2. CASE n # 0
    <3>1. n \in 1..n /\ n \notin I
      BY <1>10, <2>2
    <3>2. places[n] = places[n - 1] /\ places[n - 1] = 0
      BY <1>6, <1>8, <1>10, <3>1
    <3>3. whole = <<>>
      BY <1>4, <1>7, <3>2, EmptySeq
    <3> QED
      BY <1>4, <1>10, <3>3 DEF whole
  <2> QED
    BY <2>1, <2>2
<1>11. CASE I # {}
  <2> DEFINE a == Min(I)
             b == Max(I)
  <2>1. /\ a \in I /\ \A i \in I : a <= i
        /\ b \in I /\ \A i \in I : i <= b
    <3>1. I \in SUBSET Nat
      OBVIOUS
    <3> QED
      BY <1>11, <3>1, MinIs, MaxIs
  <2> HIDE DEF a, b
  <2>2. a \in 1..n /\ b \in 1..n
    BY <2>1
  <2>3. places[a] = 1 /\ whole[1] = e[a]
    <3>1. places[a - 1] = 0
      BY <1>8, <2>1, <2>2
    <3>2. places[a] = places[a - 1] + 1 /\ whole[places[a]] = e[a]
      BY <1>6, <2>1, <2>2
    <3> QED
      BY <3>1, <3>2
  <2>4. Len(whole) = places[b] /\ whole[Len(whole)] = e[b] /\ places[b] # 0
    <3>1. places[b] = places[b - 1] + 1 /\ whole[places[b]] = e[b] /\ places[b - 1] \in Nat
      BY <1>6, <2>1, <2>2
    <3>2. places[n] = places[b]
      BY <1>9, <2>1, <2>2
    <3> QED
      BY <1>7, <3>1, <3>2
  <2>5. whole # <<>>
    BY <1>4, <2>4, EmptySeq
  <2>6. Head(whole) = e[a]
    BY <1>4, <2>3, <2>5, HeadTailProperties
  <2>7. Last(whole) = e[b]
    BY <2>4 DEF Last
  <2> QED
    BY <1>4, <1>11, <2>5, <2>6, <2>7 DEF whole, a, b
<1> QED
  BY <1>10, <1>11
-----------------------------------------------------------------------------
(* Fields that were found and the values they are bridged to.              *)

AreBridged(n, found, fields) ==
  /\ found = [i \in 1..n |-> found[i]]
  /\ \A i \in 1..n : IsWhole(found[i])
  /\ fields = [i \in 1..n |-> FromObject(found[i])]

LEMMA BridgedFields ==
  ASSUME NEW n \in Nat, NEW found, NEW fields, AreBridged(n, found, fields)
  PROVE  /\ DOMAIN found = 1..n /\ DOMAIN fields = 1..n
         /\ Len(found) = n /\ Len(fields) = n
         /\ fields \in Seq(RecordField) /\ found \in Seq(FieldObject)
         /\ \A i \in 1..n : fields[i].tag = found[i].tag /\ fields[i].tag \in Tag
<1>1. DOMAIN found = 1..n /\ DOMAIN fields = 1..n
  BY DEF AreBridged
<1>2. \A i \in 1..n : fields[i] = FromObject(found[i]) /\ IsWhole(found[i])
  BY DEF AreBridged
<1>3. \A i \in 1..n : fields[i] \in RecordField
  BY <1>2, FromWholeIsSound DEF IsSound
<1>4. \A i \in 1..n : found[i] \in FieldObject
  BY <1>2 DEF IsWhole
<1>5. fields \in [1..n -> RecordField] /\ found \in [1..n -> FieldObject]
  BY <1>3, <1>4 DEF AreBridged
<1>6. \A i \in 1..n : fields[i].tag = found[i].tag /\ fields[i].tag \in Tag
  <2>1. \A object : FromObject(object).tag = object.tag
    BY DEF FromObject
  <2>2. \A i \in 1..n : found[i].tag \in Tag
    BY <1>4 DEF FieldObject
  <2> QED
    BY <1>2, <2>1, <2>2
<1> QED
  BY <1>1, <1>5, <1>6, FunctionIsSeq

LEMMA BridgedSubfields ==
  ASSUME NEW object, IsWhole(object), NEW field, field = FromObject(object)
  PROVE  /\ IsDataTag(object.tag) => /\ object.subfields \in Seq(Subfields)
                                     /\ object.subfields # Nil
                                     /\ SubfieldsOf(field) = object.subfields
                                     /\ field.content.is = "data"
         /\ ~IsDataTag(object.tag) => /\ object.subfields = Nil
                                      /\ SubfieldsOf(field) = <<>>
                                      /\ field.content.is # "data"
         /\ IsControlTag(object.tag) => /\ field.content.is = "control"
                                        /\ field.content.value = object.controlValue
         /\ SubfieldsOf(field) \in Seq(Subfields)
<1>1. object.tag \in Tag /\ object \in FieldObject /\ HasItsParts(object)
  BY DEF IsWhole, FieldObject
<1>2. ~(IsControlTag(object.tag) /\ IsDataTag(object.tag))
  BY <1>1, TagIsOfOneKind
<1>3. CASE IsDataTag(object.tag)
  <2>1. object.subfields # Nil /\ object.subfields \in Seq(Subfields)
    BY <1>1, <1>3 DEF HasItsParts, FieldObject
  <2>2. SubfieldsOf(field) = object.subfields
    BY <2>1, SubfieldsOfBridged
  <2>3. field.content.is = "data"
    BY <1>2, <1>3 DEF FromObject, DataContent
  <2> QED
    BY <1>2, <1>3, <2>1, <2>2, <2>3
<1>4. CASE ~IsDataTag(object.tag)
  <2>1. object.subfields = Nil
    BY <1>1, <1>4 DEF HasItsParts
  <2>2. /\ field.content.is # "data"
        /\ IsControlTag(object.tag) => /\ field.content.is = "control"
                                       /\ field.content.value = object.controlValue
    BY <1>4 DEF FromObject, ControlContent, NoContent
  <2>3. SubfieldsOf(field) = <<>>
    BY <2>2 DEF SubfieldsOf
  <2> QED
    BY <1>4, <2>1, <2>2, <2>3, EmptySeq
<1> QED
  BY <1>3, <1>4

-----------------------------------------------------------------------------
(* Places by tag.                                                          *)

WithTagAt(n, seq, tag) == {i \in 1..n : seq[i].tag = tag}

FieldPaths(n, I) == FlattenSeq([i \in 1..n |-> IF i \in I THEN <<<<i>>>> ELSE <<>>])

LEMMA PathsToFieldsAre ==
  ASSUME NEW n \in Nat, NEW seq, DOMAIN seq = 1..n, NEW tag
  PROVE  Selected([i \in DOMAIN seq |-> <<i>>], LAMBDA p : seq[p[1]].tag = tag)
           = FieldPaths(n, WithTagAt(n, seq, tag))
<1> DEFINE own == [i \in 1..n |-> <<i>>]
           a == [i \in DOMAIN own |-> IF seq[own[i][1]].tag = tag THEN <<own[i]>> ELSE <<>>]
           b == [i \in 1..n |-> IF i \in WithTagAt(n, seq, tag) THEN <<<<i>>>> ELSE <<>>]
<1>1. a = b
  BY DEF WithTagAt
<1>2. Selected([i \in DOMAIN seq |-> <<i>>], LAMBDA p : seq[p[1]].tag = tag) = FlattenSeq(a)
  BY DEF Selected
<1> QED
  BY <1>1, <1>2 DEF FieldPaths

LEMMA FieldPathsLead ==
  ASSUME NEW n \in Nat, NEW I \in SUBSET (1..n)
  PROVE  /\ FieldPaths(n, I) \in Seq({<<i>> : i \in I})
         /\ I = {} <=> FieldPaths(n, I) = <<>>
         /\ I # {} => /\ Head(FieldPaths(n, I)) = <<Min(I)>>
                      /\ Last(FieldPaths(n, I)) = <<Max(I)>>
<1> DEFINE S == {<<i>> : i \in I}
           e == [i \in 1..n |-> <<i>>]
           seqs == [i \in 1..n |-> IF i \in I THEN <<e[i]>> ELSE <<>>]
<1>1. \A i \in I : e[i] \in S
  OBVIOUS
<1>2. FieldPaths(n, I) = FlattenSeq(seqs)
  <2>1. seqs = [i \in 1..n |-> IF i \in I THEN <<<<i>>>> ELSE <<>>]
    OBVIOUS
  <2> QED
    BY <2>1 DEF FieldPaths
<1>3. I # {} => e[Min(I)] = <<Min(I)>> /\ e[Max(I)] = <<Max(I)>>
  <2>1. ASSUME I # {} PROVE Min(I) \in 1..n /\ Max(I) \in 1..n
    <3>1. I \in SUBSET Nat
      OBVIOUS
    <3> QED
      BY <2>1, <3>1, MinIs, MaxIs
  <2> QED
    BY <2>1
<1>4. IsSelection(seqs, n, I, e)
  BY DEF IsSelection
<1> HIDE DEF S, e, seqs
<1>5. /\ FlattenSeq(seqs) \in Seq(S)
      /\ I = {} <=> FlattenSeq(seqs) = <<>>
      /\ I # {} => /\ Head(FlattenSeq(seqs)) = e[Min(I)]
                   /\ Last(FlattenSeq(seqs)) = e[Max(I)]
  BY <1>1, <1>4, SelectionIs
<1> QED
  BY <1>2, <1>3, <1>5 DEF S

LEMMA IndexesAreAlike ==
  ASSUME NEW n \in Nat, NEW found, NEW fields, AreBridged(n, found, fields)
  PROVE  IndexesAgree(found, fields)
<1>1. /\ DOMAIN found = 1..n /\ DOMAIN fields = 1..n
      /\ Len(found) = n /\ Len(fields) = n
      /\ fields \in Seq(RecordField) /\ found \in Seq(FieldObject)
      /\ \A i \in 1..n : fields[i].tag = found[i].tag
  BY BridgedFields
<1> SUFFICES ASSUME NEW tag \in NewTags
             PROVE  LET paths == PathsToFields(fields, tag)
                    IN /\ ContainsField(fields, tag) <=> paths # <<>>
                       /\ paths # <<>> =>
                            /\ Head(paths) = <<FirstIndexOfField(fields, tag)>>
                            /\ Last(paths) = <<LastIndexOfField(fields, tag)>>
                       /\ \A range \in Ranges(fields) :
                            InWhole(ObjectIndexOfFieldIn(found, tag, range), range) =
                              FirstIndexOfFieldIn(fields, tag, range)
  BY DEF IndexesAgree
<1> DEFINE I == WithTagAt(n, fields, tag)
<1>2. PathsToFields(fields, tag) = FieldPaths(n, I)
  BY <1>1, PathsToFieldsAre DEF PathsToFields
<1>3. I \in SUBSET (1..n) /\ I \in SUBSET Nat
  BY DEF WithTagAt
<1>4. /\ FirstIndexOfField(fields, tag) = IF I # {} THEN Min(I) ELSE 0
      /\ LastIndexOfField(fields, tag) = IF I # {} THEN Max(I) ELSE 0
  BY <1>1 DEF FirstIndexOfField, LastIndexOfField, SelectInSeq, SelectLastInSeq, WithTagAt
<1> HIDE DEF I
<1>5. I # {} => Min(I) \in 1..n
  BY <1>3, MinIs
<1>6. /\ I = {} <=> FieldPaths(n, I) = <<>>
      /\ I # {} => /\ Head(FieldPaths(n, I)) = <<Min(I)>>
                   /\ Last(FieldPaths(n, I)) = <<Max(I)>>
  BY <1>3, FieldPathsLead
<1>7. ASSUME NEW range \in Ranges(fields)
      PROVE  ObjectIndexOfFieldIn(found, tag, range)
               = FirstIndexOfField(InRange(fields, range), tag)
  <2> DEFINE f == range.first
             l == range.last
             a == InRange(found, range)
             b == InRange(fields, range)
  <2>1. f \in 1..n /\ l \in 1..n
    BY <1>1 DEF Ranges
  <2>2. /\ Len(a) = IF f <= l THEN l - f + 1 ELSE 0
        /\ \A i \in 1..Len(a) : a[i] = found[f + i - 1]
    BY <1>1, <2>1, SubSeqProperties DEF InRange
  <2>3. /\ Len(b) = IF f <= l THEN l - f + 1 ELSE 0
        /\ \A i \in 1..Len(b) : b[i] = fields[f + i - 1]
    BY <1>1, <2>1, SubSeqProperties DEF InRange
  <2> HIDE DEF a, b
  <2>4. \A i \in 1..Len(a) : a[i].tag = b[i].tag
    <3>1. \A i \in 1..Len(a) : f + i - 1 \in 1..n
      BY <2>1, <2>2
    <3> QED
      BY <1>1, <2>2, <2>3, <3>1
  <2>5. Len(a) = Len(b)
    BY <2>2, <2>3
  <2>6. {i \in 1..Len(a) : a[i].tag = tag} = {i \in 1..Len(b) : b[i].tag = tag}
    BY <2>4, <2>5
  <2> QED
    BY <2>6 DEF ObjectIndexOfFieldIn, FirstIndexOfField, SelectInSeq, a, b
<1>8. \A range \in Ranges(fields) :
        InWhole(ObjectIndexOfFieldIn(found, tag, range), range) =
          FirstIndexOfFieldIn(fields, tag, range)
  BY <1>7 DEF FirstIndexOfFieldIn
<1>9. ContainsField(fields, tag) <=> I # {}
  BY <1>4, <1>5 DEF ContainsField
<1> QED
  BY <1>2, <1>4, <1>6, <1>8, <1>9

LEMMA SubfieldIndexesAreAlike ==
  ASSUME NEW object, IsWhole(object), NEW field, field = FromObject(object)
  PROVE  SubfieldIndexesAgree(object, field)
<1> DEFINE s == SubfieldsOf(field)
<1>1. s \in Seq(Subfields) /\ Len(s) \in Nat /\ DOMAIN s = 1..Len(s)
  BY BridgedSubfields, LenProperties
<1>2. object.subfields = Nil \/ object.subfields = s
  BY BridgedSubfields
<1>3. object.subfields = Nil => s = <<>>
  <2>1. IsDataTag(object.tag) => object.subfields # Nil
    BY BridgedSubfields
  <2> QED
    BY <2>1, BridgedSubfields
<1> HIDE DEF s
<1> SUFFICES ASSUME NEW code \in Codes
             PROVE  /\ SubfieldsWith(field, code) # <<>> =>
                         /\ Head(SubfieldsWith(field, code)) =
                              SubfieldsOf(field)[FirstIndexOfSubfield(field, code)]
                         /\ Last(SubfieldsWith(field, code)) =
                              SubfieldsOf(field)[LastIndexOfSubfield(field, code)]
                    /\ \A range \in Ranges(SubfieldsOf(field)) :
                         ObjectIndexOfSubfieldIn(object, code, range) =
                           FirstIndexOfSubfieldIn(field, code, range)
  BY DEF SubfieldIndexesAgree
<1> DEFINE n == Len(s)
           I == {i \in 1..n : s[i].code = code}
           seqs == [i \in 1..n |-> IF i \in I THEN <<s[i]>> ELSE <<>>]
<1>4. SubfieldsWith(field, code) = FlattenSeq(seqs)
  <2> DEFINE own == [i \in DOMAIN s |-> IF s[i].code = code THEN <<s[i]>> ELSE <<>>]
  <2>1. own = seqs
    BY <1>1
  <2>2. SubfieldsWith(field, code) = FlattenSeq(own)
    BY DEF SubfieldsWith, Selected, s
  <2> QED
    BY <2>1, <2>2
<1>5. /\ FirstIndexOfSubfield(field, code) = IF I # {} THEN Min(I) ELSE 0
      /\ LastIndexOfSubfield(field, code) = IF I # {} THEN Max(I) ELSE 0
  BY DEF FirstIndexOfSubfield, LastIndexOfSubfield, SelectInSeq, SelectLastInSeq, s
<1>6. IsSelection(seqs, n, I, s) /\ n \in Nat /\ I \in SUBSET (1..n)
  BY <1>1 DEF IsSelection
<1>7. \A i \in I : s[i] \in Subfields
  BY <1>1, ElementOfSeq
<1> HIDE DEF seqs, I, n
<1>8. /\ I = {} <=> FlattenSeq(seqs) = <<>>
      /\ I # {} => /\ Head(FlattenSeq(seqs)) = s[Min(I)]
                   /\ Last(FlattenSeq(seqs)) = s[Max(I)]
  BY <1>6, <1>7, SelectionIs
<1>9. SubfieldsWith(field, code) # <<>> =>
        /\ Head(SubfieldsWith(field, code)) =
             SubfieldsOf(field)[FirstIndexOfSubfield(field, code)]
        /\ Last(SubfieldsWith(field, code)) =
             SubfieldsOf(field)[LastIndexOfSubfield(field, code)]
  BY <1>4, <1>5, <1>8 DEF s
<1>10. ASSUME NEW range \in Ranges(SubfieldsOf(field))
       PROVE  ObjectIndexOfSubfieldIn(object, code, range) =
                FirstIndexOfSubfieldIn(field, code, range)
  <2>1. object.subfields # Nil
    <3>1. Len(s) # 0
      BY <1>1, <1>10 DEF Ranges, s
    <3> QED
      BY <1>3, <3>1, EmptySeq
  <2>2. object.subfields = SubfieldsOf(field)
    BY <1>2, <2>1 DEF s
  <2> QED
    BY <2>1, <2>2 DEF ObjectIndexOfSubfieldIn, FirstIndexOfSubfieldIn
<1> QED
  BY <1>9, <1>10

-----------------------------------------------------------------------------
(* Places by path.                                                         *)

WithCodeAt(list, code) == {j \in 1..Len(list) : list[j].code = code}

SubfieldPaths(i, m, J) == FlattenSeq([j \in 1..m |-> IF j \in J THEN <<<<i, j>>>> ELSE <<>>])

LEMMA SubfieldPathsLead ==
  ASSUME NEW i, NEW m \in Nat, NEW J \in SUBSET (1..m)
  PROVE  /\ SubfieldPaths(i, m, J) \in Seq({<<i, j>> : j \in J})
         /\ J = {} => SubfieldPaths(i, m, J) = <<>>
<1> DEFINE S == {<<i, j>> : j \in J}
           e == [j \in 1..m |-> <<i, j>>]
           seqs == [j \in 1..m |-> IF j \in J THEN <<e[j]>> ELSE <<>>]
<1>1. \A j \in J : e[j] \in S
  OBVIOUS
<1>2. SubfieldPaths(i, m, J) = FlattenSeq(seqs)
  <2>1. seqs = [j \in 1..m |-> IF j \in J THEN <<<<i, j>>>> ELSE <<>>]
    OBVIOUS
  <2> QED
    BY <2>1 DEF SubfieldPaths
<1>3. IsSelection(seqs, m, J, e)
  BY DEF IsSelection
<1> HIDE DEF S, e, seqs
<1>4. /\ FlattenSeq(seqs) \in Seq(S)
      /\ J = {} <=> FlattenSeq(seqs) = <<>>
  BY <1>1, <1>3, SelectionIs
<1> QED
  BY <1>2, <1>4 DEF S

WithCodeIf(whether, i, list, code) ==
  Selected([j \in DOMAIN list |-> <<i, j>>], LAMBDA p : whether /\ list[p[2]].code = code)

LEMMA PathsToCodesAre ==
  ASSUME NEW i, NEW list \in Seq(Subfields), NEW code, NEW whether \in BOOLEAN
  PROVE  WithCodeIf(whether, i, list, code)
           = IF whether THEN SubfieldPaths(i, Len(list), WithCodeAt(list, code)) ELSE <<>>
<1> DEFINE m == Len(list)
           J == IF whether THEN WithCodeAt(list, code) ELSE {}
           own == [j \in 1..m |-> <<i, j>>]
           a == [j \in DOMAIN own |->
                   IF whether /\ list[own[j][2]].code = code THEN <<own[j]>> ELSE <<>>]
           b == [j \in 1..m |-> IF j \in J THEN <<<<i, j>>>> ELSE <<>>]
<1>1. DOMAIN list = 1..m /\ m \in Nat
  BY LenProperties
<1>2. a = b
  BY DEF WithCodeAt
<1>3. WithCodeIf(whether, i, list, code) = FlattenSeq(a)
  BY <1>1 DEF WithCodeIf, Selected
<1>4. FlattenSeq(b) = SubfieldPaths(i, m, J)
  BY DEF SubfieldPaths
<1>5. ~whether => SubfieldPaths(i, m, J) = <<>>
  BY <1>1, SubfieldPathsLead
<1> QED
  BY <1>2, <1>3, <1>4, <1>5

(* The parts that the paths of a record are put together from.             *)
CodePaths(n, fields, tag, code) ==
  [i \in 1..n |-> IF fields[i].tag = tag
                  THEN SubfieldPaths(i, Len(SubfieldsOf(fields[i])),
                                     WithCodeAt(SubfieldsOf(fields[i]), code))
                  ELSE <<>>]

LEMMA PathsToSubfieldsAre ==
  ASSUME NEW n \in Nat, NEW fields, DOMAIN fields = 1..n,
         \A i \in 1..n : SubfieldsOf(fields[i]) \in Seq(Subfields), NEW tag, NEW code
  PROVE  PathsToSubfields(fields, tag, code) = FlattenSeq(CodePaths(n, fields, tag, code))
<1> DEFINE Part(i) == Selected([j \in DOMAIN SubfieldsOf(fields[i]) |-> <<i, j>>],
                               LAMBDA p : /\ fields[i].tag = tag
                                          /\ SubfieldsOf(fields[i])[p[2]].code = code)
           parts == [i \in 1..n |-> Part(i)]
<1>1. PathsToSubfields(fields, tag, code) = FlattenSeq(parts)
  BY DEF PathsToSubfields
<1>2. ASSUME NEW i \in 1..n
      PROVE  Part(i) = IF fields[i].tag = tag
                       THEN SubfieldPaths(i, Len(SubfieldsOf(fields[i])),
                                          WithCodeAt(SubfieldsOf(fields[i]), code))
                       ELSE <<>>
  <2> DEFINE whether == fields[i].tag = tag
             list == SubfieldsOf(fields[i])
  <2>1. whether \in BOOLEAN /\ list \in Seq(Subfields)
    OBVIOUS
  <2> HIDE DEF whether, list
  <2>2. WithCodeIf(whether, i, list, code)
           = IF whether THEN SubfieldPaths(i, Len(list), WithCodeAt(list, code)) ELSE <<>>
    BY <2>1, PathsToCodesAre
  <2>3. Part(i) = WithCodeIf(whether, i, list, code)
    BY DEF WithCodeIf, whether, list
  <2> QED
    BY <2>2, <2>3 DEF whether, list
<1> HIDE DEF Part
<1>3. parts = CodePaths(n, fields, tag, code)
  BY <1>2 DEF CodePaths
<1> QED
  BY <1>1, <1>3

LEMMA ObjectPathsToSubfieldsAre ==
  ASSUME NEW n \in Nat, NEW found, NEW fields, AreBridged(n, found, fields),
         NEW path, IsSubfieldPath(path)
  PROVE  ObjectIndexPaths(found, path) = FlattenSeq(CodePaths(n, fields, path.tag, path.code))
<1>1. /\ DOMAIN found = 1..n
      /\ \A i \in 1..n : fields[i].tag = found[i].tag
  BY BridgedFields
<1> DEFINE Part(i) == Selected([j \in DOMAIN found[i].subfields |-> <<i, j>>],
                               LAMBDA p : found[i].subfields[p[2]].code = path.code)
           parts == [i \in 1..n |-> IF found[i].tag # path.tag THEN <<>> ELSE Part(i)]
<1>2. ObjectIndexPaths(found, path) = FlattenSeq(parts)
  BY <1>1 DEF ObjectIndexPaths
<1>3. ASSUME NEW i \in 1..n, found[i].tag = path.tag
      PROVE  Part(i) = SubfieldPaths(i, Len(SubfieldsOf(fields[i])),
                                     WithCodeAt(SubfieldsOf(fields[i]), path.code))
  <2> DEFINE list == SubfieldsOf(fields[i])
  <2>1. found[i].subfields = list /\ list \in Seq(Subfields)
    <3>1. IsWhole(found[i]) /\ fields[i] = FromObject(found[i])
      BY DEF AreBridged
    <3>2. IsDataTag(found[i].tag)
      BY <1>3 DEF IsSubfieldPath
    <3> QED
      BY <3>1, <3>2, BridgedSubfields
  <2> HIDE DEF list
  <2> DEFINE own == [j \in DOMAIN list |-> <<i, j>>]
             a == [j \in DOMAIN own |->
                     IF list[own[j][2]].code = path.code THEN <<own[j]>> ELSE <<>>]
             b == [j \in DOMAIN own |->
                     IF TRUE /\ list[own[j][2]].code = path.code THEN <<own[j]>> ELSE <<>>]
  <2>2. Part(i) = FlattenSeq(a) /\ WithCodeIf(TRUE, i, list, path.code) = FlattenSeq(b)
    BY <2>1 DEF WithCodeIf, Selected
  <2>3. a = b
    OBVIOUS
  <2>4. WithCodeIf(TRUE, i, list, path.code)
          = SubfieldPaths(i, Len(list), WithCodeAt(list, path.code))
    BY <2>1, PathsToCodesAre
  <2> QED
    BY <2>2, <2>3, <2>4 DEF list
<1> HIDE DEF Part
<1>4. parts = CodePaths(n, fields, path.tag, path.code)
  BY <1>1, <1>3 DEF CodePaths
<1> QED
  BY <1>2, <1>4

(* Where a path to subfields leads.                                        *)
IsSubfieldPlace(n, fields, tag, path) ==
  \E i \in 1..n : \E j \in 1..Len(SubfieldsOf(fields[i])) :
    path = <<i, j>> /\ fields[i].tag = tag

LEMMA SubfieldPathsReach ==
  ASSUME NEW n \in Nat, NEW fields,
         \A i \in 1..n : SubfieldsOf(fields[i]) \in Seq(Subfields), NEW tag, NEW code,
         NEW paths, paths = FlattenSeq(CodePaths(n, fields, tag, code)),
         NEW k \in DOMAIN paths
  PROVE  IsSubfieldPlace(n, fields, tag, paths[k])
<1> DEFINE Place(i) == {<<i, j>> : j \in 1..Len(SubfieldsOf(fields[i]))}
           S == UNION {Place(i) : i \in {x \in 1..n : fields[x].tag = tag}}
           parts == CodePaths(n, fields, tag, code)
<1>1. ASSUME NEW i \in 1..n PROVE parts[i] \in Seq(S)
  <2>1. CASE fields[i].tag = tag
    <3> DEFINE m == Len(SubfieldsOf(fields[i]))
               J == WithCodeAt(SubfieldsOf(fields[i]), code)
               T == {<<i, j>> : j \in J}
    <3>1. m \in Nat /\ J \in SUBSET (1..m)
      BY LenProperties DEF WithCodeAt
    <3>2. T \subseteq Place(i)
      BY <3>1
    <3>3. Place(i) \subseteq S
      BY <2>1
    <3>4. parts[i] = SubfieldPaths(i, m, J)
      BY <2>1 DEF CodePaths
    <3> HIDE DEF m, J, S, Place
    <3>5. SubfieldPaths(i, m, J) \in Seq(T)
      BY <3>1, SubfieldPathsLead
    <3>6. T \subseteq S
      BY <3>2, <3>3
    <3> HIDE DEF T
    <3> QED
      BY <3>4, <3>5, <3>6, SeqMonotonic
  <2>2. CASE fields[i].tag # tag
    BY <2>2, EmptySeq DEF CodePaths
  <2> QED
    BY <2>1, <2>2
<1>2. parts \in Seq(Seq(S))
  <2>1. DOMAIN parts = 1..n /\ parts = [i \in 1..n |-> parts[i]]
    BY DEF CodePaths
  <2> HIDE DEF parts, S
  <2> QED
    BY <1>1, <2>1, FunctionIsSeq
<1> HIDE DEF S
<1>3. paths \in Seq(S)
  BY <1>2, FlattenIs
<1>4. paths[k] \in S
  BY <1>3, ElementOfSeq, LenProperties
<1> QED
  BY <1>4 DEF S, IsSubfieldPlace

LEMMA FieldPathsReach ==
  ASSUME NEW n \in Nat, NEW I \in SUBSET (1..n), NEW k \in DOMAIN FieldPaths(n, I)
  PROVE  \E i \in I : FieldPaths(n, I)[k] = <<i>>
<1> DEFINE S == {<<i>> : i \in I}
           paths == FieldPaths(n, I)
<1>1. paths \in Seq(S)
  BY FieldPathsLead
<1> HIDE DEF S
<1>2. paths[k] \in S
  <2> HIDE DEF paths
  <2>1. k \in DOMAIN paths
    BY DEF paths
  <2> QED
    BY <1>1, <2>1, ElementOfSeq, LenProperties
<1> QED
  BY <1>2 DEF S

(* The text of a data field has three pieces for each subfield: the last   *)
(* is its content.                                                         *)
LEMMA EveryThirdIsContent ==
  ASSUME NEW list \in Seq(Subfields), NEW text,
         text = FlattenSeq([i \in DOMAIN list |-> <<"mark", list[i].code, list[i].content>>])
  PROVE  [j \in 1..(Len(text) \div 3) |-> text[3 * j]] = [i \in DOMAIN list |-> list[i].content]
<1> DEFINE n == Len(list)
           Piece(i) == <<"mark", list[i].code, list[i].content>>
           S == {"mark"} \cup {list[i].code : i \in 1..n} \cup {list[i].content : i \in 1..n}
           pieces == [i \in 1..n |-> Piece(i)]
<1>1. DOMAIN list = 1..n /\ n \in Nat
  BY LenProperties
<1>2. \A i \in 1..n : Piece(i) \in Seq(S) /\ Len(Piece(i)) = 3 /\ Piece(i)[3] = list[i].content
  OBVIOUS
<1>3. text = FlattenSeq(pieces)
  BY <1>1
<1>4. DOMAIN pieces = 1..n /\ pieces = [i \in 1..n |-> pieces[i]]
      /\ \A i \in 1..n : pieces[i] = Piece(i)
  OBVIOUS
<1> HIDE DEF S, Piece, pieces, n
<1>5. pieces \in Seq(Seq(S)) /\ Len(pieces) = n
  BY <1>1, <1>2, <1>4, FunctionIsSeq
<1>6. PICK places : ArePlaces(places, pieces, text)
  BY <1>3, <1>5, FlattenIs
<1>7. text \in Seq(S) /\ Len(text) \in Nat
  BY <1>3, <1>5, FlattenIs, LenProperties
<1>8. ASSUME NEW i \in 1..n
      PROVE  /\ places[i] = places[i - 1] + 3
             /\ text[places[i - 1] + 3] = list[i].content
  <2>1. Len(pieces[i]) = 3 /\ pieces[i][3] = list[i].content
    BY <1>2, <1>4
  <2>2. 3 \in 1..Len(pieces[i])
    BY <2>1
  <2> QED
    BY <1>5, <1>6, <2>1, <2>2 DEF ArePlaces
<1> DEFINE T == {i \in 0..n : places[i] = 3 * i}
<1>9. 0 \in T
  BY <1>1, <1>6 DEF ArePlaces
<1>10. ASSUME NEW i \in 1..n, i - 1 \in T PROVE i \in T
  BY <1>1, <1>8, <1>10
<1> HIDE DEF T
<1>11. \A i \in 0..n : i \in T
  BY <1>1, <1>9, <1>10, UpTo
<1>12. Len(text) = 3 * n
  <2>1. n \in T
    BY <1>1, <1>11
  <2> QED
    BY <1>5, <1>6, <2>1 DEF ArePlaces, T
<1>13. ASSUME NEW i \in 1..n PROVE text[3 * i] = list[i].content
  <2>1. i - 1 \in T
    BY <1>1, <1>11
  <2>2. places[i - 1] = 3 * (i - 1)
    BY <2>1 DEF T
  <2>3. places[i - 1] + 3 = 3 * i
    BY <1>1, <2>2
  <2> QED
    BY <1>8, <2>3
<1>14. Len(text) \div 3 = n
  <2>1. n \in Nat => (3 * n) \div 3 = n
    OBVIOUS
  <2> QED
    BY <1>1, <1>12, <2>1
<1> QED
  BY <1>1, <1>13, <1>14

LEMMA PathIsBridged ==
  ASSUME NEW path \in PathsSearched
  PROVE  /\ path.tag \in Tag
         /\ PathObject(path).tag = path.tag
         /\ path.tag # ZeroTag => PathObject(path).code = path.code
                                  /\ PathValue(PathObject(path)) = path
         /\ IsSubfieldPath(PathObject(path)) <=> path.tag # ZeroTag /\ path.code # Nil
<1>1. path \in [tag : NewTags, code : Codes \cup {Nil}] /\ IsPath(path)
  BY DEF PathsSearched
<1>2. path.tag \in Tag
  BY <1>1, RecordsAssumption
<1>3. path = [tag |-> path.tag, code |-> path.code]
  BY <1>1
<1>4. IsControlTag(path.tag) => path.code = Nil
  BY <1>1 DEF IsPath
<1>5. PathObject(path) = path
  BY <1>3, <1>4 DEF PathObject
<1>6. ~IsControlTag(ZeroTag)
  BY DEF IsControlTag
<1>7. IsSubfieldPath(path) <=> path.tag # ZeroTag /\ path.code # Nil
  BY <1>4 DEF IsSubfieldPath, IsDataTag
<1>8. path.tag # ZeroTag => PathValue(path) = path
  BY <1>3, <1>7 DEF PathValue
<1> QED
  BY <1>2, <1>5, <1>7, <1>8

(* A text is the same but for the codes of the subfields it is of.         *)
LEMMA ContentIsAlike ==
  ASSUME NEW n \in Nat, NEW found, NEW fields, AreBridged(n, found, fields),
         NEW i \in 1..n, fields[i].tag # ZeroTag
  PROVE  LET content == ContentAt(fields, <<i>>)
         IN ObjectContentAt(found, <<i>>) =
              IF IsDataTag(fields[i].tag)
              THEN [j \in 1..(Len(content) \div 3) |-> content[3 * j]]
              ELSE content
<1> DEFINE object == found[i]
           field == fields[i]
<1>1. /\ IsWhole(object) /\ field = FromObject(object)
      /\ field.tag = object.tag /\ object.tag \in Tag
  BY BridgedFields DEF AreBridged
<1>2. ContentAt(fields, <<i>>) = StringValue(field)
  BY DEF ContentAt
<1>3. CASE IsControlTag(object.tag)
  <2>1. /\ field.content.is = "control" /\ field.content.value = object.controlValue
        /\ ~IsDataTag(object.tag)
    BY <1>1, <1>3, BridgedSubfields, TagIsOfOneKind
  <2>2. StringValue(field) = <<object.controlValue>>
    BY <2>1 DEF StringValue
  <2>3. ObjectContentAt(found, <<i>>) = <<object.controlValue>>
    BY <1>3 DEF ObjectContentAt
  <2> QED
    BY <1>1, <1>2, <2>1, <2>2, <2>3
<1>4. CASE ~IsControlTag(object.tag)
  <2>1. IsDataTag(object.tag)
    BY <1>1, <1>4 DEF IsDataTag
  <2>2. /\ field.content.is = "data" /\ SubfieldsOf(field) = object.subfields
        /\ object.subfields \in Seq(Subfields)
    BY <1>1, <2>1, BridgedSubfields
  <2> DEFINE list == object.subfields
             text == StringValue(field)
  <2>3. text = FlattenSeq([k \in DOMAIN list |-> <<"mark", list[k].code, list[k].content>>])
    BY <2>2 DEF StringValue
  <2>4. ObjectContentAt(found, <<i>>) = [k \in DOMAIN list |-> list[k].content]
    BY <1>4, <2>1 DEF ObjectContentAt
  <2>5. [j \in 1..(Len(text) \div 3) |-> text[3 * j]] = [k \in DOMAIN list |-> list[k].content]
    <3> HIDE DEF list, text
    <3>1. list \in Seq(Subfields)
      BY <2>2 DEF list
    <3> QED
      BY <2>3, <3>1, EveryThirdIsContent
  <2> QED
    BY <1>1, <1>2, <2>1, <2>4, <2>5
<1> QED
  BY <1>3, <1>4

LEMMA PathsAreAlike ==
  ASSUME NEW n \in Nat, NEW found, NEW fields, AreBridged(n, found, fields)
  PROVE  PathsAgree(found, fields)
<1>1. /\ DOMAIN found = 1..n /\ DOMAIN fields = 1..n
      /\ \A i \in 1..n : fields[i].tag = found[i].tag
  BY BridgedFields
<1>2. \A i \in 1..n : /\ IsWhole(found[i]) /\ fields[i] = FromObject(found[i])
                      /\ SubfieldsOf(fields[i]) \in Seq(Subfields)
  <2>1. \A i \in 1..n : IsWhole(found[i]) /\ fields[i] = FromObject(found[i])
    BY DEF AreBridged
  <2> QED
    BY <2>1, BridgedSubfields
<1> SUFFICES ASSUME NEW path \in PathsSearched
             PROVE  LET paths == IndexPaths(fields, path)
                    IN IF path.tag = ZeroTag
                       THEN ObjectIndexPaths(found, PathObject(path)) = <<>>
                       ELSE /\ PathValue(PathObject(path)) = path
                            /\ ObjectIndexPaths(found, PathObject(path)) = paths
                            /\ \A k \in DOMAIN paths :
                                 LET content == ContentAt(fields, paths[k])
                                 IN ObjectContentAt(found, paths[k]) =
                                      IF IsDataTag(path.tag) /\ path.code = Nil
                                      THEN [j \in 1..(Len(content) \div 3) |-> content[3 * j]]
                                      ELSE content
  BY DEF PathsAgree
<1> DEFINE object == PathObject(path)
           paths == IndexPaths(fields, path)
<1>3. /\ path.tag \in Tag /\ object.tag = path.tag
      /\ path.tag # ZeroTag => object.code = path.code /\ PathValue(object) = path
      /\ IsSubfieldPath(object) <=> path.tag # ZeroTag /\ path.code # Nil
  BY PathIsBridged
<1> HIDE DEF object
<1>4. CASE path.tag = ZeroTag
  <2>1. ~IsSubfieldPath(object) /\ ~IsControlTag(object.tag) /\ ~IsDataTag(object.tag)
    BY <1>3, <1>4 DEF IsControlTag, IsDataTag
  <2>2. ObjectIndexPaths(found, object) = <<>>
    BY <2>1 DEF ObjectIndexPaths
  <2> QED
    BY <1>4, <2>2 DEF object
<1>5. CASE path.tag # ZeroTag /\ path.code = Nil
  <2> DEFINE I == WithTagAt(n, fields, path.tag)
  <2>1. paths = FieldPaths(n, I)
    BY <1>1, <1>5, PathsToFieldsAre DEF IndexPaths, PathsToFields
  <2>2. WithTagAt(n, found, path.tag) = I
    BY <1>1 DEF WithTagAt
  <2>3. ~IsSubfieldPath(object) /\ (IsControlTag(object.tag) \/ IsDataTag(object.tag))
    BY <1>3, <1>5 DEF IsDataTag
  <2>4. ObjectIndexPaths(found, object)
          = Selected([i \in DOMAIN found |-> <<i>>], LAMBDA p : found[p[1]].tag = path.tag)
    BY <1>3, <2>3 DEF ObjectIndexPaths
  <2>5. ObjectIndexPaths(found, object) = paths
    BY <1>1, <2>1, <2>2, <2>4, PathsToFieldsAre
  <2>6. ASSUME NEW k \in DOMAIN paths
        PROVE  LET content == ContentAt(fields, paths[k])
               IN ObjectContentAt(found, paths[k]) =
                    IF IsDataTag(path.tag)
                    THEN [j \in 1..(Len(content) \div 3) |-> content[3 * j]]
                    ELSE content
    <3>1. I \in SUBSET (1..n) /\ \A i \in I : fields[i].tag = path.tag
      BY DEF WithTagAt
    <3> HIDE DEF I
    <3>2. PICK i \in I : paths[k] = <<i>>
      BY <2>1, <3>1, FieldPathsReach
    <3>3. i \in 1..n /\ fields[i].tag = path.tag
      BY <3>1
    <3> QED
      BY <1>5, <3>2, <3>3, ContentIsAlike
  <2> QED
    BY <1>3, <1>5, <2>5, <2>6 DEF object
<1>6. CASE path.tag # ZeroTag /\ path.code # Nil
  <2>1. paths = FlattenSeq(CodePaths(n, fields, path.tag, path.code))
    BY <1>1, <1>2, <1>6, PathsToSubfieldsAre DEF IndexPaths
  <2>2. ObjectIndexPaths(found, object) = paths
    BY <1>3, <1>6, <2>1, ObjectPathsToSubfieldsAre
  <2>3. ASSUME NEW k \in DOMAIN paths
        PROVE  ObjectContentAt(found, paths[k]) = ContentAt(fields, paths[k])
    <3>1. PICK i \in 1..n : \E j \in 1..Len(SubfieldsOf(fields[i])) :
                              paths[k] = <<i, j>> /\ fields[i].tag = path.tag
      <4>1. \A i \in 1..n : SubfieldsOf(fields[i]) \in Seq(Subfields)
        BY <1>2
      <4>2. IsSubfieldPlace(n, fields, path.tag, paths[k])
        <5> HIDE DEF paths
        <5> QED
          BY <2>1, <4>1, SubfieldPathsReach
      <4> QED
        BY <4>2 DEF IsSubfieldPlace
    <3>2. PICK j \in 1..Len(SubfieldsOf(fields[i])) :
                 paths[k] = <<i, j>> /\ fields[i].tag = path.tag
      BY <3>1
    <3>3. IsDataTag(found[i].tag)
      <4>1. IsDataTag(path.tag)
        BY <1>3, <1>6 DEF IsSubfieldPath
      <4> QED
        BY <1>1, <3>2, <4>1
    <3>4. found[i].subfields = SubfieldsOf(fields[i])
      BY <1>2, <3>3, BridgedSubfields
    <3> HIDE DEF paths
    <3>5. /\ Len(<<i, j>>) = 2 /\ <<i, j>>[1] = i /\ <<i, j>>[2] = j
      OBVIOUS
    <3>6. ObjectContentAt(found, <<i, j>>) = <<found[i].subfields[j].content>>
      BY <3>5 DEF ObjectContentAt
    <3>7. ContentAt(fields, <<i, j>>) = <<SubfieldsOf(fields[i])[j].content>>
      BY <3>5 DEF ContentAt
    <3> QED
      BY <3>2, <3>4, <3>6, <3>7
  <2> QED
    BY <1>3, <1>6, <2>2, <2>3 DEF object
<1> QED
  BY <1>4, <1>5, <1>6

(* Whatever is copied, bridged and edited, the search of a record's        *)
(* objects finds what the search of its values does.                       *)
THEOREM SearchesFindAlike ==
  Spec => []SearchesAgree
<1>1. IInv => SearchesAgree
  <2> SUFFICES ASSUME IInv, NEW n \in Names, Live(n)
               PROVE  LET found == ObjectsOf(n)
                          fields == Bridged(n).fields
                      IN /\ PathsAgree(found, fields)
                         /\ IndexesAgree(found, fields)
                         /\ \A i \in DOMAIN fields : SubfieldIndexesAgree(found[i], fields[i])
    BY DEF SearchesAgree
  <2> DEFINE found == ObjectsOf(n)
             fields == Bridged(n).fields
             m == Len(records[n].fields)
  <2>1. m \in Nat /\ \A i \in 1..m : records[n].fields[i] \in Held(objects)
    <3>1. records[n].fields \in Seq(Nat)
      BY LiveMatches DEF Matches, RecordObject
    <3>2. records[n] # Nil /\ IsKept(objects, records, values)
      BY DEF Live, IInv
    <3> QED
      BY <3>1, <3>2, FieldsAreHeld, LenProperties
  <2>2. found = [i \in 1..m |-> objects[records[n].fields[i]]]
    BY DEF ObjectsOf
  <2>3. fields = [i \in 1..m |-> FromObject(objects[records[n].fields[i]])]
    BY DEF Bridged
  <2>4. \A i \in 1..m : IsWhole(objects[records[n].fields[i]])
    <3>1. objects \in Seq(Objects)
      BY DEF IInv, IsKept
    <3> QED
      BY <2>1, <3>1, HeldIsWhole
  <2> HIDE DEF found, fields, m
  <2>5. AreBridged(m, found, fields)
    BY <2>2, <2>3, <2>4 DEF AreBridged
  <2>6. ASSUME NEW i \in DOMAIN fields PROVE SubfieldIndexesAgree(found[i], fields[i])
    <3>1. i \in 1..m
      BY <2>3
    <3>2. IsWhole(found[i]) /\ fields[i] = FromObject(found[i])
      BY <2>5, <3>1 DEF AreBridged
    <3> QED
      BY <3>2, SubfieldIndexesAreAlike
  <2> QED
    BY <2>1, <2>5, <2>6, PathsAreAlike, IndexesAreAlike DEF found, fields
<1> QED
  BY <1>1, InvariantHolds, PTL

=============================================================================

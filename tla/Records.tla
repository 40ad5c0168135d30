------------------------------- MODULE Records -------------------------------
(***************************************************************************)
(* Records as a client has them: BibRecord and BibMutableRecord objects,   *)
(* made from Swift values, copied, edited and bridged back, each beside    *)
(* the Swift Record that is edited the same way.  Values are copied whenever *)
(* they are handed on; a mutable record hands its copies the very field    *)
(* objects it has, and swaps an immutable field for a mutable copy when    *)
(* its fields are asked for.                                               *)
(***************************************************************************)
EXTENDS RecordSearch, FiniteSets

CONSTANTS
  Names,       \* what the client calls its records
  Originals,   \* the Swift records it starts from
  Leaders,     \* the leaders it gives them
  NewTags,     \* the tags it gives fields
  NewFields,   \* the fields it adds, as Swift values
  EditLimit    \* BOUND: the edits of a behaviour

Record == [leader : Leaders, fields : Seq(RecordField)]

ASSUME RecordsAssumption ==
  /\ Nil \notin Values \cup Indicators \cup {"", Blank}
  /\ Nil \notin Seq(Subfields)
  /\ Nil \notin IndicatorPairs
  /\ Nil \notin [mutable : BOOLEAN, leader : Leaders, fields : Seq(Nat)]
  /\ Nil \notin Record
  /\ Nil \notin FieldObject
  /\ NewTags \subseteq Tag
  /\ NewFields \subseteq {f \in RecordField : Fits(f.tag, f.content)}
  /\ \A original \in Originals :
       /\ original \in Record
       /\ \A i \in DOMAIN original.fields :
            Fits(original.fields[i].tag, original.fields[i].content)

VARIABLES
  objects,   \* the field objects that were made; Nil where none was needed
  records,   \* the record object of a name: its fields are indexes of objects
  values,    \* the Swift record of a name
  kin,       \* the records a record may share fields with: it was copied from
             \* a mutable one, or has been given another one's fields
  parted,    \* the names whose object and value were not changed alike
  edits

vars == <<objects, records, values, kin, parted, edits>>

-----------------------------------------------------------------------------

Live(n) == records[n] # Nil

(* The lazy array of a mutable record, when all of it is read.             *)
IsStale(n, i) == records[n].mutable /\ ~objects[records[n].fields[i]].mutable

ReadObjects(n) ==
  IF \A i \in DOMAIN records[n].fields : ~IsStale(n, i) THEN objects
  ELSE objects \o [i \in 1..Len(records[n].fields) |->
                     IF IsStale(n, i) THEN CopyOf(objects[records[n].fields[i]], TRUE) ELSE Nil]

ReadFields_AsTheyAre(n) == records[n].fields

ReadFields(n) ==
  [i \in 1..Len(records[n].fields) |->
     IF IsStale(n, i) THEN Len(objects) + i ELSE records[n].fields[i]]

(* The record bridged to a value.                                          *)
Bridged(n) ==
  [leader |-> records[n].leader,
   fields |-> [i \in 1..Len(records[n].fields) |-> FromObject(objects[records[n].fields[i]])]]

-----------------------------------------------------------------------------

Init ==
  /\ objects = <<>>
  /\ records = [n \in Names |-> Nil]
  /\ values = [n \in Names |-> Nil]
  /\ kin = [n \in Names |-> {}]
  /\ parted = {}
  /\ edits = 0

(* A Swift record is bridged: an immutable record of immutable fields.     *)
Bridge(n, value) ==
  /\ ~Live(n)
  /\ objects' = objects \o [i \in 1..Len(value.fields) |-> ToObject(value.fields[i])]
  /\ records' = [records EXCEPT ![n] =
       [mutable |-> FALSE, leader |-> value.leader,
        fields |-> [i \in 1..Len(value.fields) |-> Len(objects) + i]]]
  /\ values' = [values EXCEPT ![n] = value]
  /\ UNCHANGED <<kin, parted, edits>>

(* copy and mutableCopy.  An immutable record is its own copy.  The fields *)
(* of a mutable record are read to be handed to the new one; those of an   *)
(* immutable record are handed as they are, and may be mutable too.        *)
CopyLeavesFields(n) == ~records[n].mutable /\ kin[n] = {}

MakeCopy(n, copy, mutable) ==
  /\ Live(n)
  /\ ~Live(copy)
  /\ objects' = ReadObjects(n)
  /\ records' = [records EXCEPT
       ![n].fields = ReadFields(n),
       ![copy] = [mutable |-> mutable, leader |-> records[n].leader, fields |-> ReadFields(n)]]
  /\ values' = [values EXCEPT ![copy] = values[n]]
  /\ parted' = IF n \in parted THEN parted \cup {copy} ELSE parted
  /\ kin' = IF CopyLeavesFields(n) THEN kin
            ELSE [k \in Names |->
                    IF k = copy THEN {n} \cup kin[n]
                    ELSE IF k = n \/ k \in kin[n] THEN kin[k] \cup {copy}
                    ELSE kin[k]]
  /\ UNCHANGED edits

(* Any question about a record's fields reads them.                        *)
Read(n) ==
  /\ Live(n)
  /\ objects' = ReadObjects(n)
  /\ records' = [records EXCEPT ![n].fields = ReadFields(n)]
  /\ UNCHANGED <<values, kin, parted, edits>>

(* The record as Record: the value is made anew.                           *)
BridgeBack(n) ==
  /\ Live(n)
  /\ objects' = ReadObjects(n)
  /\ records' = [records EXCEPT ![n].fields = ReadFields(n)]
  /\ values' = [values EXCEPT ![n] = Bridged(n)]
  /\ parted' = parted \ {n}
  /\ UNCHANGED <<kin, edits>>

-----------------------------------------------------------------------------

(* The edits of a mutable record's own.                                    *)
Edit(n) ==
  /\ Live(n)
  /\ records[n].mutable
  /\ edits < EditLimit
  /\ edits' = edits + 1

SetLeader(n, leader) ==
  /\ Edit(n)
  /\ records' = [records EXCEPT ![n].leader = leader]
  /\ values' = [values EXCEPT ![n].leader = leader]
  /\ UNCHANGED <<objects, kin, parted>>

(* A new mutable field: the copy of a bridged one, or made of a tag.       *)
IsNewObject(object, field) ==
  \/ object = CopyOf(ToObject(field), TRUE)
  \/ field = NewField(field.tag) /\ object = InitWithFieldTag(TRUE, field.tag)

InsertField(n, i, field, object) ==
  /\ Edit(n)
  /\ objects' = Append(objects, object)
  /\ records' = [records EXCEPT ![n].fields = InsertAt(@, i, Len(objects) + 1)]
  /\ values' = [values EXCEPT ![n].fields = InsertAt(@, i, field)]
  /\ UNCHANGED <<kin, parted>>

ReplaceField(n, i, field, object) ==
  /\ Edit(n)
  /\ objects' = Append(objects, object)
  /\ records' = [records EXCEPT ![n].fields = ReplaceAt(@, i, Len(objects) + 1)]
  /\ values' = [values EXCEPT ![n].fields = ReplaceAt(@, i, field)]
  /\ UNCHANGED <<kin, parted>>

RemoveField(n, i) ==
  /\ Edit(n)
  /\ records' = [records EXCEPT ![n].fields = RemoveAt(@, i)]
  /\ values' = [values EXCEPT ![n].fields = RemoveAt(@, i)]
  /\ UNCHANGED <<objects, kin, parted>>

(* n is given the fields of m: the same objects, copies of the values.     *)
SetFields(n, m) ==
  /\ Edit(n)
  /\ n # m
  /\ Live(m)
  /\ records[m].mutable
  /\ objects' = ReadObjects(m)
  /\ records' = [records EXCEPT ![m].fields = ReadFields(m), ![n].fields = ReadFields(m)]
  /\ values' = [values EXCEPT ![n].fields = values[m].fields]
  /\ kin' = [k \in Names |->
               IF k = n THEN (kin[n] \cup {m} \cup kin[m]) \ {n}
               ELSE IF k = m \/ k \in kin[m] THEN kin[k] \cup {n}
               ELSE kin[k]]
  /\ parted' = IF m \in parted THEN parted \cup {n} ELSE parted \ {n}

-----------------------------------------------------------------------------

(* An edit of a field of a mutable record, which is read to get at it, and *)
(* of the value's field.  The other records that have the field change     *)
(* with it, their values do not; `parts` when the two edits themselves     *)
(* leave something else.                                                   *)
Sharing(n, id) == {k \in kin[n] : id \in Range(records[k].fields)}

EditField(n, i, after, fieldAfter, parts) ==
  LET id == ReadFields(n)[i]
  IN /\ Edit(n)
     /\ objects' = [ReadObjects(n) EXCEPT ![id] = after]
     /\ records' = [records EXCEPT ![n].fields = ReadFields(n)]
     /\ values' = [values EXCEPT ![n].fields[i] = fieldAfter]
     /\ parted' = parted \cup Sharing(n, id) \cup (IF parts THEN {n} ELSE {})
     /\ UNCHANGED kin

(* The field of n at i, read to be edited.                                 *)
FieldObjectAt(n, i) == ReadObjects(n)[ReadFields(n)[i]]
FieldValueAt(n, i) == values[n].fields[i]

(* What setting a tag does to an object and not to a value: nothing when a *)
(* data tag follows a data tag; the value is lost when a control tag       *)
(* follows a control tag; a field that was 000 is given its parts.         *)
TagParts(before, tag) ==
  \/ IsDataTag(before) /\ IsDataTag(tag) /\ before # tag
  \/ IsControlTag(before) /\ IsControlTag(tag)
  \/ before = ZeroTag /\ tag # ZeroTag

(* A tag that is equal to the field's may be the same object or another:   *)
(* tags come from two caches that may forget them.                         *)
SetTag(n, i, tag) ==
  LET before == FieldObjectAt(n, i)
  IN \/ EditField(n, i, SetFieldTag(before, tag), WithTag(FieldValueAt(n, i), tag),
                  TagParts(before.tag, tag))
     \/ /\ tag = before.tag
        /\ EditField(n, i, before, WithTag(FieldValueAt(n, i), tag), FALSE)

SetValue(n, i, value) ==
  EditField(n, i, SetControlValue(FieldObjectAt(n, i), value),
            WithControlValue(FieldValueAt(n, i), value), FALSE)

SetIndicators(n, i, first, second) ==
  EditField(n, i,
    SetSecondIndicator(SetFirstIndicator(FieldObjectAt(n, i), first), second),
    WithIndicators(FieldValueAt(n, i), <<first, second>>), FALSE)

ClearIndicators(n, i) ==
  EditField(n, i,
    SetSecondIndicator(SetFirstIndicator(FieldObjectAt(n, i), Nil), Nil),
    WithIndicators(FieldValueAt(n, i), Nil), FALSE)

ReplaceSubfields(n, i, subfields) ==
  EditField(n, i, SetSubfields(FieldObjectAt(n, i), subfields),
            WithSubfields(FieldValueAt(n, i), subfields), FALSE)

(* Not of a field whose array raises.                                      *)
AddSubfield(n, i, subfield) ==
  LET object == FieldObjectAt(n, i)
      field == FieldValueAt(n, i)
  IN /\ TakesSubfields(object)
     /\ EditField(n, i,
                  ChangeSubfields(object, Append(object.subfields, subfield)),
                  WithSubfields(field, Append(SubfieldsOf(field), subfield)), FALSE)

RemoveSubfield(n, i, j) ==
  LET object == FieldObjectAt(n, i)
      field == FieldValueAt(n, i)
  IN /\ TakesSubfields(object)
     /\ object.subfields # Nil => j \in 1..Len(object.subfields)
     /\ j \in 1..Len(SubfieldsOf(field))
     /\ EditField(n, i,
                  ChangeSubfields(object, RemoveAt(object.subfields, j)),
                  WithSubfields(field, RemoveAt(SubfieldsOf(field), j)), FALSE)

ChangeField(n, i) ==
  \/ \E tag \in NewTags : SetTag(n, i, tag)
  \/ \E value \in Values \cup {Nil} : SetValue(n, i, value)
  \/ \E first, second \in Indicators : SetIndicators(n, i, first, second)
  \/ ClearIndicators(n, i)
  \/ \E subfield \in Subfields : ReplaceSubfields(n, i, <<subfield>>)
  \/ \E subfield \in Subfields : AddSubfield(n, i, subfield)
  \/ \E j \in 1..Len(SubfieldsOf(FieldValueAt(n, i))) : RemoveSubfield(n, i, j)

Next ==
  \E n \in Names :
    \/ \E value \in Originals : Bridge(n, value)
    \/ \E copy \in Names, mutable \in BOOLEAN : MakeCopy(n, copy, mutable)
    \/ Read(n)
    \/ BridgeBack(n)
    \/ \E leader \in Leaders : SetLeader(n, leader)
    \/ \E m \in Names : SetFields(n, m)
    \/ /\ Live(n)
       /\ \E i \in 1..Len(records[n].fields) + 1, field \in NewFields :
            \E object \in {CopyOf(ToObject(field), TRUE), InitWithFieldTag(TRUE, field.tag)} :
              IsNewObject(object, field) /\ InsertField(n, i, field, object)
    \/ /\ Live(n)
       /\ \E i \in 1..Len(records[n].fields) :
            \/ \E field \in NewFields : ReplaceField(n, i, field, CopyOf(ToObject(field), TRUE))
            \/ RemoveField(n, i)
            \/ ChangeField(n, i)

Spec == Init /\ [][Next]_vars

-----------------------------------------------------------------------------

ObjectsOf(n) == [i \in 1..Len(records[n].fields) |-> objects[records[n].fields[i]]]

(* The parts an object's tag goes with, and no others.                     *)
HasItsParts(object) ==
  /\ object.controlValue # Nil <=> IsControlTag(object.tag)
  /\ object.firstIndicator # Nil <=> IsDataTag(object.tag)
  /\ object.secondIndicator # Nil <=> IsDataTag(object.tag)
  /\ object.subfields # Nil <=> IsDataTag(object.tag)

(* However a field object was made, copied and edited, it has a control    *)
(* value exactly under a control tag, and both indicators and a list of    *)
(* subfields exactly under a data tag: the notes "never nil" and "nil" of  *)
(* BibRecordField.h, on which bridging a field and writing it rely.        *)
FieldHasItsParts ==
  \A k \in DOMAIN objects :
    objects[k] = Nil \/ (objects[k] \in FieldObject /\ HasItsParts(objects[k]))

(* A Swift field never has the content of the other kind of tag, so that a *)
(* field that was encoded can be decoded.  It may have no content under    *)
(* any tag: a field that was 000 is not given one, and is not decoded.     *)
ContentFitsItsTag ==
  \A n \in Names : Live(n) =>
    \A i \in DOMAIN values[n].fields :
      LET field == values[n].fields[i]
      IN field.content = NoContent \/ Decodes(Encoded(field))

(* An object and the value that were changed alike are still bridged to    *)
(* each other, whatever was done to the records that were copied from them *)
(* or that they were copied from, except through a field that is shared    *)
(* because a mutable record was copied.                                    *)
ObjectsAgreeWithValues ==
  \A n \in Names : Live(n) /\ n \notin parted => Bridged(n) = values[n]

(* The searches.                                                           *)
Ranges(seq) ==
  {[first |-> f, last |-> l] : f \in 1..Len(seq), l \in 1..Len(seq)}

Codes == {s.code : s \in Subfields}

PathsSearched == {path \in [tag : NewTags, code : Codes \cup {Nil}] : IsPath(path)}

(* A path leads to the same places and texts; none leads to 000.           *)
PathsAgree(found, fields) ==
  \A path \in PathsSearched :
    LET paths == IndexPaths(fields, path)
    IN IF path.tag = ZeroTag
       THEN ObjectIndexPaths(found, PathObject(path)) = <<>>
       ELSE /\ PathValue(PathObject(path)) = path
            /\ ObjectIndexPaths(found, PathObject(path)) = paths
            /\ \A k \in DOMAIN paths :
                 LET content == ContentAt(fields, paths[k])
                 IN ObjectContentAt(found, paths[k]) =
                      IF IsDataTag(path.tag) /\ path.code = Nil
                      THEN [j \in 1..(Len(content) \div 3) |-> content[3 * j]]
                      ELSE content

(* The first and the last are those of the path, and a part of the record  *)
(* or field is searched as the whole is.                                   *)
IndexesAgree(found, fields) ==
  \A tag \in NewTags :
    LET paths == PathsToFields(fields, tag)
    IN /\ ContainsField(fields, tag) <=> paths # <<>>
       /\ paths # <<>> =>
            /\ Head(paths) = <<FirstIndexOfField(fields, tag)>>
            /\ Last(paths) = <<LastIndexOfField(fields, tag)>>
       /\ \A range \in Ranges(fields) :
            InWhole(ObjectIndexOfFieldIn(found, tag, range), range) =
              FirstIndexOfFieldIn(fields, tag, range)

SubfieldIndexesAgree(object, field) ==
  \A code \in Codes :
    /\ SubfieldsWith(field, code) # <<>> =>
         /\ Head(SubfieldsWith(field, code)) =
              SubfieldsOf(field)[FirstIndexOfSubfield(field, code)]
         /\ Last(SubfieldsWith(field, code)) =
              SubfieldsOf(field)[LastIndexOfSubfield(field, code)]
    /\ \A range \in Ranges(SubfieldsOf(field)) :
         ObjectIndexOfSubfieldIn(object, code, range) =
           FirstIndexOfSubfieldIn(field, code, range)

(* The search of the record's objects finds what that of its values does,  *)
(* in whole and in part, by tag, by code and by path, but for the start of *)
(* the range of fields and the paths to 000.                               *)
SearchesAgree ==
  \A n \in Names : Live(n) =>
    LET found == ObjectsOf(n)
        fields == Bridged(n).fields
    IN /\ PathsAgree(found, fields)
       /\ IndexesAgree(found, fields)
       /\ \A i \in DOMAIN fields : SubfieldIndexesAgree(found[i], fields[i])

=============================================================================

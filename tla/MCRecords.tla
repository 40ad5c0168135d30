------------------------------ MODULE MCRecords ------------------------------
(***************************************************************************)
(* Records, checked for four names: as many as it takes for a copy of a    *)
(* copy to share the fields of a mutable record.  The record has a field   *)
(* of either kind, and there are two tags of each.                         *)
(***************************************************************************)
EXTENDS Records, TLC

MCZero == <<0, 0, 0>>
MCControl == <<0, 0, 1>>
MCTitle == <<2, 4, 5>>

MCSubfields == {[code |-> "a", content |-> "t"], [code |-> "b", content |-> "u"]}

MCControlField == [tag |-> MCControl, content |-> ControlContent("x")]
MCTitleField ==
  [tag |-> MCTitle,
   content |-> DataContent(<<"1", Blank>>, <<[code |-> "a", content |-> "t"],
                                            [code |-> "b", content |-> "u"]>>)]

MCOriginals ==
  {[leader |-> "am", fields |-> <<MCControlField, MCTitleField>>]}

MCNewTags == {MCZero, MCControl, <<0, 0, 8>>, <<1, 0, 0>>, MCTitle}
MCNewFields == {NewField(MCTitle)}

NamesAreAlike == Permutations(Names)

=============================================================================

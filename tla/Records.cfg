SPECIFICATION Spec
CONSTANTS
  Nil = Nil
  Blank = " "
  Values = {"x"}
  Indicators = {"1"}
  Subfields <- MCSubfields
  Names = {r1, r2, r3, r4}
  Originals <- MCOriginals
  Leaders = {"am", "cm"}
  NewTags <- MCNewTags
  NewFields <- MCNewFields
  EditLimit = 2
SYMMETRY NamesAreAlike
INVARIANTS
  FieldHasItsParts
  ContentFitsItsTag
  ObjectsAgreeWithValues
  SearchesAgree

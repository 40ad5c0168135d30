CONSTANTS
  MCMaxLength = 4
  Names <- MCNames
  Strings <- MCStrings
  Expansion = 2
  MaxStrings = 2
SPECIFICATION Spec
INVARIANTS
  RoomIsAccounted
  ResultIsTheString
PROPERTY ConversionEnds
CHECK_DEADLOCK FALSE

CONSTANTS
  Texts <- MCTexts
  Styles <- MCStyles
  Shelved <- MCShelved
SPECIFICATION LCSpec
INVARIANTS
  MadeIsComparable
  StringIsReadBack
  EqualNumbersPrintAlike
PROPERTIES
  StringKeepsTheCharacters
CHECK_DEADLOCK FALSE

CONSTANTS
  RecordDigits = 2
  LengthDigits = 1
  MCMaxFields = 3
  Originals <- MCOriginals
  Leaders <- MCLeaders
  Kinds = {"v"}
  Levels = {"s"}
  MaxCopies = 2
SPECIFICATION Spec
INVARIANTS
  ReadBackIsOriginal
  FittingIsReadBack
  CopiesAreExact
  WrittenIsFramed
CHECK_DEADLOCK FALSE

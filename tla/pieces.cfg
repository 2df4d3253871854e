CONSTANTS
  OriginalLength = 1
  UndoCount = 3
  MayFail = TRUE
  MaxLength = 3
  MaxInsert = 1
  MaxWrites = 3
SPECIFICATION Spec
INVARIANTS Consistent TextIsReplay ReadsText UnmodifiedIsOriginal
PROPERTIES UndoRestores
CHECK_DEADLOCK FALSE

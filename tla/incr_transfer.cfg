CONSTANTS
  Chunks = 4
  MayTruncate = FALSE
SPECIFICATION FairSpec
INVARIANTS IInv
PROPERTIES IsStream Completes NobodyHangs
CHECK_DEADLOCK FALSE

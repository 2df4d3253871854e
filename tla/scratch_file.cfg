CONSTANTS
  BufLen = 3
  ReadLen = 2
  MaxPart = 4
  MaxLength = 6
  MaxWrites = 4
SPECIFICATION FairSpec
INVARIANT KeepsTheRest
PROPERTY ReadsEnd
CHECK_DEADLOCK FALSE

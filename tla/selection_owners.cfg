CONSTANTS
  p1 = p1
  p2 = p2
  a = a
  b = b
  c = c
  NoOwner = NoOwner
  Processes = {p1, p2}
  Owners = {a, b, c}
  ProcessOf <- TwoAndOne
  DistinctTimes = TRUE
  MaxTime = 4
  MaxOps = 4
  MaxEvents = 2
SPECIFICATION FairSpec
INVARIANTS BelievesRightly OwnerKnows
PROPERTIES LearnsOfLoss NewOneKeepsIt
CHECK_DEADLOCK FALSE

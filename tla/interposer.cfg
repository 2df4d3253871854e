CONSTANTS
  c1 = c1
  c2 = c2
  f1 = f1
  f2 = f2
  f3 = f3
  Null = Null
  Junk = Junk
  Conds = {c1, c2}
  Funcs = {f1, f2}
  FuncsMax = 3
  Disciplined = TRUE
  MaxOps = 4
  MaxQueue = 1
  MaxDepth = 3
SPECIFICATION Spec
SYMMETRY Symmetry
INVARIANTS CalloutsFollowSnapshot IInv
CHECK_DEADLOCK FALSE

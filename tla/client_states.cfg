CONSTANTS
  a = a
  b = b
  d = d
  None = None
  Windows = {a, d}
  Hints <- Two
  Left = {"Iconic"}
  WaitsForRoot = TRUE
  MaxRequests = 2
  MaxUser = 2
SPECIFICATION Spec
INVARIANTS OwnUnmapsExpected ScreenIsBelieved
CHECK_DEADLOCK FALSE

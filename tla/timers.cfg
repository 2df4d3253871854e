CONSTANTS
  c = c
  d = d
  Clients = {c, d}
  Million = 3
  Requests <- Ordinary
  EndOfTime <- Late
  Asked = {"real"}
  MaxTime = 5
  MaxCalls = 2
SPECIFICATION Spec
SYMMETRY Symmetry
INVARIANTS PollsIfAsked IInv
PROPERTIES NotEarly
CHECK_DEADLOCK FALSE

CONSTANTS
  c = c
  d = d
  Clients = {c}
  Million = 3
  Requests <- PollsFirst
  EndOfTime <- Late
  Asked = {}
  MaxTime = 3
  MaxCalls = 1
SPECIFICATION FairSpec
PROPERTIES TimerFires
CHECK_DEADLOCK FALSE

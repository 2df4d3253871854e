CONSTANTS
  s1 = s1
  s2 = s2
  Signals = {s1, s2}
  Programs <- Each
  PipeCap = 4
  MinNodes = 1
  PreAlloced = 2
  NodesPerBlock = 2
  MaxRaises = 2
  MaxCalls = 4
  MaxNesting = 2
  CalmEnv = FALSE
SPECIFICATION FairSpec
INVARIANTS
  AsyncOutsideCritical MaskRestored SelectNeverSleepsOnSignal DelayedNotForgotten IInv
PROPERTIES NoSignalVanishes SignalServiced
CHECK_DEADLOCK FALSE

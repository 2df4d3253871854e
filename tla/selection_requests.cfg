CONSTANTS
  t1 = t1
  t2 = t2
  Targets = {t1, t2}
  Multiple = Multiple
  Alone = {t1}
  ListOf <- Both
  OwnTimes = TRUE
  PostInside = FALSE
  MaxRequests = 3
SPECIFICATION FairRequests
INVARIANTS PropertiesApart HandedItsTarget TimedWhilePending
PROPERTIES EndsSometime
CHECK_DEADLOCK FALSE

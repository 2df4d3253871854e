CONSTANTS
  c1 = c1
  c2 = c2
  NoClient = NoClient
  Clients = {c1, c2}
  CodeOf <- Distinct
  Copied = {2}
  Programs <- JustLoop
SPECIFICATION FairSpec
INVARIANTS NoRecursiveSafe HandedOnce
PROPERTIES HandsPending NoneWaitsForEver
CHECK_DEADLOCK FALSE

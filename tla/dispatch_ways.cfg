CONSTANTS
  c1 = c1
  c2 = c2
  NoClient = NoClient
  Clients = {c1, c2}
  CodeOf <- Distinct
  Copied = {}
  Programs <- Others
SPECIFICATION Spec
INVARIANTS PendingSound NothingStranded
PROPERTIES Delivers
CHECK_DEADLOCK FALSE

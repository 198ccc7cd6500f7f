CONSTANTS
  w1 = w1  p1 = p1
  None = None
  Workers = {w1}
  Pollers = {p1}
  Home <- OneWorker
  Entries <- MCEntries
  KeyEntries = {"key"}
  SignedEntries = {"signed"}
  Policies <- MCPolicies
  EarlyDelete = FALSE
  MaxLog = 3
  MaxBoots = 2
SPECIFICATION Spec
INVARIANTS TypeOK AcceptedAsInFull RejectedAsInFull PositionsSound

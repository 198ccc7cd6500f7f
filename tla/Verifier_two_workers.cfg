CONSTANTS
  a1 = a1  a2 = a2  w1 = w1  w2 = w2  p1 = p1  p2 = p2  k1 = k1  k2 = k2
  None = None
  Agents = {a1}
  Workers = {w1, w2}
  Pollers = {p1, p2}
  Home <- TwoWorkers
  Keys = {k1}
  EventIds <- MCEventIds
  QuoteFailures <- MildAndFatal
  MaxSev = 1
  ImportedMaxSev = 1
  MaxRetries = 0
  AgentNotifier = TRUE
  PollAtOnce = FALSE
  Positions = {FALSE}
  Payloads = {FALSE}
  Mortal = {}
  MaxVersion = 1
  MaxRestarts = 0
  MaxNotices = 2
SPECIFICATION Spec
INVARIANTS NoOrphan FailuresAnnounced

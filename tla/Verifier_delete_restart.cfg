CONSTANTS
  a1 = a1  a2 = a2  w1 = w1  w2 = w2  p1 = p1  p2 = p2  k1 = k1  k2 = k2
  None = None
  Agents = {a1}
  Workers = {w1}
  Pollers = {p1}
  Home <- OneWorker
  Keys = {k1}
  EventIds <- MCEventIds
  QuoteFailures <- GraveOnly
  MaxSev = 1
  ImportedMaxSev = 1
  MaxRetries = 1
  AgentNotifier = FALSE
  PollAtOnce = FALSE
  Positions = {FALSE}
  Payloads = {FALSE}
  Mortal = {}
  MaxVersion = 1
  MaxRestarts = 1
  MaxNotices = 2
SPECIFICATION FairSpec
PROPERTIES DeleteCompletes

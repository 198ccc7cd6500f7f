CONSTANTS
  a1 = a1  a2 = a2  w1 = w1  w2 = w2  e1 = e1  e2 = e2  k1 = k1  k2 = k2  k3 = k3  i1 = i1  t1 = t1  t2 = t2
  n1 = n1  x1 = x1  x2 = x2  p1 = p1  p2 = p2  c1 = c1  c2 = c2
  DefaultText = DefaultText  NoBootPolicy = NoBootPolicy
  None = None  Malformed = Malformed  Disabled = Disabled
  Agents = {a1}
  EKs = {e1, e2}
  AKs = {k1, k2, k3}
  IAKs = {i1}
  Home <- MCHome
  Workers = {w1}
  Requests <- MCRequests
  TpmIdentity = "default"
  CertAction = "reject"
  MaxChallenges = 2
SPECIFICATION ServicesSpec
INVARIANTS ServicesTypeOK CertsMatchKeys ActiveIsBound InsecureKeptOut RefersToNamedPolicy KeyReachesAttestedTPM
PROPERTIES ImplementsRegistration DeletedMeansGone UpdateIsEnforced OkMeansDone CommandEnds
CHECK_DEADLOCK FALSE

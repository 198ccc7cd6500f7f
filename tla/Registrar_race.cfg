CONSTANTS
  a1 = a1  w1 = w1  w2 = w2  e1 = e1  e2 = e2  k1 = k1  k2 = k2  k3 = k3  i1 = i1  t1 = t1  t2 = t2
  None = None  Malformed = Malformed  Disabled = Disabled
  Agents = {a1}
  EKs = {e1, e2}
  AKs = {k1, k2, k3}
  IAKs = {i1}
  Home <- MCHome
  Workers = {w1, w2}
  Requests <- MCRequests
  TpmIdentity = "default"
  CertAction = "reject"
  MaxChallenges = 2
SPECIFICATION Spec
INVARIANTS ActiveIsBound

SPECIFICATION Spec
CONSTANTS
  None = None
  Attempts = {a1, a2, a3, a4}
  Keys = {k1, k2, k3, k4}
  Services = {s1, s2}
  BucketNames = {b1, b2}
  Orgs = {o1}
  Projects = {p1}
  Names = {n1, n2}
  Quotas = {1, 2}
  Requests <- LimitRequests
  MaxPerBucket = 2
  MaxTotal = 1
  s1 = s1
  s2 = s2
  k1 = k1
  k2 = k2
  k3 = k3
  k4 = k4
  b1 = b1
  b2 = b2
  o1 = o1
  o2 = o2
  p1 = p1
  n1 = n1
  n2 = n2
SYMMETRY LimitSymmetry
INVARIANT CredentialLimits
CHECK_DEADLOCK FALSE

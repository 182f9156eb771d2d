SPECIFICATION Spec
CONSTANTS
  None = None
  Calls = {a1, a2}
  Keys = {k1, k2}
  Services = {s1, s2}
  Subjects = {u1, u2}
  Generations = {1, 2}
  Bodies = {1}
  Grants <- SomeGrants
  ProviderTTL = 1
  NotBefore = 1
  ProviderSkew = 1
  PrincipalTTL = 3
  PrincipalSkew = 1
  Lease = 4
  Drift = 1
  MaxTime = 6
  s1 = s1
  s2 = s2
  k1 = k1
  k2 = k2
  u1 = u1
  u2 = u2
SYMMETRY CallSymmetry
INVARIANT AdmissionTypeOK
INVARIANT ExecutionsAreSigned
INVARIANT ExecutionsLeaseApart
INVARIANT RepeatedTokenWasDelayed
INVARIANT ValidTokensAreAccepted
CHECK_DEADLOCK FALSE

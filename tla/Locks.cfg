SPECIFICATION Spec
CONSTANTS
  None = None
  Past = Past
  Txs = {t1, t2, t3}
  Keys = {k1, k2, k3, k4, k5, k6}
  Services = {s1, s2}
  Orgs = {o1}
  Names = {n1, n2}
  MaxTotal = 1
  k1 = k1
  k2 = k2
  k3 = k3
  k4 = k4
  k5 = k5
  k6 = k6
  s1 = s1
  s2 = s2
  o1 = o1
  n1 = n1
  n2 = n2
  Operation <- Operations
  Mixes <- SomeMixes
SYMMETRY TxSymmetry
INVARIANT LockTypeOK
INVARIANT ChecksStayTrue
INVARIANT DeadlocksAreKnown
CHECK_DEADLOCK FALSE

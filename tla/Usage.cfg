SPECIFICATION Spec
CONSTANTS
  None = None
  Calls = {c1, c2}
  Endpoints = {"overview", "usage", "list"}
  Contents = {0, 1, 2}
  MaxStored = 1
  MaxGen = 2
  MaxTime = 1
SYMMETRY CallSymmetry
INVARIANT UsageTypeOK
INVARIANT SnapshotIsNewest
INVARIANT MeasurementsAreTrue
INVARIANT ReadsNotStale
CHECK_DEADLOCK FALSE

SPECIFICATION Spec
INVARIANTS ReadsLatest
CONSTANTS
  k1 = k1
  k2 = k2
  v1 = v1
  v2 = v2
  big = big
  None = None
  Keys = {k1, k2}
  Values = {v1, v2}
  BigValues = {}
  Batches <- IdBatches
  Readers = {}
  PageCap = 2
  PoolCapacity = 64
  Ops = {"batch"}
  Tears = {}
  FreshIds = FALSE
  MaxOps = 3
  MaxCrashes = 2
  MaxOpens = 3
CHECK_DEADLOCK FALSE

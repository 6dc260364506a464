SPECIFICATION Spec
INVARIANTS TypeOK ReadsLatest Recoverable
CONSTANTS
  Keys = {k1, k2}
  k1 = k1
  k2 = k2
  v1 = v1
  v2 = v2
  big = big
  None = None
  Values = {v1, v2}
  BigValues = {}
  Batches <- PutBatches
  Readers = {}
  PageCap = 2
  PoolCapacity = 2
  Ops = {"put", "batch", "flush", "compact", "close"}
  Tears = {"header"}
  FreshIds = TRUE
  MaxOps = 3
  MaxCrashes = 2
  MaxOpens = 3
CHECK_DEADLOCK FALSE

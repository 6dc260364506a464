SPECIFICATION Spec
INVARIANTS RecoveryOpens
CONSTANTS
  k1 = k1
  k2 = k2
  v1 = v1
  v2 = v2
  big = big
  None = None
  Keys = {k1, k2}
  Values = {v1}
  BigValues = {}
  Batches <- NoBatches
  Readers = {}
  PageCap = 2
  PoolCapacity = 64
  Ops = {"put"}
  Tears = {"body"}
  FreshIds = TRUE
  MaxOps = 3
  MaxCrashes = 1
  MaxOpens = 2
CHECK_DEADLOCK FALSE

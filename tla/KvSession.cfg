SPECIFICATION Spec
INVARIANTS StoreInv ReadsLatest SnapshotReadsCurrent RecoveryOpens
PROPERTIES SnapshotStable
CONSTANTS
  Keys = {k1, k2}
  k1 = k1
  k2 = k2
  v1 = v1
  v2 = v2
  big = big
  None = None
  Values = {v1}
  BigValues = {big}
  Batches <- MixedBatches
  Readers = {r1}
  PageCap = 2
  PoolCapacity = 64
  Ops = {"put", "delete", "batch", "flush", "compact", "close", "snapshot", "removeIndex"}
  Tears = {}
  FreshIds = TRUE
  MaxOps = 5
  MaxCrashes = 0
  MaxOpens = 2
CHECK_DEADLOCK FALSE

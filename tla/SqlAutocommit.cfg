SPECIFICATION Spec
INVARIANTS UniqueHolds IndexMatchesRows FailedBatchUndone
CONSTANTS
  t1 = t1
  t2 = t2
  a = a
  b = b
  bad = bad
  big = big
  None = None
  Null = Null
  NoWrite = NoWrite
  Keys = {1, 2, 3}
  Clients = {c1}
  Tables = {t1, t2}
  Initial = {t1}
  Values = {a, b, Null}
  BadValues = {bad}
  BigValues = {big}
  Unique = {t1}
  Ref <- Refs
  Requests <- AutoRequests
  Disconnects = FALSE
  MaxRequests = 5
CHECK_DEADLOCK FALSE

SPECIFICATION Spec
INVARIANTS UniqueHolds
CONSTANTS
  t1 = t1
  t2 = t2
  a = a
  b = b
  bad = bad
  big = big
  None = None
  Null = Null
  NoWrite = NoWrite
  Keys = {1, 2, 3}
  Clients = {c1, c2}
  Tables = {t1}
  Initial = {t1}
  Values = {a, b, Null}
  BadValues = {}
  BigValues = {}
  Unique = {t1}
  Ref <- NoRefs
  Requests <- UniqueRequests
  Disconnects = FALSE
  MaxRequests = 5
CHECK_DEADLOCK FALSE

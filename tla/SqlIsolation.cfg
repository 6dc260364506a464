SPECIFICATION Spec
INVARIANTS TypeOK FirstCommitterWins ReadsOwnWrites LeasesMatch StagedPrivately
CONSTANTS
  t1 = t1
  t2 = t2
  a = a
  b = b
  bad = bad
  big = big
  None = None
  Null = Null
  NoWrite = NoWrite
  Keys = {1, 2, 3}
  Clients = {c1, c2}
  Tables = {t1}
  Initial = {t1}
  Values = {a, b, Null}
  BadValues = {}
  BigValues = {}
  Unique = {}
  Ref <- NoRefs
  Requests <- TxRequests
  Disconnects = TRUE
  MaxRequests = 7
CHECK_DEADLOCK FALSE

SPECIFICATION FairSpec
INVARIANTS FirstCommitterWins StagedPrivately
PROPERTIES RequestsAnswered
CONSTANTS
  t1 = t1
  t2 = t2
  a = a
  b = b
  bad = bad
  big = big
  None = None
  Null = Null
  NoWrite = NoWrite
  Keys = {1, 2}
  Clients = {c1, c2}
  Tables = {t1, t2}
  Initial = {t1, t2}
  Values = {a, b, Null}
  BadValues = {bad}
  BigValues = {big}
  Unique = {}
  Ref <- NoRefs
  Requests <- FailureRequests
  Disconnects = TRUE
  MaxRequests = 5
CHECK_DEADLOCK FALSE

CONSTANTS
  Callers = {c1, c2}
  MaxPages = 3
  Capacity = 2
  Data = {a}
  NewPage = NewPage
  Zero = Zero
  NoEntry = NoEntry
  Serialized = TRUE
SPECIFICATION Spec
INVARIANTS CachedOrStored PoolInv
PROPERTIES ImplementsPageFile

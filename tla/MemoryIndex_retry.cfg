SPECIFICATION Spec
CONSTANTS
  t1 = t1
  t2 = t2
  a = a
  b = b
  Threads = {t1}
  Texts = {a}
  Stale = Stale
  Vectors = {a, Stale}
  Rows = {1, 2}
  None = None
  Dim = 768
  Dims = {768}
  DimOf <- MCDimOf
  Operations = {"ADD", "BACKFILL"}
  MaxCalls = 1
  MaxFaults = 1
INVARIANTS CurrentIndexIsComplete
CHECK_DEADLOCK FALSE

SPECIFICATION FairSpec
CONSTANTS
  t1 = t1
  t2 = t2
  a = a
  b = b
  Threads = {t1, t2}
  Texts = {a}
  Stale = Stale
  Vectors = {a, Stale}
  Rows = {1, 2}
  None = None
  Dim = 768
  Dims = {768}
  DimOf <- MCDimOf
  Operations = {"ADD", "UPDATE", "RESET", "BACKFILL", "DELETE", "FORGET"}
  MaxCalls = 2
  MaxFaults = 1
INVARIANTS TypeOK SavepointsAreCounted NothingPendingWhenQuiet IdentityNeverAhead
PROPERTIES CommitsWholeUpserts IndexBecomesCurrent
CHECK_DEADLOCK FALSE

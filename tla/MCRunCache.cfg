CONSTANTS
  Process = {p1, p2}
  Run = {r1, r2}
  MaxRuns = 1
  Mark = {"running", "completed", "failed", "cancelled", "timed_out"}
  Backend = "hybrid"
  SharedLock = TRUE
  Fault = {"cache_read"}
  NoCache = NoCache
  Fresh = Fresh
  Gone = Gone
  NoRun = NoRun
SPECIFICATION Spec
INVARIANT CacheAgrees
PROPERTY LedgerSpec
SYMMETRY Symm

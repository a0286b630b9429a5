CONSTANTS
  Process = {p1, p2}
  Run = {r1}
  MaxRuns = 1
  Mark = {"running", "completed", "failed", "cancelled", "timed_out"}
  Backend = "json"
  SharedLock = TRUE
  Fault = {"crash"}
  NoCache = NoCache
  Fresh = Fresh
  Gone = Gone
  NoRun = NoRun
SPECIFICATION FairSpec
INVARIANT ToldIsStored
PROPERTY OrphansEnd

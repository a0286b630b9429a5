CONSTANTS
  Run = {r1, r2}
  Caller = {c1, c2}
  MaxActive = 2
  MaxChildren = 2
  MaxLineage = 2
  Lanes = 1
  SpawnRetries = 1
  AnnounceRetries = 1
  Channel = TRUE
  Fault = {"spawn", "evict", "turn_cancel"}
  NoRun = NoRun
SPECIFICATION Spec
INVARIANTS TypeOK AccountedFor ReportIsOutcome SessionMatchesRun
CHECK_DEADLOCK FALSE
SYMMETRY Symm

CONSTANTS
  Process = {p1, p2}
  Run = {r1, r2}
  MaxRuns = 1
  Mark = {"running", "completed", "cancelled"}
  Backend = "db"
  SharedLock = TRUE
  Fault = {"crash", "save", "load"}
  NoCache = NoCache
  Fresh = Fresh
  Gone = Gone
  NoRun = NoRun
SPECIFICATION Spec
INVARIANT TypeOK
PROPERTY TerminalIsFinal
SYMMETRY Symm

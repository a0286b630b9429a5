CONSTANTS
  Run = {r1, r2}
  Caller = {c1, c2}
  MaxActive = 2
  MaxChildren = 2
  MaxLineage = 2
  Lanes = 1
  SpawnRetries = 0
  AnnounceRetries = 1
  Channel = FALSE
  Fault = {"attach"}
  NoRun = NoRun
SPECIFICATION FairSpec
PROPERTIES SessionsEnd
CHECK_DEADLOCK FALSE

SPECIFICATION FairSpec
CONSTANTS
  m1 = m1
  m2 = m2
  w1 = w1
  w2 = w2
  Messages = {m1, m2}
  Workers = {w1, w2}
  MaxAttempts = 3
  BatchSize = 2
  Fault = {"db", "crash"}
  MaxFaults = 2
CHECK_DEADLOCK FALSE
INVARIANTS TypeOK TriesBounded VerdictEarned
PROPERTIES SettledIsFinal FailedSettles

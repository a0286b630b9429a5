CONSTANTS
  Worker = {w1, w2}
  Host = w1
  Task = {t1, t2}
  MaxReply = 2
  StateSaved = TRUE
  NoOwner = NoOwner
  Fault = {"crash", "error", "db", "pause"}
SPECIFICATION Spec
INVARIANT ActedOnPersisted
SYMMETRY Symm
CHECK_DEADLOCK FALSE

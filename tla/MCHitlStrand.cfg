CONSTANTS
  Worker = {w1, w2}
  Host = w1
  Task = {t1, t2}
  MaxReply = 1
  StateSaved = FALSE
  NoOwner = NoOwner
  Fault = {"crash"}
SPECIFICATION FairSpec
PROPERTY CrashStrandsNothing
CHECK_DEADLOCK FALSE

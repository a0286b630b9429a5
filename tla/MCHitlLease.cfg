CONSTANTS
  Worker = {w1, w2}
  Host = w1
  Task = {t1, t2}
  MaxReply = 2
  StateSaved = TRUE
  NoOwner = NoOwner
  Fault = {"crash", "ack", "publish", "reject", "cancel_turn"}
SPECIFICATION Spec
INVARIANTS TypeOK OneContinuation RefusedNeverActedOn AckNeverStrands
PROPERTIES SettledIsFinal LifecycleSpec
SYMMETRY Symm
CHECK_DEADLOCK FALSE

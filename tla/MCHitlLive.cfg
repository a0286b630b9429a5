CONSTANTS
  Worker = {w1, w2}
  Host = w1
  Task = {t1, t2, t3}
  MaxReply = 1
  StateSaved = FALSE
  NoOwner = NoOwner
  Fault = {"ack", "reject"}
SPECIFICATION FairSpec
PROPERTIES AnswerSettles TurnEnds
CHECK_DEADLOCK FALSE

SPECIFICATION FairSpec
CONSTANTS
  Tasks = {t1, t2}
  Workers = {w1}
  Callers = {c1}
  EventKeys = {}
  PlainKeys = {k1}
  RunIds = {}
  AttemptLimits = {2}
  Delays = {0}
  VisibilityTimeout = 1
  BackoffBase = 1
  MaxBackoff = 1
  PollLimit = 2
  SweepLimit = 2
  None = None
CHECK_DEADLOCK FALSE
PROPERTY StuckTaskReclaimed

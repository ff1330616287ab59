SPECIFICATION Spec
CONSTANTS
  c1 = c1
  c2 = c2
  c3 = c3
  w1 = w1
  w2 = w2
  t1 = t1
  t2 = t2
  r1 = r1
  Tasks = {t1, t2}
  Workers = {w1, w2}
  Runs = {r1}
  Clients = {c1, c2, c3}
  WorkerOf <- TwoAndOne
  RunOfs <- SameRun
  None = None
  Runless = Runless
  AttemptLimit = 2
  VisibilityTimeout = 2
  BackoffBase = 1
  MaxBackoff = 1
  PollLimit = 2
  SweepLimit = 2
  LeaseTTL = 2
  MaxLeases = 6
  MaxCrashes = 0
CHECK_DEADLOCK FALSE
INVARIANT NoSplitBrain

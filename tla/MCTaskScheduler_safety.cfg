SPECIFICATION Spec
CONSTANTS
  Tasks = {t1, t2}
  Workers = {w1, w2}
  Callers = {c1, c2}
  EventKeys = {e1}
  PlainKeys = {k1}
  RunIds = {r1, r2}
  AttemptLimits = {0, 2}
  Delays = {0}
  VisibilityTimeout = 1
  BackoffBase = 1
  MaxBackoff = 2
  PollLimit = 2
  SweepLimit = 2
  None = None
SYMMETRY Symmetry
CONSTRAINT OverlapOfOneEvent
CHECK_DEADLOCK FALSE
INVARIANTS
  TypeOK
  ClaimAccounting
  BoundedDeliveries
  SoleClaimant
  EventTaskUnique
PROPERTIES
  TaskIdentityStable
  ImplementsLifecycle

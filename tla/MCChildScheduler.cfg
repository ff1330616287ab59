SPECIFICATION FairSpec
CONSTANTS
  a = a
  b = b
  c = c
  Children = {a, b, c}
  DependsOn <- Diamond
  Keys = {i1, i2}
  Sessions = {s1, s2}
  JoinQuorum = 2
  MaxWrites <- Writes
  None = None
CHECK_DEADLOCK FALSE
INVARIANTS
  TypeOK
  NoEarlyStart
  RecordedOnce
  NoneLeftBehindSerially
PROPERTIES
  CompletionFinal
  JoinReached

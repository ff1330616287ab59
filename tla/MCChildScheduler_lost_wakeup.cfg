SPECIFICATION Spec
CONSTANTS
  a = a
  b = b
  c = c
  Children = {a, b, c}
  DependsOn <- Diamond
  Keys = {i1}
  Sessions = {s1, s2}
  JoinQuorum = None
  MaxWrites <- Writes
  None = None
CHECK_DEADLOCK FALSE
INVARIANT NoneLeftBlocked

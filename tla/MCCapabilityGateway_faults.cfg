SPECIFICATION Spec
CONSTANTS
  Workers = {w1, w2}
  ToolCalls = {c1, c2, c3}
  Ckpts = {k1, k2}
  CkptOf <- OneCkpt
  c1 = c1
  c2 = c2
  c3 = c3
  k1 = k1
  Settings <- OneFault
  None = None
INVARIANT SideEffectOnceDespiteFaults
CHECK_DEADLOCK FALSE

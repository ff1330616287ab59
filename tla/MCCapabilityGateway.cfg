SPECIFICATION Spec
CONSTANTS
  Workers = {w1, w2}
  ToolCalls = {c1, c2, c3}
  Ckpts = {k1, k2}
  CkptOf <- OneCkpt
  c1 = c1
  c2 = c2
  c3 = c3
  k1 = k1
  Settings <- TwoOrThree
  None = None
SYMMETRY WorkerSymmetry
INVARIANTS TypeOK SideEffectOnce CompletedMeansRan ApprovalHonoured GovernanceMonotone
CHECK_DEADLOCK FALSE

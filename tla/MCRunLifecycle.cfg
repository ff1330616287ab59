SPECIFICATION FairSpec
CONSTANTS
  Calls = {c1, c2}
  RunTask = RunTask
  Kinds = {"chat", "preauthorized"}
  MaxRepeats = 1
  MaxDropped = 1
  None = None
CHECK_DEADLOCK FALSE
INVARIANTS
  TypeOK
  OnlyApprovedToolsRun
  ApprovalBound
PROPERTIES
  
  
  ApprovedToolRuns

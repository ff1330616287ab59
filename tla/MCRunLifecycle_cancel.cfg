SPECIFICATION Spec
CONSTANTS
  Calls = {c1}
  RunTask = RunTask
  Kinds = {"chat"}
  MaxRepeats = 0
  MaxDropped = 0
  None = None
CHECK_DEADLOCK FALSE
PROPERTY CancelSticks

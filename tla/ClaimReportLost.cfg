\* One command line after another; no fault is needed.
SPECIFICATION Spec
CONSTANTS
  None = None
  Configurations <- OneDeviation
  Skews = {0}
  Tolerance = 1
  MaxTime = 0
  TsmVariables = {"unset"}
  LoggerKeyword = TRUE
CHECK_DEADLOCK FALSE
INVARIANT FailuresReturned

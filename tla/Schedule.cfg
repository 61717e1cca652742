CONSTANTS
  NoLimit = NoLimit
  Every = 2
  Limits <- MCLimits
  StartIns <- MCStartIns
  MaxRuns = 12
  MaxCrashes = 2
  MaxFailures = 1
SPECIFICATION Spec
INVARIANTS CompletionsHold
PROPERTIES OnTime RunsOut
CHECK_DEADLOCK FALSE

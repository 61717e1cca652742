CONSTANTS
  Full = Full
  Lean = Lean
  Misnamed = Misnamed
  Codes = {Full, Lean, Misnamed}
  Needs <- MCNeeds
  Plans <- MCPlans
  BadNames = {Misnamed}
  MaxDeploys = 3
  MaxFailures = 1
  MaxStops = 1
SPECIFICATION Spec
INVARIANTS SameCode
PROPERTIES ServesInTheEnd WaitEnds
CHECK_DEADLOCK FALSE

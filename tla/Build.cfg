CONSTANTS
  Full = Full
  Lean = Lean
  Misnamed = Misnamed
  Misplaced = Misplaced
  Silent = Silent
  NoCode = NoCode
  Codes = {Full, Lean, Misnamed, Misplaced, Silent}
  Needs <- MCNeeds
  Noncompliant = {Misplaced}
  BadNames = {Misnamed}
  Broken = {Silent}
  Plans <- MCPlans
  MaxBuilds = 3
  MaxFailures = 1
  MaxRewrites = 1
SPECIFICATION Spec
INVARIANTS OnlyValidated OneBuild
PROPERTIES SuccessIsWhole
CHECK_DEADLOCK FALSE

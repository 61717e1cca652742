CONSTANTS
  MaxBuilds = 3
  MaxFlaws = 1
  MaxFailures = 1
  MaxCrashes = 1
SPECIFICATION Spec
PROPERTIES CatchesUp Serves EndsClean
CHECK_DEADLOCK FALSE

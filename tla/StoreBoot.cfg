CONSTANTS
  p1 = p1
  p2 = p2
  v1 = v1
  v2 = v2
  Absent = Absent
  Processes <- MCProcesses
  Words <- MCWords
  Names <- MCNames
  Keys <- MCKeys
  Values <- MCValues
  InitialData <- MCInitialData
  MaxWrites = 2
  MaxFailures = 1
  MaxCrashes = 1
SPECIFICATION Spec
INVARIANTS PreservedUnlessFailed OwnDataOnly
PROPERTIES ComesUp ReadsBack
CHECK_DEADLOCK FALSE

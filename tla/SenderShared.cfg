CONSTANTS
  s1 = s1
  s2 = s2
  s3 = s3
  capA = capA
  capB = capB
  k1 = k1
  k2 = k2
  v1 = v1
  v2 = v2
  v3 = v3
  Absent = Absent
  Senders <- MCTwoProcesses
  Capabilities <- MCTwoCapabilities
  CapabilityOf <- MCCapabilityOf
  Keys <- MCOneKey
  Values <- MCTwoValues
  FreshOnly = FALSE
  MaxOps = 3
  MaxInFlight = 2
  MaxFailures = 1
SPECIFICATION SpecSender
PROPERTIES OnlyRequested Drains
CHECK_DEADLOCK FALSE

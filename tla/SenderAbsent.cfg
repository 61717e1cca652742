CONSTANTS
  s1 = s1
  s2 = s2
  s3 = s3
  capA = capA
  capB = capB
  k1 = k1
  k2 = k2
  v1 = v1
  v2 = v2
  v3 = v3
  Absent = Absent
  Senders <- MCOneSender
  Capabilities <- MCOneCapability
  CapabilityOf <- MCCapabilityOfOne
  Keys <- MCTwoKeys
  Values <- MCTwoValues
  FreshOnly = TRUE
  MaxOps = 3
  MaxInFlight = 1
  MaxFailures = 0
SPECIFICATION SpecSender
INVARIANTS LastRequestStored
CHECK_DEADLOCK FALSE

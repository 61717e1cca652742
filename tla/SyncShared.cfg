CONSTANTS
  s1 = s1
  s2 = s2
  capA = capA
  k1 = k1
  k2 = k2
  v1 = v1
  v2 = v2
  w1 = w1
  Absent = Absent
  Senders <- MCSenders
  Writers <- MCSenders
  Claims <- MCOwnKeys
  Capabilities <- MCCapabilities
  CapabilityOf <- MCCapabilityOf
  Keys <- MCOneKey
  Values <- MCOneValue
  FreshOnly = FALSE
  MaxOps = 2
  MaxInFlight = 2
  MaxFailures = 1
  Waits <- MCOneWait
  MaxMishaps = 1
SPECIFICATION SpecSync
PROPERTIES ImplementsSharedStore WaitsSettle WritesBecomeVisible
CHECK_DEADLOCK FALSE

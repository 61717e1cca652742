CONSTANTS
  c1 = c1
  c2 = c2
  c3 = c3
  c4 = c4
  Calls <- MCCalls
  Hanging <- MCNoHanging
SPECIFICATION Spec
INVARIANTS SingleFlight EachCallOnce
PROPERTIES ImplementsOrder EveryPromiseSettles
CHECK_DEADLOCK FALSE

CONSTANTS
  c1 = c1
  c2 = c2
  s1 = s1
  Capabilities = {c1, c2}
  Selectors = {s1}
  Modules <- MCModules
  Events = {"IsCreated", "IsCreatedOrUpdated"}
  Namespaces = {"ns"}
  ObjectNames = {"obj"}
  Labels = {"app"}
  MaxCalls = 5
  MaxPushed = 2
  MaxWaiting = 2
SPECIFICATION Spec
INVARIANTS HostedOnce FiltersKept Announced CalledOnce
PROPERTIES ReadyRuns
CHECK_DEADLOCK FALSE

CONSTANTS
  capA = capA
  capB = capB
  ns1 = ns1
  ns2 = ns2
  nsIgnored = nsIgnored
  nsExempt = nsExempt
  x = x
  y = y
  name1 = name1
  name2 = name2
  Empty = Empty
  NoData = NoData
  Ignored <- MCIgnored
  Exempt <- MCExempt
  Modules <- MCModules
  Requests <- MCRequests
  Labelings <- MCLabelings
SPECIFICATION Spec
INVARIANTS AdmissionTypeOK Guarded OnlyGoverned RefusedForCause MutationsKept SecretsIntact FiltersAgree
CHECK_DEADLOCK FALSE

CONSTANTS
  o1 = o1
  o2 = o2
  Objects <- MCObjects
  MatchSet <- MCMatchOne
  Bindings <- MCBindings
  Calls <- MCCalls
  Hanging <- MCHanging
  MaxVersion = 2
  MaxGiveUps = 1
  MaxErrors = 1
SPECIFICATION SpecBinding
INVARIANTS BindingTypeOK
PROPERTIES EffectsInOrder Converges
CHECK_DEADLOCK FALSE

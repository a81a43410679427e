CONSTANTS
  N = 2
  Null = Null
  MaxGenerations = 1
  SpuriousWakeups = FALSE
  Loop = "DiningLoop"
  Mortal <- Nobody
SPECIFICATION Spec
CHECK_DEADLOCK FALSE
INVARIANTS ResultsWhole

CONSTANTS
  N = 1
  Null = Null
  MaxGenerations = 5
  SpuriousWakeups = FALSE
  Loop = "DiningLoop"
  Mortal <- Everyone
SPECIFICATION FairSpec
CHECK_DEADLOCK FALSE
INVARIANTS ResultsWhole
PROPERTIES RoundsEnd

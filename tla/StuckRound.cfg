CONSTANTS
  N = 2
  Null = Null
  MaxGenerations = 2
  SpuriousWakeups = FALSE
  Loop = "DiningLoop"
  Mortal <- Nobody
SPECIFICATION FairSpec
CHECK_DEADLOCK FALSE
PROPERTIES RoundsEnd

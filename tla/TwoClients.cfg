CONSTANTS
  N = 2
  Null = Null
  MaxGenerations = 3
  SpuriousWakeups = FALSE
  Loop = "DiningLoop"
  Mortal <- Everyone
SPECIFICATION FairSpec
CHECK_DEADLOCK FALSE
INVARIANTS TypeOK AckSafe GenerationExclusive
PROPERTIES GoneStopsServer

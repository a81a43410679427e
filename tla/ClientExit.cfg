CONSTANTS
  N = 2
  Null = Null
  MaxGenerations = 2
  SpuriousWakeups = TRUE
  Loop = "SimpleLoop"
  Mortal <- Nobody
SPECIFICATION FairSpec
CHECK_DEADLOCK FALSE
INVARIANTS SessionInv CastSafe OneTime
PROPERTIES KillStopsServer

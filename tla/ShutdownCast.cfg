CONSTANTS
  N = 1
  Null = Null
  MaxGenerations = 3
  SpuriousWakeups = FALSE
  Loop = "SimpleLoop"
  Mortal <- Nobody
SPECIFICATION Spec
CHECK_DEADLOCK FALSE
PROPERTIES ShutdownUnderstood

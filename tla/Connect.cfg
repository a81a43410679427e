CONSTANTS
  Users = {u1, u2, u3}
  MAXCLIENTS = 2
  length = 2
  Typists = {u1}
  MaxTexts = 2
  Null = Null
SPECIFICATION ConnectFairSpec
CHECK_DEADLOCK FALSE
INVARIANTS ConnectTypeOK Admitted ThreadsReady TextKept
PROPERTIES EveryoneServed

CONSTANTS
  N = 2
  Null = Null
SPECIFICATION GenSpec
CHECK_DEADLOCK FALSE
INVARIANTS KeysAgree

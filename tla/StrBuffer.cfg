CONSTANTS
  length = 4
  String = {a, b}
  Null = Null
SPECIFICATION BufSpec
CHECK_DEADLOCK FALSE
INVARIANTS BufInv TakenInOrder
PROPERTIES ImplementsQueue

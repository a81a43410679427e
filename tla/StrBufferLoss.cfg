CONSTANTS
  length = 2
  String = {a}
  Null = Null
SPECIFICATION BufFairSpec
CHECK_DEADLOCK FALSE
PROPERTIES EverythingTaken

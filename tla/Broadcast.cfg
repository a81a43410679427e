CONSTANTS
  N = 3
  Null = Null
  MAX_CHAR <- CharLimit
  Word <- IntValues
  KeyValues <- SomeKeys
  Speakers <- TwoUsers
  Messages <- EmptyAndLong
  length = 2
  MaxMessages = 2
SPECIFICATION BroadcastSpec
CHECK_DEADLOCK FALSE
INVARIANTS BroadcastTypeOK KeysCancel CollisionsDetected DisplayedAsSubmitted
PROPERTIES ImplementsChannel KeptIsDisplayed

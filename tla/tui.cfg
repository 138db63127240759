SPECIFICATION LiveSpec
CONSTANTS
  Setups <- MCSetups
  StaleAfter = 2
  TailLimit = 2
  Room = 2
INVARIANTS TypeOK ShownIsRecorded LiveIsRecent
PROPERTIES HeaderFollows
CHECK_DEADLOCK FALSE

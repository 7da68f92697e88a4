SPECIFICATION Spec
CONSTANTS
  Records <- MCRecords
  MaxLines = 4
INVARIANTS
  HexTypeOK
  EveryByteSent
  OnlyTailsAdded
CHECK_DEADLOCK FALSE

CONSTANTS
  MaxHeld = 2
  MaxWait = 2
  MaxSeqNum = 6
  Failing = TRUE
SPECIFICATION Spec
INVARIANTS InOrder NothingLost NoOverstay
PROPERTY GivesUpWhenDue
CHECK_DEADLOCK FALSE

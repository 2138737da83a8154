CONSTANTS
  None = None
  GapFills = {}
  MaxPending = 3
  Interval = 2
  Roles = {"initiator"}
  Stream <- PollingStream
  FirstIn = {1, 2}
  OutSeqNums = {1, 2, 3}
  LogonTimeout = 3
  Timed = TRUE
  Punctual = {TRUE, FALSE}
  Clocked = TRUE
SPECIFICATION FairSpec
INVARIANTS KeepsTime
PROPERTIES  SessionEnds
CHECK_DEADLOCK FALSE

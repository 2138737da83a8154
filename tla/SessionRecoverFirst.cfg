CONSTANTS
  None = None
  GapFills = {}
  MaxPending = 4
  Interval = 2
  Roles = {"initiator"}
  Stream <- RecoveryStream
  FirstIn = {1}
  OutSeqNums = {3, 4, 5}
  LogonTimeout = 3
  Timed = FALSE
  Punctual = {TRUE}
  Clocked = FALSE
SPECIFICATION Spec
PROPERTIES RecoverFirst
CHECK_DEADLOCK FALSE

CONSTANTS
  None = None
  GapFills <- SomeGapFills
  MaxPending = 3
  Interval = 2
  Roles = {"initiator", "acceptor"}
  Stream <- RecoveryStream
  FirstIn = {1, 2, 3}
  OutSeqNums = {3, 4, 5, 6}
  LogonTimeout = 3
  Timed = FALSE
  Punctual = {FALSE}
  Clocked = FALSE
SPECIFICATION Spec
INVARIANTS  LogoutIsLast
PROPERTIES NewNumbersIncrease  ClosingIsQuiet
CHECK_DEADLOCK FALSE

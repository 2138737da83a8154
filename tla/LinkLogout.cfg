CONSTANTS
  Interval = 1
  None = None
  MaxInFlight = 2
  Senders <- JustInitiator
  FirstMarks <- InitiatorAhead
  MaxOut = 0
  MaxConnections = 1
  Slow = {1}
SPECIFICATION Spec
INVARIANT LogoutGoesOut
CHECK_DEADLOCK FALSE

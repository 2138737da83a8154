CONSTANTS
  MaxInFlight = 2
  MaxIn = 4
  MaxConnections = 3
SPECIFICATION Spec
INVARIANTS TypeOK ResumeLosesNothing NothingUnwritten
PROPERTIES WatermarkForward
CHECK_DEADLOCK FALSE

CONSTANTS
  MaxInFlight = 2
  MaxOut = 4
  MaxConnections = 3
SPECIFICATION FairSpec
INVARIANTS TypeOK SentAsStored
PROPERTIES EverythingGoesOut FailureStops PersistsFirst
CHECK_DEADLOCK FALSE

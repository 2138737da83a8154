SPECIFICATION FairSpec
CONSTANTS
  Depth = 1
  MaxInFlight = 1
  MaxPass = 2
  MaxEvents = 8
  Attentive = TRUE
INVARIANTS TypeOK InOrder 
PROPERTIES  EndIsHeard
CHECK_DEADLOCK FALSE

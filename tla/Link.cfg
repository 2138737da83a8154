CONSTANTS
  Interval = 1
  None = None
  MaxInFlight = 2
  Senders <- JustInitiator
  FirstMarks <- Afresh
  MaxOut = 2
  MaxConnections = 2
  Slow = {1}
SPECIFICATION FairSpec
INVARIANTS DeliveredAsStored MarkMeansDelivered NeverTooLow
PROPERTY ComesToAgree
\* Two ends that agree rest until an application has something to send.
CHECK_DEADLOCK FALSE

CONSTANTS
  None = None
  Instances <- Connections
SPECIFICATION FairSpec
INVARIANTS ConnectionInv EventsInOrder
PROPERTIES RequestsEnd
CHECK_DEADLOCK FALSE

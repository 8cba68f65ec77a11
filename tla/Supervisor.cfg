CONSTANTS
  Instances <- Supervisors
SPECIFICATION FairSpec
INVARIANTS LeaseInv NoOrphans LeaseCoversChildren OneStopPerMarker
PROPERTIES NeverHangs
CHECK_DEADLOCK FALSE

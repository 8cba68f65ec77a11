CONSTANTS
  r1 = r1
  r2 = r2
  r3 = r3
  i1 = i1
  i2 = i2
  Rpc = {r1, r2}
  Ing = {i1, i2}
  Stamped = {i1}
  AckWaiting = {i2}
  None = None
  QueueCapacity = 1
  MaxTime = 1
  Plans <- ShutdownAndTraffic
SPECIFICATION Spec
INVARIANTS TypeOK PermitsCounted NothingNewIsLost

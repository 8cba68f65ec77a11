CONSTANTS
  r1 = r1
  r2 = r2
  r3 = r3
  i1 = i1
  i2 = i2
  Rpc = {r1, r2}
  Ing = {i2}
  Stamped = {}
  AckWaiting = {i2}
  None = None
  QueueCapacity = 1
  MaxTime = 0
  Plans <- ShutdownAndTraffic
SPECIFICATION FairSpec
PROPERTIES RequestsAnswered ShutdownResolves ActivationResolves

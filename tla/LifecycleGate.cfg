CONSTANTS
  r1 = r1
  r2 = r2
  r3 = r3
  i1 = i1
  i2 = i2
  Rpc = {r1, r2, r3}
  Ing = {}
  Stamped = {}
  AckWaiting = {}
  None = None
  QueueCapacity = 2
  MaxTime = 0
  Plans <- OneShutdown
SPECIFICATION Spec
INVARIANTS QuiesceHolds ActivationOwned ReadyBeforeActive ShutdownHeld
PROPERTIES CommitOnlyAfterAck GateSpec

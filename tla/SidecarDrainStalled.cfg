CONSTANTS
  e1 = e1
  e2 = e2
  Ev = {e1, e2}
  Cards = {e2}
  Monitor = Monitor
  Replay = Replay
  Heartbeat = Heartbeat
  BeatEvery = 1
  StaleAfter = 1
  None = None
  Bounds <- OneFence
SPECIFICATION Spec
INVARIANTS QuietWhenDrained

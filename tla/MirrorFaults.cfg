CONSTANTS
  w1 = w1
  s1 = s1
  s2 = s2
  a1 = a1
  Inst = {w1}
  Session = {s1, s2}
  Approval = {a1}
  None = None
  Corrupt = Corrupt
  PageSize = 2
  MaxPages = 20
  Threads <- AllThreads
  Plans <- SomeFaults
SPECIFICATION Spec
INVARIANTS RecordInv GoneStaysGone DataSpaceIsComplete
PROPERTIES FileSurvives
CHECK_DEADLOCK FALSE

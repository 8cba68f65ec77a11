CONSTANTS
  m1 = m1
  m2 = m2
  n1 = n1
  Message = {m1, m2}
  Notification = {n1}
  None = None
  Instances <- Upgrades
SPECIFICATION Spec
INVARIANTS AcknowledgementInv DeferredSurvives ProcessedOnce
PROPERTIES ImportIsWhole
CHECK_DEADLOCK FALSE

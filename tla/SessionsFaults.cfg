CONSTANTS
  s1 = s1
  s2 = s2
  t1 = t1
  t2 = t2
  a1 = a1
  a2 = a2
  Session = {s1, s2}
  Thread = {t1, t2}
  Approval = {a1, a2}
  Plans <- SomeFaults
SPECIFICATION Spec
INVARIANTS SessionInv IndexesAgree TurnFollowsCodex DrainedRuntimeIsIdle AsksReachTheUser
PROPERTIES ArchivedForGood
CHECK_DEADLOCK FALSE

CONSTANTS
  s1 = s1
  s2 = s2
  a1 = a1
  Session = {s1, s2}
  Approval = {a1}
  None = None
  PageSize = 2
  MaxPages = 2
  MaxLength = 5
  Foreign = {"bad event", "bad snapshot"}
SPECIFICATION Spec
INVARIANTS ReplayIsMeaning PagingIsExact
CHECK_DEADLOCK FALSE

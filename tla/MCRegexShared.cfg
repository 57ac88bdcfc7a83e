CONSTANTS
  Thread = {t1, t2}
  Address = {a1, a2}
  MaxPos = 2
  MaxCalls = 2
  Free = Free
SPECIFICATION Spec
PROPERTIES
  OwnMatches
  OwnCaptures
  CallsReturn
CHECK_DEADLOCK FALSE

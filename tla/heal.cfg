SPECIFICATION FairSpec
CONSTANTS
  t1 = t1
  t2 = t2
  t3 = t3
  None = None
  Thread = {t1, t2}
  Virtual = {1}
  Handle <- MCHandle
  MaxId = 5
  MaxCrashes = 1
  Unsubscribes = TRUE
  Controls = TRUE
  MaxLate = 2
INVARIANTS AtMostOneLive OrphansAreLate
PROPERTIES Healed HandleStaysClosed
CHECK_DEADLOCK FALSE

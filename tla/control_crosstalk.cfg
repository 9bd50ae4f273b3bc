SPECIFICATION Spec
CONSTANTS
  t1 = t1
  t2 = t2
  t3 = t3
  None = None
  Thread = {t1, t2, t3}
  Virtual = {1, 2}
  Handle <- MCHandle
  MaxId = 4
  MaxCrashes = 0
  Unsubscribes = FALSE
  Controls = TRUE
  MaxLate = 0
PROPERTY OwnSubscription

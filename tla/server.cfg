SPECIFICATION FairSpec
CONSTANTS
  Conn = {c1, c2}
  Producing = {c1, c2}
  Consuming = {c2}
  Sub = {s1}
  IdleTicks = 1
  Signals = TRUE
INVARIANTS SelfExitCutsNobody AckedIsAnswered FlushIsLast
PROPERTIES DrainCompletes IdleExits
CHECK_DEADLOCK FALSE

SPECIFICATION FairSpec
CONSTANTS
  Proc = {p1, p2}
  Worker = {w1, w2}
  None = None
  ReplayErrors = TRUE
INVARIANTS TypeOK AtMostOneWorker ServingReachable
PROPERTY ServiceRecovers

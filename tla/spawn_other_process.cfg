SPECIFICATION Spec
CONSTANTS
  Proc = {p1, p2}
  Worker = {w1, w2}
  None = None
  ReplayErrors = FALSE
PROPERTY ClusterKnown

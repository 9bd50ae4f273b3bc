SPECIFICATION FairSpec
CONSTANTS
  Thread = {t1, t2}
  Conn = {c1, c2, c3}
  MaxIdle = 1
  MaxCalls = 2
  NoConn = NoConn
INVARIANTS TypeOK ExclusiveConn PoolClean OwnResponse TwiceOnlyAfterCut
PROPERTY CallReturns
CHECK_DEADLOCK FALSE

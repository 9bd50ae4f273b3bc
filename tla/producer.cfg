SPECIFICATION FairSpec
CONSTANTS
  Caller = {c1, c2}
  TxnCaller = {c1}
  MaxVersion = 2
  MaxCell = 3
INVARIANTS TypeOK FreshAtStart OneProducerAtFirst CommitTruthful
PROPERTY CallReturns
CHECK_DEADLOCK FALSE

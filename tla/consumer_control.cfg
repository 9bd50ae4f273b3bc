SPECIFICATION Spec
CONSTANTS
  Partition = {t1}
  Poller = {p1}
  Caller = {c1}
  JobId = {1}
  LogSize <- GrowingLogSize
  MaxFetch = 2
  MaxMessages = {1}
  SeekOffsets = {1}
  MaxSeeks = 1
  Assignments <- AllPartitions
  FlowTargets = {{}}
  GroupOps = {"commit", "rebalance"}
  RdFails = TRUE
  BufferCapacity = 2
  PauseAt = 0
  ResumeAt = 0
  BufferBytesCapacity = 2
  PauseAtBytes = 0
  ResumeAtBytes = 1
  MaxConsecutiveErrors = 1
  MaxQueue = 1
INVARIANTS BytesExact SeekOrder AssignmentKnown

SPECIFICATION Spec
CONSTANTS
  Partition = {t1}
  Poller = {p1}
  Caller = {}
  JobId = {1, 2}
  LogSize <- MCLogSize
  MaxFetch = 2
  MaxMessages = {1, 3}
  SeekOffsets = {}
  MaxSeeks = 0
  Assignments <- AllPartitions
  FlowTargets = {}
  GroupOps = {"commit"}
  RdFails = FALSE
  BufferCapacity = 2
  PauseAt = 2
  ResumeAt = 0
  BufferBytesCapacity = 2
  PauseAtBytes = 2
  ResumeAtBytes = 1
  MaxConsecutiveErrors = 2
  MaxQueue = 2
INVARIANT CommittedWasHanded

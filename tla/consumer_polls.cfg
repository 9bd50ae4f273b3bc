SPECIFICATION FairSpec
CONSTANTS
  Partition = {t1}
  Poller = {p1, p2}
  Caller = {}
  JobId = {1}
  LogSize <- MCLogSize
  MaxFetch = 3
  MaxMessages = {1}
  SeekOffsets = {}
  MaxSeeks = 0
  Assignments <- AllPartitions
  FlowTargets = {}
  GroupOps = {"unsubscribe"}
  RdFails = TRUE
  BufferCapacity = 2
  PauseAt = 2
  ResumeAt = 0
  BufferBytesCapacity = 9
  PauseAtBytes = 9
  ResumeAtBytes = 2
  MaxConsecutiveErrors = 2
  MaxQueue = 2
INVARIANTS TypeOK ExactlyOnce WithinCapacity BytesExact
PROPERTIES TerminationReported EventuallyHanded DeliversInOrder

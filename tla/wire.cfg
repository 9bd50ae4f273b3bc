SPECIFICATION Spec
CONSTANTS
  None = None
  StrMax = 4
  encode <- Encode
  decode <- Decode
  Sample <- MCSample
  Batch <- MCBatch
  Bootstrap <- MCBootstrap
  PROTOCOL_MAJOR = 1
  Majors = {1, 2}
  MAX_PAYLOAD_LEN = 90
  PRODUCE_MAX = 55
  CONTROL_MAX = 54
  MaxCalls = 2
INVARIANTS Understood RightAnswer
CHECK_DEADLOCK FALSE

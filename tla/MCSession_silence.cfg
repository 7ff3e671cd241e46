\* Heartbeats, TestRequests and timeouts of an initiator whose peer may fall silent.
CONSTANTS
  MAX_SEQ_NUM = 3
  UINT32 = 8
  MaxMessages = 1
  MaxBytes = 1
  PoolBytes = 1
  EvictOldest = TRUE
  SizeOf <- Size
  MAX_FIELDS = 1
  MAX_MESSAGE_SIZE = 2
  DupBytes = 1
  FieldsOf <- FieldCount
  CharOf <- Char
  AgeCap = 9
  Configs <- TimeConfigs
  PeerMessages <- TimeMessages
  Bodies = {1}
  FailSets <- NoFailure
  Restarts = FALSE
  MaySilence = TRUE
SPECIFICATION FairSpec
INVARIANTS
  AskedBeforeTimeout
PROPERTIES
  SilenceIsNoticed

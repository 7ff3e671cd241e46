\* Does an initiator that keeps its numbers log on again after a reconnection?
CONSTANTS
  MAX_SEQ_NUM = 9
  UINT32 = 16
  MaxMessages = 1
  MaxBytes = 1
  PoolBytes = 1
  EvictOldest = TRUE
  SizeOf <- One
  MAX_FIELDS = 1
  MAX_MESSAGE_SIZE = 2
  DupBytes = 1
  FieldsOf <- One
  CharOf <- Type
  AgeCap = 0
  InitiatorConfigs <- Continuing
  AcceptorConfig <- Acceptor
  Bodies = {1}
  FailSets <- NoFailure
  MaxOut = 4
SPECIFICATION Spec
INVARIANTS
  ReconnectLogsOn

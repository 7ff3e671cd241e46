\* Sequence numbers and store of an initiator that may be replaced and of an acceptor; the counter wraps at 3.
CONSTANTS
  MAX_SEQ_NUM = 3
  UINT32 = 8
  MaxMessages = 2
  MaxBytes = 2
  PoolBytes = 3
  EvictOldest = TRUE
  SizeOf <- Size
  MAX_FIELDS = 1
  MAX_MESSAGE_SIZE = 2
  DupBytes = 1
  FieldsOf <- FieldCount
  CharOf <- Char
  AgeCap = 0
  Configs <- StoreConfigs
  PeerMessages <- NumberMessages
  Bodies = {1, 2, 3, 4}
  FailSets <- AnyFailure
  Restarts = TRUE
  MaySilence = FALSE
SPECIFICATION Spec
INVARIANTS
  TypeOK
  StoreKeysMatch
  PersistedOutbound
  NewNumbersConsecutive
  ActiveMeansLoggedOn
  ReplaysAreFaithful
PROPERTIES
  InboundNeverBack

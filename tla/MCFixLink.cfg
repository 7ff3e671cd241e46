\* An initiator that resets the numbers at logon and an acceptor, with broken connections.
CONSTANTS
  MAX_SEQ_NUM = 9
  UINT32 = 16
  MaxMessages = 1
  MaxBytes = 1
  PoolBytes = 1
  EvictOldest = TRUE
  SizeOf <- One
  MAX_FIELDS = 1
  MAX_MESSAGE_SIZE = 2
  DupBytes = 1
  FieldsOf <- One
  CharOf <- Type
  AgeCap = 0
  InitiatorConfigs <- Resetting
  AcceptorConfig <- Acceptor
  Bodies = {1}
  FailSets <- AnyFailure
  MaxOut = 4
SPECIFICATION FairSpec
INVARIANTS
  WireInSequence
  AppsArrive
  ActiveHasPeer
PROPERTIES
  HandshakesEnd

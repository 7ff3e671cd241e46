\* A buffer of twelve and messages of up to six, in any portions.
CONSTANTS
  MAX_MESSAGE_SIZE = 64
  MAX_PENDING = 2
  BufferSize = 12
  FrameLists <- PlainLists
SPECIFICATION Spec
INVARIANTS
  DeliveredOnArrival
  BufferInOrder
  RoomToRead

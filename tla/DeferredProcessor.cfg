\* A processor stopped and started again, with batches of one and two messages.
CONSTANTS
  QueueBound = 3
  BatchSizes = {1, 2}
  MaxMessages = 5
  MaxStops = 2
  None = None
SPECIFICATION FairSpec
INVARIANTS
  Conserved
  OneWorker
PROPERTIES
  EveryMessageProcessed
  StopReturns

\* The single-producer single-consumer queue with four slots.
CONSTANTS
  Capacity = 4
  Items = {a, b}
  None = None
SPECIFICATION FairSpec
INVARIANTS
  NoSlotRace
PROPERTIES
  ImplementsFifo
  EveryItemTaken

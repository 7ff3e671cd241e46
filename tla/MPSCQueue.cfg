\* Two producers and a consumer over two slots, five pushes: each slot is used again twice.
CONSTANTS
  Producers = {p1, p2}
  Capacity = 2
  Items = {a, b}
  None = None
  MaxPushes = 5
SPECIFICATION FairSpec
INVARIANTS
  NoSlotRace
PROPERTIES
  ImplementsFifo
  EveryItemTaken

SPECIFICATION RingSpec
CONSTANTS
  MinimumCapacity = 2
  Values = {0, 1}
  IndexModulus = 8
  MaxCount = 3
INVARIANTS
  NoSlotRace
PROPERTIES
  IsFifoQueue
  DiscardIsExact

SPECIFICATION Spec
CONSTANTS
  InitialDelay = 2
  Window = 2
  Warmup = 2
  MaxDelay = 4
  PopsBetweenDrops = 2
  MaxRewind = 2
  MissingBeforeRebuffer = 3
  MaxAhead = 3
  MaxSequence = 5
  MaxTime = 11
CHECK_DEADLOCK FALSE
INVARIANTS
  QueuedAhead
PROPERTIES
  PlayedInOrder
  ShrinksSparingly

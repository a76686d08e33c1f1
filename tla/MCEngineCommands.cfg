SPECIFICATION Spec
CONSTANT Clients = {a, b, c}
CHECK_DEADLOCK FALSE
INVARIANTS
  WaitingIsQueued
PROPERTIES
  EveryCommandAnswered
  DestroyEnds

SPECIFICATION FairSpec
CONSTANTS
  MaxSends = 3
  MaxInput = 2
  Endpoints = 2
  WakeCapacity = 2
CHECK_DEADLOCK FALSE
INVARIANTS WakeUpComes
PROPERTIES IsByteStream SentGoesOut ListenerHears DestroyReturns

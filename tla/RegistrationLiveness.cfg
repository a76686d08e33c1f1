SPECIFICATION LiveSpec
CONSTANTS
  Branches = {b1, b2, b3}
  Statuses = {200, 401, 403, 500}
  Transport = "TLS"
  AppWaits = TRUE
CHECK_DEADLOCK FALSE
INVARIANTS
  KeptRefreshed
  ApplicationKnows
  UnregisterSticks
PROPERTIES
  EventuallyStaysRegistered
  UnwantedComesToRest

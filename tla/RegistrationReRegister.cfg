SPECIFICATION Spec
CONSTANTS
  Branches = {b1, b2}
  Statuses = {200, 401, 403, 500}
  Transport = "UDP"
  AppWaits = FALSE
CHECK_DEADLOCK FALSE
INVARIANT KeptRefreshed

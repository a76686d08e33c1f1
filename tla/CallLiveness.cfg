SPECIFICATION LiveSpec
CONSTANTS
  MaxCalls = 2
  Callers = {c1}
  Transport = "TLS"
CHECK_DEADLOCK FALSE
INVARIANTS
  StoriesLegal
  SocketFollowsCall
  CancelWhenAllowed
  NoOrphanDialog
  RingingOrAnswered
PROPERTIES
  OneFinalResponse
  NoCallHangs

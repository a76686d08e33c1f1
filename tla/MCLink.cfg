SPECIFICATION LinkSpec
CONSTANTS
  Requests = {r1, r2}
  MaxGeneration = 7
  InboxBound = 3
  PendingLimit = 1
SYMMETRY RequestSymmetry
CHECK_DEADLOCK FALSE
INVARIANTS
  NoRequestStranded
  FramerFresh
  UpIsReal
PROPERTY RelinkDropsSuspect

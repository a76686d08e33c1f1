SPECIFICATION Spec
CONSTANTS
  MaxCalls = 1
  Callers = {c1}
  Transport = "UDP"
CHECK_DEADLOCK FALSE
INVARIANT EveryAnswerAcked

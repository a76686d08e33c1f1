SPECIFICATION Spec
CONSTANTS
  MaxCalls = 2
  Callers = {c1}
  Transport = "UDP"
CHECK_DEADLOCK FALSE
PROPERTY NotASecondCall

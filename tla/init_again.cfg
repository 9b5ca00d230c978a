SPECIFICATION Spec
CONSTANTS
  Callers = {c1, c2, c3}
  MaxCalls = 2
INVARIANTS
  RepeatedCallsAreSafe
CHECK_DEADLOCK FALSE

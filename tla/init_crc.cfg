SPECIFICATION Spec
CONSTANTS
  Callers = {c1, c2, c3}
  MaxCalls = 2
INVARIANTS
  PublishedIsIntact
CHECK_DEADLOCK FALSE

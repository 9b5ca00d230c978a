SPECIFICATION Spec
CONSTANTS
  Callers = {c1, c2, c3}
  MaxCalls = 2
INVARIANTS
  TypeOK PopulatedOnce ReturnMeansReady
PROPERTIES
  PublishedIsFinal ResolveEnds
CHECK_DEADLOCK FALSE

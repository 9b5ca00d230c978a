SPECIFICATION Spec
CONSTANTS
  ThreadCount = 3
  Page = 2
  Descriptor = 1
  ListHeader = 1
  kMaxCapturedStackBytes = 8
  kStackOverflowFullStackThreshold = 8
  kStackOverflowLiveStackBytes = 4
  kStackOverflowHighStackBytes = 4
  Sizes = {0, 2, 4, 10}
  Offsets = {1, 5}
  Spacing = 100
  FixedSizes = {3}
  HardCaps = {3, 6, 7, 9, 12, 15, 19, 40}
INVARIANT TypeOK WindowsInside FitsCap  PriorityRespected OverflowWhole NothingWasted
CHECK_DEADLOCK FALSE

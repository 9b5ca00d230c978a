SPECIFICATION Spec
CONSTANTS
  ThreadCount = 1
  Page = 2
  Descriptor = 1
  ListHeader = 1
  kMaxCapturedStackBytes = 8
  kStackOverflowFullStackThreshold = 8
  kStackOverflowLiveStackBytes = 4
  kStackOverflowHighStackBytes = 4
  Sizes = {0, 2, 4, 10, 14}
  Offsets = {1, 3, 5}
  Spacing = 100
  FixedSizes = {3}
  HardCaps = {4, 12, 40}
INVARIANT StackBaseKept
CHECK_DEADLOCK FALSE

SPECIFICATION Spec
CONSTANTS
  Page = 4
  kPointerStraddleWindow = 2
  kIndirectMaxScanLayers = 3
  kIndirectChainFanout = 2
  kIndirectPerSeedReserve = 2
  HashSlots = 5
  kMaxKnownMemoryRanges = 4
  kMaxProcThreadRanges = 3
  kProcThreadRangeMaxBytes = 3
  kMaxDataSegRanges = 1
  MinAppAddr = 4
  MaxAppAddr = 47
  Worlds <- MCWorlds
  Memories <- MCMemories
  Leftovers <- MCLeftovers
INVARIANT TypeOK DescribedOnce LimitsKept ReferencesFollowed WithinReach
CHECK_DEADLOCK FALSE

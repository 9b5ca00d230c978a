SPECIFICATION Spec
CONSTANTS
  ThreadCount = 2
  HeaderSize = 1
  DirectorySize = 1
  SizeOf <- MCSizeOf
  Descriptor = 1
  ListHeader = 1
  List64Header = 2
  Page = 2
  Alignment = 2
  kMaxUserStreams = 2
  RvaModulus = 64
  kSelectedDumpRvaLimit = 60
  IndirectCapacity = 3
  HardCaps = {26, 38, 62, 120}
  WantedSets <- MCWantedSets
  StackShapes <- MCStackShapes
  ProcLists <- MCProcLists
  DataLists <- MCDataLists
  FullLists <- MCFullLists
  UserArrays <- MCUserArrays
  MaxFaults = 1
INVARIANT TypeOK FileFits OffsetsExact DescriptorsMatchBytes 
PROPERTY AdmittedIsWritten
CHECK_DEADLOCK FALSE

SPECIFICATION Spec
CONSTANTS
  Setters = {1, 2}
  Names <- MCNames
  Letters <- MCLetters
  Chars <- MCChars
  NoThread = NoThread
  NoValue = NoValue
  kCommentBufferWChars = 18
  kCommentMaxSectionKeyChars = 3
  kCommentMaxValueChars = 3
  MaxKills = 1
  kMaxModules = 3
  kMaxUnloadedModules = 3
  kMaxModuleNameBytes = 8
  kMaxCodeViewRecordBytes = 8
  kMaxThreadNameChars = 3
  kImageNameChars = 3
  ULONG32Size = 4
  WCHARSize = 2
  Alignment = 4
  ModuleSize = 8
  UnloadedHeader = 4
  UnloadedSize = 8
  NamesHeader = 4
  NameSize = 8
  InfoHeader = 4
  InfoSize = 8
  ThreadListSize = 12
  RestSize = 40
  Worlds <- MCWorlds
INVARIANT TypeOK WrittenInPlace
PROPERTY ImplementsCommentMap SettersReturn
CHECK_DEADLOCK FALSE

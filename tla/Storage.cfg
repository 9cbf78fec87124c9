CONSTANTS
  FileNames <- MCFileNames
  Payloads <- MCPayloads
  MaxNumFiles = 2
  MaxFileSize = 3
  Capacity = 4
  Tasks = {t1, t2}
  Names <- MCNames
  CacheMinSize = 1
  MaxFiles = 2
  NoTask = NoTask
  BlockSize = 6
  BlockCount = 7
  InlineMax = 1
  ProgSize = 6
  LookSize = 4
  Worn = {4}
  MaxSteps = 9
  MaxSize = 12
  Versions = {1, 2}
  Starts = {3}
  WriteSizes = {4}
  ReadSizes = {4}
  SeekPositions = {0, 7}
  TruncateSizes = {3}
  SeeksAtBlockEnd = FALSE
  Appenders = {2}
SPECIFICATION MCSpec
INVARIANTS
  CacheSound ContentsAsPromised NoFileLeftOpen
  TableSound StreamMissesNothing
  BlocksSound
PROPERTIES DescriptorsKeepTheirFile ImplementsByteFile

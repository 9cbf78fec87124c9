CONSTANTS
  BlockSize = 6
  BlockCount = 7
  InlineMax = 1
  ProgSize = 6
  LookSize = 4
  Worn = {}
  MaxSteps = 10
  MaxSize = 12
  Versions = {1}
  Starts = {3}
  WriteSizes = {4}
  ReadSizes = {4}
  SeekPositions = {0, 7}
  TruncateSizes = {6}
  SeeksAtBlockEnd = FALSE
  Appenders = {}
SPECIFICATION BlocksSpec
CHECK_DEADLOCK FALSE
PROPERTIES ImplementsByteFile

CONSTANTS
  StartColumn = 2
  IsrRows = {0}
  QueueLength = 1
  NumChars = 4
  NameLength = 4
  MaxNumFiles = 2
  FileLists <- MCFileLists
  LastUniqueID = 3
  TempoMin = 1
  TempoMax = 1
  QuantItems = 2
  Announcements <- MCAnnouncements
SPECIFICATION MCSpec
CHECK_DEADLOCK FALSE
INVARIANTS ColumnFollowsCounter ReportedColumn MenuSound DefaultNameIsFree
PROPERTIES HeldKeyReported AnnouncementShown

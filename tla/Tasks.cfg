CONSTANTS
  Rows = {0, 1, 2, 3}
  Columns = {0, 1, 2}
  Durations = {1, 2}
  Velocities = {0}
  PoolSize = 14
  Row = 3
  DefaultVelocity = 0
  NoLimit = 2
  Databases <- MCDatabases
  Uuids = {"gap", "target", "c0", "c1", "x", "none"}
  MaxSvcs = 2
  MaxChrs = 2
  MaxDscs = 2
  Handles = {1, 2}
  MaxPackets = 3
  MaxConnections = 2
  MaxRequests = 2
SPECIFICATION MCSpec
CHECK_DEADLOCK FALSE
INVARIANTS RowsSurviveAnyMenu DiscoverySound StreamSound
PROPERTIES PressesMakeNotes LooksAgain DiscoveryEnds StreamEnds

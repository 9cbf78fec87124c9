CONSTANTS
  Rows = {0, 1, 2, 3, 4, 5, 6, 7, 8}
  UsedRows = {6, 7}
  Columns = {0, 1, 2}
  Durations = {1, 2}
  Velocities = {126, 127}
  PoolSize = 8
  Width = 2
  TicksPerColumn = 96
SPECIFICATION CallerSpec
INVARIANTS LoadRestoresGrid

CONSTANTS
  Rows = {0, 1, 2, 3}
  Columns = {0, 1, 2}
  Durations = {1, 2}
  Velocities = {0}
  PoolSize = 14
  Row = 3
  DefaultVelocity = 0
  NoLimit = 2
SPECIFICATION Spec
INVARIANTS EditsFindTheirNote

CONSTANTS
  Encoders = {0, 1}
  Turned = {1}
  EncoderCountPerRev = 4
  EncoderQueueSize = 2
  Rows = {0, 1, 2, 3}
  Columns = {0, 1, 2}
  Durations = {1, 2, 3}
  Velocities = {0, 1}
  PoolSize = 14
  Row = 3
  DefaultVelocity = 1
  NoLimit = 3
SPECIFICATION MCSpec
CHECK_DEADLOCK FALSE
INVARIANTS EditReachesShownNote MenuShowsTheNote CarefulEditsKeepRows
PROPERTIES
  TurnsAreReal SteadyTurnHeard PressesHeardAgain
  ImplementsSystemTask

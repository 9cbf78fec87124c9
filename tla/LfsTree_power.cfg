CONSTANTS
  BlockCount = 16
  Room = 3
  HalfRoom = 2
  TiredWhenFull = FALSE
  Paths <- MCPaths
  Contents = {"f1", "f2", "f3", "f4", "f5"}
  CalmRenames = TRUE
  CalmRepairs = TRUE
  Plans <- MCPlans
SPECIFICATION Spec
INVARIANTS VolumeSound
PROPERTIES ImplementsNameTree OperationsEnd

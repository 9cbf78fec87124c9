CONSTANTS
  BlockCount = 16
  Room = 3
  HalfRoom = 2
  TiredWhenFull = FALSE
  Paths <- MCPaths
  Contents = {"f1", "f2", "f3", "f4", "f5"}
  CalmRenames = FALSE
  CalmRepairs = TRUE
  Plans <- MCRenamePlans
SPECIFICATION Spec
PROPERTIES ImplementsNameTree

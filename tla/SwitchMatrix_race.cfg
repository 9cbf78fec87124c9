CONSTANTS
  StartColumn = 2
  IsrRows = {0}
  QueueLength = 1
SPECIFICATION ScanSpec
INVARIANTS EnergizedColumnReported

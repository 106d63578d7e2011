SPECIFICATION RebuildSpec
CONSTANTS
  None = None
  HashOrder <- SomeOrder
  PageSize = 1
  Files = {f1, f2}
  Contents = {a}
  Eligible = {a}
  Workers = {w1}
  PathLimit = 1
  MaxEdits = 2
  MaxFailures = 0
CHECK_DEADLOCK FALSE
PROPERTIES
  ScanTombstonesAllMissing

SPECIFICATION OneIndexedSpec
CONSTANTS
  None = None
  HashOrder <- SomeOrder
  PageSize = 1
  Files = {f1, f2}
  Contents = {a, b, secret}
  Eligible = {a, b}
  Workers = {w1, w2}
  PathLimit = 2
  MaxEdits = 2
  MaxFailures = 1
CHECK_DEADLOCK FALSE
SYMMETRY IndexSymmetry
INVARIANTS
  IndexTypeOK
PROPERTIES
  TombstonesOnlyMissing
  ScanRepairs
  RebuildRepairs

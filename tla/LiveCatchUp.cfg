SPECIFICATION FairLiveSpec
CONSTANTS
  None = None
  HashOrder <- SomeOrder
  PageSize = 2
  Rescan = Rescan
  NewDir = NewDir
  Files = {f1, f2}
  Contents = {a}
  Eligible = {a}
  Workers = {w1}
  PathLimit = 1
  MaxEdits = 2
  MaxFailures = 0
  NewDirFiles = {f2}
  MaxRestarts = 1
  QueueDepth = 1
  OSDepth = 1
CHECK_DEADLOCK FALSE
PROPERTIES
  LiveCatchesUp
INVARIANTS
  LiveTypeOK
  NoChangeLost

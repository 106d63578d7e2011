SPECIFICATION FairSpec
CONSTANTS
  pA = pA
  pB = pB
  NoTask = NoTask
  Projects = {pA, pB}
  MCTaskNames = {"rebuildRunA", "recoverA", "pathA1"}
  Workers = {w1, w2}
  QueueDepth = 1
  PerProjectWorkerLimit = 2
  LivePathPriority = FALSE
  MaxRestarts = 1
  Tasks <- MCTasks
  Project <- MCProject
  Wide <- MCWide
  Prepared <- MCPrepared
  Recovery <- MCRecovery
  Rebuilds <- MCRebuilds
CHECK_DEADLOCK FALSE
INVARIANTS
  NoOrphanRuns
PROPERTIES
  RunsMoveForward
  WorkersExitAfterStop
  PreparedRunsSettle
  QueuedTasksFinish
  RecoveryScanSettles

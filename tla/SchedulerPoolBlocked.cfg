SPECIFICATION FairSpec
CONSTANTS
  pA = pA
  pB = pB
  NoTask = NoTask
  Projects = {pA, pB}
  MCTaskNames = {"scanA", "pathA1"}
  Workers = {w1}
  QueueDepth = 1
  PerProjectWorkerLimit = 1
  LivePathPriority = TRUE
  MaxRestarts = 0
  Tasks <- MCTasks
  Project <- MCProject
  Wide <- MCWide
  Prepared <- MCPrepared
  Recovery <- MCRecovery
  Rebuilds <- MCRebuilds
CHECK_DEADLOCK FALSE
PROPERTIES
  PendingProjectWideWorkRuns

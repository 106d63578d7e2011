SPECIFICATION Spec
CONSTANTS
  pA = pA
  pB = pB
  NoTask = NoTask
  Projects = {pA, pB}
  MCTaskNames = {"scanA", "rebuildA", "pathA1", "pathA2", "pathB"}
  Workers = {w1, w2}
  QueueDepth = 1
  PerProjectWorkerLimit = 1
  LivePathPriority = TRUE
  MaxRestarts = 0
  Tasks <- MCTasks
  Project <- MCProject
  Wide <- MCWide
  Prepared <- MCPrepared
  Recovery <- MCRecovery
  Rebuilds <- MCRebuilds
CHECK_DEADLOCK FALSE
SYMMETRY WorkerSymmetry
INVARIANTS
  TypeOK
  WideRunsAlone
  ProjectLimitRespected
  CountersMatchTasks
  ParkedWorkersMustWait
  TaskInOnePlace
  OnlyPathsBlockThePool
PROPERTIES
  ImplementsAdmission

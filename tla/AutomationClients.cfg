SPECIFICATION Spec
CONSTANTS
  NoRun = NoRun
  Runners = {w1}
  Clients = {l1}
  MaxRetries = 1
  MaxReplacements = 1
  MaxRuns = 2
  MaxClientCalls = 1
  MaxStamps = 2
  MaxFaults = 1
  FaultKinds = {"cut", "death", "restart"}
  OperatorMoves = {"rerun"}
CHECK_DEADLOCK FALSE
INVARIANTS
  TypeOK
  CompletedMeansDone
  ReplacementsCapped

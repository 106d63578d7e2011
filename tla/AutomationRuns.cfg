SPECIFICATION FairSpec
CONSTANTS
  NoRun = NoRun
  Runners = {w1, w2}
  Clients = {}
  MaxRetries = 2
  MaxReplacements = 1
  MaxRuns = 2
  MaxClientCalls = 0
  MaxStamps = 2
  MaxFaults = 1
  FaultKinds = {"death"}
  OperatorMoves = {}
CHECK_DEADLOCK FALSE
INVARIANTS
  OneActiveOwner
PROPERTIES
  ImplementsSuccession
  FreshRunnersKeepTheirRuns
  ActiveRunsSettle
  HeldTasksMoveOn

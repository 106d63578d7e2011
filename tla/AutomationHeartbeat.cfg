SPECIFICATION Spec
CONSTANTS
  NoRun = NoRun
  Runners = {w1, w2}
  Clients = {}
  MaxRetries = 2
  MaxReplacements = 1
  MaxRuns = 1
  MaxClientCalls = 0
  MaxStamps = 3
  MaxFaults = 0
  FaultKinds = {}
  OperatorMoves = {}
CHECK_DEADLOCK FALSE
PROPERTIES
  FreshRunnersNotExpired

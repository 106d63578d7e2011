SPECIFICATION FairSpec
CONSTANTS
  NoGraph = NoGraph
  NoUser = NoUser
  Graphs = {g1, g2, g3}
  Users = {u1, u2}
  Closers = {c1}
  MaxOpen = 1
  MaxFaults = 1
CHECK_DEADLOCK FALSE
INVARIANTS
  LeasedStaysOpen
  LimitHoldsAtRest
  ClosedForGood
PROPERTIES
  EnforcementEnds
  ClosersReturn

SPECIFICATION Spec
CONSTANTS
  NoRun = NoRun
  Callers = {c1, c2}
  Attachers = {c1}
  Compilers = {c1, c2}
  Runs = {r1, r2}
  Refs = {v}
  InitialStatuses = {"planned", "ready"}
  Qualities = {TRUE}
  Requested = {"ready", "claimed", "in_progress", "done"}
  Exemptions = {FALSE}
SYMMETRY RunSymmetry
INVARIANTS
  TypeOK
  CompletionGate
  WorkPrecedesCompletion
  ReadyIsClaimable
PROPERTIES
  FreshWritesKeepOrder

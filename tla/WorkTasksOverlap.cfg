SPECIFICATION Spec
CONSTANTS
  NoRun = NoRun
  Callers = {c1, c2}
  Attachers = {c1}
  Compilers = {}
  Runs = {r1, r2}
  Refs = {v}
  InitialStatuses = {"ready"}
  Qualities = {TRUE}
  Requested = {"claimed", "in_progress", "done"}
  Exemptions = {FALSE}
SYMMETRY RunSymmetry
PROPERTIES
  FinishedStaysFinished

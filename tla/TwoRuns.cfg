CONSTANTS
  Openers = {p1, p2}
  OldRuns = {o1}
  Uncertain = {o1}
  Sessions = {s1}
  None = None
SPECIFICATION Spec
INVARIANT OneActiveRun
CHECK_DEADLOCK FALSE

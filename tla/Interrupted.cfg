CONSTANTS
  Paths = {"f"}
  Contents = {x, y}
  NumPhases = 1
  Allowed <- OnePhase
  Sessions = {s1, s2}
  Calls = {c1}
  None = None
  MaxRevision = 4
  Authorities = {a1}
  Terminals = {t1}
  MaxEdits = 1
  Segment = {"a", "b"}
SPECIFICATION FairSpec
PROPERTY InterruptedWriteSettles
CHECK_DEADLOCK FALSE

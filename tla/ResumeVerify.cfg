CONSTANTS
  Paths = {"f"}
  Contents = {x, y}
  NumPhases = 1
  Allowed <- OnePhase
  Sessions = {s1}
  Calls = {c1}
  None = None
  MaxRevision = 5
  Authorities = {a1}
  Terminals = {t1}
  MaxEdits = 0
  Segment = {"a", "b"}
SPECIFICATION FairSpec
PROPERTY ResumeEndsVerification
CHECK_DEADLOCK FALSE

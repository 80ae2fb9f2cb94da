CONSTANTS
  Paths = {"f"}
  Contents = {x, y}
  NumPhases = 1
  Allowed <- OnePhase
  Sessions = {s1}
  Calls = {c1, c2}
  None = None
  MaxRevision = 6
  Authorities = {a1}
  Terminals = {}
  MaxEdits = 0
  Segment = {"a", "b"}
SPECIFICATION Spec
INVARIANT UnattributedIsOutside
SYMMETRY MCSymmetry
CHECK_DEADLOCK FALSE

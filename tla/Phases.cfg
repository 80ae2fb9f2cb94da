CONSTANTS
  Paths = {"f", "g"}
  Contents = {x, y}
  NumPhases = 2
  Allowed <- TwoPhases
  Sessions = {s1}
  Calls = {c1}
  None = None
  MaxRevision = 6
  Authorities = {a1}
  Terminals = {t1}
  MaxEdits = 1
  Segment = {"a", "b"}
SPECIFICATION Spec
PROPERTIES WritesAttributed ImplementsStore
SYMMETRY MCSymmetry
CHECK_DEADLOCK FALSE

CONSTANTS
  Paths = {"f"}
  Contents = {x, y}
  NumPhases = 1
  Allowed <- OnePhase
  Sessions = {s1}
  Calls = {c1, c2}
  None = None
  MaxRevision = 6
  Authorities = {a1, a2}
  Terminals = {t1}
  MaxEdits = 0
  Segment = {"a", "b"}
SPECIFICATION Spec
INVARIANTS GuardianTypeOK LeaseAnchored RevisionFences OneVerifier EvidenceCurrent
PROPERTIES KeepsPromise
SYMMETRY MCSymmetry
CHECK_DEADLOCK FALSE

CONSTANTS
  Allowed <- MCAllowed
  Paths = {"f"}
  Contents = {0, 1}
  NumPhases = 2
  Sessions = {s1, s2}
  Calls = {c1}
  None = None
  MaxRevision = 7
  Times = {1, 2}
  Requests = {q1}
SYMMETRY Symmetry
SPECIFICATION Spec
INVARIANTS TypeOK PhaseLadder LeasePinsRun EvidenceGate ReplayAgrees FitIsEarned
PROPERTIES BlockedRecordsNoWrite AcceptedKeepsVerdict
CHECK_DEADLOCK FALSE

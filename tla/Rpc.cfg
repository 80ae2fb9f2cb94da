CONSTANTS
  Callers = {c1, c2}
  OtherLines <- MCOtherLines
  CacheSize = 2
  None = None
  MaxLines = 4
  MaxRevision = 2
SPECIFICATION Spec
INVARIANTS RpcTypeOK RunsOnce AnswersOwnLine StatusSettlesEarlier
PROPERTIES LatestForward KeepsCall CallsEnd
CHECK_DEADLOCK FALSE

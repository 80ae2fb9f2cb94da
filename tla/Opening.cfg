CONSTANTS
  Openers = {p1, p2}
  OldRuns = {o1, o2}
  Uncertain = {o1}
  Sessions = {s1}
  None = None
SPECIFICATION MCSpec
INVARIANTS OpenTypeOK VersionNamesTables ReadOnlyIsOld FailedStartLeavesNothing CancelledUnused StrayTreesTraced LostTreesReported SessionHasOneRun
PROPERTY OpenSettles
CHECK_DEADLOCK FALSE

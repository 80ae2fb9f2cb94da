CONSTANTS
  Authorities = {u}
  Packets = {k1}
  Reviews = {r1, r2}
  Approvals = {x1}
  Procs = {p1}
  None = None
  MaxEvents = 5
SPECIFICATION Spec
PROPERTIES CurrentReviewSuffices
CHECK_DEADLOCK FALSE

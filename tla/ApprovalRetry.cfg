CONSTANTS
  Authorities = {u}
  Packets = {k1}
  Reviews = {r1, r2}
  Approvals = {x1}
  Procs = {p1, p2}
  None = None
  MaxEvents = 8
SPECIFICATION FairSpec
PROPERTIES ApprovalSettles
CHECK_DEADLOCK FALSE

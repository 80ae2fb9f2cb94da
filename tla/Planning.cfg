CONSTANTS
  Authorities = {u, v}
  Packets = {k1, k2}
  Reviews = {r1, r2, r3}
  Approvals = {x1, x2}
  Procs = {p1, p2}
  None = None
  MaxEvents = 8
SPECIFICATION Spec
INVARIANTS PlanningTypeOK PlanningChain ReviewedOnce ApprovedOnce ReplayAccepts
PROPERTIES KeepsGate
SYMMETRY MCSymmetry
CHECK_DEADLOCK FALSE

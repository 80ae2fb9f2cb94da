--------------------------- MODULE MCPlanningGate ---------------------------
(* Instances of the planning gate.                                          *)
EXTENDS PlanningGate, TLC

\* Nothing distinguishes two receipts of a kind, two processes, packets or claims.
MCSymmetry == Permutations(Reviews) \cup Permutations(Approvals) \cup Permutations(Procs)
              \cup Permutations(Packets) \cup Permutations(Authorities)
=============================================================================

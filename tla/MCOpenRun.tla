------------------------------ MODULE MCOpenRun ------------------------------
(* Two terminals that open one project, with at most one old Run, on a      *)
(* database that is new, of version 1 or 2, or up to date; the versions  *)
(* in between occur while it is migrated.                                   *)
EXTENDS OpenRun

MCInit == Init /\ version \in {0, 1, 2, 7}

MCSpec == MCInit /\ [][Next]_vars /\ Fairness
=============================================================================

---------------------------- MODULE MCEventReplay ----------------------------
(* The store and its event chain under every possible caller, with two      *)
(* phases, two sessions, one request of each kind and a clock of two times. *)
EXTENDS EventReplay, TLC

\* One file, which both phases may write: the scopes of phases make no
\* difference to the replay.
MCAllowed == [p \in 1..2 |-> {"f"}]

Symmetry == Permutations(Sessions)
=============================================================================

----------------------------- MODULE GuardedRun -----------------------------
(***************************************************************************)
(* What a guarded Run promises to whoever reads its record, without leases, *)
(* revisions, processes or a disk: the recorded content moves only inside   *)
(* the scope of the phase in progress, a verdict attests the content that   *)
(* was verified, any change of the content withdraws it, and a Run is only  *)
(* accepted on a verdict about the content it still records.                *)
(***************************************************************************)
EXTENDS Integers

CONSTANTS
  Paths, Contents, NumPhases, Allowed,
  NoVerdict     \* nothing is attested

VARIABLES
  stage,     \* the stage of the Run
  phase,     \* the phase in progress, 0 when there is none
  content,   \* the recorded content of the worktree
  attested,  \* the content on which every check passed, or NoVerdict
  locked     \* the Run is blocked

run == <<stage, phase, content, attested, locked>>

Init ==
  /\ stage = "PLANNING"
  /\ phase = 0
  /\ content \in [Paths -> Contents]
  /\ attested = NoVerdict
  /\ ~locked

Start ==
  /\ stage = "PLANNING" /\ ~locked
  /\ stage' = "IMPLEMENTING"
  /\ phase' = 1
  /\ UNCHANGED <<content, attested, locked>>

Write ==
  /\ stage = "IMPLEMENTING" /\ ~locked
  /\ \E patch \in [Allowed[phase] -> Contents] :
       content' = [f \in Paths |-> IF f \in Allowed[phase] THEN patch[f] ELSE content[f]]
  /\ UNCHANGED <<stage, phase, attested, locked>>

NextPhase ==
  /\ stage = "IMPLEMENTING" /\ ~locked
  /\ IF phase < NumPhases
     THEN phase' = phase + 1 /\ UNCHANGED stage
     ELSE phase' = 0 /\ stage' = "VERIFYING"
  /\ UNCHANGED <<content, attested, locked>>

Repair == stage' = "IMPLEMENTING" /\ phase' = NumPhases /\ attested' = NoVerdict

\* A verdict is recorded even if the Run was blocked while the checks ran.
Verdict ==
  /\ stage = "VERIFYING"
  /\ \/ stage' = "REVIEW_REQUIRED" /\ attested' = content /\ UNCHANGED phase
     \/ Repair
  /\ UNCHANGED <<content, locked>>

RequestChanges ==
  /\ stage = "REVIEW_REQUIRED" /\ ~locked
  /\ Repair
  /\ UNCHANGED <<content, locked>>

Accept ==
  /\ stage = "REVIEW_REQUIRED"
  /\ attested = content
  /\ stage' = "ACCEPTED"
  /\ UNCHANGED <<phase, content, attested, locked>>

\* An accepted Run can still be blocked, by a worktree edited afterwards.
Lock ==
  /\ ~locked
  /\ locked' = TRUE
  /\ UNCHANGED <<stage, phase, content, attested>>

Next == Start \/ Write \/ NextPhase \/ Verdict \/ RequestChanges \/ Accept \/ Lock

Spec == Init /\ [][Next]_run
=============================================================================

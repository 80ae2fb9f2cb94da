------------------------------ MODULE RunStore ------------------------------
(***************************************************************************)
(* The persistence layer of one guarded Run, from the moment its PLAN is   *)
(* about to be activated.  Every repository method that commits is one     *)
(* SQLite transaction opened with BEGIN IMMEDIATE, hence one action here:  *)
(* Can<X> collects the checks made inside the transaction (a failed check  *)
(* raises GuardError and rolls back) and <X> adds the effect that commits. *)
(*                                                                         *)
(* Data kept out: a workspace digest is the content it identifies, the     *)
(* packet and its digest never change once the PLAN is active, a phase is  *)
(* its position, and change_count is kept as "is it positive".             *)
(***************************************************************************)
EXTENDS Integers, FiniteSets

CONSTANTS
  Paths,        \* files of the guarded worktree
  Contents,     \* what a file may contain
  NumPhases,    \* number of phases of the frozen packet
  Allowed,      \* Allowed[p]: the files that phase p may write
  Sessions,     \* OpenCode sessions
  Calls,        \* tool call identifiers
  None,         \* the empty column: no lease, no evidence, not blocked
  MaxRevision   \* bound of the model on the event counter

Phases     == 1..NumPhases
Digest     == [Paths -> Contents]
BlockCodes == {"UNATTRIBUTED_WORKSPACE_CHANGE", "MISSING_WRITE_LEASE", "WRITE_SCOPE_VIOLATION"}
Stages     == {"PLANNING", "IMPLEMENTING", "VERIFYING", "REVIEW_REQUIRED", "ACCEPTED"}
Statuses   == {"ABSENT", "PENDING", "ACTIVE", "COMPLETED"}
Evidence   == [ws : Digest, passed : BOOLEAN]
Lease      == [call : Calls, session : Sessions, phase : Phases,
               declared : SUBSET Paths, before : Digest, revision : Nat]

ASSUME PhasesAssumption == NumPhases \in Nat \ {0}
ASSUME AllowedAssumption == Allowed \in [Phases -> SUBSET Paths]
ASSUME BoundAssumption == MaxRevision \in Nat
ASSUME NoneAssumption == None \notin Lease /\ None \notin Evidence /\ None \notin BlockCodes

VARIABLES
  stage,      \* runs.stage
  revision,   \* runs.revision, counted from the activation of the PLAN
  active,     \* runs.active_phase, 0 for the empty string
  ws,         \* runs.workspace_digest
  evidence,   \* runs.evidence_digest, with the batch it names
  blocked,    \* runs.blocked_code
  status,     \* phase_executions.status
  touched,    \* the phases with phase_executions.change_count > 0
  lease,      \* the row of write_leases of this Run
  member      \* run_sessions.status, "NONE" when there is no row

store == <<stage, revision, active, ws, evidence, blocked, status, touched, lease, member>>

TypeOK ==
  /\ stage \in Stages
  /\ revision \in Nat
  /\ active \in 0..NumPhases
  /\ ws \in Digest
  /\ evidence \in Evidence \cup {None}
  /\ blocked \in BlockCodes \cup {None}
  /\ status \in [Phases -> Statuses]
  /\ touched \in SUBSET Phases
  /\ lease \in Lease \cup {None}
  /\ member \in [Sessions -> {"NONE", "ACTIVE", "REVOKED"}]

-----------------------------------------------------------------------------
(* What transactions share.                                                *)

\* append_event: one event, one revision.
Event == revision < MaxRevision /\ revision' = revision + 1

\* _mutable
Mutable == blocked = None /\ stage # "ACCEPTED"

\* _assert_active_participant
Participant(s) == member[s] = "ACTIVE"

Diff(d, e) == {f \in Paths : d[f] # e[f]}

-----------------------------------------------------------------------------
(* Execution repository.                                                   *)

CanActivate ==
  /\ Mutable
  /\ stage = "PLANNING"
  /\ active = 0
  /\ \A p \in Phases : status[p] = "ABSENT"

ActivatePlan ==
  /\ CanActivate
  /\ Event
  /\ stage' = "IMPLEMENTING"
  /\ active' = 1
  /\ status' = [p \in Phases |-> IF p = 1 THEN "ACTIVE" ELSE "PENDING"]
  /\ touched' = {}
  /\ evidence' = None
  /\ UNCHANGED <<ws, blocked, lease, member>>

\* Fault: the revision is not compared with the one the caller read.
CanCreateLeaseStale(s, declared, rev) ==
  /\ Mutable
  /\ Participant(s)
  /\ stage = "IMPLEMENTING"
  /\ lease = None
  /\ status[active] = "ACTIVE"
  /\ declared # {} /\ declared \subseteq Allowed[active]

CanCreateLease(s, declared, rev) ==
  /\ revision = rev
  /\ Mutable
  /\ Participant(s)
  /\ stage = "IMPLEMENTING"
  /\ lease = None
  /\ active # 0
  /\ status[active] = "ACTIVE"
  /\ declared # {}
  /\ declared \subseteq Allowed[active]

CreateWriteLease(s, c, declared, before, rev) ==
  /\ CanCreateLease(s, declared, rev)
  /\ Event
  /\ lease' = [call |-> c, session |-> s, phase |-> active,
               declared |-> declared, before |-> before, revision |-> revision']
  /\ UNCHANGED <<stage, active, ws, evidence, blocked, status, touched, member>>

\* Fault: the write of a blocked Run is recorded.
CanFinishWriteBlocked(s, c, rev) ==
  /\ revision = rev
  /\ Participant(s)
  /\ lease # None
  /\ lease.call = c /\ lease.session = s

CanFinishWrite(s, c, rev) ==
  /\ revision = rev
  /\ Mutable
  /\ Participant(s)
  /\ lease # None
  /\ lease.call = c
  /\ lease.session = s

\* Fault: the write is committed without an event, hence without a revision.
FinishWriteSilently(s, c, digest, actual, rev) ==
  /\ CanFinishWrite(s, c, rev)
  /\ lease' = None
  /\ ws' = digest
  /\ evidence' = None
  /\ UNCHANGED <<stage, revision, active, blocked, status, touched, member>>

\* Fault: the evidence outlives the content it is about.
FinishWriteKeepingEvidence(s, c, digest, actual, rev) ==
  /\ CanFinishWrite(s, c, rev)
  /\ Event
  /\ lease' = None
  /\ touched' = IF actual = {} THEN touched ELSE touched \cup {lease.phase}
  /\ ws' = digest
  /\ UNCHANGED <<stage, active, evidence, blocked, status, member>>

FinishWrite(s, c, digest, actual, rev) ==
  /\ CanFinishWrite(s, c, rev)
  /\ Event
  /\ lease' = None
  /\ touched' = IF actual = {} THEN touched ELSE touched \cup {lease.phase}
  /\ ws' = digest
  /\ evidence' = None
  /\ UNCHANGED <<stage, active, blocked, status, member>>

CanCancelLease(c) ==
  /\ Mutable
  /\ lease # None
  /\ lease.call = c

CancelUnchangedLease(c) ==
  /\ CanCancelLease(c)
  /\ Event
  /\ lease' = None
  /\ UNCHANGED <<stage, active, ws, evidence, blocked, status, touched, member>>

\* Fault: a phase completes although a write is pending.
CanCompletePhaseWriting(p, outcome, rev) ==
  /\ revision = rev
  /\ Mutable
  /\ stage = "IMPLEMENTING"
  /\ active = p
  /\ outcome = "changed" => p \in touched

CanCompletePhase(p, outcome, rev) ==
  /\ revision = rev
  /\ Mutable
  /\ stage = "IMPLEMENTING"
  /\ active = p
  /\ lease = None
  /\ outcome = "changed" => p \in touched

\* Fault: the last phase is followed by one more.
CompletePhaseBeyond(p, outcome, rev) ==
  /\ CanCompletePhase(p, outcome, rev)
  /\ Event
  /\ active' = p + 1
  /\ status' = [q \in Phases |-> IF q = p THEN "COMPLETED"
                                 ELSE IF q = p + 1 THEN "ACTIVE" ELSE status[q]]
  /\ UNCHANGED <<stage, ws, evidence, blocked, touched, lease, member>>

CompletePhase(p, outcome, rev) ==
  /\ CanCompletePhase(p, outcome, rev)
  /\ Event
  /\ \/ /\ p < NumPhases
        /\ active' = p + 1
        /\ status' = [status EXCEPT ![p] = "COMPLETED", ![p + 1] = "ACTIVE"]
        /\ UNCHANGED stage
     \/ /\ p = NumPhases
        /\ active' = 0
        /\ status' = [status EXCEPT ![p] = "COMPLETED"]
        /\ stage' = "VERIFYING"
  /\ UNCHANGED <<ws, evidence, blocked, touched, lease, member>>

\* Fault: an accepted Run can be sent back.
CanReopenAccepted(rev, w, e) ==
  /\ revision = rev
  /\ blocked = None
  /\ stage \in {"REVIEW_REQUIRED", "ACCEPTED"}
  /\ ws = w /\ evidence = e

\* Fault: a Run can be sent back while it is being verified.
CanReopenVerifying(rev, w, e) ==
  /\ revision = rev
  /\ Mutable
  /\ stage \in {"VERIFYING", "REVIEW_REQUIRED"}
  /\ ws = w /\ evidence = e

CanReopen(rev, w, e) ==
  /\ revision = rev
  /\ Mutable
  /\ stage = "REVIEW_REQUIRED"
  /\ ws = w
  /\ evidence = e

\* Fault: the verdict survives the reopening.
ReopenKeepingEvidence(rev, w, e) ==
  /\ CanReopen(rev, w, e)
  /\ Event
  /\ stage' = "IMPLEMENTING"
  /\ active' = NumPhases
  /\ status' = [status EXCEPT ![NumPhases] = "ACTIVE"]
  /\ UNCHANGED <<ws, evidence, blocked, touched, lease, member>>

ReopenLastPhase(rev, w, e) ==
  /\ CanReopen(rev, w, e)
  /\ Event
  /\ stage' = "IMPLEMENTING"
  /\ active' = NumPhases
  /\ status' = [status EXCEPT ![NumPhases] = "ACTIVE"]
  /\ evidence' = None
  /\ UNCHANGED <<ws, blocked, touched, lease, member>>

\* record_planning_submission_rejection: a submission refused in any stage
\* leaves an event, unless the Run is blocked or accepted.
RecordRejection ==
  /\ blocked = None
  /\ stage # "ACCEPTED"
  /\ Event
  /\ UNCHANGED <<stage, active, ws, evidence, blocked, status, touched, lease, member>>

-----------------------------------------------------------------------------
(* Evidence repository.                                                    *)

CanFinishVerification == stage = "VERIFYING"

\* Fault: a failed verification reopens the Run but not its last phase.
FinishVerificationHalf(e) ==
  /\ CanFinishVerification
  /\ Event
  /\ evidence' = e
  /\ stage' = IF e.passed THEN "REVIEW_REQUIRED" ELSE "IMPLEMENTING"
  /\ active' = IF e.passed THEN active ELSE NumPhases
  /\ UNCHANGED <<ws, blocked, status, touched, lease, member>>

FinishVerification(e) ==
  /\ CanFinishVerification
  /\ Event
  /\ evidence' = e
  /\ \/ /\ e.passed
        /\ stage' = "REVIEW_REQUIRED"
        /\ UNCHANGED <<active, status>>
     \/ /\ ~e.passed
        /\ stage' = "IMPLEMENTING"
        /\ active' = NumPhases
        /\ status' = [status EXCEPT ![NumPhases] = "ACTIVE"]
  /\ UNCHANGED <<ws, blocked, touched, lease, member>>

CanApprove(rev, w, e, actual) ==
  /\ revision = rev
  /\ stage = "REVIEW_REQUIRED"
  /\ evidence # None
  /\ ws = w
  /\ evidence = e
  /\ actual = w

Approve(rev, w, e, actual) ==
  /\ CanApprove(rev, w, e, actual)
  /\ Event
  /\ stage' = "ACCEPTED"
  /\ active' = 0
  /\ UNCHANGED <<ws, evidence, blocked, status, touched, lease, member>>

-----------------------------------------------------------------------------
(* Run and quality repositories.                                           *)

\* A Run already blocked keeps its first code: no event, no change.
Block(code) ==
  /\ blocked = None
  /\ Event
  /\ blocked' = code
  /\ UNCHANGED <<stage, active, ws, evidence, status, touched, lease, member>>

AttachSession(s, rev) ==
  /\ revision = rev
  /\ member[s] = "NONE"
  /\ lease = None
  /\ Event
  /\ member' = [member EXCEPT ![s] = "ACTIVE"]
  /\ UNCHANGED <<stage, active, ws, evidence, blocked, status, touched, lease>>

RevokeSession(s) ==
  /\ member[s] = "ACTIVE"
  /\ lease = None
  /\ Event
  /\ member' = [member EXCEPT ![s] = "REVOKED"]
  /\ UNCHANGED <<stage, active, ws, evidence, blocked, status, touched, lease>>

\* QualityRepository.drive with a new request id (a known one changes nothing).
DriveQuality(rev) ==
  /\ revision = rev
  /\ Event
  /\ UNCHANGED <<stage, active, ws, evidence, blocked, status, touched, lease, member>>

-----------------------------------------------------------------------------
(***************************************************************************)
(* The Run as the PLAN approval finds it: one bound session, a clean       *)
(* worktree, nothing materialised.  Every caller is possible in StoreNext: *)
(* the store never relies on what the facade checked before the call.      *)
(***************************************************************************)
StoreInit ==
  /\ stage = "PLANNING"
  /\ revision = 0
  /\ active = 0
  /\ ws \in Digest
  /\ evidence = None
  /\ blocked = None
  /\ status = [p \in Phases |-> "ABSENT"]
  /\ touched = {}
  /\ lease = None
  /\ \E s \in Sessions : member = [t \in Sessions |-> IF t = s THEN "ACTIVE" ELSE "NONE"]

StoreNext ==
  \/ ActivatePlan
  \/ \E s \in Sessions, c \in Calls, declared \in SUBSET Paths, before \in Digest :
       CreateWriteLease(s, c, declared, before, revision)
  \/ \E s \in Sessions, c \in Calls, digest \in Digest, actual \in SUBSET Paths :
       FinishWrite(s, c, digest, actual, revision)
  \/ \E c \in Calls : CancelUnchangedLease(c)
  \/ \E p \in Phases, outcome \in {"changed", "no-change"} : CompletePhase(p, outcome, revision)
  \/ ReopenLastPhase(revision, ws, evidence)
  \/ RecordRejection
  \/ \E e \in Evidence : FinishVerification(e)
  \/ Approve(revision, ws, evidence, ws)
  \/ \E code \in BlockCodes : Block(code)
  \/ \E s \in Sessions : AttachSession(s, revision)
  \/ \E s \in Sessions : RevokeSession(s)
  \/ DriveQuality(revision)

StoreSpec == StoreInit /\ [][StoreNext]_store

-----------------------------------------------------------------------------
(* Properties of the store, whoever calls it.                              *)

\* The phases form a ladder: while the Run implements, exactly the phase named
\* by active_phase is ACTIVE, all the earlier ones are COMPLETED and all the
\* later ones PENDING; from verification on all are COMPLETED and none is
\* active.  A reopened last phase must find every earlier phase completed.
PhaseLadder ==
  /\ stage = "PLANNING" => active = 0 /\ \A p \in Phases : status[p] = "ABSENT"
  /\ stage = "IMPLEMENTING" =>
       /\ active # 0
       /\ \A p \in Phases : status[p] = IF p < active THEN "COMPLETED"
                                        ELSE IF p = active THEN "ACTIVE" ELSE "PENDING"
  /\ stage \in {"VERIFYING", "REVIEW_REQUIRED", "ACCEPTED"} =>
       active = 0 /\ \A p \in Phases : status[p] = "COMPLETED"

\* A pending write pins the Run: its phase stays the active one, its files stay
\* inside the scope of that phase, and its owner stays an active participant
\* (participants, phases and stages all wait for it).
LeasePinsRun ==
  lease # None =>
    /\ stage = "IMPLEMENTING"
    /\ lease.phase = active
    /\ lease.declared \subseteq Allowed[active]
    /\ member[lease.session] = "ACTIVE"
    /\ lease.revision <= revision

\* Passing evidence stands exactly from a passed verification to the next
\* reopening: a Run waits for review or is accepted only on passing evidence,
\* and passing evidence never survives into a reopened phase.
EvidenceGate ==
  /\ stage \in {"REVIEW_REQUIRED", "ACCEPTED"} => evidence # None /\ evidence.passed
  /\ stage \in {"PLANNING", "IMPLEMENTING", "VERIFYING"} => evidence = None \/ ~evidence.passed

\* Once blocked, a Run never loses its code, records no write and keeps the
\* pending lease it had.
BlockedRecordsNoWrite ==
  [][blocked # None => UNCHANGED <<blocked, ws, touched, lease>>]_store

\* An accepted Run keeps its stage, content, evidence and phases for ever.
AcceptedKeepsVerdict ==
  [][stage = "ACCEPTED" => UNCHANGED <<stage, active, ws, evidence, status, touched, lease>>]_store
=============================================================================

--------------------------- MODULE RunStoreProofs ---------------------------
(***************************************************************************)
(* The properties of RunStore for every number of phases, sessions, calls  *)
(* and contents.  Inv is inductive as it stands: each of its conjuncts     *)
(* needs the type correctness, and a lease can only be shown to survive a  *)
(* verification because it pins the Run to its implementing stage.         *)
(***************************************************************************)
EXTENDS RunStore, TLAPS

Inv == TypeOK /\ PhaseLadder /\ LeasePinsRun /\ EvidenceGate

USE PhasesAssumption DEF Phases, Digest, Stages, Statuses, BlockCodes

-----------------------------------------------------------------------------
(* The initial states.                                                     *)

LEMMA InitInv == StoreInit => Inv
  <1> SUFFICES ASSUME StoreInit PROVE Inv
    OBVIOUS
  <1>1. TypeOK
    BY DEF StoreInit, TypeOK
  <1>2. PhaseLadder /\ LeasePinsRun /\ EvidenceGate
    BY DEF StoreInit, PhaseLadder, LeasePinsRun, EvidenceGate
  <1>3. QED
    BY <1>1, <1>2 DEF Inv

-----------------------------------------------------------------------------
(* One lemma per transaction.                                              *)

LEMMA ActivatePreserves == Inv /\ ActivatePlan => Inv'
  <1> SUFFICES ASSUME Inv, ActivatePlan PROVE Inv'
    OBVIOUS
  <1> USE DEF Inv, ActivatePlan, CanActivate, Mutable, Event
  <1>1. TypeOK'
    BY DEF TypeOK
  <1>2. PhaseLadder'
    BY DEF TypeOK, PhaseLadder
  <1>3. LeasePinsRun'
    BY DEF LeasePinsRun
  <1>4. EvidenceGate'
    BY DEF EvidenceGate
  <1>5. QED
    BY <1>1, <1>2, <1>3, <1>4

LEMMA CreatePreserves ==
  ASSUME Inv, NEW s \in Sessions, NEW c \in Calls, NEW declared \in SUBSET Paths,
         NEW before \in Digest, NEW rev, CreateWriteLease(s, c, declared, before, rev)
  PROVE  Inv'
  <1> USE DEF Inv, CreateWriteLease, CanCreateLease, Mutable, Participant, Event
  <1>1. active \in 1..NumPhases /\ revision' \in Nat /\ revision' = revision + 1
    BY DEF TypeOK
  <1>2. lease' \in Lease
    BY <1>1 DEF Lease
  <1>3. TypeOK'
    BY <1>1, <1>2 DEF TypeOK
  <1>4. PhaseLadder'
    BY DEF PhaseLadder
  <1>5. LeasePinsRun'
    BY <1>1 DEF LeasePinsRun
  <1>6. EvidenceGate'
    BY DEF EvidenceGate
  <1>7. QED
    BY <1>3, <1>4, <1>5, <1>6

LEMMA FinishPreserves ==
  ASSUME Inv, NEW s, NEW c, NEW digest \in Digest, NEW actual, NEW rev,
         FinishWrite(s, c, digest, actual, rev)
  PROVE  Inv'
  <1> USE DEF Inv, FinishWrite, CanFinishWrite, Mutable, Event
  <1>1. lease.phase \in Phases
    BY DEF TypeOK, Lease
  <1>2. touched' \in SUBSET Phases
    BY <1>1 DEF TypeOK
  <1>3. TypeOK'
    BY <1>2 DEF TypeOK
  <1>4. PhaseLadder'
    BY DEF PhaseLadder
  <1>5. LeasePinsRun'
    BY DEF LeasePinsRun
  <1>6. EvidenceGate'
    BY DEF EvidenceGate, LeasePinsRun
  <1>7. QED
    BY <1>3, <1>4, <1>5, <1>6

LEMMA CancelPreserves == ASSUME Inv, NEW c, CancelUnchangedLease(c) PROVE Inv'
  <1> USE DEF Inv, CancelUnchangedLease, CanCancelLease, Event
  <1>1. TypeOK'
    BY DEF TypeOK
  <1>2. PhaseLadder' /\ LeasePinsRun' /\ EvidenceGate'
    BY DEF PhaseLadder, LeasePinsRun, EvidenceGate
  <1>3. QED
    BY <1>1, <1>2

LEMMA CompletePreserves ==
  ASSUME Inv, NEW p \in Phases, NEW outcome, NEW rev, CompletePhase(p, outcome, rev)
  PROVE  Inv'
  <1> USE DEF Inv, CompletePhase, CanCompletePhase, Mutable, Event
  <1>1. CASE p < NumPhases /\ active' = p + 1 /\ UNCHANGED stage
             /\ status' = [status EXCEPT ![p] = "COMPLETED", ![p + 1] = "ACTIVE"]
    <2>1. p + 1 \in Phases
      BY <1>1
    <2>2. TypeOK'
      BY <1>1, <2>1 DEF TypeOK
    <2>3. PhaseLadder'
      BY <1>1, <2>1 DEF TypeOK, PhaseLadder
    <2>4. LeasePinsRun' /\ EvidenceGate'
      BY <1>1 DEF LeasePinsRun, EvidenceGate
    <2>5. QED
      BY <2>2, <2>3, <2>4
  <1>2. CASE p = NumPhases /\ active' = 0 /\ stage' = "VERIFYING"
             /\ status' = [status EXCEPT ![p] = "COMPLETED"]
    <2>1. TypeOK'
      BY <1>2 DEF TypeOK
    <2>2. PhaseLadder'
      BY <1>2 DEF TypeOK, PhaseLadder
    <2>3. LeasePinsRun' /\ EvidenceGate'
      BY <1>2 DEF LeasePinsRun, EvidenceGate
    <2>4. QED
      BY <2>1, <2>2, <2>3
  <1>3. QED
    BY <1>1, <1>2

LEMMA ReopenPreserves == ASSUME Inv, NEW rev, NEW w, NEW e, ReopenLastPhase(rev, w, e) PROVE Inv'
  <1> USE DEF Inv, ReopenLastPhase, CanReopen, Mutable, Event
  <1>1. TypeOK'
    BY DEF TypeOK
  <1>2. PhaseLadder'
    BY DEF TypeOK, PhaseLadder
  <1>3. LeasePinsRun' /\ EvidenceGate'
    BY DEF LeasePinsRun, EvidenceGate
  <1>4. QED
    BY <1>1, <1>2, <1>3

LEMMA VerificationPreserves == ASSUME Inv, NEW e \in Evidence, FinishVerification(e) PROVE Inv'
  <1> USE DEF Inv, FinishVerification, CanFinishVerification, Event
  <1>1. CASE e.passed /\ stage' = "REVIEW_REQUIRED" /\ UNCHANGED <<active, status>>
    <2>1. TypeOK'
      BY <1>1 DEF TypeOK
    <2>2. PhaseLadder' /\ LeasePinsRun'
      BY <1>1 DEF PhaseLadder, LeasePinsRun
    <2>3. EvidenceGate'
      BY <1>1, NoneAssumption DEF EvidenceGate
    <2>4. QED
      BY <2>1, <2>2, <2>3
  <1>2. CASE ~e.passed /\ stage' = "IMPLEMENTING" /\ active' = NumPhases
             /\ status' = [status EXCEPT ![NumPhases] = "ACTIVE"]
    <2>1. TypeOK'
      BY <1>2 DEF TypeOK
    <2>2. PhaseLadder'
      BY <1>2 DEF TypeOK, PhaseLadder
    <2>3. LeasePinsRun' /\ EvidenceGate'
      BY <1>2 DEF LeasePinsRun, EvidenceGate
    <2>4. QED
      BY <2>1, <2>2, <2>3
  <1>3. QED
    BY <1>1, <1>2

LEMMA ApprovePreserves ==
  ASSUME Inv, NEW rev, NEW w, NEW e, NEW actual, Approve(rev, w, e, actual)
  PROVE  Inv'
  <1> USE DEF Inv, Approve, CanApprove, Event
  <1>1. TypeOK'
    BY DEF TypeOK
  <1>2. PhaseLadder' /\ LeasePinsRun' /\ EvidenceGate'
    BY DEF PhaseLadder, LeasePinsRun, EvidenceGate
  <1>3. QED
    BY <1>1, <1>2

LEMMA BlockPreserves == ASSUME Inv, NEW code \in BlockCodes, Block(code) PROVE Inv'
  <1> USE DEF Inv, Block, Event
  <1>1. TypeOK'
    BY DEF TypeOK
  <1>2. PhaseLadder' /\ LeasePinsRun' /\ EvidenceGate'
    BY DEF TypeOK, PhaseLadder, LeasePinsRun, EvidenceGate, Lease
  <1>3. QED
    BY <1>1, <1>2

LEMMA SessionsPreserve ==
  ASSUME Inv, NEW s \in Sessions, AttachSession(s, revision) \/ RevokeSession(s)
  PROVE  Inv'
  <1> USE DEF Inv
  <1>1. /\ UNCHANGED <<stage, active, ws, evidence, blocked, status, touched, lease>>
        /\ lease = None
    BY DEF AttachSession, RevokeSession
  <1>2. revision' = revision + 1
    BY DEF AttachSession, RevokeSession, Event
  <1>3. member' \in [Sessions -> {"NONE", "ACTIVE", "REVOKED"}]
    BY DEF AttachSession, RevokeSession, TypeOK
  <1>4. TypeOK'
    BY <1>1, <1>2, <1>3 DEF TypeOK
  <1>5. PhaseLadder' /\ LeasePinsRun' /\ EvidenceGate'
    BY <1>1 DEF PhaseLadder, LeasePinsRun, EvidenceGate
  <1>6. QED
    BY <1>4, <1>5

LEMMA EventPreserves == ASSUME Inv, RecordRejection \/ DriveQuality(revision) PROVE Inv'
  <1> USE DEF Inv
  <1>1. UNCHANGED <<stage, active, ws, evidence, blocked, status, touched, lease, member>>
    BY DEF RecordRejection, DriveQuality
  <1>2. revision' = revision + 1
    BY DEF RecordRejection, DriveQuality, Event
  <1>3. TypeOK'
    BY <1>1, <1>2 DEF TypeOK
  <1>4. PhaseLadder' /\ LeasePinsRun' /\ EvidenceGate'
    BY <1>1, <1>2 DEF TypeOK, PhaseLadder, LeasePinsRun, EvidenceGate, Lease
  <1>5. QED
    BY <1>3, <1>4

LEMMA StutterPreserves == Inv /\ UNCHANGED store => Inv'
  BY DEF Inv, TypeOK, PhaseLadder, LeasePinsRun, EvidenceGate, Participant, store

LEMMA NextInv == Inv /\ [StoreNext]_store => Inv'
  <1> SUFFICES ASSUME Inv, [StoreNext]_store PROVE Inv'
    OBVIOUS
  <1> USE ActivatePreserves, CreatePreserves, FinishPreserves, CancelPreserves, CompletePreserves,
          ReopenPreserves, VerificationPreserves, ApprovePreserves, BlockPreserves,
          SessionsPreserve, EventPreserves, StutterPreserves
  <1>1. QED
    BY DEF StoreNext

-----------------------------------------------------------------------------
(* The invariants of every execution.                                      *)

\* The whole inductive invariant holds whoever calls the repositories.
THEOREM StoreInvariant == StoreSpec => []Inv
  BY InitInv, NextInv, PTL DEF StoreSpec

\* The columns of a Run keep their types.
THEOREM StoreTyped == StoreSpec => []TypeOK
  BY StoreInvariant, PTL DEF Inv

\* The phases complete in order: no reopening or failed verification can leave
\* a phase behind or two phases active (phase_executions, active_phase).
THEOREM PhasesLadder == StoreSpec => []PhaseLadder
  BY StoreInvariant, PTL DEF Inv

\* A row of write_leases pins stage, phase, scope and participant until the
\* write is finished or cancelled.
THEOREM LeasePins == StoreSpec => []LeasePinsRun
  BY StoreInvariant, PTL DEF Inv

\* A Run only waits for review, or is accepted, on passing evidence, and a
\* reopened one has none.
THEOREM EvidenceGates == StoreSpec => []EvidenceGate
  BY StoreInvariant, PTL DEF Inv

-----------------------------------------------------------------------------
(* What no commit does.                                                    *)

\* No transaction records a write, drops a lease or replaces the code of a
\* blocked Run.
THEOREM BlockedIsFrozen == StoreSpec => BlockedRecordsNoWrite
  <1>1. [StoreNext]_store => [blocked # None => UNCHANGED <<blocked, ws, touched, lease>>]_store
    <2> SUFFICES ASSUME StoreNext, blocked # None
                 PROVE  UNCHANGED <<blocked, ws, touched, lease>>
      OBVIOUS
    <2>1. ~Mutable
      BY DEF Mutable
    <2>2. QED
      BY <2>1 DEF StoreNext, ActivatePlan, CanActivate, CreateWriteLease, CanCreateLease,
        FinishWrite, CanFinishWrite, CancelUnchangedLease, CanCancelLease, CompletePhase,
        ReopenLastPhase, RecordRejection, FinishVerification, Approve, Block,
        AttachSession, RevokeSession, DriveQuality
  <1>2. QED
    BY <1>1, PTL DEF StoreSpec, BlockedRecordsNoWrite

\* No transaction touches the verdict of an accepted Run or what it is about.
THEOREM AcceptedIsFinal == StoreSpec => AcceptedKeepsVerdict
  <1>1. [StoreNext]_store =>
          [stage = "ACCEPTED" => UNCHANGED <<stage, active, ws, evidence, status, touched, lease>>]_store
    <2> SUFFICES ASSUME StoreNext, stage = "ACCEPTED"
                 PROVE  UNCHANGED <<stage, active, ws, evidence, status, touched, lease>>
      OBVIOUS
    <2>1. ~Mutable
      BY DEF Mutable
    <2>2. QED
      BY <2>1 DEF StoreNext, ActivatePlan, CanActivate, CreateWriteLease, CanCreateLease,
        FinishWrite, CanFinishWrite, CancelUnchangedLease, CanCancelLease, CompletePhase,
        CanCompletePhase, ReopenLastPhase, CanReopen, RecordRejection, FinishVerification,
        CanFinishVerification, Approve, CanApprove, Block, AttachSession, RevokeSession,
        DriveQuality
  <1>2. QED
    BY <1>1, PTL DEF StoreSpec, AcceptedKeepsVerdict
=============================================================================

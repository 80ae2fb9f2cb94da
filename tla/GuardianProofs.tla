--------------------------- MODULE GuardianProofs ---------------------------
(***************************************************************************)
(* The composed system for every number of processes, sessions, calls,     *)
(* phases and contents.  The argument:                                      *)
(*   - a step of the system leaves the store alone or is a step of the     *)
(*     store, so the invariants proved of the store carry over and every   *)
(*     change of the store takes a new revision;                           *)
(*   - hence a process that still carries the current revision remembers   *)
(*     the current content and lease (RevisionFences), which anchors the   *)
(*     leases and makes each recorded write a write of its lease;          *)
(*   - the content changes under a lease only, and a lease excludes a      *)
(*     verification, so a verifier and its evidence are up to date.        *)
(***************************************************************************)
EXTENDS Guardian, RunStoreProofs

Fences == (\A p \in Procs : JobCurrent(p)) /\ (\A c \in Calls : CallCurrent(c))

Current == Fences /\ LeaseAnchored /\ EvidenceCurrent /\ OneVerifier

GInv == GuardianTypeOK /\ Inv /\ Current

-----------------------------------------------------------------------------
(* Local states.                                                           *)

\* What the fields of a job are, in the states where a commit uses them.
LEMMA JobFields ==
  ASSUME GuardianTypeOK, NEW p \in Procs
  PROVE  /\ At(p, "authorize_snapshot") => 
              job[p] \in [at : {"authorize_snapshot"}, call : Calls, session : Sessions,
                          declared : SUBSET Paths, rev : Nat, ws : Digest]
         /\ At(p, "authorize_commit") => 
              job[p] \in [at : {"authorize_commit"}, call : Calls, session : Sessions,
                          declared : SUBSET Paths, rev : Nat, before : Digest]
         /\ At(p, "post_run") =>
              job[p] \in [at : {"post_run"}, call : Calls, session : Sessions, rev : Nat,
                          context : BOOLEAN, back : {"down", "idle"}]
         /\ At(p, "post_lease") =>
              job[p] \in [at : {"post_lease"}, call : Calls, session : Sessions, rev : Nat,
                          back : {"down", "idle"}]
         /\ At(p, "post_snapshot") =>
              job[p] \in [at : {"post_snapshot"}, call : Calls, session : Sessions, rev : Nat,
                          declared : SUBSET Paths, before : Digest, back : {"down", "idle"}]
         /\ At(p, "post_commit") =>
              job[p] \in [at : {"post_commit"}, call : Calls, session : Sessions, rev : Nat,
                          snap : Digest, actual : SUBSET Paths, back : {"down", "idle"}]
  <1>1. job[p] \in Job
    BY DEF GuardianTypeOK
  <1>2. QED
    BY <1>1 DEF Job, At

LEMMA MoreJobFields ==
  ASSUME GuardianTypeOK, NEW p \in Procs
  PROVE  /\ At(p, "block") =>
              job[p] \in [at : {"block"}, code : BlockCodes, back : {"down", "idle"}]
         /\ At(p, "reconcile_snapshot") =>
              job[p] \in [at : {"reconcile_snapshot"}, ws : Digest, back : {"down", "idle"}]
         /\ At(p, "reconcile_lease") =>
              job[p] \in [at : {"reconcile_lease"}, ws : Digest, snap : Digest,
                          back : {"down", "idle"}]
         /\ At(p, "reconcile_cancel") =>
              job[p] \in [at : {"reconcile_cancel"}, call : Calls, back : {"down", "idle"}]
         /\ At(p, "verify_snapshot") \/ At(p, "verify_checks") => job[p].ws \in Digest
         /\ At(p, "verify_commit") => job[p].e \in Evidence
         /\ At(p, "approve_snapshot") =>
              job[p] \in [at : {"approve_snapshot"}, rev : Nat, ws : Digest,
                          e : Evidence \cup {None}]
  <1>1. job[p] \in Job
    BY DEF GuardianTypeOK
  <1>2. QED
    BY <1>1 DEF Job, At

-----------------------------------------------------------------------------
(* A step of the system is a step of the store, or leaves it alone.        *)

LEMMA AuthorizeIsStore ==
  ASSUME GuardianTypeOK, NEW p \in Procs, AuthorizeCommit(p)
  PROVE  [StoreNext]_store
  <1> DEFINE j == job[p]
  <1>1. CASE CanCreateLease(j.session, j.declared, j.rev)
    <2>1. CreateWriteLease(j.session, j.call, j.declared, j.before, j.rev) /\ j.rev = revision
      BY <1>1 DEF AuthorizeCommit, CanCreateLease
    <2>2. j.session \in Sessions /\ j.call \in Calls /\ j.declared \in SUBSET Paths /\ j.before \in Digest
      BY JobFields DEF AuthorizeCommit
    <2>3. QED
      BY <2>1, <2>2 DEF StoreNext
  <1>2. CASE ~CanCreateLease(j.session, j.declared, j.rev)
    BY <1>2 DEF AuthorizeCommit
  <1>3. QED
    BY <1>1, <1>2

LEMMA PostIsStore ==
  ASSUME GuardianTypeOK, NEW p \in Procs, PostCommit(p)
  PROVE  [StoreNext]_store
  <1> DEFINE j == job[p]
  <1>1. CASE CanFinishWrite(j.session, j.call, j.rev)
    <2>1. FinishWrite(j.session, j.call, j.snap, j.actual, j.rev) /\ j.rev = revision
      BY <1>1 DEF PostCommit, CanFinishWrite
    <2>2. j.session \in Sessions /\ j.call \in Calls /\ j.actual \in SUBSET Paths /\ j.snap \in Digest
      BY JobFields DEF PostCommit
    <2>3. QED
      BY <2>1, <2>2 DEF StoreNext
  <1>2. CASE ~CanFinishWrite(j.session, j.call, j.rev)
    BY <1>2 DEF PostCommit
  <1>3. QED
    BY <1>1, <1>2

LEMMA BlockIsStore ==
  ASSUME GuardianTypeOK, NEW p \in Procs, BlockCommit(p)
  PROVE  [StoreNext]_store
  <1>1. job[p].code \in BlockCodes
    BY MoreJobFields DEF BlockCommit
  <1>2. QED
    BY <1>1 DEF BlockCommit, StoreNext

LEMMA CancelIsStore ==
  ASSUME GuardianTypeOK, NEW p \in Procs, ReconcileCancel(p)
  PROVE  [StoreNext]_store
  <1>1. job[p].call \in Calls
    BY MoreJobFields DEF ReconcileCancel
  <1>2. QED
    BY <1>1 DEF ReconcileCancel, StoreNext

LEMMA CompleteIsStore ==
  ASSUME GuardianTypeOK, PhaseLadder, NEW p \in Procs,
         NEW outcome \in {"changed", "no-change"}, Complete(p, outcome)
  PROVE  [StoreNext]_store
  <1>1. active \in Phases /\ CompletePhase(active, outcome, revision)
    BY DEF Complete, CompletePhase, CanCompletePhase, GuardianTypeOK, TypeOK, PhaseLadder, Phases
  <1>2. QED
    BY <1>1 DEF StoreNext

LEMMA VerifyIsStore ==
  ASSUME GuardianTypeOK, NEW p \in Procs, VerifyCommit(p)
  PROVE  [StoreNext]_store
  <1>1. job[p].e \in Evidence
    BY MoreJobFields DEF VerifyCommit
  <1>2. QED
    BY <1>1 DEF VerifyCommit, StoreNext

LEMMA ApproveIsStore ==
  ASSUME NEW p \in Procs, ApproveCommit(p)
  PROVE  [StoreNext]_store
  <1> DEFINE j == job[p]
  <1>1. CASE CanApprove(j.rev, j.ws, j.e, j.snap)
    <2>1. Approve(revision, ws, evidence, ws)
      BY <1>1 DEF ApproveCommit, CanApprove, Approve
    <2>2. QED
      BY <2>1 DEF StoreNext
  <1>2. CASE ~CanApprove(j.rev, j.ws, j.e, j.snap)
    BY <1>2 DEF ApproveCommit
  <1>3. QED
    BY <1>1, <1>2

LEMMA StepOfStore == GuardianTypeOK /\ PhaseLadder /\ [Next]_vars => [StoreNext]_store
  <1> SUFFICES ASSUME GuardianTypeOK, PhaseLadder, [Next]_vars PROVE [StoreNext]_store
    OBVIOUS
  <1>1. ASSUME NEW p \in Authorities, Serve(p) PROVE [StoreNext]_store
    <2>1. p \in Procs
      BY DEF Procs
    <2>2. CASE AuthorizeCommit(p)
      BY <2>1, <2>2, AuthorizeIsStore
    <2>3. CASE \E outcome \in {"changed", "no-change"} : Complete(p, outcome)
      BY <2>1, <2>3, CompleteIsStore
    <2>4. CASE VerifyCommit(p)
      BY <2>1, <2>4, VerifyIsStore
    <2>5. QED
      BY <1>1, <2>2, <2>3, <2>4 DEF Serve, AuthorizeBegin, AuthorizeSnapshot, PostBegin,
        VerifySnapshot, VerifyChecks
  <1>2. ASSUME NEW p \in Terminals, Terminal(p) PROVE [StoreNext]_store
    <2>1. CASE ApproveCommit(p)
      BY <2>1, ApproveIsStore DEF Procs
    <2>2. CASE RequestChanges(p)
      BY <2>2 DEF RequestChanges, StoreNext
    <2>3. QED
      BY <1>2, <2>1, <2>2 DEF Terminal, ApproveBegin, ApproveSnapshot
  <1>3. ASSUME NEW p \in Procs, Shared(p) PROVE [StoreNext]_store
    <2>1. CASE ReconcileCancel(p)
      BY <2>1, CancelIsStore
    <2>2. CASE PostCommit(p)
      BY <2>2, PostIsStore
    <2>3. CASE BlockCommit(p)
      BY <2>3, BlockIsStore
    <2>4. QED
      BY <1>3, <2>1, <2>2, <2>3 DEF Shared, ReconcileBegin, ReconcileSnapshot, ReconcileLease,
        PostRun, PostLease, PostSnapshot
  <1>4. CASE Activate \/ Reject \/ Drive
    BY <1>4 DEF Activate, Reject, Drive, StoreNext
  <1>5. ASSUME NEW s \in Sessions, Attach(s) \/ Revoke(s) PROVE [StoreNext]_store
    BY <1>5 DEF Attach, Revoke, StoreNext
  <1>6. CASE ExternalEdit \/ \E p \in Authorities : Crash(p)
    BY <1>6 DEF ExternalEdit, Crash
  <1>7. ASSUME NEW c \in Calls, HookConfirm(c) \/ HookTimeout(c) \/ ToolWrite(c)
        PROVE  [StoreNext]_store
    BY <1>7 DEF HookConfirm, HookTimeout, ToolWrite
  <1>8. CASE UNCHANGED vars
    BY <1>8 DEF vars
  <1>9. QED
    BY <1>1, <1>2, <1>3, <1>4, <1>5, <1>6, <1>7, <1>8 DEF Next

-----------------------------------------------------------------------------
(* Types of the processes, the plugin and the worktree.                    *)

TypedRest ==
  /\ disk \in Digest
  /\ job \in [Procs -> Job]
  /\ calls \in [Calls -> CallState]
  /\ edits \in 0..MaxEdits

LEMMA BecomeTyped ==
  ASSUME GuardianTypeOK, NEW p \in Procs, NEW j \in Job, Become(p, j)
  PROVE  job' \in [Procs -> Job]
  BY DEF GuardianTypeOK, Become

LEMMA EndedTyped ==
  ASSUME GuardianTypeOK, NEW c \in Calls PROVE Ended(c) \in [Calls -> CallState]
  BY DEF GuardianTypeOK, Ended, Done, CallState

LEMMA IdleTyped == Idle \in Job /\ Down \in Job
  BY DEF Idle, Down, Job

LEMMA RaisedTyped == ASSUME NEW b \in {"down", "idle"} PROVE Raised(b) \in Job
  BY IdleTyped DEF Raised

LEMMA BlockingTyped ==
  ASSUME NEW code \in BlockCodes, NEW b \in {"down", "idle"} PROVE Blocking(code, b) \in Job
  BY DEF Blocking, Job

LEMMA AuthorizeBeginTyped ==
  ASSUME GuardianTypeOK, NEW p \in Authorities, NEW s \in Sessions, NEW c \in Calls,
         NEW declared \in SUBSET Paths, AuthorizeBegin(p, s, c, declared)
  PROVE  TypedRest'
  <1>1. [at |-> "authorize_snapshot", call |-> c, session |-> s,
         declared |-> declared, rev |-> revision, ws |-> ws] \in Job
    BY DEF Job, GuardianTypeOK, TypeOK
  <1>2. [state |-> "asked", proc |-> p] \in CallState
    BY DEF CallState
  <1>3. job' \in [Procs -> Job]
    BY <1>1, BecomeTyped DEF AuthorizeBegin, Procs
  <1>4. calls' \in [Calls -> CallState]
    BY <1>2 DEF AuthorizeBegin, GuardianTypeOK
  <1>5. QED
    BY <1>3, <1>4 DEF AuthorizeBegin, GuardianTypeOK, TypedRest

LEMMA AuthorizeSnapshotTyped ==
  ASSUME GuardianTypeOK, NEW p \in Authorities, AuthorizeSnapshot(p)
  PROVE  TypedRest'
  <1> DEFINE j == job[p]
  <1>1. p \in Procs
    BY DEF Procs
  <1>2. j.call \in Calls /\ j.session \in Sessions /\ j.declared \in SUBSET Paths /\ j.rev \in Nat
    BY <1>1, JobFields DEF AuthorizeSnapshot
  <1>3. CASE disk # j.ws
    <2>1. Blocking("UNATTRIBUTED_WORKSPACE_CHANGE", "idle") \in Job
      BY BlockingTyped DEF BlockCodes
    <2>2. job' \in [Procs -> Job]
      BY <1>1, <1>3, <2>1, BecomeTyped DEF AuthorizeSnapshot
    <2>3. calls' = Ended(j.call)
      BY <1>3 DEF AuthorizeSnapshot
    <2>4. calls' \in [Calls -> CallState]
      BY <1>2, <2>3, EndedTyped
    <2>5. QED
      BY <2>2, <2>4 DEF AuthorizeSnapshot, GuardianTypeOK, TypedRest
  <1>4. CASE disk = j.ws
    <2>1. [at |-> "authorize_commit", call |-> j.call, session |-> j.session,
           declared |-> j.declared, rev |-> j.rev, before |-> disk] \in Job
      BY <1>2 DEF Job, GuardianTypeOK
    <2>2. job' \in [Procs -> Job]
      BY <1>1, <1>4, <2>1, BecomeTyped DEF AuthorizeSnapshot
    <2>3. QED
      BY <1>4, <2>2 DEF AuthorizeSnapshot, GuardianTypeOK, TypedRest
  <1>5. QED
    BY <1>3, <1>4

LEMMA AuthorizeCommitTyped ==
  ASSUME GuardianTypeOK, NEW p \in Authorities, AuthorizeCommit(p)
  PROVE  TypedRest'
  <1> DEFINE j == job[p]
  <1>1. p \in Procs
    BY DEF Procs
  <1>2. j.call \in Calls /\ j.session \in Sessions /\ j.declared \in SUBSET Paths
    BY <1>1, JobFields DEF AuthorizeCommit
  <1>3. job' \in [Procs -> Job]
    BY <1>1, IdleTyped, BecomeTyped DEF AuthorizeCommit
  <1>4. calls' \in [Calls -> CallState]
    <2>1. CASE CanCreateLease(j.session, j.declared, j.rev)
      <3>1. revision' \in Nat
        BY <2>1 DEF AuthorizeCommit, CreateWriteLease, Event, GuardianTypeOK, TypeOK
      <3>2. [state |-> "authorized", proc |-> p, session |-> j.session,
             declared |-> j.declared, rev |-> revision'] \in CallState
        BY <1>2, <3>1 DEF CallState
      <3>3. QED
        BY <2>1, <3>2 DEF AuthorizeCommit, GuardianTypeOK
    <2>2. CASE ~CanCreateLease(j.session, j.declared, j.rev)
      BY <1>2, <2>2, EndedTyped DEF AuthorizeCommit
    <2>3. QED
      BY <2>1, <2>2
  <1>5. QED
    BY <1>3, <1>4 DEF AuthorizeCommit, GuardianTypeOK, TypedRest

LEMMA PostBeginTyped ==
  ASSUME GuardianTypeOK, NEW p \in Authorities, NEW c \in Calls, PostBegin(p, c)
  PROVE  TypedRest'
  <1>1. p \in Procs
    BY DEF Procs
  <1>2. calls[c].session \in Sessions /\ calls[c].rev \in Nat
    BY DEF PostBegin, GuardianTypeOK, CallState
  <1>3. [at |-> "post_run", call |-> c, session |-> calls[c].session,
         rev |-> calls[c].rev, context |-> TRUE, back |-> "idle"] \in Job
    BY <1>2 DEF Job
  <1>4. job' \in [Procs -> Job]
    BY <1>1, <1>3, BecomeTyped DEF PostBegin
  <1>5. calls' \in [Calls -> CallState]
    BY EndedTyped DEF PostBegin
  <1>6. QED
    BY <1>4, <1>5 DEF PostBegin, GuardianTypeOK, TypedRest

\* An action that changes the job of one process only.
LEMMA JobOnlyTyped ==
  ASSUME GuardianTypeOK, NEW p \in Procs, NEW j \in Job, Become(p, j), UNCHANGED <<disk, calls, edits>>
  PROVE  TypedRest'
  BY BecomeTyped DEF GuardianTypeOK, TypedRest

LEMMA PostRunTyped ==
  ASSUME GuardianTypeOK, NEW p \in Procs, PostRun(p) PROVE TypedRest'
  <1> DEFINE j == job[p]
             next == [at |-> "post_lease", call |-> j.call, session |-> j.session,
                      rev |-> j.rev, back |-> j.back]
  <1>1. j.back \in {"down", "idle"} /\ next \in Job
    BY JobFields DEF PostRun, Job
  <1>2. Become(p, next) \/ Become(p, Raised(j.back))
    BY DEF PostRun
  <1>3. QED
    BY <1>1, <1>2, RaisedTyped, JobOnlyTyped DEF PostRun

LEMMA PostLeaseTyped ==
  ASSUME GuardianTypeOK, NEW p \in Procs, PostLease(p) PROVE TypedRest'
  <1> DEFINE j == job[p]
             next == [at |-> "post_snapshot", call |-> j.call, session |-> j.session,
                      rev |-> j.rev, declared |-> lease.declared,
                      before |-> lease.before, back |-> j.back]
  <1>1. /\ j.back \in {"down", "idle"}
        /\ j.call \in Calls /\ j.session \in Sessions /\ j.rev \in Nat
    BY JobFields DEF PostLease
  <1>2. CASE lease = None \/ lease.call # j.call
    <2>1. Become(p, Blocking("MISSING_WRITE_LEASE", j.back))
      BY <1>2 DEF PostLease
    <2>2. QED
      BY <1>1, <2>1, BlockingTyped, JobOnlyTyped DEF PostLease, BlockCodes
  <1>3. CASE ~(lease = None \/ lease.call # j.call) /\ lease.session # j.session
    <2>1. Become(p, Raised(j.back))
      BY <1>3 DEF PostLease
    <2>2. QED
      BY <1>1, <2>1, RaisedTyped, JobOnlyTyped DEF PostLease
  <1>4. CASE ~(lease = None \/ lease.call # j.call) /\ lease.session = j.session
    <2>1. lease.declared \in SUBSET Paths /\ lease.before \in Digest
      BY <1>4 DEF GuardianTypeOK, TypeOK, Lease
    <2>2. next \in Job
      BY <1>1, <2>1 DEF Job
    <2>3. Become(p, next)
      BY <1>4 DEF PostLease
    <2>4. QED
      BY <2>2, <2>3, JobOnlyTyped DEF PostLease
  <1>5. QED
    BY <1>2, <1>3, <1>4

LEMMA PostSnapshotTyped ==
  ASSUME GuardianTypeOK, NEW p \in Procs, PostSnapshot(p) PROVE TypedRest'
  <1> DEFINE j == job[p]
             next == [at |-> "post_commit", call |-> j.call, session |-> j.session, rev |-> j.rev,
                      snap |-> disk, actual |-> Diff(j.before, disk), back |-> j.back]
  <1>1. /\ j.back \in {"down", "idle"}
        /\ j.call \in Calls /\ j.session \in Sessions /\ j.rev \in Nat
    BY JobFields DEF PostSnapshot
  <1>2. disk \in Digest /\ Diff(j.before, disk) \in SUBSET Paths
    BY DEF GuardianTypeOK, Diff
  <1>3. next \in Job
    BY <1>1, <1>2 DEF Job
  <1>4. Become(p, next) \/ Become(p, Blocking("WRITE_SCOPE_VIOLATION", j.back))
    BY DEF PostSnapshot
  <1>5. QED
    BY <1>1, <1>3, <1>4, BlockingTyped, JobOnlyTyped DEF PostSnapshot, BlockCodes

LEMMA PostCommitTyped ==
  ASSUME GuardianTypeOK, NEW p \in Procs, PostCommit(p) PROVE TypedRest'
  <1>1. job[p].back \in {"down", "idle"}
    BY JobFields DEF PostCommit
  <1>2. Become(p, Idle) \/ Become(p, Raised(job[p].back))
    BY DEF PostCommit
  <1>3. QED
    BY <1>1, <1>2, IdleTyped, RaisedTyped, JobOnlyTyped DEF PostCommit

LEMMA BlockCommitTyped ==
  ASSUME GuardianTypeOK, NEW p \in Procs, BlockCommit(p) PROVE TypedRest'
  <1>1. job[p].back \in {"down", "idle"}
    BY MoreJobFields DEF BlockCommit
  <1>2. QED
    BY <1>1, RaisedTyped, JobOnlyTyped DEF BlockCommit

LEMMA ReconcileBeginTyped ==
  ASSUME GuardianTypeOK, NEW p \in Procs, ReconcileBegin(p) PROVE TypedRest'
  <1>1. [at |-> "reconcile_snapshot", ws |-> ws, back |-> job[p].at] \in Job
    BY DEF ReconcileBegin, At, Job, GuardianTypeOK, TypeOK
  <1>2. QED
    BY <1>1, JobOnlyTyped DEF ReconcileBegin

LEMMA ReconcileSnapshotTyped ==
  ASSUME GuardianTypeOK, NEW p \in Procs, ReconcileSnapshot(p) PROVE TypedRest'
  <1>1. [at |-> "reconcile_lease", ws |-> job[p].ws, snap |-> disk, back |-> job[p].back] \in Job
    BY MoreJobFields DEF ReconcileSnapshot, Job, GuardianTypeOK
  <1>2. QED
    BY <1>1, JobOnlyTyped DEF ReconcileSnapshot

LEMMA ReconcileLeaseTyped ==
  ASSUME GuardianTypeOK, NEW p \in Procs, ReconcileLease(p) PROVE TypedRest'
  <1> DEFINE j == job[p]
             cancel == [at |-> "reconcile_cancel", call |-> lease.call, back |-> j.back]
             post == [at |-> "post_run", call |-> lease.call, session |-> lease.session,
                      rev |-> lease.revision, context |-> FALSE, back |-> j.back]
             block == Blocking("UNATTRIBUTED_WORKSPACE_CHANGE", "idle")
  <1>1. j.back \in {"down", "idle"}
    BY MoreJobFields DEF ReconcileLease
  <1>2. lease # None => cancel \in Job /\ post \in Job
    BY <1>1 DEF GuardianTypeOK, TypeOK, Lease, Job
  <1>3. block \in Job
    BY BlockingTyped DEF BlockCodes
  <1>4. \/ lease # None /\ Become(p, cancel)
        \/ lease # None /\ Become(p, post)
        \/ Become(p, block)
        \/ Become(p, Idle)
    BY DEF ReconcileLease
  <1>5. PICK next \in Job : Become(p, next)
    BY <1>2, <1>3, <1>4, IdleTyped
  <1>6. QED
    BY <1>5, JobOnlyTyped DEF ReconcileLease

LEMMA ReconcileCancelTyped ==
  ASSUME GuardianTypeOK, NEW p \in Procs, ReconcileCancel(p) PROVE TypedRest'
  <1>1. job[p].back \in {"down", "idle"}
    BY MoreJobFields DEF ReconcileCancel
  <1>2. Become(p, Idle) \/ Become(p, Raised(job[p].back))
    BY DEF ReconcileCancel
  <1>3. QED
    BY <1>1, <1>2, IdleTyped, RaisedTyped, JobOnlyTyped DEF ReconcileCancel

LEMMA CompleteTyped ==
  ASSUME GuardianTypeOK, NEW p \in Procs, NEW outcome, Complete(p, outcome) PROVE TypedRest'
  <1> DEFINE verify == [at |-> "verify_snapshot", ws |-> ws]
  <1>1. verify \in Job
    BY DEF Job, GuardianTypeOK, TypeOK
  <1>2. Become(p, verify) \/ Become(p, Idle)
    BY DEF Complete
  <1>3. QED
    BY <1>1, <1>2, IdleTyped, JobOnlyTyped DEF Complete

LEMMA VerifyTyped ==
  ASSUME GuardianTypeOK, NEW p \in Procs, VerifySnapshot(p) \/ VerifyChecks(p) \/ VerifyCommit(p)
  PROVE  TypedRest'
  <1>1. CASE VerifySnapshot(p)
    <2> DEFINE checks == [at |-> "verify_checks", ws |-> disk]
               block == Blocking("UNATTRIBUTED_WORKSPACE_CHANGE", "idle")
    <2>1. checks \in Job /\ block \in Job
      BY BlockingTyped DEF Job, GuardianTypeOK, BlockCodes
    <2>2. Become(p, checks) \/ Become(p, block)
      BY <1>1 DEF VerifySnapshot
    <2>3. QED
      BY <1>1, <2>1, <2>2, JobOnlyTyped DEF VerifySnapshot
  <1>2. CASE VerifyChecks(p)
    <2> DEFINE commit(passed) == [at |-> "verify_commit", e |-> [ws |-> job[p].ws, passed |-> passed]]
    <2>1. \A passed \in BOOLEAN : commit(passed) \in Job
      BY <1>2, MoreJobFields DEF VerifyChecks, Job, Evidence
    <2>2. (\E passed \in BOOLEAN : Become(p, commit(passed))) \/ Become(p, Idle)
      BY <1>2 DEF VerifyChecks
    <2>3. PICK next \in Job : Become(p, next)
      BY <2>1, <2>2, IdleTyped
    <2>4. QED
      BY <1>2, <2>3, JobOnlyTyped DEF VerifyChecks
  <1>3. CASE VerifyCommit(p)
    BY <1>3, IdleTyped, JobOnlyTyped DEF VerifyCommit
  <1>4. QED
    BY <1>1, <1>2, <1>3

LEMMA TerminalTyped ==
  ASSUME GuardianTypeOK, NEW p \in Terminals, Terminal(p) PROVE TypedRest'
  <1>1. p \in Procs
    BY DEF Procs
  <1>2. CASE ApproveBegin(p)
    <2>1. [at |-> "approve_snapshot", rev |-> revision, ws |-> ws, e |-> evidence] \in Job
      BY DEF Job, GuardianTypeOK, TypeOK
    <2>2. QED
      BY <1>1, <1>2, <2>1, JobOnlyTyped DEF ApproveBegin
  <1>3. CASE ApproveSnapshot(p)
    <2> DEFINE j == job[p]
    <2>1. [at |-> "approve_commit", rev |-> j.rev, ws |-> j.ws, e |-> j.e, snap |-> disk] \in Job
      BY <1>1, <1>3, MoreJobFields DEF ApproveSnapshot, Job, GuardianTypeOK
    <2>2. QED
      BY <1>1, <1>3, <2>1, JobOnlyTyped DEF ApproveSnapshot
  <1>4. CASE ApproveCommit(p)
    BY <1>1, <1>4, IdleTyped, JobOnlyTyped DEF ApproveCommit
  <1>5. CASE RequestChanges(p)
    BY <1>5 DEF RequestChanges, GuardianTypeOK, TypedRest
  <1>6. QED
    BY <1>2, <1>3, <1>4, <1>5 DEF Terminal

LEMMA PluginTyped ==
  ASSUME GuardianTypeOK, NEW c \in Calls, HookConfirm(c) \/ HookTimeout(c) \/ ToolWrite(c)
  PROVE  TypedRest'
  <1>1. calls[c] \in [state : {"authorized", "granted", "loose", "written"}, proc : Authorities,
                      session : Sessions, declared : SUBSET Paths, rev : Nat]
    BY DEF GuardianTypeOK, CallState, HookConfirm, HookTimeout, ToolWrite
  <1>2. Ended(c) \in [Calls -> CallState]
    BY EndedTyped
  <1>3. Call(c, "granted") \in [Calls -> CallState] /\ Call(c, "written") \in [Calls -> CallState]
    BY <1>1 DEF Call, CallState, GuardianTypeOK
  <1>4. calls' \in {Ended(c), Call(c, "granted"), Call(c, "written")}
    BY DEF HookConfirm, HookTimeout, ToolWrite
  <1>5. disk' \in Digest /\ UNCHANGED <<job, edits>>
    BY DEF HookConfirm, HookTimeout, ToolWrite, GuardianTypeOK
  <1>6. QED
    BY <1>2, <1>3, <1>4, <1>5 DEF GuardianTypeOK, TypedRest

LEMMA ExternalTyped == ASSUME GuardianTypeOK, ExternalEdit PROVE TypedRest'
  <1>1. disk' \in Digest
    BY DEF ExternalEdit, GuardianTypeOK, Digest
  <1>2. edits' \in 0..MaxEdits
    BY EditsAssumption DEF ExternalEdit, GuardianTypeOK
  <1>3. QED
    BY <1>1, <1>2 DEF ExternalEdit, GuardianTypeOK, TypedRest

LEMMA CrashTyped == ASSUME GuardianTypeOK, NEW p \in Authorities, Crash(p) PROVE TypedRest'
  <1>1. job' \in [Procs -> Job]
    BY IdleTyped, BecomeTyped DEF Crash, Procs
  <1>2. \A c \in Calls : calls[c].state = "granted" => [calls[c] EXCEPT !.state = "loose"] \in CallState
    BY DEF GuardianTypeOK, CallState
  <1>3. Done \in CallState
    BY DEF Done, CallState
  <1>4. calls' \in [Calls -> CallState]
    BY <1>2, <1>3 DEF Crash, GuardianTypeOK
  <1>5. QED
    BY <1>1, <1>4 DEF Crash, GuardianTypeOK, TypedRest

LEMMA TypeStep ==
  ASSUME GuardianTypeOK, [Next]_vars PROVE TypedRest'
  <1>1. ASSUME NEW p \in Authorities, Serve(p) PROVE TypedRest'
    <2>1. p \in Procs
      BY DEF Procs
    <2>2. QED
      BY <1>1, <2>1, AuthorizeBeginTyped, AuthorizeSnapshotTyped, AuthorizeCommitTyped,
         PostBeginTyped, CompleteTyped, VerifyTyped DEF Serve
  <1>2. ASSUME NEW p \in Procs, Shared(p) PROVE TypedRest'
    BY <1>2, ReconcileBeginTyped, ReconcileSnapshotTyped, ReconcileLeaseTyped, ReconcileCancelTyped,
       PostRunTyped, PostLeaseTyped, PostSnapshotTyped, PostCommitTyped, BlockCommitTyped DEF Shared
  <1>3. CASE Activate \/ Reject \/ Drive \/ \E s \in Sessions : Attach(s) \/ Revoke(s)
    BY <1>3 DEF Activate, Reject, Drive, Attach, Revoke, GuardianTypeOK, TypedRest
  <1>4. CASE UNCHANGED vars
    BY <1>4 DEF vars, GuardianTypeOK, TypedRest
  <1>5. QED
    BY <1>1, <1>2, <1>3, <1>4, TerminalTyped, PluginTyped, ExternalTyped, CrashTyped DEF Next

-----------------------------------------------------------------------------
(* The revision fences the processes.                                      *)

LEMMA Bump == ASSUME TypeOK, StoreNext PROVE revision \in Nat /\ revision' = revision + 1
  BY DEF TypeOK, StoreNext, Event, ActivatePlan, CreateWriteLease, FinishWrite, CancelUnchangedLease,
     CompletePhase, ReopenLastPhase, RecordRejection, FinishVerification, Approve, Block,
     AttachSession, RevokeSession, DriveQuality

LEMMA RevNat ==
  ASSUME GuardianTypeOK, NEW q \in Procs,
         job[q].at \in {"authorize_snapshot", "authorize_commit", "post_run",
                        "post_lease", "post_snapshot", "post_commit"}
  PROVE  job[q].rev \in Nat
  BY JobFields DEF At

\* A process that does nothing keeps what it has, or falls behind.
LEMMA IdleStaysCurrent ==
  ASSUME GuardianTypeOK, NEW q \in Procs, JobCurrent(q), [StoreNext]_store, job'[q] = job[q]
  PROVE  JobCurrent(q)'
  <1>1. CASE UNCHANGED store
    BY <1>1 DEF JobCurrent, At, HoldsLease, store
  <1>2. CASE StoreNext
    <2>1. revision \in Nat /\ revision' = revision + 1
      BY <1>2, Bump DEF GuardianTypeOK
    <2>2. CASE job[q].at \in {"authorize_snapshot", "authorize_commit", "post_run",
                              "post_lease", "post_snapshot", "post_commit"}
      <3>1. job[q].rev \in Nat /\ job[q].rev <= revision
        BY <2>2, RevNat DEF JobCurrent
      <3>2. job'[q].rev <= revision' /\ job'[q].rev # revision'
        BY <2>1, <3>1
      <3>3. QED
        BY <3>2 DEF JobCurrent
    <2>3. CASE job[q].at \notin {"authorize_snapshot", "authorize_commit", "post_run",
                                 "post_lease", "post_snapshot", "post_commit"}
      BY <2>3 DEF JobCurrent, At
    <2>4. QED
      BY <2>2, <2>3
  <1>3. QED
    BY <1>1, <1>2

LEMMA BecomeOthers ==
  ASSUME GuardianTypeOK, NEW p \in Procs, NEW j, Become(p, j)
  PROVE  job'[p] = j /\ \A q \in Procs : q # p => job'[q] = job[q]
  BY DEF GuardianTypeOK, Become

LEMMA ActorCurrent ==
  ASSUME GuardianTypeOK, \A q \in Procs : JobCurrent(q), [StoreNext]_store,
         NEW p \in Procs, NEW j, Become(p, j), job'[p] = j => JobCurrent(p)'
  PROVE  \A q \in Procs : JobCurrent(q)'
  BY BecomeOthers, IdleStaysCurrent

\* A job that remembers nothing of the lease or the content.
LEMMA ForgetsIsCurrent ==
  ASSUME GuardianTypeOK, \A q \in Procs : JobCurrent(q), [StoreNext]_store,
         NEW p \in Procs, NEW j, Become(p, j),
         j.at \notin {"authorize_snapshot", "authorize_commit", "post_run",
                      "post_lease", "post_snapshot", "post_commit"}
  PROVE  \A q \in Procs : JobCurrent(q)'
  <1>1. job'[p] = j => JobCurrent(p)'
    BY DEF JobCurrent, At
  <1>2. QED
    BY <1>1, ActorCurrent

LEMMA EndingStates ==
  /\ Idle.at = "idle" /\ Down.at = "down"
  /\ \A b \in {"down", "idle"} : Raised(b).at \in {"down", "idle"}
  /\ \A code, b : Blocking(code, b).at = "block"
  BY DEF Idle, Down, Raised, Blocking

Fenced == \A q \in Procs : JobCurrent(q)

LEMMA AuthorizeFenced ==
  ASSUME GuardianTypeOK, Fenced, [StoreNext]_store, NEW p \in Procs,
         \/ \E s \in Sessions, c \in Calls, declared \in SUBSET Paths : AuthorizeBegin(p, s, c, declared)
         \/ AuthorizeSnapshot(p) \/ AuthorizeCommit(p)
  PROVE  Fenced'
  <1>1. ASSUME NEW s \in Sessions, NEW c \in Calls, NEW declared \in SUBSET Paths,
               AuthorizeBegin(p, s, c, declared)
        PROVE  Fenced'
    <2> DEFINE next == [at |-> "authorize_snapshot", call |-> c, session |-> s,
                        declared |-> declared, rev |-> revision, ws |-> ws]
    <2>1. Become(p, next) /\ UNCHANGED store
      BY <1>1 DEF AuthorizeBegin
    <2>2. job'[p] = next => JobCurrent(p)'
      BY <2>1 DEF JobCurrent, At, store, GuardianTypeOK, TypeOK
    <2>3. QED
      BY <2>1, <2>2, ActorCurrent DEF Fenced
  <1>2. CASE AuthorizeSnapshot(p)
    <2> DEFINE j == job[p]
               next == [at |-> "authorize_commit", call |-> j.call, session |-> j.session,
                        declared |-> j.declared, rev |-> j.rev, before |-> disk]
               block == Blocking("UNATTRIBUTED_WORKSPACE_CHANGE", "idle")
    <2>1. CASE disk = j.ws
      <3>1. Become(p, next) /\ UNCHANGED store
        BY <1>2, <2>1 DEF AuthorizeSnapshot
      <3>2. j.rev <= revision /\ (j.rev = revision => disk = ws)
        BY <1>2, <2>1 DEF AuthorizeSnapshot, Fenced, JobCurrent, At
      <3>3. job'[p] = next => JobCurrent(p)'
        BY <3>1, <3>2 DEF JobCurrent, At, store
      <3>4. QED
        BY <3>1, <3>3, ActorCurrent DEF Fenced
    <2>2. CASE disk # j.ws
      BY <1>2, <2>2, EndingStates, ForgetsIsCurrent DEF AuthorizeSnapshot, Fenced
    <2>3. QED
      BY <2>1, <2>2
  <1>3. CASE AuthorizeCommit(p)
    BY <1>3, EndingStates, ForgetsIsCurrent DEF AuthorizeCommit, Fenced
  <1>4. QED
    BY <1>1, <1>2, <1>3

LEMMA PostFenced ==
  ASSUME GuardianTypeOK, Fenced, \A c \in Calls : CallCurrent(c), [StoreNext]_store, NEW p \in Procs,
         \/ \E c \in Calls : PostBegin(p, c)
         \/ PostRun(p) \/ PostLease(p) \/ PostSnapshot(p) \/ PostCommit(p) \/ BlockCommit(p)
  PROVE  Fenced'
  <1> DEFINE j == job[p]
  <1>1. ASSUME NEW c \in Calls, PostBegin(p, c) PROVE Fenced'
    <2> DEFINE next == [at |-> "post_run", call |-> c, session |-> calls[c].session,
                        rev |-> calls[c].rev, context |-> TRUE, back |-> "idle"]
    <2>1. Become(p, next) /\ UNCHANGED store /\ calls[c].rev <= revision
      BY <1>1 DEF PostBegin, CallCurrent
    <2>2. job'[p] = next => JobCurrent(p)'
      BY <2>1 DEF JobCurrent, At, store
    <2>3. QED
      BY <2>1, <2>2, ActorCurrent DEF Fenced
  <1>2. CASE PostRun(p)
    <2> DEFINE next == [at |-> "post_lease", call |-> j.call, session |-> j.session,
                        rev |-> j.rev, back |-> j.back]
    <2>1. UNCHANGED store /\ j.rev <= revision /\ j.back \in {"down", "idle"}
      BY <1>2, JobFields DEF PostRun, Fenced, JobCurrent, At
    <2>2. job'[p] = next => JobCurrent(p)'
      BY <2>1 DEF JobCurrent, At, store
    <2>3. CASE Become(p, next)
      BY <2>2, <2>3, ActorCurrent DEF Fenced
    <2>4. CASE Become(p, Raised(j.back))
      BY <2>1, <2>4, EndingStates, ForgetsIsCurrent DEF Fenced
    <2>5. QED
      BY <1>2, <2>3, <2>4 DEF PostRun
  <1>3. CASE PostLease(p)
    <2> DEFINE next == [at |-> "post_snapshot", call |-> j.call, session |-> j.session,
                        rev |-> j.rev, declared |-> lease.declared,
                        before |-> lease.before, back |-> j.back]
    <2>1. UNCHANGED store /\ j.rev <= revision /\ j.back \in {"down", "idle"}
      BY <1>3, JobFields DEF PostLease, Fenced, JobCurrent, At
    <2>2. job'[p] = next => JobCurrent(p)'
      BY <2>1 DEF JobCurrent, At, store
    <2>3. CASE Become(p, next)
      BY <2>2, <2>3, ActorCurrent DEF Fenced
    <2>4. CASE Become(p, Blocking("MISSING_WRITE_LEASE", j.back))
      BY <2>4, EndingStates, ForgetsIsCurrent DEF Fenced
    <2>5. CASE Become(p, Raised(j.back))
      BY <2>1, <2>5, EndingStates, ForgetsIsCurrent DEF Fenced
    <2>6. QED
      BY <1>3, <2>3, <2>4, <2>5 DEF PostLease
  <1>4. CASE PostSnapshot(p)
    <2> DEFINE actual == Diff(j.before, disk)
               next == [at |-> "post_commit", call |-> j.call, session |-> j.session, rev |-> j.rev,
                        snap |-> disk, actual |-> actual, back |-> j.back]
    <2>1. CASE actual \subseteq j.declared
      <3>1. Become(p, next) /\ UNCHANGED store /\ At(p, "post_snapshot")
        BY <1>4, <2>1 DEF PostSnapshot
      <3>2. /\ j.rev <= revision
            /\ j.rev = revision /\ HoldsLease(p) => j.before = lease.before /\ j.declared = lease.declared
        BY <3>1 DEF Fenced, JobCurrent, At
      <3>3. job'[p] = next => JobCurrent(p)'
        BY <2>1, <3>1, <3>2 DEF JobCurrent, At, HoldsLease, store, Diff
      <3>4. QED
        BY <3>1, <3>3, ActorCurrent DEF Fenced
    <2>2. CASE ~(actual \subseteq j.declared)
      BY <1>4, <2>2, EndingStates, ForgetsIsCurrent DEF PostSnapshot, Fenced
    <2>3. QED
      BY <2>1, <2>2
  <1>5. CASE PostCommit(p) \/ BlockCommit(p)
    <2>1. j.back \in {"down", "idle"}
      BY <1>5, JobFields, MoreJobFields DEF PostCommit, BlockCommit
    <2>2. Become(p, Idle) \/ Become(p, Raised(j.back))
      BY <1>5 DEF PostCommit, BlockCommit
    <2>3. QED
      BY <2>1, <2>2, EndingStates, ForgetsIsCurrent DEF Fenced
  <1>6. QED
    BY <1>1, <1>2, <1>3, <1>4, <1>5

LEMMA ReconcileFenced ==
  ASSUME GuardianTypeOK, LeasePinsRun, Fenced, [StoreNext]_store, NEW p \in Procs,
         ReconcileBegin(p) \/ ReconcileSnapshot(p) \/ ReconcileLease(p) \/ ReconcileCancel(p)
  PROVE  Fenced'
  <1> DEFINE j == job[p]
  <1>1. CASE ReconcileBegin(p)
    BY <1>1, ForgetsIsCurrent DEF ReconcileBegin, Fenced
  <1>2. CASE ReconcileSnapshot(p)
    BY <1>2, ForgetsIsCurrent DEF ReconcileSnapshot, Fenced
  <1>3. CASE ReconcileLease(p)
    <2> DEFINE cancel == [at |-> "reconcile_cancel", call |-> lease.call, back |-> j.back]
               post == [at |-> "post_run", call |-> lease.call, session |-> lease.session,
                        rev |-> lease.revision, context |-> FALSE, back |-> j.back]
               block == Blocking("UNATTRIBUTED_WORKSPACE_CHANGE", "idle")
    <2>1. CASE Become(p, post) /\ lease # None
      <3>1. lease.revision <= revision /\ UNCHANGED store
        BY <1>3, <2>1 DEF LeasePinsRun, ReconcileLease
      <3>2. job'[p] = post => JobCurrent(p)'
        BY <3>1 DEF JobCurrent, At, store
      <3>3. QED
        BY <2>1, <3>2, ActorCurrent DEF Fenced
    <2>2. CASE Become(p, cancel)
      BY <2>2, ForgetsIsCurrent DEF Fenced
    <2>3. CASE Become(p, block) \/ Become(p, Idle)
      BY <2>3, EndingStates, ForgetsIsCurrent DEF Fenced
    <2>4. QED
      BY <1>3, <2>1, <2>2, <2>3 DEF ReconcileLease
  <1>4. CASE ReconcileCancel(p)
    <2>1. j.back \in {"down", "idle"}
      BY <1>4, MoreJobFields DEF ReconcileCancel
    <2>2. Become(p, Idle) \/ Become(p, Raised(j.back))
      BY <1>4 DEF ReconcileCancel
    <2>3. QED
      BY <2>1, <2>2, EndingStates, ForgetsIsCurrent DEF Fenced
  <1>5. QED
    BY <1>1, <1>2, <1>3, <1>4

LEMMA VerifyFenced ==
  ASSUME GuardianTypeOK, Fenced, [StoreNext]_store, NEW p \in Procs,
         \/ \E outcome \in {"changed", "no-change"} : Complete(p, outcome)
         \/ VerifySnapshot(p) \/ VerifyChecks(p) \/ VerifyCommit(p)
  PROVE  Fenced'
  <1> DEFINE verify == [at |-> "verify_snapshot", ws |-> ws]
             checks == [at |-> "verify_checks", ws |-> disk]
             commit(passed) == [at |-> "verify_commit", e |-> [ws |-> job[p].ws, passed |-> passed]]
             block == Blocking("UNATTRIBUTED_WORKSPACE_CHANGE", "idle")
  <1>1. CASE Become(p, Idle) \/ Become(p, block)
    BY <1>1, EndingStates, ForgetsIsCurrent DEF Fenced
  <1>2. CASE Become(p, verify) \/ Become(p, checks)
    BY <1>2, ForgetsIsCurrent DEF Fenced
  <1>3. ASSUME NEW passed \in BOOLEAN, Become(p, commit(passed)) PROVE Fenced'
    BY <1>3, ForgetsIsCurrent DEF Fenced
  <1>4. \/ Become(p, Idle) \/ Become(p, block) \/ Become(p, verify) \/ Become(p, checks)
        \/ \E passed \in BOOLEAN : Become(p, commit(passed))
    BY DEF Complete, VerifySnapshot, VerifyChecks, VerifyCommit
  <1>5. QED
    BY <1>1, <1>2, <1>3, <1>4

LEMMA TerminalFenced ==
  ASSUME GuardianTypeOK, Fenced, [StoreNext]_store, NEW p \in Terminals, Terminal(p)
  PROVE  Fenced'
  <1>1. p \in Procs
    BY DEF Procs
  <1>2. CASE ApproveBegin(p)
    BY <1>1, <1>2, ForgetsIsCurrent DEF ApproveBegin, Fenced
  <1>3. CASE ApproveSnapshot(p)
    BY <1>1, <1>3, ForgetsIsCurrent DEF ApproveSnapshot, Fenced
  <1>4. CASE ApproveCommit(p)
    BY <1>1, <1>4, EndingStates, ForgetsIsCurrent DEF ApproveCommit, Fenced
  <1>5. CASE RequestChanges(p)
    BY <1>5, IdleStaysCurrent DEF RequestChanges, Fenced
  <1>6. QED
    BY <1>2, <1>3, <1>4, <1>5 DEF Terminal

LEMMA FencedStep ==
  ASSUME GuardianTypeOK, LeasePinsRun, Fences, [StoreNext]_store, [Next]_vars
  PROVE  Fenced'
  <1>1. Fenced /\ \A c \in Calls : CallCurrent(c)
    BY DEF Fenced, Fences
  <1>2. ASSUME NEW p \in Authorities, Serve(p) PROVE Fenced'
    <2>1. p \in Procs
      BY DEF Procs
    <2>2. QED
      BY <1>1, <1>2, <2>1, AuthorizeFenced, PostFenced, VerifyFenced DEF Serve
  <1>3. ASSUME NEW p \in Procs, Shared(p) PROVE Fenced'
    BY <1>1, <1>3, PostFenced, ReconcileFenced DEF Shared
  <1>4. ASSUME NEW p \in Terminals, Terminal(p) PROVE Fenced'
    BY <1>1, <1>4, TerminalFenced
  <1>5. ASSUME NEW p \in Authorities, Crash(p) PROVE Fenced'
    BY <1>1, <1>5, EndingStates, ForgetsIsCurrent DEF Crash, Fenced, Procs
  <1>6. CASE UNCHANGED job
    BY <1>1, <1>6, IdleStaysCurrent DEF Fenced
  <1>7. QED
    BY <1>2, <1>3, <1>4, <1>5, <1>6 DEF Next, Activate, Reject, Drive, Attach, Revoke,
      HookConfirm, HookTimeout, ToolWrite, ExternalEdit, vars

\* The authorization of call c is committed.
Grants(p, c) ==
  /\ AuthorizeCommit(p)
  /\ job[p].call = c
  /\ CanCreateLease(job[p].session, job[p].declared, job[p].rev)
  /\ calls'[c] = [state |-> "authorized", proc |-> p, session |-> job[p].session,
                  declared |-> job[p].declared, rev |-> revision']

\* A call keeps what it was authorized for until it ends.
LEMMA CallMoves ==
  ASSUME GuardianTypeOK, [Next]_vars, NEW c \in Calls
  PROVE  \/ calls'[c] = calls[c]
         \/ calls'[c].state \in {"asked", "done"}
         \/ /\ calls[c].state \in {"authorized", "granted"}
            /\ calls'[c].rev = calls[c].rev
            /\ calls'[c].session = calls[c].session /\ calls'[c].declared = calls[c].declared
         \/ \E p \in Authorities : Grants(p, c)
  <1> DEFINE Fine == \/ calls'[c] = calls[c]
                     \/ calls'[c].state \in {"asked", "done"}
                     \/ /\ calls[c].state \in {"authorized", "granted"}
                        /\ calls'[c].rev = calls[c].rev
                        /\ calls'[c].session = calls[c].session /\ calls'[c].declared = calls[c].declared
                     \/ \E p \in Authorities : Grants(p, c)
  <1>0. calls[c] \in CallState /\ calls \in [Calls -> CallState]
    BY DEF GuardianTypeOK
  <1>1. \A d : Ended(d) = calls' => Fine
    BY <1>0 DEF Ended, Done
  <1>2. CASE UNCHANGED calls
    BY <1>2
  <1>3. ASSUME NEW p \in Authorities, Serve(p) PROVE Fine
    <2>1. ASSUME NEW s \in Sessions, NEW d \in Calls, NEW declared \in SUBSET Paths,
                 AuthorizeBegin(p, s, d, declared)
          PROVE  Fine
      BY <1>0, <2>1 DEF AuthorizeBegin
    <2>2. CASE AuthorizeSnapshot(p)
      BY <1>1, <1>2, <2>2 DEF AuthorizeSnapshot
    <2>3. CASE AuthorizeCommit(p)
      BY <1>0, <1>1, <2>3 DEF AuthorizeCommit, Grants
    <2>4. CASE \E d \in Calls : PostBegin(p, d)
      BY <1>1, <2>4 DEF PostBegin
    <2>5. QED
      BY <1>2, <1>3, <2>1, <2>2, <2>3, <2>4 DEF Serve, Complete, VerifySnapshot, VerifyChecks,
        VerifyCommit
  <1>4. ASSUME NEW d \in Calls, HookConfirm(d) \/ HookTimeout(d) \/ ToolWrite(d) PROVE Fine
    <2>1. CASE calls' = Call(d, "granted") /\ calls[d].state = "authorized"
      BY <1>0, <2>1 DEF Call
    <2>2. CASE calls' = Call(d, "written") /\ calls[d].state = "granted"
      BY <1>0, <2>2 DEF Call
    <2>3. QED
      BY <1>1, <1>4, <2>1, <2>2 DEF HookConfirm, HookTimeout, ToolWrite
  <1>5. ASSUME NEW p \in Authorities, Crash(p) PROVE Fine
    BY <1>0, <1>5 DEF Crash, Done
  <1>6. QED
    BY <1>2, <1>3, <1>4, <1>5 DEF Next, Terminal, ApproveBegin, ApproveSnapshot, ApproveCommit,
      RequestChanges, Shared, ReconcileBegin, ReconcileSnapshot, ReconcileLease, ReconcileCancel,
      PostRun, PostLease, PostSnapshot, PostCommit, BlockCommit, Activate, Reject, Drive, Attach,
      Revoke, ExternalEdit, vars

\* A call keeps the revision it was authorized at, which never exceeds that of
\* the Run.
LEMMA CallsStep ==
  ASSUME GuardianTypeOK, Fences, [StoreNext]_store, [Next]_vars
  PROVE  \A c \in Calls : CallCurrent(c)'
  <1> SUFFICES ASSUME NEW c \in Calls PROVE CallCurrent(c)'
    OBVIOUS
  <1>1. revision \in Nat /\ revision' \in Nat /\ revision <= revision'
    BY Bump DEF GuardianTypeOK, TypeOK, store
  <1>2. calls[c] \in CallState /\ calls \in [Calls -> CallState]
    BY DEF GuardianTypeOK
  <1>3. CASE calls'[c] = calls[c]
    <2>1. calls[c].state \in {"authorized", "granted", "loose", "written"} =>
            calls[c].rev \in Nat /\ calls[c].rev <= revision
      BY <1>2 DEF CallState, Fences, CallCurrent
    <2>2. QED
      BY <1>1, <1>3, <2>1 DEF CallCurrent
  <1>4. CASE calls'[c].state \in {"asked", "done"}
    BY <1>4 DEF CallCurrent
  <1>5. CASE calls[c].state \in {"authorized", "granted"} /\ calls'[c].rev = calls[c].rev
    <2>1. calls[c].rev \in Nat /\ calls[c].rev <= revision
      BY <1>2, <1>5 DEF CallState, Fences, CallCurrent
    <2>2. QED
      BY <1>1, <1>5, <2>1 DEF CallCurrent
  <1>6. CASE calls'[c].rev = revision'
    BY <1>1, <1>6 DEF CallCurrent
  <1>7. ASSUME NEW p \in Authorities, Grants(p, c) PROVE CallCurrent(c)'
    BY <1>6, <1>7 DEF Grants
  <1>8. QED
    BY <1>3, <1>4, <1>5, <1>7, CallMoves

-----------------------------------------------------------------------------
(* What is recorded is what was looked at.                                  *)

\* What a step of the system commits to the lease, the content and the evidence.
LEMMA CommitStep ==
  ASSUME GuardianTypeOK, PhaseLadder, [Next]_vars
  PROVE  \/ UNCHANGED <<ws, lease, evidence>>
         \/ /\ lease' = None /\ evidence' = None
            /\ \E p \in Procs : PostCommit(p) /\ CanFinishWrite(job[p].session, job[p].call, job[p].rev)
         \/ /\ UNCHANGED <<ws, evidence>>
            /\ \/ lease' = None
               \/ \E p \in Authorities : AuthorizeCommit(p) /\ job[p].rev = revision
                                         /\ lease'.before = job[p].before
         \/ /\ UNCHANGED <<ws, lease>>
            /\ \/ evidence' = None
               \/ \E p \in Authorities : VerifyCommit(p) /\ evidence' = job[p].e
  <1> DEFINE Fine ==
         \/ UNCHANGED <<ws, lease, evidence>>
         \/ /\ lease' = None /\ evidence' = None
            /\ \E p \in Procs : PostCommit(p) /\ CanFinishWrite(job[p].session, job[p].call, job[p].rev)
         \/ /\ UNCHANGED <<ws, evidence>>
            /\ \/ lease' = None
               \/ \E p \in Authorities : AuthorizeCommit(p) /\ job[p].rev = revision
                                         /\ lease'.before = job[p].before
         \/ /\ UNCHANGED <<ws, lease>>
            /\ \/ evidence' = None
               \/ \E p \in Authorities : VerifyCommit(p) /\ evidence' = job[p].e
  <1>1. CASE UNCHANGED store
    BY <1>1 DEF store
  <1>2. ASSUME NEW p \in Authorities, Serve(p) PROVE Fine
    <2>1. CASE AuthorizeCommit(p)
      <3>1. CASE CanCreateLease(job[p].session, job[p].declared, job[p].rev)
        BY <2>1, <3>1 DEF AuthorizeCommit, CreateWriteLease, CanCreateLease
      <3>2. CASE ~CanCreateLease(job[p].session, job[p].declared, job[p].rev)
        BY <2>1, <3>2, <1>1 DEF AuthorizeCommit
      <3>3. QED
        BY <3>1, <3>2
    <2>2. CASE \E outcome \in {"changed", "no-change"} : Complete(p, outcome)
      BY <2>2 DEF Complete, CompletePhase
    <2>3. CASE VerifyCommit(p)
      BY <1>1, <2>3 DEF VerifyCommit, FinishVerification
    <2>4. QED
      BY <1>1, <1>2, <2>1, <2>2, <2>3 DEF Serve, AuthorizeBegin, AuthorizeSnapshot, PostBegin,
        VerifySnapshot, VerifyChecks
  <1>3. ASSUME NEW p \in Terminals, Terminal(p) PROVE Fine
    BY <1>1, <1>3 DEF Terminal, ApproveBegin, ApproveSnapshot, ApproveCommit, Approve,
      RequestChanges, ReopenLastPhase
  <1>4. ASSUME NEW p \in Procs, Shared(p) PROVE Fine
    <2>1. CASE PostCommit(p)
      <3>1. CASE CanFinishWrite(job[p].session, job[p].call, job[p].rev)
        BY <2>1, <3>1 DEF PostCommit, FinishWrite
      <3>2. CASE ~CanFinishWrite(job[p].session, job[p].call, job[p].rev)
        BY <2>1, <3>2, <1>1 DEF PostCommit
      <3>3. QED
        BY <3>1, <3>2
    <2>2. CASE BlockCommit(p) \/ ReconcileCancel(p)
      BY <1>1, <2>2 DEF BlockCommit, Block, ReconcileCancel, CancelUnchangedLease
    <2>3. QED
      BY <1>1, <1>4, <2>1, <2>2 DEF Shared, ReconcileBegin, ReconcileSnapshot, ReconcileLease,
        PostRun, PostLease, PostSnapshot
  <1>5. CASE Activate \/ Reject \/ Drive \/ \E s \in Sessions : Attach(s) \/ Revoke(s)
    BY <1>5 DEF Activate, ActivatePlan, Reject, RecordRejection, Drive, DriveQuality, Attach,
      AttachSession, Revoke, RevokeSession
  <1>6. QED
    BY <1>1, <1>2, <1>3, <1>4, <1>5 DEF Next, Crash, HookConfirm, HookTimeout, ToolWrite,
      ExternalEdit, vars

LEMMA AnchoredStep ==
  ASSUME GuardianTypeOK, PhaseLadder, Fences, LeaseAnchored, [Next]_vars
  PROVE  LeaseAnchored'
  <1>1. \A p \in Authorities : AuthorizeCommit(p) /\ job[p].rev = revision => job[p].before = ws
    BY DEF AuthorizeCommit, Fences, JobCurrent, Procs
  <1>2. QED
    BY <1>1, CommitStep DEF LeaseAnchored

LEMMA EvidenceStep ==
  ASSUME GuardianTypeOK, PhaseLadder, OneVerifier, EvidenceCurrent, [Next]_vars
  PROVE  EvidenceCurrent'
  <1>1. \A p \in Authorities : VerifyCommit(p) => job[p].e.ws = ws
    BY DEF VerifyCommit, OneVerifier, Verifying, At, Procs
  <1>2. QED
    BY <1>1, CommitStep DEF EvidenceCurrent

\* A process that verifies in the next state does so now, unless it starts to.
LEMMA WhoVerifies ==
  ASSUME GuardianTypeOK, [Next]_vars, NEW q \in Procs, Verifying(q)'
  PROVE  \/ job'[q] = job[q]
         \/ q \in Authorities /\ \E outcome \in {"changed", "no-change"} : Complete(q, outcome)
         \/ q \in Authorities /\ (VerifySnapshot(q) \/ VerifyChecks(q))
  <1> DEFINE Fine == \/ job'[q] = job[q]
                     \/ q \in Authorities /\ \E outcome \in {"changed", "no-change"} : Complete(q, outcome)
                     \/ q \in Authorities /\ (VerifySnapshot(q) \/ VerifyChecks(q))
  <1>1. ASSUME NEW p \in Procs, NEW j, Become(p, j),
               j.at \notin {"verify_snapshot", "verify_checks", "verify_commit"}
        PROVE  Fine
    BY <1>1, BecomeOthers DEF Verifying
  <1>2. ASSUME NEW p \in Procs, NEW j, Become(p, j), q # p PROVE Fine
    BY <1>2, BecomeOthers
  <1>3. ASSUME NEW p \in Authorities, Serve(p) PROVE Fine
    <2>1. p \in Procs
      BY DEF Procs
    <2>2. CASE \E s \in Sessions, c \in Calls, declared \in SUBSET Paths : AuthorizeBegin(p, s, c, declared)
      BY <1>1, <2>1, <2>2 DEF AuthorizeBegin
    <2>3. CASE AuthorizeSnapshot(p)
      BY <1>1, <2>1, <2>3, EndingStates DEF AuthorizeSnapshot
    <2>4. CASE AuthorizeCommit(p) \/ VerifyCommit(p)
      BY <1>1, <2>1, <2>4, EndingStates DEF AuthorizeCommit, VerifyCommit
    <2>5. CASE \E c \in Calls : PostBegin(p, c)
      BY <1>1, <2>1, <2>5 DEF PostBegin
    <2>6. CASE \E outcome \in {"changed", "no-change"} : Complete(p, outcome)
      BY <1>2, <2>1, <2>6 DEF Complete
    <2>7. CASE VerifySnapshot(p) \/ VerifyChecks(p)
      BY <1>2, <2>1, <2>7 DEF VerifySnapshot, VerifyChecks
    <2>8. QED
      BY <1>3, <2>2, <2>3, <2>4, <2>5, <2>6, <2>7 DEF Serve
  <1>4. ASSUME NEW p \in Terminals, Terminal(p) PROVE Fine
    <2>1. p \in Procs
      BY DEF Procs
    <2>2. QED
      BY <1>1, <1>4, <2>1, EndingStates DEF Terminal, ApproveBegin, ApproveSnapshot, ApproveCommit,
        RequestChanges
  <1>5. ASSUME NEW p \in Procs, Shared(p) PROVE Fine
    <2>1. CASE ReconcileBegin(p) \/ ReconcileSnapshot(p)
      BY <1>1, <2>1 DEF ReconcileBegin, ReconcileSnapshot
    <2>2. CASE ReconcileLease(p)
      BY <1>1, <2>2, EndingStates DEF ReconcileLease
    <2>3. CASE ReconcileCancel(p) \/ PostCommit(p) \/ BlockCommit(p)
      <3>1. job[p].back \in {"down", "idle"}
        BY <2>3, JobFields, MoreJobFields DEF ReconcileCancel, PostCommit, BlockCommit
      <3>2. Become(p, Idle) \/ Become(p, Raised(job[p].back))
        BY <2>3 DEF ReconcileCancel, PostCommit, BlockCommit
      <3>3. QED
        BY <1>1, <3>1, <3>2, EndingStates
    <2>4. CASE PostRun(p)
      <3>1. job[p].back \in {"down", "idle"}
        BY <2>4, JobFields DEF PostRun
      <3>2. QED
        BY <1>1, <2>4, <3>1, EndingStates DEF PostRun
    <2>5. CASE PostLease(p)
      <3>1. job[p].back \in {"down", "idle"}
        BY <2>5, JobFields DEF PostLease
      <3>2. QED
        BY <1>1, <2>5, <3>1, EndingStates DEF PostLease
    <2>6. CASE PostSnapshot(p)
      BY <1>1, <2>6, EndingStates DEF PostSnapshot
    <2>7. QED
      BY <1>5, <2>1, <2>2, <2>3, <2>4, <2>5, <2>6 DEF Shared
  <1>6. ASSUME NEW p \in Authorities, Crash(p) PROVE Fine
    BY <1>1, <1>6, EndingStates DEF Crash, Procs
  <1>7. QED
    BY <1>3, <1>4, <1>5, <1>6 DEF Next, Activate, Reject, Drive, Attach, Revoke,
      HookConfirm, HookTimeout, ToolWrite, ExternalEdit, vars

\* A step that commits no verification leaves a verifying Run as it is: the
\* lease that would let its content change is excluded.
LEMMA OthersAreQuiet ==
  ASSUME GuardianTypeOK, Inv, [Next]_vars, stage = "VERIFYING", \A p \in Authorities : ~VerifyCommit(p)
  PROVE  stage' = "VERIFYING" /\ ws' = ws
  <1>1. lease = None
    BY DEF Inv, LeasePinsRun
  <1> USE <1>1 DEF store
  <1>2. ASSUME NEW p \in Authorities, Serve(p) PROVE stage' = "VERIFYING" /\ ws' = ws
    BY <1>2 DEF Serve, AuthorizeBegin, AuthorizeSnapshot, AuthorizeCommit, CanCreateLease, PostBegin,
      Complete, CompletePhase, CanCompletePhase, VerifySnapshot, VerifyChecks
  <1>3. ASSUME NEW p \in Terminals, Terminal(p) PROVE stage' = "VERIFYING" /\ ws' = ws
    BY <1>3 DEF Terminal, ApproveBegin, ApproveSnapshot, ApproveCommit, CanApprove,
      RequestChanges, ReopenLastPhase, CanReopen
  <1>4. ASSUME NEW p \in Procs, Shared(p) PROVE stage' = "VERIFYING" /\ ws' = ws
    BY <1>4 DEF Shared, ReconcileBegin, ReconcileSnapshot, ReconcileLease, ReconcileCancel,
      CancelUnchangedLease, PostRun, PostLease, PostSnapshot, PostCommit, CanFinishWrite,
      BlockCommit, Block
  <1>5. QED
    BY <1>2, <1>3, <1>4 DEF Next, Crash, HookConfirm, HookTimeout, ToolWrite, ExternalEdit, vars,
      Activate, ActivatePlan, CanActivate, Reject, RecordRejection, Drive, DriveQuality,
      Attach, AttachSession, Revoke, RevokeSession

LEMMA VerifierStep ==
  ASSUME GuardianTypeOK, Inv, OneVerifier, [Next]_vars
  PROVE  OneVerifier'
  <1>1. CASE \E p \in Authorities : VerifyCommit(p)
    <2>1. PICK p \in Authorities : VerifyCommit(p)
      BY <1>1
    <2>2. p \in Procs /\ Verifying(p)
      BY <2>1 DEF VerifyCommit, Verifying, At, Procs
    <2>3. \A q \in Procs : q # p => ~Verifying(q) /\ job'[q] = job[q]
      BY <2>1, <2>2, BecomeOthers DEF VerifyCommit, OneVerifier
    <2>4. job'[p] = Idle
      BY <2>1, <2>2, BecomeOthers DEF VerifyCommit
    <2>5. \A q \in Procs : ~Verifying(q)'
      BY <2>3, <2>4, EndingStates DEF Verifying
    <2>6. QED
      BY <2>5 DEF OneVerifier
  <1>2. CASE \E p \in Authorities, outcome \in {"changed", "no-change"} : Complete(p, outcome)
    <2> DEFINE verify == [at |-> "verify_snapshot", ws |-> ws]
    <2>1. PICK p \in Authorities, outcome \in {"changed", "no-change"} : Complete(p, outcome)
      BY <1>2
    <2>2. p \in Procs /\ stage = "IMPLEMENTING" /\ ws' = ws
      BY <2>1 DEF Complete, CompletePhase, CanCompletePhase, Procs
    <2>3. \A q \in Procs : q # p => ~Verifying(q)'
      BY <2>1, <2>2, BecomeOthers DEF Complete, OneVerifier, Verifying
    <2>4. \/ stage' = "VERIFYING" /\ job'[p] = verify
          \/ job'[p] = Idle
      BY <2>1, <2>2, BecomeOthers DEF Complete
    <2>5. Verifying(p)' => stage' = "VERIFYING" /\ job'[p] = verify
      BY <2>4, EndingStates DEF Verifying
    <2>6. QED
      BY <2>2, <2>3, <2>5 DEF OneVerifier, At
  <1>3. CASE \E p \in Authorities : VerifySnapshot(p) \/ VerifyChecks(p)
    <2>1. PICK p \in Authorities : VerifySnapshot(p) \/ VerifyChecks(p)
      BY <1>3
    <2>2. p \in Procs /\ Verifying(p) /\ UNCHANGED store
      BY <2>1 DEF VerifySnapshot, VerifyChecks, Verifying, At, Procs
    <2>3. stage = "VERIFYING" /\ ws = job[p].ws /\ \A q \in Procs : Verifying(q) => q = p
      BY <2>1, <2>2 DEF OneVerifier, VerifySnapshot, VerifyChecks, At
    <2>4. \A q \in Procs : q # p => ~Verifying(q)'
      BY <2>1, <2>2, <2>3, BecomeOthers DEF VerifySnapshot, VerifyChecks, Verifying
    <2>5. CASE VerifySnapshot(p)
      <3>1. \/ job'[p] = [at |-> "verify_checks", ws |-> disk] /\ disk = job[p].ws
            \/ job'[p] = Blocking("UNATTRIBUTED_WORKSPACE_CHANGE", "idle")
        BY <2>2, <2>5, BecomeOthers DEF VerifySnapshot
      <3>2. QED
        BY <2>2, <2>3, <2>4, <3>1, EndingStates DEF OneVerifier, Verifying, At, store
    <2>6. CASE VerifyChecks(p)
      <3>1. \/ \E passed \in BOOLEAN :
                 job'[p] = [at |-> "verify_commit", e |-> [ws |-> job[p].ws, passed |-> passed]]
            \/ job'[p] = Idle
        BY <2>2, <2>6, BecomeOthers DEF VerifyChecks
      <3>2. CASE job'[p] = Idle
        BY <2>4, <3>2, EndingStates DEF OneVerifier, Verifying
      <3>3. ASSUME NEW passed \in BOOLEAN,
                   job'[p] = [at |-> "verify_commit", e |-> [ws |-> job[p].ws, passed |-> passed]]
            PROVE  OneVerifier'
        <4>1. job'[p].at = "verify_commit" /\ job'[p].e.ws = job[p].ws
          BY <3>3
        <4>2. QED
          BY <2>2, <2>3, <2>4, <4>1 DEF OneVerifier, At, store
      <3>4. QED
        BY <3>1, <3>2, <3>3
    <2>7. QED
      BY <2>1, <2>5, <2>6
  <1>4. CASE /\ \A p \in Authorities : ~VerifyCommit(p) /\ ~VerifySnapshot(p) /\ ~VerifyChecks(p)
             /\ \A p \in Authorities, outcome \in {"changed", "no-change"} : ~Complete(p, outcome)
    <2>1. \A q \in Procs : Verifying(q)' => job'[q] = job[q] /\ Verifying(q)
      BY <1>4, WhoVerifies DEF Verifying
    <2>2. stage = "VERIFYING" => stage' = "VERIFYING" /\ ws' = ws
      BY <1>4, OthersAreQuiet
    <2>3. QED
      BY <2>1, <2>2 DEF OneVerifier, At
  <1>5. QED
    BY <1>1, <1>2, <1>3, <1>4

-----------------------------------------------------------------------------
(* The invariants of the composed system.                                  *)

LEMMA GuardianInit == Init => GInv
  <1> SUFFICES ASSUME Init PROVE GInv
    OBVIOUS
  <1>1. Inv
    BY InitInv DEF Init
  <1>2. \A p \in Procs : job[p] = Down \/ job[p] = Idle
    BY DEF Init
  <1>3. GuardianTypeOK
    <2>1. job \in [Procs -> Job]
      BY IdleTyped DEF Init
    <2>2. calls \in [Calls -> CallState]
      BY DEF Init, CallState
    <2>3. QED
      BY <1>1, <2>1, <2>2, EditsAssumption DEF Init, Inv, TypeOK, GuardianTypeOK
  <1>4. Current
    <2>1. \A p \in Procs : JobCurrent(p) /\ ~Verifying(p)
      BY <1>2, EndingStates DEF JobCurrent, Verifying, At
    <2>2. \A c \in Calls : CallCurrent(c)
      BY DEF Init, CallCurrent
    <2>3. QED
      BY <2>1, <2>2 DEF Current, Fences, OneVerifier, LeaseAnchored, EvidenceCurrent,
        Init, StoreInit
  <1>5. QED
    BY <1>1, <1>3, <1>4 DEF GInv

LEMMA GuardianNext == GInv /\ [Next]_vars => GInv' /\ [StoreNext]_store
  <1> SUFFICES ASSUME GInv, [Next]_vars PROVE GInv' /\ [StoreNext]_store
    OBVIOUS
  <1> USE DEF GInv, Current
  <1>1. PhaseLadder /\ LeasePinsRun
    BY DEF Inv
  <1>2. [StoreNext]_store
    BY <1>1, StepOfStore
  <1>3. Inv'
    BY <1>2, NextInv
  <1>4. GuardianTypeOK'
    BY <1>3, TypeStep DEF Inv, TypedRest, GuardianTypeOK
  <1>5. Fences'
    BY <1>1, <1>2, FencedStep, CallsStep DEF Fenced, Fences
  <1>6. LeaseAnchored' /\ EvidenceCurrent'
    BY <1>1, AnchoredStep, EvidenceStep
  <1>7. OneVerifier'
    BY VerifierStep
  <1>8. QED
    BY <1>2, <1>3, <1>4, <1>5, <1>6, <1>7

\* The inductive invariant: the store, the fences and what they protect.
THEOREM GuardianInvariant == Spec => []GInv
  BY GuardianInit, GuardianNext, PTL DEF Spec

\* Every commit of the facade is a transaction the store allows where it happens.
THEOREM FacadeUsesStore == Spec => ImplementsStore
  <1>1. Init => StoreInit
    BY DEF Init
  <1>2. QED
    BY <1>1, GuardianInit, GuardianNext, PTL DEF Spec, ImplementsStore, StoreSpec

\* The processes, the calls and the worktree keep their types.
THEOREM GuardianTyped == Spec => []GuardianTypeOK
  BY GuardianInvariant, PTL DEF GInv

\* The lease is anchored at the recorded content, for any number of servers.
THEOREM LeasesAnchored == Spec => []LeaseAnchored
  BY GuardianInvariant, PTL DEF GInv, Current

\* What a verdict attests is the recorded content.
THEOREM EvidenceIsCurrent == Spec => []EvidenceCurrent
  BY GuardianInvariant, PTL DEF GInv, Current

\* A verification is alone, and the Run waits for it.
THEOREM VerifierAlone == Spec => []OneVerifier
  BY GuardianInvariant, PTL DEF GInv, Current

-----------------------------------------------------------------------------
(* A write of the current revision has its lease.                          *)

InPost(p) == job[p].at \in {"post_run", "post_lease", "post_snapshot", "post_commit"}

\* A lease of the current revision was taken by the last event, and that event
\* did not block the Run.
LeaseFresh == lease # None /\ lease.revision = revision => blocked = None

Held ==
  /\ LeaseFresh
  /\ \A p \in Procs : JobHolds(p)
  /\ \A c \in Calls : CallHolds(c)

\* Where the local variables of a post_tool come from.
LEMMA PostMoves ==
  ASSUME GuardianTypeOK, [Next]_vars, NEW q \in Procs, InPost(q)'
  PROVE  \/ job'[q] = job[q]
         \/ /\ UNCHANGED store
            /\ \/ /\ job'[q].call \in Calls
                  /\ calls[job'[q].call].state = "written"
                  /\ job'[q].session = calls[job'[q].call].session
                  /\ job'[q].rev = calls[job'[q].call].rev
               \/ /\ InPost(q)
                  /\ job'[q].call = job[q].call /\ job'[q].session = job[q].session
                  /\ job'[q].rev = job[q].rev
               \/ /\ lease # None
                  /\ job'[q].call = lease.call /\ job'[q].session = lease.session
                  /\ job'[q].rev = lease.revision
  <1> DEFINE Carried == /\ UNCHANGED store
                        /\ \/ /\ job'[q].call \in Calls
                              /\ calls[job'[q].call].state = "written"
                              /\ job'[q].session = calls[job'[q].call].session
                              /\ job'[q].rev = calls[job'[q].call].rev
                           \/ /\ InPost(q)
                              /\ job'[q].call = job[q].call /\ job'[q].session = job[q].session
                              /\ job'[q].rev = job[q].rev
                           \/ /\ lease # None
                              /\ job'[q].call = lease.call /\ job'[q].session = lease.session
                              /\ job'[q].rev = lease.revision
             Fine == job'[q] = job[q] \/ Carried
  <1>1. ASSUME NEW p \in Procs, NEW j, Become(p, j),
               j.at \notin {"post_run", "post_lease", "post_snapshot", "post_commit"}
        PROVE  Fine
    BY <1>1, BecomeOthers DEF InPost
  <1>2. ASSUME NEW p \in Procs, NEW j, Become(p, j), job'[p] = j => (q = p => Carried)
        PROVE  Fine
    BY <1>2, BecomeOthers
  <1>3. ASSUME NEW p \in Authorities, Serve(p) PROVE Fine
    <2>1. p \in Procs
      BY DEF Procs
    <2>2. CASE \E s \in Sessions, c \in Calls, declared \in SUBSET Paths : AuthorizeBegin(p, s, c, declared)
      BY <1>1, <2>1, <2>2 DEF AuthorizeBegin
    <2>3. CASE AuthorizeSnapshot(p)
      BY <1>1, <2>1, <2>3, EndingStates DEF AuthorizeSnapshot
    <2>4. CASE AuthorizeCommit(p) \/ VerifyCommit(p)
      BY <1>1, <2>1, <2>4, EndingStates DEF AuthorizeCommit, VerifyCommit
    <2>5. ASSUME NEW c \in Calls, PostBegin(p, c) PROVE Fine
      <3> DEFINE next == [at |-> "post_run", call |-> c, session |-> calls[c].session,
                          rev |-> calls[c].rev, context |-> TRUE, back |-> "idle"]
      <3>1. Become(p, next) /\ UNCHANGED store /\ calls[c].state = "written"
        BY <2>5 DEF PostBegin
      <3>2. job'[p] = next => (q = p => Carried)
        BY <3>1
      <3>3. QED
        BY <1>2, <2>1, <3>1, <3>2
    <2>6. ASSUME NEW outcome \in {"changed", "no-change"}, Complete(p, outcome) PROVE Fine
      BY <1>1, <2>1, <2>6, EndingStates DEF Complete
    <2>7. CASE VerifySnapshot(p)
      BY <1>1, <2>1, <2>7, EndingStates DEF VerifySnapshot
    <2>8. CASE VerifyChecks(p)
      BY <1>1, <2>1, <2>8, EndingStates DEF VerifyChecks
    <2>9. QED
      BY <1>3, <2>2, <2>3, <2>4, <2>5, <2>6, <2>7, <2>8 DEF Serve
  <1>4. ASSUME NEW p \in Terminals, Terminal(p) PROVE Fine
    <2>1. p \in Procs
      BY DEF Procs
    <2>2. QED
      BY <1>1, <1>4, <2>1, EndingStates DEF Terminal, ApproveBegin, ApproveSnapshot, ApproveCommit,
        RequestChanges
  <1>5. ASSUME NEW p \in Procs, Shared(p) PROVE Fine
    <2>1. CASE ReconcileBegin(p) \/ ReconcileSnapshot(p)
      BY <1>1, <2>1 DEF ReconcileBegin, ReconcileSnapshot
    <2>2. CASE ReconcileLease(p)
      <3> DEFINE post == [at |-> "post_run", call |-> lease.call, session |-> lease.session,
                          rev |-> lease.revision, context |-> FALSE, back |-> job[p].back]
      <3>1. CASE Become(p, post) /\ lease # None
        <4>1. UNCHANGED store
          BY <2>2 DEF ReconcileLease
        <4>2. job'[p] = post => (q = p => Carried)
          BY <3>1, <4>1
        <4>3. QED
          BY <1>2, <3>1, <4>2
      <3>2. QED
        BY <1>1, <2>2, <3>1, EndingStates DEF ReconcileLease
    <2>3. CASE ReconcileCancel(p) \/ PostCommit(p) \/ BlockCommit(p)
      <3>1. job[p].back \in {"down", "idle"}
        BY <2>3, JobFields, MoreJobFields DEF ReconcileCancel, PostCommit, BlockCommit
      <3>2. Become(p, Idle) \/ Become(p, Raised(job[p].back))
        BY <2>3 DEF ReconcileCancel, PostCommit, BlockCommit
      <3>3. QED
        BY <1>1, <3>1, <3>2, EndingStates
    <2>4. CASE PostRun(p)
      <3> DEFINE next == [at |-> "post_lease", call |-> job[p].call, session |-> job[p].session,
                          rev |-> job[p].rev, back |-> job[p].back]
      <3>1. job[p].back \in {"down", "idle"} /\ UNCHANGED store /\ InPost(p)
        BY <2>4, JobFields DEF PostRun, InPost, At
      <3>2. job'[p] = next => (q = p => Carried)
        BY <3>1
      <3>3. Become(p, next) => Fine
        BY <1>2, <3>2
      <3>4. Become(p, Raised(job[p].back)) => Fine
        BY <1>1, <3>1, EndingStates
      <3>5. QED
        BY <2>4, <3>3, <3>4 DEF PostRun
    <2>5. CASE PostLease(p)
      <3> DEFINE next == [at |-> "post_snapshot", call |-> job[p].call, session |-> job[p].session,
                          rev |-> job[p].rev, declared |-> lease.declared,
                          before |-> lease.before, back |-> job[p].back]
      <3>1. job[p].back \in {"down", "idle"} /\ UNCHANGED store /\ InPost(p)
        BY <2>5, JobFields DEF PostLease, InPost, At
      <3>2. job'[p] = next => (q = p => Carried)
        BY <3>1
      <3>3. Become(p, next) => Fine
        BY <1>2, <3>2
      <3>4. Become(p, Raised(job[p].back)) \/ Become(p, Blocking("MISSING_WRITE_LEASE", job[p].back)) => Fine
        BY <1>1, <3>1, EndingStates
      <3>5. QED
        BY <2>5, <3>3, <3>4 DEF PostLease
    <2>6. CASE PostSnapshot(p)
      <3> DEFINE next == [at |-> "post_commit", call |-> job[p].call, session |-> job[p].session,
                          rev |-> job[p].rev, snap |-> disk, actual |-> Diff(job[p].before, disk),
                          back |-> job[p].back]
      <3>1. UNCHANGED store /\ InPost(p)
        BY <2>6 DEF PostSnapshot, InPost, At
      <3>2. job'[p] = next => (q = p => Carried)
        BY <3>1
      <3>3. Become(p, next) => Fine
        BY <1>2, <3>2
      <3>4. Become(p, Blocking("WRITE_SCOPE_VIOLATION", job[p].back)) => Fine
        BY <1>1, EndingStates
      <3>5. QED
        BY <2>6, <3>3, <3>4 DEF PostSnapshot
    <2>7. QED
      BY <1>5, <2>1, <2>2, <2>3, <2>4, <2>5, <2>6 DEF Shared
  <1>6. ASSUME NEW p \in Authorities, Crash(p) PROVE Fine
    BY <1>1, <1>6, EndingStates DEF Crash, Procs
  <1>7. QED
    BY <1>3, <1>4, <1>5, <1>6 DEF Next, Activate, Reject, Drive, Attach, Revoke,
      HookConfirm, HookTimeout, ToolWrite, ExternalEdit, vars

\* Every event takes a new revision, so a revision of the past is never current
\* again.
LEMMA PastStaysPast ==
  ASSUME GuardianTypeOK, [StoreNext]_store, NEW r \in Nat, r <= revision, r = revision'
  PROVE  UNCHANGED store /\ r = revision
  BY Bump DEF GuardianTypeOK, store

LEMMA LeaseFreshStep ==
  ASSUME GInv, LeaseFresh, [StoreNext]_store
  PROVE  LeaseFresh'
  <1>1. CASE UNCHANGED store
    BY <1>1 DEF LeaseFresh, store
  <1>2. CASE StoreNext /\ lease' = lease
    <2>1. revision \in Nat /\ revision' = revision + 1
      BY <1>2, Bump DEF GInv, GuardianTypeOK
    <2>2. lease # None => lease.revision \in Nat /\ lease.revision <= revision
      BY DEF GInv, GuardianTypeOK, TypeOK, Lease, Inv, LeasePinsRun
    <2>3. QED
      BY <1>2, <2>1, <2>2 DEF LeaseFresh
  <1>3. CASE StoreNext /\ lease' # lease
    BY <1>3 DEF LeaseFresh, StoreNext, ActivatePlan, CreateWriteLease, CanCreateLease, Mutable,
      FinishWrite, CancelUnchangedLease, CompletePhase, ReopenLastPhase, RecordRejection,
      FinishVerification, Approve, Block, AttachSession, RevokeSession, DriveQuality
  <1>4. QED
    BY <1>1, <1>2, <1>3

LEMMA JobHoldsStep ==
  ASSUME GInv, Held, [StoreNext]_store, [Next]_vars, NEW q \in Procs
  PROVE  JobHolds(q)'
  <1> SUFFICES ASSUME InPost(q)', job'[q].rev = revision'
               PROVE  Pending(job[q].call, job[q].session)'
    BY DEF JobHolds, InPost
  <1> USE DEF GInv
  <1>1. CASE job'[q] = job[q]
    <2>1. InPost(q) /\ job[q].rev \in Nat /\ job[q].rev <= revision
      BY <1>1, RevNat DEF InPost, Current, Fences, JobCurrent
    <2>2. UNCHANGED store /\ job[q].rev = revision
      BY <1>1, <2>1, PastStaysPast
    <2>3. QED
      BY <1>1, <2>1, <2>2 DEF Held, JobHolds, InPost, Pending, store
  <1>2. CASE /\ UNCHANGED store
             /\ job'[q].call \in Calls
             /\ calls[job'[q].call].state = "written"
             /\ job'[q].session = calls[job'[q].call].session
             /\ job'[q].rev = calls[job'[q].call].rev
    BY <1>2 DEF Held, CallHolds, Pending, store
  <1>3. CASE /\ UNCHANGED store
             /\ InPost(q)
             /\ job'[q].call = job[q].call /\ job'[q].session = job[q].session
             /\ job'[q].rev = job[q].rev
    BY <1>3 DEF Held, JobHolds, InPost, Pending, store
  <1>4. CASE /\ UNCHANGED store
             /\ lease # None
             /\ job'[q].call = lease.call /\ job'[q].session = lease.session
             /\ job'[q].rev = lease.revision
    BY <1>4 DEF Held, LeaseFresh, Pending, store
  <1>5. QED
    BY <1>1, <1>2, <1>3, <1>4, PostMoves

LEMMA CallHoldsStep ==
  ASSUME GInv, Held, [StoreNext]_store, [Next]_vars, NEW c \in Calls
  PROVE  CallHolds(c)'
  <1> DEFINE Live == calls[c].state \in {"authorized", "granted", "loose", "written"}
  <1> SUFFICES ASSUME Live', calls'[c].rev = revision'
               PROVE  Pending(c, calls[c].session)' /\ lease'.declared = calls'[c].declared
    BY DEF CallHolds
  <1> USE DEF GInv
  <1>1. CASE /\ Live /\ calls'[c].rev = calls[c].rev
             /\ calls'[c].session = calls[c].session /\ calls'[c].declared = calls[c].declared
    <2>1. calls[c].rev \in Nat /\ calls[c].rev <= revision
      BY <1>1 DEF GuardianTypeOK, CallState, Current, Fences, CallCurrent
    <2>2. UNCHANGED store /\ calls[c].rev = revision
      BY <1>1, <2>1, PastStaysPast
    <2>3. QED
      BY <1>1, <2>2 DEF Held, CallHolds, Pending, store
  <1>2. ASSUME NEW p \in Authorities, Grants(p, c)
        PROVE  Pending(c, calls[c].session)' /\ lease'.declared = calls'[c].declared
    <2>1. CreateWriteLease(job[p].session, c, job[p].declared, job[p].before, job[p].rev)
      BY <1>2 DEF Grants, AuthorizeCommit
    <2>2. /\ lease' = [call |-> c, session |-> job[p].session, phase |-> active,
                       declared |-> job[p].declared, before |-> job[p].before, revision |-> revision']
          /\ blocked' = None
      BY <2>1 DEF CreateWriteLease, CanCreateLease, Mutable
    <2>3. lease' # None
      <3>1. /\ job[p].session \in Sessions /\ job[p].declared \in SUBSET Paths
            /\ job[p].before \in Digest
        BY <1>2, JobFields DEF Grants, AuthorizeCommit, Procs
      <3>2. active \in Phases /\ revision' \in Nat
        BY <2>1, GuardianNext DEF CreateWriteLease, CanCreateLease, GuardianTypeOK, TypeOK, Phases
      <3>3. lease' \in Lease
        BY <2>2, <3>1, <3>2 DEF Lease
      <3>4. QED
        BY <3>3, NoneAssumption
    <2>4. QED
      BY <1>2, <2>2, <2>3 DEF Grants, Pending
  <1>3. QED
    BY <1>1, <1>2, CallMoves DEF Live

LEMMA HeldStep ==
  ASSUME GInv, Held, [Next]_vars
  PROVE  Held'
  <1>1. [StoreNext]_store
    BY GuardianNext
  <1>2. QED
    BY <1>1, LeaseFreshStep, JobHoldsStep, CallHoldsStep DEF Held

LEMMA HeldInit == Init => Held
  <1> SUFFICES ASSUME Init PROVE Held
    OBVIOUS
  <1>1. \A p \in Procs : job[p] = Down \/ job[p] = Idle
    BY DEF Init
  <1>2. \A p \in Procs : JobHolds(p)
    BY <1>1, EndingStates DEF JobHolds
  <1>3. QED
    BY <1>2 DEF Held, LeaseFresh, CallHolds, Init, StoreInit

THEOREM WritesHoldLeases == Spec => []Held
  <1>1. GInv /\ Held /\ [Next]_vars => Held'
    BY HeldStep
  <1>2. QED
    BY <1>1, HeldInit, GuardianInvariant, PTL DEF Spec

\* The revision a process or a call carries tells whether what it remembers is
\* current, and whether an authorized write still has its lease.
THEOREM RevisionIsFence == Spec => []RevisionFences
  <1>1. GInv /\ Held => RevisionFences
    BY DEF GInv, Current, Fences, Held, RevisionFences
  <1>2. QED
    BY <1>1, GuardianInvariant, WritesHoldLeases, PTL

\* A post_tool of the current revision goes through: the Run and the session
\* are fit, the lease is there and is its own, and the transaction that records
\* the write accepts it.  It fails, or blames the caller for a missing lease,
\* only if another commit came between the authorization and the record.
CurrentWriteGoesThrough ==
  \A p \in Procs : InPost(p) /\ job[p].rev = revision =>
    CanFinishWrite(job[p].session, job[p].call, job[p].rev)

THEOREM CurrentWritesGoThrough == Spec => []CurrentWriteGoesThrough
  <1>1. GInv /\ Held => CurrentWriteGoesThrough
    BY DEF GInv, Inv, LeasePinsRun, Held, JobHolds, InPost, Pending, CurrentWriteGoesThrough,
      CanFinishWrite, Mutable, Participant
  <1>2. QED
    BY <1>1, GuardianInvariant, WritesHoldLeases, PTL

-----------------------------------------------------------------------------
(* What is recorded was written under the lease.                           *)

LEMMA AttributedStep ==
  ASSUME GInv, [Next]_vars, ws' # ws
  PROVE  /\ lease # None
         /\ blocked = None
         /\ Diff(ws, ws') \subseteq lease.declared
         /\ Diff(ws, ws') \subseteq Allowed[active]
  <1>1. PICK p \in Procs : PostCommit(p) /\ CanFinishWrite(job[p].session, job[p].call, job[p].rev)
    BY CommitStep DEF GInv, Inv
  <1>2. /\ lease # None /\ blocked = None
        /\ lease.call = job[p].call /\ job[p].rev = revision
        /\ ws' = job[p].snap
    BY <1>1 DEF PostCommit, CanFinishWrite, FinishWrite, Mutable
  <1>3. Diff(lease.before, job[p].snap) \subseteq lease.declared
    BY <1>1, <1>2 DEF GInv, Current, Fences, JobCurrent, HoldsLease, PostCommit
  <1>4. lease.before = ws /\ lease.declared \subseteq Allowed[active]
    BY <1>2 DEF GInv, Current, LeaseAnchored, Inv, LeasePinsRun
  <1>5. QED
    BY <1>2, <1>3, <1>4

\* Whichever process commits, and whenever it read what it commits, the recorded
\* content changes under the pending lease and in its files only.
THEOREM WritesAreAttributed == Spec => WritesAttributed
  <1>1. GInv /\ [Next]_vars =>
          [ws' # ws => /\ lease # None
                       /\ blocked = None
                       /\ Diff(ws, ws') \subseteq lease.declared
                       /\ Diff(ws, ws') \subseteq Allowed[active]]_vars
    BY AttributedStep
  <1>2. QED
    BY <1>1, GuardianInvariant, PTL DEF Spec, WritesAttributed

-----------------------------------------------------------------------------
(* How a Run ends.                                                          *)

\* An accepted Run is settled: every phase is complete, no write is pending, no
\* process still verifies, and the evidence of a passed verification is about
\* the content the Run records.
AcceptedIsSettled ==
  stage = "ACCEPTED" =>
    /\ \A p \in Phases : status[p] = "COMPLETED"
    /\ lease = None
    /\ \A p \in Procs : ~Verifying(p)
    /\ evidence # None /\ evidence.passed /\ evidence.ws = ws

THEOREM AcceptedRunsAreSettled == Spec => []AcceptedIsSettled
  <1>1. GInv => AcceptedIsSettled
    BY DEF GInv, Inv, PhaseLadder, LeasePinsRun, EvidenceGate, Current, EvidenceCurrent, OneVerifier,
      AcceptedIsSettled
  <1>2. QED
    BY <1>1, GuardianInvariant, PTL

\* A verification whose process died (or whose sandbox raised) is lost for good:
\* no operation of any process starts it again, records it or sends the Run back.
Abandoned == stage = "VERIFYING" /\ \A p \in Procs : ~Verifying(p)

AbandonedForGood == [][Abandoned => Abandoned']_vars

THEOREM AbandonedStaysAbandoned == Spec => AbandonedForGood
  <1>1. ASSUME GInv, Abandoned, [Next]_vars PROVE Abandoned'
    <2>1. \A p \in Authorities : ~VerifyCommit(p) /\ ~VerifySnapshot(p) /\ ~VerifyChecks(p)
      BY <1>1 DEF Abandoned, Verifying, At, VerifyCommit, VerifySnapshot, VerifyChecks, Procs
    <2>2. \A p \in Authorities, outcome \in {"changed", "no-change"} : ~Complete(p, outcome)
      BY <1>1 DEF Abandoned, Complete, CompletePhase, CanCompletePhase
    <2>3. stage' = "VERIFYING"
      BY <1>1, <2>1, OthersAreQuiet DEF Abandoned, GInv
    <2>4. \A p \in Procs : Verifying(p)' => job'[p] = job[p]
      BY <1>1, <2>1, <2>2, WhoVerifies DEF GInv
    <2>5. QED
      BY <1>1, <2>3, <2>4 DEF Abandoned, Verifying
  <1>2. GInv /\ [Next]_vars => [Abandoned => Abandoned']_vars
    BY <1>1
  <1>3. QED
    BY <1>2, GuardianInvariant, PTL DEF Spec, AbandonedForGood

-----------------------------------------------------------------------------
(* The system implements the promise of a guarded Run.                     *)

Attested == IF evidence # None /\ evidence.passed THEN evidence.ws ELSE None

LEMMA WriteKeepsPromise ==
  ASSUME GInv, [Next]_vars, NEW s, NEW c, NEW digest \in Digest, NEW actual, NEW rev,
         FinishWrite(s, c, digest, actual, rev)
  PROVE  [Promise!Next]_(Promise!run)
  <1>1. /\ stage = "IMPLEMENTING" /\ blocked = None /\ Attested = None /\ ws \in Digest
        /\ active \in Phases
    BY DEF FinishWrite, CanFinishWrite, Mutable, GInv, Inv, TypeOK, LeasePinsRun, PhaseLadder,
      EvidenceGate, Attested, Phases
  <1>2. /\ UNCHANGED <<stage, active, blocked>> /\ Attested' = None /\ ws' = digest
    BY DEF FinishWrite, Attested
  <1>3. CASE ws' = ws
    BY <1>1, <1>2, <1>3 DEF Promise!run, Attested
  <1>4. CASE ws' # ws
    <2> DEFINE patch == [f \in Allowed[active] |-> digest[f]]
    <2>1. Allowed[active] \subseteq Paths
      BY <1>1, AllowedAssumption
    <2>2. patch \in [Allowed[active] -> Contents]
      BY <2>1 DEF Digest
    <2>3. \A f \in Paths : f \notin Allowed[active] => digest[f] = ws[f]
      BY <1>2, <1>4, AttributedStep DEF Diff
    <2>4. digest = [f \in Paths |-> digest[f]]
      BY DEF Digest
    <2>5. ws' = [f \in Paths |-> IF f \in Allowed[active] THEN patch[f] ELSE ws[f]]
      BY <1>2, <2>3, <2>4
    <2>6. Promise!Write
      BY <1>1, <1>2, <2>2, <2>5 DEF Promise!Write, Attested
    <2>7. QED
      BY <2>6 DEF Promise!Next
  <1>5. QED
    BY <1>3, <1>4

LEMMA VerdictKeepsPromise ==
  ASSUME GInv, GInv', NEW e \in Evidence, FinishVerification(e)
  PROVE  [Promise!Next]_(Promise!run)
  <1>1. stage = "VERIFYING" /\ Attested = None /\ UNCHANGED <<ws, blocked>> /\ evidence' = e /\ e # None
    BY NoneAssumption DEF FinishVerification, CanFinishVerification, GInv, Inv, EvidenceGate, Attested
  <1>2. e.ws = ws
    BY <1>1 DEF GInv, Current, EvidenceCurrent
  <1>3. CASE e.passed /\ stage' = "REVIEW_REQUIRED" /\ UNCHANGED active
    BY <1>1, <1>2, <1>3 DEF Promise!Next, Promise!Verdict, Attested
  <1>4. CASE ~e.passed /\ stage' = "IMPLEMENTING" /\ active' = NumPhases
    BY <1>1, <1>4 DEF Promise!Next, Promise!Verdict, Promise!Repair, Attested
  <1>5. QED
    BY <1>3, <1>4 DEF FinishVerification

LEMMA ApproveKeepsPromise ==
  ASSUME GInv, Approve(revision, ws, evidence, ws)
  PROVE  [Promise!Next]_(Promise!run)
  <1>1. /\ stage = "REVIEW_REQUIRED" /\ stage' = "ACCEPTED" /\ active = 0 /\ active' = 0
        /\ UNCHANGED <<ws, blocked, evidence>>
    BY DEF Approve, CanApprove, GInv, Inv, PhaseLadder
  <1>2. Attested = ws
    BY <1>1 DEF GInv, Inv, EvidenceGate, Current, EvidenceCurrent, Attested
  <1>3. QED
    BY <1>1, <1>2 DEF Promise!Next, Promise!Accept, Attested

LEMMA PhaseKeepsPromise ==
  ASSUME GInv, ActivatePlan \/ \E p \in Phases, outcome \in {"changed", "no-change"} :
                                 CompletePhase(p, outcome, revision)
  PROVE  [Promise!Next]_(Promise!run)
  <1>1. CASE ActivatePlan
    <2>1. /\ stage = "PLANNING" /\ stage' = "IMPLEMENTING" /\ blocked = None /\ active' = 1
          /\ UNCHANGED <<ws, blocked>> /\ Attested = None /\ Attested' = None
      BY <1>1 DEF ActivatePlan, CanActivate, Mutable, GInv, Inv, EvidenceGate, Attested
    <2>2. QED
      BY <2>1 DEF Promise!Next, Promise!Start, Attested
  <1>2. ASSUME NEW p \in Phases, NEW outcome, CompletePhase(p, outcome, revision)
        PROVE  [Promise!Next]_(Promise!run)
    <2>1. /\ stage = "IMPLEMENTING" /\ blocked = None /\ active = p
          /\ UNCHANGED <<ws, blocked, evidence>>
          /\ IF p < NumPhases THEN active' = p + 1 /\ UNCHANGED stage
                              ELSE active' = 0 /\ stage' = "VERIFYING"
      BY <1>2, PhasesAssumption DEF CompletePhase, CanCompletePhase, Mutable, Phases
    <2>2. QED
      BY <2>1 DEF Promise!Next, Promise!NextPhase
  <1>3. QED
    BY <1>1, <1>2

LEMMA ReopenKeepsPromise ==
  ASSUME GInv, ReopenLastPhase(revision, ws, evidence)
  PROVE  [Promise!Next]_(Promise!run)
  <1>1. /\ stage = "REVIEW_REQUIRED" /\ stage' = "IMPLEMENTING" /\ active' = NumPhases /\ blocked = None
        /\ UNCHANGED <<ws, blocked>> /\ evidence' = None
    BY DEF ReopenLastPhase, CanReopen, Mutable
  <1>2. QED
    BY <1>1 DEF Promise!Next, Promise!RequestChanges, Promise!Repair

LEMMA BlockKeepsPromise ==
  ASSUME NEW code \in BlockCodes, Block(code)
  PROVE  [Promise!Next]_(Promise!run)
  <1>1. blocked = None /\ blocked' # None /\ UNCHANGED <<stage, active, ws, evidence>>
    BY NoneAssumption DEF Block
  <1>2. QED
    BY <1>1 DEF Promise!Next, Promise!Lock

LEMMA PromiseStep ==
  ASSUME GInv, GInv', [Next]_vars, [StoreNext]_store
  PROVE  [Promise!Next]_(Promise!run)
  <1>1. CASE UNCHANGED <<stage, active, ws, evidence, blocked>>
    BY <1>1 DEF Promise!run
  <1>2. CASE StoreNext
    BY <1>1, <1>2, WriteKeepsPromise, VerdictKeepsPromise, ApproveKeepsPromise, PhaseKeepsPromise,
       ReopenKeepsPromise, BlockKeepsPromise
       DEF StoreNext, CreateWriteLease, CancelUnchangedLease, RecordRejection, AttachSession,
         RevokeSession, DriveQuality
  <1>3. QED
    BY <1>1, <1>2 DEF store

\* The system of servers, terminals and tools implements GuardedRun: what is
\* accepted is recorded, verified and written in scope.
THEOREM SystemKeepsPromise == Spec => KeepsPromise
  <1>1. Init => Promise!Init
    BY NoneAssumption DEF Init, StoreInit, Digest, Promise!Init
  <1>2. GInv /\ [Next]_vars => [Promise!Next]_(Promise!run)
    BY GuardianNext, PromiseStep
  <1>3. QED
    BY <1>1, <1>2, GuardianInvariant, PTL DEF Spec, KeepsPromise, Promise!Spec
=============================================================================

------------------------------ MODULE Guardian ------------------------------
(***************************************************************************)
(* The facade (class Guardian) run by several processes over one store,    *)
(* one worktree and the OpenCode tools that write it.                      *)
(*                                                                         *)
(* An operation of the facade is not atomic: it reads the Run, snapshots   *)
(* the disk, and commits through a transaction of RunStore later.  The     *)
(* state of an operation between two of these steps is a record job[p]     *)
(* that carries only what the code still holds in local variables.         *)
(*   - Authorities: RPC servers, one request at a time; each reconciles    *)
(*     the worktree when it starts and exits if that raises.               *)
(*   - Terminals: command line processes, which resume (reconcile) and     *)
(*     review.                                                             *)
(* A request whose context is stale when it arrives is refused before any  *)
(* write, so requests start here with a current context; a context that    *)
(* becomes stale later is caught, or not, by the steps below.              *)
(***************************************************************************)
EXTENDS RunStore

CONSTANTS
  Authorities,  \* processes that serve RPC requests of a plugin
  Terminals,    \* processes of the command line
  MaxEdits      \* bound of the model on writes made outside the tool hooks

ASSUME EditsAssumption == MaxEdits \in Nat

Procs == Authorities \cup Terminals

VARIABLES
  disk,   \* content of the worktree
  job,    \* job[p]: where process p is, and its local variables
  calls,  \* calls[c]: what the plugin knows of the tool call c
  edits   \* number of writes made outside the tool hooks

vars == <<store, disk, job, calls, edits>>

-----------------------------------------------------------------------------
(* Local states.                                                           *)

Down == [at |-> "down"]
Idle == [at |-> "idle"]
Done == [state |-> "done"]

\* Where an operation that raises leaves its process: an authority that raises
\* while it starts exits, otherwise the error is the answer to the caller.
Raised(back) == IF back = "down" THEN Down ELSE Idle

Become(p, j) == job' = [job EXCEPT ![p] = j]
At(p, where) == job[p].at = where
Blocking(code, back) == [at |-> "block", code |-> code, back |-> back]

\* The plugin side of a call: a record of its session, its declared files, the
\* process that serves it, and the revision of its authorization.
Call(c, state) == [calls EXCEPT ![c].state = state]
Ended(c)       == [calls EXCEPT ![c] = Done]

-----------------------------------------------------------------------------
(* authorize_tool                                                          *)

\* The session, the context and the Run are read, and the request is refused
\* unless a phase is open and the declared files lie in its scope.
AuthorizeBegin(p, s, c, declared) ==
  /\ At(p, "idle")
  /\ calls[c].state = "new"
  /\ Participant(s)
  /\ Mutable
  /\ stage = "IMPLEMENTING"
  /\ active # 0
  /\ declared # {}
  /\ declared \subseteq Allowed[active]
  /\ Become(p, [at |-> "authorize_snapshot", call |-> c, session |-> s,
                declared |-> declared, rev |-> revision, ws |-> ws])
  /\ calls' = [calls EXCEPT ![c] = [state |-> "asked", proc |-> p]]
  /\ UNCHANGED <<store, disk, edits>>

AuthorizeSnapshot(p) ==
  /\ At(p, "authorize_snapshot")
  /\ LET j == job[p] IN
     IF disk # j.ws
     THEN /\ Become(p, Blocking("UNATTRIBUTED_WORKSPACE_CHANGE", "idle"))
          /\ calls' = Ended(j.call)
     ELSE /\ Become(p, [at |-> "authorize_commit", call |-> j.call, session |-> j.session,
                        declared |-> j.declared, rev |-> j.rev, before |-> disk])
          /\ UNCHANGED calls
  /\ UNCHANGED <<store, disk, edits>>

AuthorizeCommit(p) ==
  /\ At(p, "authorize_commit")
  /\ Become(p, Idle)
  /\ LET j == job[p] IN
     IF CanCreateLease(j.session, j.declared, j.rev)
     THEN /\ CreateWriteLease(j.session, j.call, j.declared, j.before, j.rev)
          /\ calls' = [calls EXCEPT ![j.call] =
               [state |-> "authorized", proc |-> p, session |-> j.session,
                declared |-> j.declared, rev |-> revision']]
     ELSE /\ calls' = Ended(j.call)
          /\ UNCHANGED store
  /\ UNCHANGED <<disk, edits>>

-----------------------------------------------------------------------------
(* post_tool, called for a tool that has written or by reconcile_workspace. *)

\* The plugin sends the context it kept from the authorization.
PostBegin(p, c) ==
  /\ At(p, "idle")
  /\ calls[c].state = "written"
  /\ calls[c].proc = p
  /\ Become(p, [at |-> "post_run", call |-> c, session |-> calls[c].session,
                rev |-> calls[c].rev, context |-> TRUE, back |-> "idle"])
  /\ calls' = Ended(c)
  /\ UNCHANGED <<store, disk, edits>>

\* _mutable_run, assert_session and, for a request, _assert_context.
PostRun(p) ==
  /\ At(p, "post_run")
  /\ LET j == job[p] IN
     IF Mutable /\ Participant(j.session) /\ (j.context => revision = j.rev)
     THEN Become(p, [at |-> "post_lease", call |-> j.call, session |-> j.session,
                     rev |-> j.rev, back |-> j.back])
     ELSE Become(p, Raised(j.back))
  /\ UNCHANGED <<store, disk, calls, edits>>

PostLease(p) ==
  /\ At(p, "post_lease")
  /\ LET j == job[p] IN
     Become(p, IF lease = None \/ lease.call # j.call
               THEN Blocking("MISSING_WRITE_LEASE", j.back)
               ELSE IF lease.session # j.session THEN Raised(j.back)
               ELSE [at |-> "post_snapshot", call |-> j.call, session |-> j.session,
                     rev |-> j.rev, declared |-> lease.declared,
                     before |-> lease.before, back |-> j.back])
  /\ UNCHANGED <<store, disk, calls, edits>>

\* Fault: the files written are never compared with the declared ones.
PostSnapshotUnscoped(p) ==
  /\ At(p, "post_snapshot")
  /\ LET j == job[p] IN
     Become(p, [at |-> "post_commit", call |-> j.call, session |-> j.session, rev |-> j.rev,
                snap |-> disk, actual |-> Diff(j.before, disk), back |-> j.back])
  /\ UNCHANGED <<store, disk, calls, edits>>

\* The declared files lie in the scope of the leased phase (LeasePinsRun).  The
\* code tests the files written against that scope too, with the same verdict:
\* it is what catches a file written below a declared one that became a directory.
PostSnapshot(p) ==
  /\ At(p, "post_snapshot")
  /\ LET j == job[p]
         actual == Diff(j.before, disk)
     IN IF actual \subseteq j.declared
        THEN Become(p, [at |-> "post_commit", call |-> j.call, session |-> j.session,
                        rev |-> j.rev, snap |-> disk, actual |-> actual, back |-> j.back])
        ELSE Become(p, Blocking("WRITE_SCOPE_VIOLATION", j.back))
  /\ UNCHANGED <<store, disk, calls, edits>>

PostCommit(p) ==
  /\ At(p, "post_commit")
  /\ LET j == job[p] IN
     IF CanFinishWrite(j.session, j.call, j.rev)
     THEN /\ FinishWrite(j.session, j.call, j.snap, j.actual, j.rev)
          /\ Become(p, Idle)
     ELSE /\ Become(p, Raised(j.back))
          /\ UNCHANGED store
  /\ UNCHANGED <<disk, calls, edits>>

-----------------------------------------------------------------------------
(* block_run at the end of an operation: a Run already blocked is left as   *)
(* it is, and every operation that blocks then raises, but reconciliation.  *)

BlockCommit(p) ==
  /\ At(p, "block")
  /\ IF blocked = None THEN Block(job[p].code) ELSE UNCHANGED store
  /\ Become(p, Raised(job[p].back))
  /\ UNCHANGED <<disk, calls, edits>>

-----------------------------------------------------------------------------
(* reconcile_workspace, at the start of an authority and when a terminal    *)
(* resumes the Run.                                                         *)

ReconcileBegin(p) ==
  /\ \/ p \in Authorities /\ At(p, "down")
     \/ p \in Terminals /\ At(p, "idle") /\ stage # "ACCEPTED"
  /\ Become(p, [at |-> "reconcile_snapshot", ws |-> ws, back |-> job[p].at])
  /\ UNCHANGED <<store, disk, calls, edits>>

ReconcileSnapshot(p) ==
  /\ At(p, "reconcile_snapshot")
  /\ Become(p, [at |-> "reconcile_lease", ws |-> job[p].ws, snap |-> disk, back |-> job[p].back])
  /\ UNCHANGED <<store, disk, calls, edits>>

\* Fault: a lease under which nothing was written is kept.
ReconcileLeaseKeeping(p) ==
  /\ At(p, "reconcile_lease")
  /\ LET j == job[p] IN
     \/ /\ lease # None
        /\ Become(p, IF j.snap = lease.before THEN Idle
                     ELSE [at |-> "post_run", call |-> lease.call, session |-> lease.session,
                           rev |-> lease.revision, context |-> FALSE, back |-> j.back])
     \/ /\ lease = None
        /\ Become(p, IF j.snap # j.ws
                     THEN Blocking("UNATTRIBUTED_WORKSPACE_CHANGE", "idle") ELSE Idle)
  /\ UNCHANGED <<store, disk, calls, edits>>

ReconcileLease(p) ==
  /\ At(p, "reconcile_lease")
  /\ LET j == job[p] IN
     \/ /\ lease # None
        /\ j.snap = lease.before
        /\ Become(p, [at |-> "reconcile_cancel", call |-> lease.call, back |-> j.back])
     \/ /\ lease # None
        /\ j.snap # lease.before
        /\ Become(p, [at |-> "post_run", call |-> lease.call, session |-> lease.session,
                      rev |-> lease.revision, context |-> FALSE, back |-> j.back])
     \/ /\ lease = None
        /\ Become(p, IF j.snap # j.ws
                     THEN Blocking("UNATTRIBUTED_WORKSPACE_CHANGE", "idle") ELSE Idle)
  /\ UNCHANGED <<store, disk, calls, edits>>

ReconcileCancel(p) ==
  /\ At(p, "reconcile_cancel")
  /\ LET j == job[p] IN
     IF CanCancelLease(j.call)
     THEN CancelUnchangedLease(j.call) /\ Become(p, Idle)
     ELSE UNCHANGED store /\ Become(p, Raised(j.back))
  /\ UNCHANGED <<disk, calls, edits>>

-----------------------------------------------------------------------------
(* complete_phase and the verification it starts after the last phase.      *)

Complete(p, outcome) ==
  /\ At(p, "idle")
  /\ \E s \in Sessions : Participant(s)
  /\ CompletePhase(active, outcome, revision)
  /\ Become(p, IF stage' = "VERIFYING" THEN [at |-> "verify_snapshot", ws |-> ws] ELSE Idle)
  /\ UNCHANGED <<disk, calls, edits>>

VerifySnapshot(p) ==
  /\ At(p, "verify_snapshot")
  /\ Become(p, IF disk # job[p].ws
               THEN Blocking("UNATTRIBUTED_WORKSPACE_CHANGE", "idle")
               ELSE [at |-> "verify_checks", ws |-> disk])
  /\ UNCHANGED <<store, disk, calls, edits>>

\* The sandbox runs every selected check: all pass, one fails, or the sandbox
\* itself raises (image gone, Docker down) and no evidence is collected.
VerifyChecks(p) ==
  /\ At(p, "verify_checks")
  /\ \/ \E passed \in BOOLEAN :
          Become(p, [at |-> "verify_commit", e |-> [ws |-> job[p].ws, passed |-> passed]])
     \/ Become(p, Idle)
  /\ UNCHANGED <<store, disk, calls, edits>>

VerifyCommit(p) ==
  /\ At(p, "verify_commit")
  /\ Become(p, Idle)
  /\ IF CanFinishVerification THEN FinishVerification(job[p].e) ELSE UNCHANGED store
  /\ UNCHANGED <<disk, calls, edits>>

-----------------------------------------------------------------------------
(* review                                                                   *)

\* Read in any other stage, the Run would be refused by the transaction, which
\* compares the revision and the stage.
ApproveBegin(p) ==
  /\ At(p, "idle")
  /\ stage = "REVIEW_REQUIRED"
  /\ Become(p, [at |-> "approve_snapshot", rev |-> revision, ws |-> ws, e |-> evidence])
  /\ UNCHANGED <<store, disk, calls, edits>>

ApproveSnapshot(p) ==
  /\ At(p, "approve_snapshot")
  /\ LET j == job[p] IN
     Become(p, [at |-> "approve_commit", rev |-> j.rev, ws |-> j.ws, e |-> j.e, snap |-> disk])
  /\ UNCHANGED <<store, disk, calls, edits>>

ApproveCommit(p) ==
  /\ At(p, "approve_commit")
  /\ Become(p, Idle)
  /\ LET j == job[p] IN
     IF CanApprove(j.rev, j.ws, j.e, j.snap) THEN Approve(j.rev, j.ws, j.e, j.snap)
                                             ELSE UNCHANGED store
  /\ UNCHANGED <<disk, calls, edits>>

\* The Run is read and reopened with the anchors just read: a commit of another
\* process in between only makes the transaction refuse.
RequestChanges(p) ==
  /\ At(p, "idle")
  /\ ReopenLastPhase(revision, ws, evidence)
  /\ UNCHANGED <<disk, job, calls, edits>>

-----------------------------------------------------------------------------
(* Operations that are one transaction: the activation of the PLAN, the     *)
(* participants, a refused planning submission, the quality commands.       *)

Activate == ActivatePlan /\ UNCHANGED <<disk, job, calls, edits>>

\* Fault: attaching looks for an active participant only, so a revoked one returns.
AttachRevoked(s) ==
  /\ member[s] # "ACTIVE" /\ lease = None
  /\ Event
  /\ member' = [member EXCEPT ![s] = "ACTIVE"]
  /\ UNCHANGED <<stage, active, ws, evidence, blocked, status, touched, lease>>
  /\ UNCHANGED <<disk, job, calls, edits>>

Attach(s) == AttachSession(s, revision) /\ UNCHANGED <<disk, job, calls, edits>>
Revoke(s) == RevokeSession(s) /\ UNCHANGED <<disk, job, calls, edits>>
Reject == RecordRejection /\ UNCHANGED <<disk, job, calls, edits>>
Drive == DriveQuality(revision) /\ UNCHANGED <<disk, job, calls, edits>>

-----------------------------------------------------------------------------
(* The plugin, the tools and the world.                                     *)

\* tool.execute.before: the tool runs only if the status still shows the
\* revision of its authorization; the lease stays either way.  A plugin that
\* timed out waiting for the answer never runs the tool.
HookConfirm(c) ==
  /\ calls[c].state = "authorized"
  /\ calls' = IF revision = calls[c].rev THEN Call(c, "granted") ELSE Ended(c)
  /\ UNCHANGED <<store, disk, job, edits>>

HookTimeout(c) ==
  /\ calls[c].state = "authorized"
  /\ calls' = Ended(c)
  /\ UNCHANGED <<store, disk, job, edits>>

\* The tool writes some of its declared files.  If its authority died there is
\* nobody left to receive the after hook.
ToolWrite(c) ==
  /\ calls[c].state \in {"granted", "loose"}
  /\ \E d \in Digest : Diff(disk, d) \subseteq calls[c].declared /\ disk' = d
  /\ calls' = IF calls[c].state = "granted" THEN Call(c, "written") ELSE Ended(c)
  /\ UNCHANGED <<store, job, edits>>

\* Anything else that writes the worktree, a tool outside its declared files
\* included.
ExternalEdit ==
  /\ edits < MaxEdits
  /\ \E f \in Paths, x \in Contents : x # disk[f] /\ disk' = [disk EXCEPT ![f] = x]
  /\ edits' = edits + 1
  /\ UNCHANGED <<store, job, calls>>

\* An authority dies.  Its plugin gets no more answers; a tool already running
\* goes on.
Crash(p) ==
  /\ p \in Authorities
  /\ ~At(p, "down")
  /\ Become(p, Down)
  /\ calls' = [c \in Calls |->
       IF calls[c].state \in {"new", "done", "loose"} \/ calls[c].proc # p THEN calls[c]
       ELSE IF calls[c].state = "granted" THEN [calls[c] EXCEPT !.state = "loose"]
       ELSE Done]
  /\ UNCHANGED <<store, disk, edits>>

-----------------------------------------------------------------------------
Init ==
  /\ StoreInit
  /\ disk = ws
  /\ job = [p \in Procs |-> IF p \in Authorities THEN Down ELSE Idle]
  /\ calls = [c \in Calls |-> [state |-> "new"]]
  /\ edits = 0

Serve(p) ==
  \/ \E s \in Sessions, c \in Calls, declared \in SUBSET Paths : AuthorizeBegin(p, s, c, declared)
  \/ AuthorizeSnapshot(p) \/ AuthorizeCommit(p)
  \/ \E c \in Calls : PostBegin(p, c)
  \/ \E outcome \in {"changed", "no-change"} : Complete(p, outcome)
  \/ VerifySnapshot(p) \/ VerifyChecks(p) \/ VerifyCommit(p)

Terminal(p) ==
  \/ ApproveBegin(p) \/ ApproveSnapshot(p) \/ ApproveCommit(p)
  \/ RequestChanges(p)

Shared(p) ==
  \/ ReconcileBegin(p) \/ ReconcileSnapshot(p) \/ ReconcileLease(p) \/ ReconcileCancel(p)
  \/ PostRun(p) \/ PostLease(p) \/ PostSnapshot(p) \/ PostCommit(p)
  \/ BlockCommit(p)

Next ==
  \/ \E p \in Authorities : Serve(p) \/ Crash(p)
  \/ \E p \in Terminals : Terminal(p)
  \/ \E p \in Procs : Shared(p)
  \/ Activate \/ Reject \/ Drive
  \/ \E s \in Sessions : Attach(s) \/ Revoke(s)
  \/ \E c \in Calls : HookConfirm(c) \/ HookTimeout(c) \/ ToolWrite(c)
  \/ ExternalEdit

Spec == Init /\ [][Next]_vars

\* The steps of an operation that has begun: nothing in them waits for anybody.
Work(p) ==
  \/ AuthorizeSnapshot(p) \/ AuthorizeCommit(p)
  \/ PostRun(p) \/ PostLease(p) \/ PostSnapshot(p) \/ PostCommit(p) \/ BlockCommit(p)
  \/ ReconcileSnapshot(p) \/ ReconcileLease(p) \/ ReconcileCancel(p)
  \/ VerifySnapshot(p) \/ VerifyChecks(p) \/ VerifyCommit(p)
  \/ ApproveSnapshot(p) \/ ApproveCommit(p)

\* Operations end, and somebody keeps resuming the Run from a terminal; no tool
\* call, plugin, restart of a server or review is owed.
FairSpec ==
  /\ Spec
  /\ \A p \in Procs : WF_vars(Work(p))
  /\ \A t \in Terminals : WF_vars(ReconcileBegin(t))
-----------------------------------------------------------------------------
(* Properties of the composed system.                                      *)

\* What a process and a call may remember in each of their states.
Job ==
       [at : {"down", "idle"}]
  \cup [at : {"authorize_snapshot"}, call : Calls, session : Sessions,
        declared : SUBSET Paths, rev : Nat, ws : Digest]
  \cup [at : {"authorize_commit"}, call : Calls, session : Sessions,
        declared : SUBSET Paths, rev : Nat, before : Digest]
  \cup [at : {"post_run"}, call : Calls, session : Sessions, rev : Nat,
        context : BOOLEAN, back : {"down", "idle"}]
  \cup [at : {"post_lease"}, call : Calls, session : Sessions, rev : Nat, back : {"down", "idle"}]
  \cup [at : {"post_snapshot"}, call : Calls, session : Sessions, rev : Nat,
        declared : SUBSET Paths, before : Digest, back : {"down", "idle"}]
  \cup [at : {"post_commit"}, call : Calls, session : Sessions, rev : Nat,
        snap : Digest, actual : SUBSET Paths, back : {"down", "idle"}]
  \cup [at : {"block"}, code : BlockCodes, back : {"down", "idle"}]
  \cup [at : {"reconcile_snapshot"}, ws : Digest, back : {"down", "idle"}]
  \cup [at : {"reconcile_lease"}, ws : Digest, snap : Digest, back : {"down", "idle"}]
  \cup [at : {"reconcile_cancel"}, call : Calls, back : {"down", "idle"}]
  \cup [at : {"verify_snapshot", "verify_checks"}, ws : Digest]
  \cup [at : {"verify_commit"}, e : Evidence]
  \cup [at : {"approve_snapshot"}, rev : Nat, ws : Digest, e : Evidence \cup {None}]
  \cup [at : {"approve_commit"}, rev : Nat, ws : Digest, e : Evidence \cup {None}, snap : Digest]

CallState ==
       [state : {"new", "done"}]
  \cup [state : {"asked"}, proc : Authorities]
  \cup [state : {"authorized", "granted", "loose", "written"}, proc : Authorities,
        session : Sessions, declared : SUBSET Paths, rev : Nat]

\* The processes, the plugin and the worktree keep their types.
GuardianTypeOK ==
  /\ TypeOK
  /\ disk \in Digest
  /\ job \in [Procs -> Job]
  /\ calls \in [Calls -> CallState]
  /\ edits \in 0..MaxEdits

\* The content a pending lease was authorized against is still the recorded
\* content of the Run, however many commits happened between the snapshot, the
\* authorization and now: the difference computed at the end of the write is
\* therefore a difference to the recorded content.
LeaseAnchored == lease # None => lease.before = ws

\* Evidence is about the recorded content: no write, cancellation or
\* reconciliation of another process slips between a verification and what it
\* verified, so what a reviewer accepts is what was verified.
EvidenceCurrent == evidence # None => evidence.ws = ws

Verifying(p) == job[p].at \in {"verify_snapshot", "verify_checks", "verify_commit"}

\* The process that completed the last phase is alone in verifying, and the Run
\* waits for it in VERIFYING with the content it looked at.
OneVerifier ==
  \A p \in Procs : Verifying(p) =>
    /\ stage = "VERIFYING"
    /\ \A q \in Procs : Verifying(q) => p = q
    /\ ws = IF At(p, "verify_commit") THEN job[p].e.ws ELSE job[p].ws

\* What process p remembers is current, if the revision it carries is.
HoldsLease(p) == lease # None /\ lease.call = job[p].call

JobCurrent(p) ==
  /\ job[p].at \in {"authorize_snapshot", "authorize_commit", "post_run",
                    "post_lease", "post_snapshot", "post_commit"} => job[p].rev <= revision
  /\ At(p, "authorize_snapshot") /\ job[p].rev = revision => job[p].ws = ws
  /\ At(p, "authorize_commit") /\ job[p].rev = revision => job[p].before = ws
  /\ At(p, "post_snapshot") /\ job[p].rev = revision /\ HoldsLease(p) =>
       job[p].before = lease.before /\ job[p].declared = lease.declared
  /\ At(p, "post_commit") /\ job[p].rev = revision /\ HoldsLease(p) =>
       Diff(lease.before, job[p].snap) \subseteq lease.declared

CallCurrent(c) ==
  calls[c].state \in {"authorized", "granted", "loose", "written"} => calls[c].rev <= revision

\* The pending lease of call c and session s, taken by the last event of a Run
\* that nobody blocked.
Pending(c, s) ==
  /\ lease # None
  /\ lease.call = c /\ lease.session = s
  /\ lease.revision = revision
  /\ blocked = None

JobHolds(p) ==
  job[p].at \in {"post_run", "post_lease", "post_snapshot", "post_commit"}
    /\ job[p].rev = revision => Pending(job[p].call, job[p].session)

CallHolds(c) ==
  calls[c].state \in {"authorized", "granted", "loose", "written"} /\ calls[c].rev = revision =>
    Pending(c, calls[c].session) /\ lease.declared = calls[c].declared

\* The revision fences what an operation remembers: as long as the revision it
\* carries is the current one, the content and the lease it read, at whatever
\* moment, are those of the Run, and an authorized write, whether its tool is
\* about to run, runs or is being recorded, still has its lease: whoever
\* cancelled it, finished it or blocked the Run has moved the revision on.
RevisionFences ==
  /\ \A p \in Procs : JobCurrent(p) /\ JobHolds(p)
  /\ \A c \in Calls : CallCurrent(c) /\ CallHolds(c)

\* The recorded content changes only under a lease, only in files that the lease
\* declared, and only in the scope of the active phase - although the process
\* that commits read the lease, the Run and the disk at different times.
WritesAttributed ==
  [][ws' # ws => /\ lease # None
                 /\ blocked = None
                 /\ Diff(ws, ws') \subseteq lease.declared
                 /\ Diff(ws, ws') \subseteq Allowed[active]]_vars

\* An interrupted write does not stay pending: whatever became of its tool, its
\* plugin and its server, a resumed Run finishes it, cancels it or is blocked -
\* unless another commit has moved the revision past that of the lease.
InterruptedWriteSettles ==
  lease # None ~> \/ lease = None \/ blocked # None
                  \/ lease.revision # revision \/ revision = MaxRevision

-----------------------------------------------------------------------------
(* What the composed system implements.                                    *)

\* The facade uses the store as the store expects: whatever a process read
\* earlier, each of its commits is a transaction that the store allows in the
\* state it commits in.
ImplementsStore == StoreSpec

Promise == INSTANCE GuardedRun WITH
  NoVerdict <- None,
  phase     <- active,
  content   <- ws,
  attested  <- IF evidence # None /\ evidence.passed THEN evidence.ws ELSE None,
  locked    <- blocked # None

\* The whole system keeps the promise of a guarded Run: in particular a verdict
\* attests the recorded content at the moment it is committed, long after the
\* snapshot it was made from.
KeepsPromise == Promise!Spec

-----------------------------------------------------------------------------
(* What the messages of the code say, and the interleavings that refute it. *)

\* "Workspace changed without a valid write lease.": the Run is blocked for an
\* unattributed change only if something wrote outside the tool hooks.
UnattributedIsOutside == blocked = "UNATTRIBUTED_WORKSPACE_CHANGE" => edits > 0

\* "Project already has an active Run; use open to resume it.": a Run that is
\* resumed does not stay in VERIFYING for ever.
ResumeEndsVerification ==
  stage = "VERIFYING" ~> stage # "VERIFYING" \/ blocked # None \/ revision = MaxRevision
=============================================================================

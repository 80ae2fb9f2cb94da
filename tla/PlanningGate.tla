---------------------------- MODULE PlanningGate ----------------------------
(***************************************************************************)
(* The planning gate of one Run: a model submits BASELINE, SPEC and PLAN   *)
(* artifacts, an authority outside records review and approval receipts,   *)
(* and the receipt of the PLAN activates its packet.  Every repository     *)
(* method is one SQLite transaction and one action; a submission that is   *)
(* refused is recorded by a second transaction, and approve-plan records   *)
(* its receipt in one transaction and consumes it in another.              *)
(*                                                                         *)
(* Data kept out: an artifact is its kind, the authority it claims (the    *)
(* fields of _require_inherited_closure) and, for a PLAN, its packet; its  *)
(* identifier and digest name these.  A receipt identifier stands for the  *)
(* identifier and the nonce.  The anchors base_sha and workspace_digest do *)
(* not change before activation, so a wrong one can only refuse a request. *)
(***************************************************************************)
EXTENDS Naturals, Sequences, FiniteSets

CONSTANTS
  Authorities,  \* what an artifact may claim
  Packets,      \* development packets a PLAN may propose
  Reviews,      \* identifiers of planning review receipts
  Approvals,    \* identifiers of plan approval receipts
  Procs,        \* servers and terminals that submit or approve
  None,         \* the missing row
  MaxEvents     \* bound of the model on the event log

Kinds == {"BASELINE", "SPEC", "PLAN"}
Steps == {"NONE", "BASELINE_REVIEW_REQUIRED", "SPEC_REVIEW_REQUIRED",
          "PLAN_REVIEW_REQUIRED", "PLAN_APPROVED"}

Artifact ==
  [kind : {"BASELINE", "SPEC"}, authority : Authorities, packet : {None}, revision : Nat]
    \cup [kind : {"PLAN"}, authority : Authorities, packet : Packets, revision : Nat]
Review   == [artifact : Artifact, issued : Nat, decision : {"ACCEPT", "REQUEST_CHANGES"},
             consumed : BOOLEAN]
Approval == [plan : Artifact, revision : Nat, consumed : BOOLEAN]

\* Events keep what the replay compares.
Event == [type : {"PLANNING_ARTIFACT_STORED"}, artifact : Artifact, review : Reviews \cup {None}]
  \cup [type : {"PLANNING_REVIEW_RECEIPT_RECORDED"}, review : Reviews]
  \cup [type : {"PLAN_APPROVAL_RECEIPT_RECORDED"}, approval : Approvals, plan : Artifact]
  \cup [type : {"PLAN_APPROVAL_RECEIPT_CONSUMED"}, approval : Approvals, packet : Packets]
  \cup [type : {"PLANNING_SUBMISSION_REJECTED", "RUN_BLOCKED", "OTHER"}]

Idle == [at |-> "Idle"]
Job  == {Idle} \cup [at : {"Reject"}, stale : BOOLEAN]
               \cup [at : {"Consume"}, approval : Approvals, revision : Nat]

ASSUME NoneAssumption ==
  None \notin Packets /\ None \notin Reviews /\ None \notin Review /\ None \notin Approval
    /\ None \notin Artifact
ASSUME BoundAssumption == MaxEvents \in Nat

VARIABLES
  log,        \* the events after RUN_CREATED; the revision is their number
  stage,      \* runs.stage, PLANNING or the stage activation leads to
  blocked,    \* runs.blocked_code is not empty
  active,     \* runs.packet_digest, the packet artifact and its phases
  step,       \* planning_states, with the gate that goes with the step
  artifacts,  \* planning_artifacts
  candidate,  \* plan_candidates
  review,     \* planning_review_receipts
  approval,   \* plan_approval_receipts
  job         \* what each process still has to do

vars == <<log, stage, blocked, active, step, artifacts, candidate, review, approval, job>>

PlanningTypeOK ==
  /\ log \in Seq(Event)
  /\ stage \in {"PLANNING", "IMPLEMENTING"}
  /\ blocked \in BOOLEAN
  /\ active \in Packets \cup {None}
  /\ step \in Steps
  /\ artifacts \in SUBSET Artifact
  /\ candidate \in Artifact \cup {None}
  /\ review \in [Reviews -> Review \cup {None}]
  /\ approval \in [Approvals -> Approval \cup {None}]
  /\ job \in [Procs -> Job]

revision == Len(log)

\* append_event
Commit(e) == revision < MaxEvents /\ log' = Append(log, e)

PriorStep(k) ==
  CASE k = "BASELINE" -> "NONE"
    [] k = "SPEC"     -> "BASELINE_REVIEW_REQUIRED"
    [] k = "PLAN"     -> "SPEC_REVIEW_REQUIRED"

ReviewStep(k) ==
  CASE k = "BASELINE" -> "BASELINE_REVIEW_REQUIRED"
    [] k = "SPEC"     -> "SPEC_REVIEW_REQUIRED"
    [] k = "PLAN"     -> "PLAN_REVIEW_REQUIRED"

RequiredKinds(k) ==
  CASE k = "BASELINE" -> {}
    [] k = "SPEC"     -> {"BASELINE"}
    [] k = "PLAN"     -> {"BASELINE", "SPEC"}

\* _immediate_predecessor
Predecessors(k) ==
  {a \in artifacts : \/ k = "SPEC" /\ a.kind = "BASELINE"
                     \/ k = "PLAN" /\ a.kind = "SPEC"}

\* The rows one of which _consume_planning_review fetches, in no given order.
Acceptances(a) ==
  {r \in Reviews : /\ review[r] # None
                   /\ review[r].artifact = a
                   /\ review[r].decision = "ACCEPT"
                   /\ ~review[r].consumed}

\* Fault: a review counts as current as long as it lies in the past.
CurrentEver(r) == review[r].issued + 1 <= revision

Current(r) == review[r].issued + 1 = revision

Init ==
  /\ log = <<>>
  /\ stage = "PLANNING" /\ blocked = FALSE /\ active = None
  /\ step = "NONE" /\ artifacts = {} /\ candidate = None
  /\ review = [r \in Reviews |-> None]
  /\ approval = [a \in Approvals |-> None]
  /\ job = [p \in Procs |-> Idle]

-----------------------------------------------------------------------------
(* Submissions of the model.                                               *)

\* Fault: the kinds stored are looked at, the planning step is not.
InSequenceByKinds(k) ==
  /\ ~blocked
  /\ k = "PLAN" => candidate = None
  /\ RequiredKinds(k) \subseteq {a.kind : a \in artifacts}

InSequence(k) ==
  /\ ~blocked
  /\ k = "PLAN" => candidate = None
  /\ step = PriorStep(k)
  /\ RequiredKinds(k) \subseteq {a.kind : a \in artifacts}

StoreArtifact(a, r) ==
  /\ Commit([type |-> "PLANNING_ARTIFACT_STORED", artifact |-> a, review |-> r])
  /\ artifacts' = artifacts \cup {a}
  /\ candidate' = IF a.kind = "PLAN" THEN a ELSE candidate
  /\ step' = ReviewStep(a.kind)
  /\ UNCHANGED <<stage, blocked, active, approval>>

SubmitBaseline(p) ==
  /\ job[p] = Idle
  /\ InSequence("BASELINE")
  /\ \E auth \in Authorities :
       StoreArtifact([kind |-> "BASELINE", authority |-> auth, packet |-> None,
                      revision |-> revision], None)
  /\ UNCHANGED <<review, job>>

\* Fault: the authority claimed is not compared with that of the predecessor.
SubmitSuccessorRedirected(p, k) ==
  /\ job[p] = Idle
  /\ InSequence(k)
  /\ \E d \in Predecessors(k), auth \in Authorities :
       \E r \in Acceptances(d), pkt \in IF k = "PLAN" THEN Packets ELSE {None} :
         /\ Current(r)
         /\ review' = [review EXCEPT ![r].consumed = TRUE]
         /\ StoreArtifact([kind |-> k, authority |-> auth, packet |-> pkt,
                           revision |-> revision], r)
  /\ UNCHANGED job

SubmitSuccessor(p, k) ==
  /\ job[p] = Idle
  /\ InSequence(k)
  /\ \E d \in Predecessors(k) :
       \E r \in Acceptances(d), pkt \in IF k = "PLAN" THEN Packets ELSE {None} :
         /\ Current(r)
         /\ review' = [review EXCEPT ![r].consumed = TRUE]
         /\ StoreArtifact([kind |-> k, authority |-> d.authority, packet |-> pkt,
                           revision |-> revision], r)
  /\ UNCHANGED job

\* The review fetched is not current: the transaction rolls back.
SubmitStale(p, k) ==
  /\ job[p] = Idle
  /\ InSequence(k)
  /\ \E d \in Predecessors(k) : \E r \in Acceptances(d) : ~Current(r)
  /\ job' = [job EXCEPT ![p] = [at |-> "Reject", stale |-> TRUE]]
  /\ UNCHANGED <<log, stage, blocked, active, step, artifacts, candidate, review, approval>>

\* Any other refusal: malformed, out of sequence, not inherited, not reviewed.
SubmitRefused(p) ==
  /\ job[p] = Idle
  /\ job' = [job EXCEPT ![p] = [at |-> "Reject", stale |-> FALSE]]
  /\ UNCHANGED <<log, stage, blocked, active, step, artifacts, candidate, review, approval>>

RecordRejection(p) ==
  /\ job[p].at = "Reject"
  /\ IF blocked THEN UNCHANGED log
                ELSE Commit([type |-> "PLANNING_SUBMISSION_REJECTED"])
  /\ job' = [job EXCEPT ![p] = Idle]
  /\ UNCHANGED <<stage, blocked, active, step, artifacts, candidate, review, approval>>

-----------------------------------------------------------------------------
(* Receipts of the authority.                                              *)

RecordReview(r, a, decision) ==
  /\ ~blocked
  /\ review[r] = None
  /\ a.kind # "PLAN"
  /\ Commit([type |-> "PLANNING_REVIEW_RECEIPT_RECORDED", review |-> r])
  /\ review' = [review EXCEPT ![r] = [artifact |-> a, issued |-> revision,
                                      decision |-> decision, consumed |-> FALSE]]
  /\ UNCHANGED <<stage, blocked, active, step, artifacts, candidate, approval, job>>

\* Fault: the receipt is accepted before there is a PLAN candidate.
CanRecordApprovalEarly ==
  /\ ~blocked
  /\ \A y \in Approvals : approval[y] = None

CanRecordApproval ==
  /\ ~blocked
  /\ candidate # None
  /\ step = "PLAN_REVIEW_REQUIRED"
  /\ \A y \in Approvals : approval[y] = None

\* approve-plan: record the receipt, or find it recorded, then consume it.
RecordApproval(p, x) ==
  /\ job[p] = Idle
  /\ CanRecordApproval
  /\ Commit([type |-> "PLAN_APPROVAL_RECEIPT_RECORDED", approval |-> x, plan |-> candidate])
  /\ approval' = [approval EXCEPT ![x] = [plan |-> candidate, revision |-> revision,
                                          consumed |-> FALSE]]
  /\ job' = [job EXCEPT ![p] = [at |-> "Consume", approval |-> x, revision |-> revision + 1]]
  /\ UNCHANGED <<stage, blocked, active, step, artifacts, candidate, review>>

\* Fault: a receipt already recorded is only accepted once it was consumed.
FindApprovalConsumed(p, x) ==
  /\ job[p] = Idle
  /\ ~blocked
  /\ approval[x] # None
  /\ approval[x].consumed
  /\ job' = [job EXCEPT ![p] = [at |-> "Consume", approval |-> x, revision |-> revision]]
  /\ UNCHANGED <<log, stage, blocked, active, step, artifacts, candidate, review, approval>>

FindApproval(p, x) ==
  /\ job[p] = Idle
  /\ ~blocked
  /\ approval[x] # None
  /\ job' = [job EXCEPT ![p] = [at |-> "Consume", approval |-> x, revision |-> revision]]
  /\ UNCHANGED <<log, stage, blocked, active, step, artifacts, candidate, review, approval>>

\* Fault: the receipt is not compared with the revision.
CanConsumeStale(x, rev) ==
  /\ revision = rev
  /\ ~blocked
  /\ approval[x] # None
  /\ ~approval[x].consumed
  /\ approval[x].plan = candidate
  /\ step = "PLAN_REVIEW_REQUIRED"
  /\ stage = "PLANNING" /\ active = None

CanConsume(x, rev) ==
  /\ revision = rev
  /\ ~blocked
  /\ approval[x] # None
  /\ ~approval[x].consumed
  /\ approval[x].revision + 1 = rev
  /\ approval[x].plan = candidate
  /\ step = "PLAN_REVIEW_REQUIRED"
  /\ stage = "PLANNING" /\ active = None

\* Fault: the receipt is not marked as consumed.
ConsumeApprovalUnmarked(p, x) ==
  /\ CanConsume(x, job[p].revision)
  /\ Commit([type |-> "PLAN_APPROVAL_RECEIPT_CONSUMED", approval |-> x,
             packet |-> candidate.packet])
  /\ active' = candidate.packet
  /\ step' = "PLAN_APPROVED"
  /\ stage' = "IMPLEMENTING"
  /\ job' = [job EXCEPT ![p] = Idle]
  /\ UNCHANGED <<blocked, artifacts, candidate, review, approval>>

ConsumeApproval(p, x) ==
  /\ CanConsume(x, job[p].revision)
  /\ Commit([type |-> "PLAN_APPROVAL_RECEIPT_CONSUMED", approval |-> x,
             packet |-> candidate.packet])
  /\ approval' = [approval EXCEPT ![x].consumed = TRUE]
  /\ active' = candidate.packet
  /\ step' = "PLAN_APPROVED"
  /\ stage' = "IMPLEMENTING"
  /\ job' = [job EXCEPT ![p] = Idle]
  /\ UNCHANGED <<blocked, artifacts, candidate, review>>

ConsumeRefused(p, x) ==
  /\ ~CanConsume(x, job[p].revision)
  /\ job' = [job EXCEPT ![p] = Idle]
  /\ UNCHANGED <<log, stage, blocked, active, step, artifacts, candidate, review, approval>>

Consume(p) ==
  /\ job[p].at = "Consume"
  /\ \/ ConsumeApproval(p, job[p].approval)
     \/ ConsumeRefused(p, job[p].approval)

-----------------------------------------------------------------------------
(* The rest of the system.                                                 *)

\* A process dies between its two transactions.
Die(p) ==
  /\ job[p] # Idle
  /\ job' = [job EXCEPT ![p] = Idle]
  /\ UNCHANGED <<log, stage, blocked, active, step, artifacts, candidate, review, approval>>

Block ==
  /\ ~blocked
  /\ Commit([type |-> "RUN_BLOCKED"])
  /\ blocked' = TRUE
  /\ UNCHANGED <<stage, active, step, artifacts, candidate, review, approval, job>>

\* Commits that only move the revision here: sessions, tasks, drives, writes.
OtherCommit ==
  /\ Commit([type |-> "OTHER"])
  /\ UNCHANGED <<stage, blocked, active, step, artifacts, candidate, review, approval, job>>

Next ==
  \/ \E p \in Procs :
       \/ SubmitBaseline(p)
       \/ \E k \in {"SPEC", "PLAN"} : SubmitSuccessor(p, k) \/ SubmitStale(p, k)
       \/ SubmitRefused(p) \/ RecordRejection(p)
       \/ \E x \in Approvals : RecordApproval(p, x) \/ FindApproval(p, x)
       \/ Consume(p)
       \/ Die(p)
  \/ \E r \in Reviews, a \in artifacts, d \in {"ACCEPT", "REQUEST_CHANGES"} : RecordReview(r, a, d)
  \/ Block
  \/ OtherCommit

Spec == Init /\ [][Next]_vars

\* An operation that began goes on unless its process dies, and a terminal
\* whose approve-plan was cut short runs it again until it is not.
FairSpec ==
  /\ Spec
  /\ \A p \in Procs : WF_vars(RecordRejection(p)) /\ SF_vars(Consume(p))
  /\ \A x \in Approvals : SF_vars(\E p \in Procs : FindApproval(p, x))

-----------------------------------------------------------------------------
(* integrity.py: the replay every transaction and every read begins with.   *)

Positions(type) == {i \in DOMAIN log : log[i].type = type}

\* _verify_run_anchors, the part that reads these events
VerifyRunAnchors ==
  /\ blocked <=> Positions("RUN_BLOCKED") # {}
  /\ IF active = None
     THEN Positions("PLAN_APPROVAL_RECEIPT_CONSUMED") = {}
     ELSE \E i \in DOMAIN log :
            /\ Positions("PLAN_APPROVAL_RECEIPT_CONSUMED") = {i}
            /\ log[i].packet = active

VerifyArtifacts ==
  LET stored == Positions("PLANNING_ARTIFACT_STORED") IN
  /\ \A i \in stored : log[i].artifact \in artifacts /\ i = log[i].artifact.revision + 1
  /\ \A a \in artifacts : \E i \in stored : log[i].artifact = a
  /\ \A i, j \in stored : log[i].artifact = log[j].artifact => i = j
  /\ candidate # None => candidate \in artifacts /\ candidate.kind = "PLAN"

VerifyReceipts ==
  LET recorded == Positions("PLAN_APPROVAL_RECEIPT_RECORDED")
      consumed == Positions("PLAN_APPROVAL_RECEIPT_CONSUMED")
      issued   == {x \in Approvals : approval[x] # None}
  IN
  /\ \A x \in issued : approval[x].plan \in artifacts /\ approval[x].plan = candidate
  /\ \A i \in recorded :
       /\ log[i].approval \in issued
       /\ log[i].plan = approval[log[i].approval].plan
       /\ i = approval[log[i].approval].revision + 1
  /\ issued = {log[i].approval : i \in recorded}
  /\ \A i \in consumed : log[i].approval \in issued /\ log[i].packet = candidate.packet
  /\ {x \in issued : approval[x].consumed} = {log[i].approval : i \in consumed}
  /\ \A i, j \in recorded : log[i].approval = log[j].approval => i = j
  /\ \A i, j \in consumed : log[i].approval = log[j].approval => i = j
  /\ \A x, y \in issued : x = y
  /\ (candidate # None /\ \A x \in issued : ~approval[x].consumed)
       => stage = "PLANNING" /\ active = None
  /\ \A x \in issued : approval[x].consumed => active = candidate.packet

VerifyStep ==
  LET stored   == Positions("PLANNING_ARTIFACT_STORED")
      consumed == Positions("PLAN_APPROVAL_RECEIPT_CONSUMED")
  IN
  IF stored = {} THEN step = "NONE"
  ELSE \E last \in stored :
         /\ \A i \in stored : i <= last
         /\ step = IF \E i \in consumed : i > last THEN "PLAN_APPROVED"
                   ELSE ReviewStep(log[last].artifact.kind)

VerifyPlanning == VerifyArtifacts /\ VerifyReceipts /\ VerifyStep

-----------------------------------------------------------------------------
(* Properties.                                                             *)

\* The documents of a Run form one chain: a kind occurs once, the planning step
\* names the last kind stored, all claim the same authority, later ones were
\* stored later, and the only candidate is the PLAN that was stored.
Reached(k) ==
  CASE k = "BASELINE" -> step # "NONE"
    [] k = "SPEC"     -> step \notin {"NONE", "BASELINE_REVIEW_REQUIRED"}
    [] k = "PLAN"     -> step \in {"PLAN_REVIEW_REQUIRED", "PLAN_APPROVED"}

Precedes(a, b) ==
  \/ a.kind = "BASELINE" /\ b.kind = "SPEC"
  \/ a.kind = "SPEC" /\ b.kind = "PLAN"

PlanningChain ==
  /\ \A k \in Kinds : Reached(k) <=> \E a \in artifacts : a.kind = k
  /\ \A a, b \in artifacts :
       /\ a.kind = b.kind => a = b
       /\ a.authority = b.authority
       /\ Precedes(a, b) => a.revision + 1 < b.revision
  /\ \A a \in artifacts : a.kind = "PLAN" <=> a = candidate
  /\ candidate # None => candidate \in artifacts

\* "Exact immediate-predecessor external review receipt is required and
\* atomically consumed": every later document has one accepting review of its
\* predecessor that it consumed, recorded by the commit just before its own,
\* and a review is consumed by one document only.
ReviewedOnce ==
  /\ \A a \in artifacts : a.kind # "BASELINE" =>
       \E r \in Reviews :
         /\ review[r] # None /\ review[r].consumed
         /\ Precedes(review[r].artifact, a)
         /\ log[a.revision] = [type |-> "PLANNING_REVIEW_RECEIPT_RECORDED", review |-> r]
  /\ \A r \in Reviews : (review[r] # None /\ review[r].consumed) =>
       /\ review[r].decision = "ACCEPT"
       /\ \E a \in artifacts : Precedes(review[r].artifact, a) /\ a.revision = review[r].issued + 1
  /\ \A r, s \in Reviews :
       (/\ review[r] # None /\ review[r].consumed
        /\ review[s] # None /\ review[s].consumed
        /\ review[r].artifact = review[s].artifact) => r = s

\* What is in force is the packet of the PLAN that was approved: the receipt was
\* consumed by the commit that followed its recording, whatever died between
\* the two, and no second receipt was ever issued.
ApprovedOnce ==
  /\ \A x, y \in Approvals : (approval[x] # None /\ approval[y] # None) => x = y
  /\ stage = "IMPLEMENTING" <=> active # None
  /\ active # None =>
       \E x \in Approvals :
         /\ approval[x] # None /\ approval[x].consumed
         /\ candidate # None /\ approval[x].plan = candidate
         /\ log[approval[x].revision + 2] =
              [type |-> "PLAN_APPROVAL_RECEIPT_CONSUMED", approval |-> x, packet |-> active]

\* The replay accepts every history the transactions can write: otherwise the
\* Run could neither be read nor changed any more.
ReplayAccepts == VerifyRunAnchors /\ VerifyPlanning

\* The document an artifact stands for.
Doc(a) == [kind |-> a.kind, authority |-> a.authority, packet |-> a.packet]

Accepted == {r \in Reviews : review[r] # None /\ review[r].decision = "ACCEPT"}
Issued   == {x \in Approvals : approval[x] # None}

Gate == INSTANCE GatedPlan WITH
  Nothing  <- None,
  chain    <- {Doc(a) : a \in artifacts},
  accepted <- {Doc(review[r].artifact) : r \in Accepted},
  approved <- {Doc(approval[x].plan) : x \in Issued}

\* Receipts, revisions and the event log implement a gate that settles each
\* document on an accepted one and activates the approved plan once.
KeepsGate == Gate!Spec

\* An approval recorded by a terminal that died before consuming it activates
\* the PLAN when approve-plan is run again, unless another commit came between.
ApprovalSettles ==
  \A x \in Approvals :
    (/\ approval[x] # None
     /\ ~blocked /\ revision < MaxEvents
     /\ revision = approval[x].revision + 1)
      ~> (approval[x] # None /\ (approval[x].consumed \/ revision > approval[x].revision + 1))

\* "External review receipt is stale.": a submission in sequence is told so by
\* _consume_planning_review only if no accepting review of its predecessor is
\* current, so that a fresh review is enough to go on.
CurrentReviewSuffices ==
  [][\A p \in Procs, k \in Kinds :
       (InSequence(k) /\ job[p] = Idle /\ job'[p] = [at |-> "Reject", stale |-> TRUE])
         => \A a \in Predecessors(k) : \A r \in Acceptances(a) : ~Current(r)]_vars
=============================================================================

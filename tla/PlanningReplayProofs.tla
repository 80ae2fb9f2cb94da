------------------------- MODULE PlanningReplayProofs -------------------------
(***************************************************************************)
(* The replay of the planning events accepts every history: the proof.     *)
(* What the replay asks of the log as a whole is kept event by event: each *)
(* event has its row, and each row has its event where the row says.       *)
(***************************************************************************)
EXTENDS PlanningGateProofs

Blocks(e)    == e.type = "RUN_BLOCKED"
Stores(e)    == e.type = "PLANNING_ARTIFACT_STORED"
Approves(e)  == e.type = "PLAN_APPROVAL_RECEIPT_RECORDED"
Activates(e) == e.type = "PLAN_APPROVAL_RECEIPT_CONSUMED"

BlockLogged == blocked <=> \E i \in 1..Len(log) : Blocks(log[i])

\* A stored artifact is the event at its revision.
StoresLogged ==
  /\ \A i \in 1..Len(log) : Stores(log[i]) =>
       log[i].artifact \in artifacts /\ i = log[i].artifact.revision + 1
  /\ \A a \in artifacts : Stores(log[a.revision + 1]) /\ log[a.revision + 1].artifact = a

\* So is a recorded approval, which comes after its PLAN.
ApprovalsLogged ==
  /\ \A i \in 1..Len(log) : Approves(log[i]) =>
       /\ log[i].approval \in Approvals /\ approval[log[i].approval] # None
       /\ log[i].plan = candidate
       /\ i = approval[log[i].approval].revision + 1
  /\ \A x \in Approvals : approval[x] # None =>
       /\ Approves(log[approval[x].revision + 1]) /\ log[approval[x].revision + 1].approval = x
       /\ candidate.revision < approval[x].revision

\* Its consumption is the event after that, and names the packet in force.
ActivationLogged ==
  /\ \A i \in 1..Len(log) : Activates(log[i]) =>
       /\ log[i].approval \in Approvals /\ approval[log[i].approval] # None
       /\ approval[log[i].approval].consumed
       /\ i = approval[log[i].approval].revision + 2
       /\ log[i].packet = active
  /\ \A x \in Approvals : approval[x] # None /\ approval[x].consumed =>
       Activates(log[approval[x].revision + 2]) /\ log[approval[x].revision + 2].approval = x
  /\ active # None => active = candidate.packet

Logged == BlockLogged /\ StoresLogged /\ ApprovalsLogged /\ ActivationLogged

ReplayInv == GateInv /\ Logged

-----------------------------------------------------------------------------
(* A commit leaves alone what it is not about.                             *)

LEMMA BlockStays ==
  ASSUME GateInv, BlockLogged, NEW e \in Event, Commit(e), ~Blocks(e), UNCHANGED blocked
  PROVE  BlockLogged'
<1>1. /\ Len(log') = Len(log) + 1 /\ Len(log) \in Nat /\ log'[Len(log) + 1] = e
      /\ \A i \in 1..Len(log) : log'[i] = log[i]
  BY CommitAppends DEF GateInv, PlanningTypeOK
<1>2. \A i \in 1..Len(log') : i \in 1..Len(log) \/ i = Len(log) + 1
  BY <1>1
<1>3. \A i \in 1..Len(log) : i \in 1..Len(log')
  BY <1>1
<1> QED
  BY <1>1, <1>2, <1>3 DEF BlockLogged, Blocks

LEMMA StoresStay ==
  ASSUME GateInv, StoresLogged, NEW e \in Event, Commit(e), ~Stores(e), UNCHANGED artifacts
  PROVE  StoresLogged'
<1>1. /\ Len(log') = Len(log) + 1 /\ Len(log) \in Nat /\ log'[Len(log) + 1] = e
      /\ \A i \in 1..Len(log) : log'[i] = log[i]
  BY CommitAppends DEF GateInv, PlanningTypeOK
<1>2. \A i \in 1..Len(log') : Stores(log'[i]) => i \in 1..Len(log) /\ log'[i] = log[i]
  BY <1>1 DEF Stores
<1>3. \A a \in artifacts : a.revision + 1 \in 1..Len(log)
  BY <1>1 DEF GateInv, Anchored, PlanningTypeOK, Artifact
<1>4. \A a \in artifacts : log'[a.revision + 1] = log[a.revision + 1]
  BY <1>1, <1>3
<1> QED
  BY <1>2, <1>4 DEF StoresLogged, Stores

\* The position of a recorded approval and of its consumption.
LEMMA ApprovalPositions ==
  ASSUME GateInv, NEW x \in Approvals, approval[x] # None
  PROVE  /\ approval[x].revision \in Nat
         /\ approval[x].revision + 1 \in 1..Len(log)
         /\ approval[x].consumed => approval[x].revision + 2 \in 1..Len(log)
<1>1. approval[x].revision \in Nat /\ Len(log) \in Nat
  BY DEF GateInv, PlanningTypeOK, Approval
<1>2. approval[x].revision < Len(log) /\ (approval[x].consumed => approval[x].revision + 1 < Len(log))
  BY DEF GateInv, Anchored
<1> QED
  BY <1>1, <1>2

LEMMA ApprovalsStay ==
  ASSUME GateInv, ApprovalsLogged, NEW e \in Event, Commit(e), ~Approves(e),
         \A x \in Approvals : /\ approval'[x] # None <=> approval[x] # None
                              /\ approval[x] # None => approval'[x].revision = approval[x].revision,
         (\A x \in Approvals : approval[x] = None) \/ UNCHANGED candidate
  PROVE  ApprovalsLogged'
<1>1. /\ Len(log') = Len(log) + 1 /\ Len(log) \in Nat /\ log'[Len(log) + 1] = e
      /\ \A i \in 1..Len(log) : log'[i] = log[i]
  BY CommitAppends DEF GateInv, PlanningTypeOK
<1>2. \A i \in 1..Len(log') : Approves(log'[i]) => i \in 1..Len(log) /\ log'[i] = log[i]
  BY <1>1 DEF Approves
<1>3. \A x \in Approvals : approval[x] # None => log'[approval[x].revision + 1] = log[approval[x].revision + 1]
  BY <1>1, ApprovalPositions
<1> QED
  BY <1>2, <1>3 DEF ApprovalsLogged, Approves

LEMMA ActivationStays ==
  ASSUME GateInv, ActivationLogged, NEW e \in Event, Commit(e), ~Activates(e),
         UNCHANGED <<approval, active>>, active = None \/ UNCHANGED candidate
  PROVE  ActivationLogged'
<1>1. /\ Len(log') = Len(log) + 1 /\ Len(log) \in Nat /\ log'[Len(log) + 1] = e
      /\ \A i \in 1..Len(log) : log'[i] = log[i]
  BY CommitAppends DEF GateInv, PlanningTypeOK
<1>2. \A i \in 1..Len(log') : Activates(log'[i]) => i \in 1..Len(log) /\ log'[i] = log[i]
  BY <1>1 DEF Activates
<1>3. \A x \in Approvals : approval[x] # None /\ approval[x].consumed =>
        log'[approval[x].revision + 2] = log[approval[x].revision + 2]
  BY <1>1, ApprovalPositions
<1> QED
  BY <1>2, <1>3 DEF ActivationLogged, Activates

\* A commit of an event that none of the four is about.
LEMMA OtherEvent ==
  ASSUME ReplayInv, NEW e \in Event, Commit(e), ~Stores(e), ~Approves(e), ~Activates(e),
         IF Blocks(e) THEN blocked' = TRUE ELSE UNCHANGED blocked,
         UNCHANGED <<active, artifacts, candidate, approval>>
  PROVE  Logged'
<1>1. BlockLogged'
  <2>1. CASE ~Blocks(e)
    BY <2>1, BlockStays DEF ReplayInv, Logged
  <2>2. CASE Blocks(e)
    <3>1. Len(log') = Len(log) + 1 /\ Len(log) \in Nat /\ log'[Len(log) + 1] = e
      BY CommitAppends DEF ReplayInv, GateInv, PlanningTypeOK
    <3>2. Len(log) + 1 \in 1..Len(log')
      BY <3>1
    <3> QED
      BY <2>2, <3>1, <3>2 DEF BlockLogged
  <2> QED
    BY <2>1, <2>2
<1>2. StoresLogged'
  BY StoresStay DEF ReplayInv, Logged
<1>3. ApprovalsLogged'
  BY ApprovalsStay DEF ReplayInv, Logged
<1>4. ActivationLogged'
  BY ActivationStays DEF ReplayInv, Logged
<1> QED
  BY <1>1, <1>2, <1>3, <1>4 DEF Logged

-----------------------------------------------------------------------------
(* The commits that the replay is about.                                   *)

LEMMA StoreReplayed ==
  ASSUME ReplayInv, NEW a \in Artifact, NEW r \in Reviews \cup {None}, a.revision = Len(log),
         StoreArtifact(a, r), step # "PLAN_APPROVED", a.kind = "PLAN" => candidate = None
  PROVE  Logged'
<1> DEFINE e == [type |-> "PLANNING_ARTIFACT_STORED", artifact |-> a, review |-> r]
<1>1. /\ Commit(e) /\ artifacts' = artifacts \cup {a}
      /\ candidate' = IF a.kind = "PLAN" THEN a ELSE candidate
      /\ UNCHANGED <<stage, blocked, active, approval>>
  BY DEF StoreArtifact
<1>2. e \in Event
  BY DEF Event
<1>3. ~Blocks(e) /\ ~Approves(e) /\ ~Activates(e) /\ Stores(e) /\ e.artifact = a
  BY DEF Blocks, Approves, Activates, Stores
<1>4. /\ Len(log') = Len(log) + 1 /\ Len(log) \in Nat /\ log'[Len(log) + 1] = e
      /\ \A i \in 1..Len(log) : log'[i] = log[i]
  BY <1>1, <1>2, CommitAppends DEF ReplayInv, GateInv, PlanningTypeOK
<1> HIDE DEF e
<1>5. active = None /\ (UNCHANGED candidate \/ \A x \in Approvals : approval[x] = None)
  BY <1>1 DEF ReplayInv, GateInv, Anchored
<1>6. BlockLogged'
  BY <1>1, <1>2, <1>3, BlockStays DEF ReplayInv, Logged
<1>7. StoresLogged'
  <2>1. \A i \in 1..Len(log') : i \in 1..Len(log) \/ i = Len(log) + 1
    BY <1>4
  <2>2. \A i \in 1..Len(log') : Stores(log'[i]) =>
          log'[i].artifact \in artifacts' /\ i = log'[i].artifact.revision + 1
    BY <1>1, <1>3, <1>4, <2>1 DEF ReplayInv, Logged, StoresLogged
  <2>3. \A b \in artifacts : b.revision + 1 \in 1..Len(log)
    BY <1>4 DEF ReplayInv, GateInv, Anchored, PlanningTypeOK, Artifact
  <2>4. \A b \in artifacts : Stores(log'[b.revision + 1]) /\ log'[b.revision + 1].artifact = b
    BY <1>4, <2>3 DEF ReplayInv, Logged, StoresLogged
  <2> QED
    BY <1>1, <1>3, <1>4, <2>2, <2>4 DEF StoresLogged
<1>8. ApprovalsLogged'
  BY <1>1, <1>2, <1>3, <1>5, ApprovalsStay DEF ReplayInv, Logged
<1>9. ActivationLogged'
  BY <1>1, <1>2, <1>3, <1>5, ActivationStays DEF ReplayInv, Logged
<1> QED
  BY <1>6, <1>7, <1>8, <1>9 DEF Logged

LEMMA ApprovalReplayed ==
  ASSUME ReplayInv, NEW p \in Procs, NEW x \in Approvals, RecordApproval(p, x)
  PROVE  Logged'
<1> DEFINE e   == [type |-> "PLAN_APPROVAL_RECEIPT_RECORDED", approval |-> x, plan |-> candidate]
           row == [plan |-> candidate, revision |-> Len(log), consumed |-> FALSE]
<1>1. /\ Commit(e) /\ candidate # None /\ \A y \in Approvals : approval[y] = None
      /\ approval' = [approval EXCEPT ![x] = row]
      /\ UNCHANGED <<stage, blocked, active, step, artifacts, candidate, review>>
  BY DEF RecordApproval, CanRecordApproval, revision
<1>2. e \in Event /\ row # None
  <2>1. candidate \in Artifact /\ Len(log) \in Nat
    BY <1>1 DEF ReplayInv, GateInv, PlanningTypeOK
  <2>2. row \in Approval
    BY <2>1 DEF Approval
  <2> QED
    BY <2>1, <2>2, NoneAssumption DEF Event
<1>3. ~Blocks(e) /\ Approves(e) /\ ~Activates(e) /\ ~Stores(e) /\ e.approval = x /\ e.plan = candidate
  BY DEF Blocks, Approves, Activates, Stores
<1>4. /\ Len(log') = Len(log) + 1 /\ Len(log) \in Nat /\ log'[Len(log) + 1] = e
      /\ \A i \in 1..Len(log) : log'[i] = log[i]
  BY <1>1, <1>2, CommitAppends DEF ReplayInv, GateInv, PlanningTypeOK
<1>5. /\ approval'[x] # None /\ approval'[x].revision = Len(log) /\ ~approval'[x].consumed
      /\ \A y \in Approvals : approval'[y] # None => y = x
  BY <1>1, <1>2 DEF ReplayInv, GateInv, PlanningTypeOK
<1>6. candidate.revision < Len(log)
  BY <1>1 DEF ReplayInv, GateInv, PlanningChain, Anchored
<1> HIDE DEF e, row
<1>7. \A i \in 1..Len(log') : i \in 1..Len(log) \/ i = Len(log) + 1
  BY <1>4
<1>8. BlockLogged'
  BY <1>1, <1>2, <1>3, BlockStays DEF ReplayInv, Logged
<1>9. StoresLogged'
  BY <1>1, <1>2, <1>3, StoresStay DEF ReplayInv, Logged
<1>10. ApprovalsLogged'
  <2>1. \A i \in 1..Len(log') : Approves(log'[i]) => i = Len(log) + 1
    BY <1>1, <1>4, <1>7 DEF ReplayInv, Logged, ApprovalsLogged
  <2> QED
    BY <1>1, <1>3, <1>4, <1>5, <1>6, <2>1 DEF ApprovalsLogged
<1>11. ActivationLogged'
  <2>1. \A i \in 1..Len(log') : ~Activates(log'[i])
    BY <1>1, <1>3, <1>4, <1>7 DEF ReplayInv, Logged, ActivationLogged
  <2> QED
    BY <1>1, <1>5, <2>1 DEF ReplayInv, Logged, ActivationLogged
<1> QED
  BY <1>8, <1>9, <1>10, <1>11 DEF Logged

LEMMA ActivationReplayed ==
  ASSUME ReplayInv, NEW p \in Procs, NEW x \in Approvals, ConsumeApproval(p, x)
  PROVE  Logged'
<1> DEFINE e == [type |-> "PLAN_APPROVAL_RECEIPT_CONSUMED", approval |-> x,
                 packet |-> candidate.packet]
<1>1. /\ Commit(e) /\ approval[x] # None /\ approval[x].revision + 1 = Len(log)
      /\ approval[x].plan = candidate /\ ~approval[x].consumed /\ active = None
      /\ approval' = [approval EXCEPT ![x].consumed = TRUE]
      /\ active' = candidate.packet
      /\ UNCHANGED <<blocked, artifacts, candidate, review>>
  BY DEF ConsumeApproval, CanConsume, revision
<1>2. candidate.packet \in Packets /\ approval[x] \in Approval
  <2>1. candidate # None /\ candidate \in Artifact /\ candidate.kind = "PLAN"
    BY <1>1 DEF ReplayInv, GateInv, PlanningTypeOK, Anchored, PlanningChain
  <2> QED
    BY <1>1, <2>1 DEF Artifact, ReplayInv, GateInv, PlanningTypeOK
<1>3. e \in Event
  BY <1>2 DEF Event
<1>4. ~Blocks(e) /\ ~Approves(e) /\ Activates(e) /\ ~Stores(e) /\ e.approval = x /\ e.packet = candidate.packet
  BY DEF Blocks, Approves, Activates, Stores
<1>5. /\ Len(log') = Len(log) + 1 /\ Len(log) \in Nat /\ log'[Len(log) + 1] = e
      /\ \A i \in 1..Len(log) : log'[i] = log[i]
  BY <1>1, <1>3, CommitAppends DEF ReplayInv, GateInv, PlanningTypeOK
<1>6. \A y \in Approvals : approval[y] # None => y = x
  BY <1>1 DEF ReplayInv, GateInv, ApprovedOnce
<1>7. /\ approval'[x] = [approval[x] EXCEPT !.consumed = TRUE]
      /\ \A y \in Approvals : y # x => approval'[y] = approval[y]
  BY <1>1 DEF ReplayInv, GateInv, PlanningTypeOK
<1>8. /\ approval'[x] # None /\ approval'[x].consumed
      /\ approval'[x].revision = approval[x].revision /\ approval[x].revision \in Nat
  BY <1>2, <1>7, NoneAssumption DEF Approval
<1> HIDE DEF e
<1>9. \A i \in 1..Len(log') : i \in 1..Len(log) \/ i = Len(log) + 1
  BY <1>5
<1>10. BlockLogged'
  BY <1>1, <1>3, <1>4, BlockStays DEF ReplayInv, Logged
<1>11. StoresLogged'
  BY <1>1, <1>3, <1>4, StoresStay DEF ReplayInv, Logged
<1>12. ApprovalsLogged'
  <2>1. \A y \in Approvals : /\ approval'[y] # None <=> approval[y] # None
                             /\ approval[y] # None => approval'[y].revision = approval[y].revision
    BY <1>1, <1>6, <1>7, <1>8
  <2> QED
    BY <1>1, <1>3, <1>4, <2>1, ApprovalsStay DEF ReplayInv, Logged
<1>13. ActivationLogged'
  <2>1. \A i \in 1..Len(log') : Activates(log'[i]) => i = Len(log) + 1
    BY <1>1, <1>5, <1>6, <1>9 DEF ReplayInv, Logged, ActivationLogged
  <2>2. \A y \in Approvals : approval'[y] # None => y = x
    BY <1>6, <1>7
  <2>3. approval'[x].revision + 2 = Len(log) + 1
    BY <1>1, <1>5, <1>8
  <2> QED
    BY <1>1, <1>4, <1>5, <1>8, <2>1, <2>2, <2>3 DEF ActivationLogged
<1> QED
  BY <1>10, <1>11, <1>12, <1>13 DEF Logged

-----------------------------------------------------------------------------
(* The invariant.                                                          *)

LEMMA InitLogged == Init => Logged
  BY DEF Init, Logged, BlockLogged, StoresLogged, ApprovalsLogged, ActivationLogged

LEMMA RowsUnchanged ==
  ASSUME Logged, UNCHANGED <<log, blocked, active, artifacts, candidate, approval>>
  PROVE  Logged'
  BY DEF Logged, BlockLogged, StoresLogged, ApprovalsLogged, ActivationLogged,
         Blocks, Stores, Approves, Activates

LEMMA NextLogged == ReplayInv /\ [Next]_vars => Logged'
<1> SUFFICES ASSUME ReplayInv, [Next]_vars PROVE Logged'
  OBVIOUS
<1>0. GateInv /\ Logged
  BY DEF ReplayInv
<1>1. CASE UNCHANGED vars
  BY <1>0, <1>1, RowsUnchanged DEF vars
<1>2. ASSUME NEW p \in Procs, SubmitBaseline(p) PROVE Logged'
  <2>1. PICK auth \in Authorities :
          StoreArtifact([kind |-> "BASELINE", authority |-> auth, packet |-> None,
                         revision |-> Len(log)], None)
    BY <1>2 DEF SubmitBaseline, revision
  <2> DEFINE a == [kind |-> "BASELINE", authority |-> auth, packet |-> None, revision |-> Len(log)]
  <2>2. a \in Artifact /\ a.revision = Len(log) /\ a.kind # "PLAN"
    BY DEF Artifact, ReplayInv, GateInv, PlanningTypeOK
  <2>3. step # "PLAN_APPROVED"
    BY <1>2 DEF SubmitBaseline, InSequence, PriorStep
  <2> HIDE DEF a
  <2> QED
    BY <2>1, <2>2, <2>3, StoreReplayed DEF a
<1>3. ASSUME NEW p \in Procs, NEW k \in {"SPEC", "PLAN"}, SubmitSuccessor(p, k) PROVE Logged'
  <2>1. PICK d \in Predecessors(k) :
          \E r \in Acceptances(d), pkt \in IF k = "PLAN" THEN Packets ELSE {None} :
            StoreArtifact([kind |-> k, authority |-> d.authority, packet |-> pkt,
                           revision |-> Len(log)], r)
    BY <1>3 DEF SubmitSuccessor, revision
  <2>2. PICK r \in Acceptances(d), pkt \in IF k = "PLAN" THEN Packets ELSE {None} :
          StoreArtifact([kind |-> k, authority |-> d.authority, packet |-> pkt,
                         revision |-> Len(log)], r)
    BY <2>1
  <2> DEFINE a == [kind |-> k, authority |-> d.authority, packet |-> pkt, revision |-> Len(log)]
  <2>3. d \in Artifact /\ r \in Reviews
    BY DEF Predecessors, Acceptances, ReplayInv, GateInv, PlanningTypeOK
  <2>4. a \in Artifact /\ a.revision = Len(log) /\ a.kind = k
    BY <2>3 DEF Artifact, ReplayInv, GateInv, PlanningTypeOK
  <2>5. step # "PLAN_APPROVED" /\ (k = "PLAN" => candidate = None)
    BY <1>3 DEF SubmitSuccessor, InSequence, PriorStep
  <2>6. StoreArtifact(a, r)
    BY <2>2
  <2> HIDE DEF a
  <2> QED
    BY <2>3, <2>4, <2>5, <2>6, StoreReplayed
<1>4. ASSUME NEW p \in Procs, NEW k \in {"SPEC", "PLAN"}, SubmitStale(p, k) PROVE Logged'
  BY <1>0, <1>4, RowsUnchanged DEF SubmitStale
<1>5. ASSUME NEW p \in Procs, SubmitRefused(p) PROVE Logged'
  BY <1>0, <1>5, RowsUnchanged DEF SubmitRefused
<1>6. ASSUME NEW p \in Procs, RecordRejection(p) PROVE Logged'
  <2> DEFINE e == [type |-> "PLANNING_SUBMISSION_REJECTED"]
  <2>1. e \in Event /\ ~Blocks(e) /\ ~Stores(e) /\ ~Approves(e) /\ ~Activates(e)
    BY DEF Event, Blocks, Stores, Approves, Activates
  <2>2. UNCHANGED <<blocked, active, artifacts, candidate, approval>>
    BY <1>6 DEF RecordRejection
  <2>3. CASE blocked
    BY <1>0, <1>6, <2>2, <2>3, RowsUnchanged DEF RecordRejection
  <2>4. CASE ~blocked
    <3>1. Commit(e)
      BY <1>6, <2>4 DEF RecordRejection
    <3> HIDE DEF e
    <3> QED
      BY <2>1, <2>2, <3>1, OtherEvent
  <2> QED
    BY <2>3, <2>4
<1>7. ASSUME NEW p \in Procs, NEW x \in Approvals, RecordApproval(p, x) PROVE Logged'
  BY <1>7, ApprovalReplayed
<1>8. ASSUME NEW p \in Procs, NEW x \in Approvals, FindApproval(p, x) PROVE Logged'
  BY <1>0, <1>8, RowsUnchanged DEF FindApproval
<1>9. ASSUME NEW p \in Procs, Consume(p) PROVE Logged'
  <2>1. job[p].approval \in Approvals
    BY <1>9 DEF Consume, ReplayInv, GateInv, PlanningTypeOK, Job, Idle
  <2>2. CASE ConsumeApproval(p, job[p].approval)
    BY <2>1, <2>2, ActivationReplayed
  <2>3. CASE ConsumeRefused(p, job[p].approval)
    BY <1>0, <2>3, RowsUnchanged DEF ConsumeRefused
  <2> QED
    BY <1>9, <2>2, <2>3 DEF Consume
<1>10. ASSUME NEW p \in Procs, Die(p) PROVE Logged'
  BY <1>0, <1>10, RowsUnchanged DEF Die
<1>11. ASSUME NEW r \in Reviews, NEW a \in artifacts, NEW d \in {"ACCEPT", "REQUEST_CHANGES"},
              RecordReview(r, a, d)
       PROVE  Logged'
  <2> DEFINE e == [type |-> "PLANNING_REVIEW_RECEIPT_RECORDED", review |-> r]
  <2>1. e \in Event /\ ~Blocks(e) /\ ~Stores(e) /\ ~Approves(e) /\ ~Activates(e)
    BY DEF Event, Blocks, Stores, Approves, Activates
  <2>2. Commit(e) /\ UNCHANGED <<blocked, active, artifacts, candidate, approval>>
    BY <1>11 DEF RecordReview
  <2> HIDE DEF e
  <2> QED
    BY <2>1, <2>2, OtherEvent
<1>12. CASE Block
  <2> DEFINE e == [type |-> "RUN_BLOCKED"]
  <2>1. e \in Event /\ Blocks(e) /\ ~Stores(e) /\ ~Approves(e) /\ ~Activates(e)
    BY DEF Event, Blocks, Stores, Approves, Activates
  <2>2. Commit(e) /\ blocked' = TRUE /\ UNCHANGED <<active, artifacts, candidate, approval>>
    BY <1>12 DEF Block
  <2> HIDE DEF e
  <2> QED
    BY <2>1, <2>2, OtherEvent
<1>13. CASE OtherCommit
  <2> DEFINE e == [type |-> "OTHER"]
  <2>1. e \in Event /\ ~Blocks(e) /\ ~Stores(e) /\ ~Approves(e) /\ ~Activates(e)
    BY DEF Event, Blocks, Stores, Approves, Activates
  <2>2. Commit(e) /\ UNCHANGED <<blocked, active, artifacts, candidate, approval>>
    BY <1>13 DEF OtherCommit
  <2> HIDE DEF e
  <2> QED
    BY <2>1, <2>2, OtherEvent
<1> QED
  BY <1>1, <1>2, <1>3, <1>4, <1>5, <1>6, <1>7, <1>8, <1>9, <1>10, <1>11, <1>12, <1>13 DEF Next
-----------------------------------------------------------------------------
(* What the invariant says of the log as a whole.                          *)

LEMMA AnchorsReplay == ReplayInv => VerifyRunAnchors
<1> SUFFICES ASSUME ReplayInv PROVE VerifyRunAnchors
  OBVIOUS
<1>1. DOMAIN log = 1..Len(log)
  BY DEF ReplayInv, GateInv, PlanningTypeOK
<1>2. blocked <=> Positions("RUN_BLOCKED") # {}
  BY <1>1 DEF ReplayInv, Logged, BlockLogged, Blocks, Positions
<1>3. ASSUME active = None
      PROVE  Positions("PLAN_APPROVAL_RECEIPT_CONSUMED") = {}
  <2>1. \A x \in Approvals : approval[x] # None => ~approval[x].consumed
    BY <1>3 DEF ReplayInv, GateInv, Anchored
  <2> QED
    BY <1>1, <2>1 DEF ReplayInv, Logged, ActivationLogged, Activates, Positions
<1>4. ASSUME active # None
      PROVE  \E i \in DOMAIN log :
               /\ Positions("PLAN_APPROVAL_RECEIPT_CONSUMED") = {i}
               /\ log[i].packet = active
  <2>1. PICK x \in Approvals : approval[x] # None /\ approval[x].consumed
    BY <1>4 DEF ReplayInv, GateInv, ApprovedOnce
  <2>2. \A y \in Approvals : approval[y] # None => y = x
    BY <2>1 DEF ReplayInv, GateInv, ApprovedOnce
  <2> DEFINE i == approval[x].revision + 2
  <2>3. i \in 1..Len(log)
    BY <2>1, ApprovalPositions DEF ReplayInv
  <2>4. Activates(log[i])
    BY <2>1 DEF ReplayInv, Logged, ActivationLogged
  <2>5. \A j \in 1..Len(log) : Activates(log[j]) => j = i /\ log[j].packet = active
    BY <2>2 DEF ReplayInv, Logged, ActivationLogged
  <2> HIDE DEF i
  <2> QED
    BY <1>1, <2>3, <2>4, <2>5 DEF Activates, Positions
<1> QED
  BY <1>2, <1>3, <1>4 DEF VerifyRunAnchors

LEMMA ArtifactsReplay == ReplayInv => VerifyArtifacts
<1> SUFFICES ASSUME ReplayInv PROVE VerifyArtifacts
  OBVIOUS
<1>1. DOMAIN log = 1..Len(log)
  BY DEF ReplayInv, GateInv, PlanningTypeOK
<1>2. \A i \in Positions("PLANNING_ARTIFACT_STORED") :
        log[i].artifact \in artifacts /\ i = log[i].artifact.revision + 1
  BY <1>1 DEF ReplayInv, Logged, StoresLogged, Stores, Positions
<1>3. \A a \in artifacts : a.revision + 1 \in DOMAIN log
  BY <1>1 DEF ReplayInv, GateInv, Anchored, PlanningTypeOK, Artifact
<1>4. \A a \in artifacts : \E i \in Positions("PLANNING_ARTIFACT_STORED") : log[i].artifact = a
  BY <1>3 DEF ReplayInv, Logged, StoresLogged, Stores, Positions
<1>5. candidate # None => candidate \in artifacts /\ candidate.kind = "PLAN"
  BY DEF ReplayInv, GateInv, PlanningChain
<1> QED
  BY <1>2, <1>4, <1>5 DEF VerifyArtifacts

LEMMA ReceiptsReplay == ReplayInv => VerifyReceipts
<1> SUFFICES ASSUME ReplayInv PROVE VerifyReceipts
  OBVIOUS
<1> DEFINE recorded == Positions("PLAN_APPROVAL_RECEIPT_RECORDED")
           consumed == Positions("PLAN_APPROVAL_RECEIPT_CONSUMED")
           issued   == {x \in Approvals : approval[x] # None}
<1>1. DOMAIN log = 1..Len(log)
  BY DEF ReplayInv, GateInv, PlanningTypeOK
<1>2. \A x \in issued : approval[x].plan \in artifacts /\ approval[x].plan = candidate
  BY DEF ReplayInv, GateInv, Anchored, PlanningChain
<1>3. \A i \in recorded :
        /\ log[i].approval \in issued /\ log[i].plan = candidate
        /\ i = approval[log[i].approval].revision + 1
  BY <1>1 DEF ReplayInv, Logged, ApprovalsLogged, Approves, Positions
<1>4. ASSUME NEW x \in issued
      PROVE  \E i \in recorded : log[i].approval = x
  <2>1. approval[x].revision + 1 \in recorded
    BY <1>1, ApprovalPositions DEF ReplayInv, Logged, ApprovalsLogged, Approves, Positions
  <2> QED
    BY <2>1 DEF ReplayInv, Logged, ApprovalsLogged
<1>5. \A i \in consumed :
        /\ log[i].approval \in issued /\ approval[log[i].approval].consumed
        /\ i = approval[log[i].approval].revision + 2
        /\ log[i].packet = active
  BY <1>1 DEF ReplayInv, Logged, ActivationLogged, Activates, Positions
<1>6. ASSUME NEW x \in issued, approval[x].consumed
      PROVE  /\ active # None /\ active = candidate.packet
             /\ \E i \in consumed : log[i].approval = x
  <2>1. approval[x].revision + 2 \in consumed
    BY <1>1, <1>6, ApprovalPositions DEF ReplayInv, Logged, ActivationLogged, Activates, Positions
  <2>2. log[approval[x].revision + 2].approval = x
    BY <1>6 DEF ReplayInv, Logged, ActivationLogged
  <2> QED
    BY <1>6, <2>1, <2>2 DEF ReplayInv, GateInv, Anchored, Logged, ActivationLogged
<1>7. \A x, y \in issued : x = y
  BY DEF ReplayInv, GateInv, ApprovedOnce
<1>8. ASSUME \A x \in issued : ~approval[x].consumed
      PROVE  stage = "PLANNING" /\ active = None
  BY <1>8 DEF ReplayInv, GateInv, ApprovedOnce, PlanningTypeOK
<1> HIDE DEF recorded, consumed, issued
<1>9. /\ \A i \in recorded :
            /\ log[i].approval \in issued /\ log[i].plan = approval[log[i].approval].plan
            /\ i = approval[log[i].approval].revision + 1
      /\ \A i, j \in recorded : log[i].approval = log[j].approval => i = j
  BY <1>2, <1>3
<1>10. issued = {log[i].approval : i \in recorded}
  BY <1>3, <1>4
<1>11. \A i \in consumed : log[i].approval \in issued /\ log[i].packet = candidate.packet
  BY <1>5, <1>6
<1>12. {x \in issued : approval[x].consumed} = {log[i].approval : i \in consumed}
  BY <1>5, <1>6
<1>13. \A i, j \in consumed : log[i].approval = log[j].approval => i = j
  BY <1>5
<1> QED
  BY <1>2, <1>6, <1>7, <1>8, <1>9, <1>10, <1>11, <1>12, <1>13
     DEF VerifyReceipts, recorded, consumed, issued

\* The last document is that of the kind the step has reached.
LEMMA StepReplay == ReplayInv => VerifyStep
<1> SUFFICES ASSUME ReplayInv PROVE VerifyStep
  OBVIOUS
<1> DEFINE stored   == Positions("PLANNING_ARTIFACT_STORED")
           consumed == Positions("PLAN_APPROVAL_RECEIPT_CONSUMED")
<1>1. DOMAIN log = 1..Len(log) /\ Len(log) \in Nat
  BY DEF ReplayInv, GateInv, PlanningTypeOK
<1>2. \A i \in stored : log[i].artifact \in artifacts /\ i = log[i].artifact.revision + 1
  BY <1>1 DEF ReplayInv, Logged, StoresLogged, Stores, Positions
<1>3. \A a \in artifacts : a.revision \in Nat /\ a.revision + 1 \in DOMAIN log
  BY <1>1 DEF ReplayInv, GateInv, Anchored, PlanningTypeOK, Artifact
<1>4. \A a \in artifacts : a.revision + 1 \in stored /\ log[a.revision + 1].artifact = a
  BY <1>3 DEF ReplayInv, Logged, StoresLogged, Stores, Positions
<1>5. \A i \in consumed : i \in Nat /\ active # None /\ \E x \in Approvals :
        approval[x] # None /\ approval[x].consumed /\ i = approval[x].revision + 2
  BY <1>1 DEF ReplayInv, Logged, ActivationLogged, Activates, Positions, GateInv, Anchored
<1>6. ASSUME active # None
      PROVE  \E i \in consumed : i > candidate.revision + 1
  <2>1. PICK x \in Approvals : approval[x] # None /\ approval[x].consumed
    BY <1>6 DEF ReplayInv, GateInv, ApprovedOnce
  <2>2. approval[x].revision + 2 \in consumed /\ approval[x].revision \in Nat
    BY <1>1, <2>1, ApprovalPositions DEF ReplayInv, Logged, ActivationLogged, Activates, Positions
  <2>3. candidate.revision < approval[x].revision
    BY <2>1 DEF ReplayInv, Logged, ApprovalsLogged
  <2>4. candidate.revision \in Nat
    BY <1>3, <2>1 DEF ReplayInv, GateInv, Anchored, PlanningChain
  <2> QED
    BY <2>2, <2>3, <2>4
<1> HIDE DEF stored, consumed
<1>7. CASE stored = {}
  <2>1. artifacts = {}
    BY <1>4, <1>7
  <2>2. step = "NONE"
    BY <2>1 DEF ReplayInv, GateInv, PlanningChain, Reached, Kinds
  <2> QED
    BY <1>7, <2>2 DEF VerifyStep, stored
<1>8. CASE stored # {}
  <2>0. \A a \in artifacts : a.kind \in Kinds
    BY DEF ReplayInv, GateInv, PlanningTypeOK, Artifact, Kinds
  <2>1. PICK a \in artifacts :
          /\ \A b \in artifacts : b.revision <= a.revision
          /\ step = IF active # None THEN "PLAN_APPROVED" ELSE ReviewStep(a.kind)
          /\ active # None => a = candidate
    <3> DEFINE Has(k) == \E b \in artifacts : b.kind = k
    <3>1. /\ Has("PLAN") => Has("SPEC")
          /\ Has("SPEC") => Has("BASELINE")
          /\ Has("BASELINE")
      <4>1. \E b \in artifacts : TRUE
        BY <1>2, <1>8
      <4>2. \A k \in Kinds : Reached(k) <=> Has(k)
        BY DEF ReplayInv, GateInv, PlanningChain
      <4>3. Reached("PLAN") => Reached("SPEC")
        BY DEF Reached
      <4>4. Reached("SPEC") => Reached("BASELINE")
        BY DEF Reached
      <4> HIDE DEF Has
      <4>5. (Has("PLAN") => Has("SPEC")) /\ (Has("SPEC") => Has("BASELINE"))
        BY <4>2, <4>3, <4>4 DEF Kinds
      <4> QED
        BY <2>0, <4>1, <4>5 DEF Has, Kinds
    <3>2. /\ Has("PLAN") <=> step \in {"PLAN_REVIEW_REQUIRED", "PLAN_APPROVED"}
          /\ Has("SPEC") <=> step \notin {"NONE", "BASELINE_REVIEW_REQUIRED"}
          /\ step # "NONE" /\ step \in Steps
          /\ step = "PLAN_APPROVED" <=> active # None
      BY <3>1 DEF ReplayInv, GateInv, PlanningChain, Reached, Kinds, PlanningTypeOK, Anchored
    <3>3. \A b, c \in artifacts :
            /\ b.kind = c.kind => b = c
            /\ Precedes(b, c) => b.revision < c.revision
            /\ b.kind = "PLAN" <=> b = candidate
      BY <1>3 DEF ReplayInv, GateInv, PlanningChain
    <3>4. CASE Has("PLAN")
      <4>1. PICK b \in artifacts, c \in artifacts : b.kind = "PLAN" /\ c.kind = "SPEC"
        BY <3>1, <3>4
      <4>2. \A d \in artifacts : d.revision <= b.revision
        BY <1>3, <2>0, <3>3, <4>1 DEF Precedes, Kinds
      <4> QED
        BY <3>2, <3>3, <3>4, <4>1, <4>2 DEF ReviewStep
    <3>5. CASE Has("SPEC") /\ ~Has("PLAN")
      <4>1. PICK b \in artifacts : b.kind = "SPEC"
        BY <3>5
      <4>2. \A d \in artifacts : d.revision <= b.revision
        BY <1>3, <2>0, <3>3, <3>5, <4>1 DEF Precedes, Kinds
      <4> QED
        BY <3>2, <3>5, <4>1, <4>2 DEF ReviewStep, Steps
    <3>6. CASE ~Has("SPEC")
      <4>1. PICK b \in artifacts : b.kind = "BASELINE"
        BY <3>1
      <4>2. \A d \in artifacts : d.revision <= b.revision
        BY <1>3, <2>0, <3>1, <3>3, <3>6, <4>1 DEF Kinds
      <4> QED
        BY <3>1, <3>2, <3>6, <4>1, <4>2 DEF ReviewStep, Steps
    <3> QED
      BY <3>4, <3>5, <3>6
  <2> DEFINE last == a.revision + 1
  <2>2. last \in stored /\ log[last].artifact = a /\ \A i \in stored : i <= last
    BY <1>2, <1>3, <1>4, <2>1
  <2>3. (\E i \in consumed : i > last) <=> active # None
    BY <1>5, <1>6, <2>1
  <2> HIDE DEF last
  <2>4. step = IF \E i \in consumed : i > last THEN "PLAN_APPROVED" ELSE ReviewStep(log[last].artifact.kind)
    BY <2>1, <2>2, <2>3
  <2> QED
    BY <1>8, <2>2, <2>4 DEF VerifyStep, stored, consumed
<1> QED
  BY <1>7, <1>8

\* Whatever the processes submit, review, approve and leave half done, the
\* replay of the planning events accepts the history it finds.
THEOREM PlanningReplayed == Spec => []ReplayAccepts
<1>1. ReplayInv => ReplayAccepts
  BY AnchorsReplay, ArtifactsReplay, ReceiptsReplay, StepReplay DEF ReplayAccepts, VerifyPlanning
<1>2. Init => ReplayInv
  BY InitGateInv, InitLogged DEF ReplayInv
<1>3. ReplayInv /\ [Next]_vars => ReplayInv'
  BY NextGateInv, NextLogged DEF ReplayInv
<1> QED
  BY <1>1, <1>2, <1>3, PTL DEF Spec
=============================================================================

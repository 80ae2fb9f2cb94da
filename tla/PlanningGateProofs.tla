------------------------- MODULE PlanningGateProofs -------------------------
(***************************************************************************)
(* Theorems about PlanningGate and their proofs.                           *)
(***************************************************************************)
EXTENDS PlanningGate, TLAPS

\* Rows point backwards in the log: an artifact lies behind the revision, a
\* review behind its artifact and at the event that recorded it, an approval
\* behind the one candidate.
Anchored ==
  /\ \A a \in artifacts : a.revision < Len(log)
  /\ \A r \in Reviews : review[r] # None =>
       /\ review[r].artifact \in artifacts /\ review[r].artifact.kind # "PLAN"
       /\ review[r].artifact.revision < review[r].issued
       /\ review[r].issued < Len(log)
       /\ log[review[r].issued + 1] = [type |-> "PLANNING_REVIEW_RECEIPT_RECORDED", review |-> r]
  /\ \A x \in Approvals : approval[x] # None =>
       /\ candidate # None /\ approval[x].plan = candidate
       /\ approval[x].revision < Len(log)
       /\ approval[x].consumed => active # None /\ approval[x].revision + 1 < Len(log)
  /\ step = "PLAN_APPROVED" <=> active # None

GateInv == PlanningTypeOK /\ PlanningChain /\ Anchored /\ ReviewedOnce /\ ApprovedOnce

-----------------------------------------------------------------------------
(* The event log.                                                          *)

\* An appended event leaves the log a sequence of events, one longer, with
\* every earlier event where it was.
LEMMA CommitAppends ==
  ASSUME log \in Seq(Event), NEW e \in Event, Commit(e)
  PROVE  /\ log' \in Seq(Event)
         /\ Len(log') = Len(log) + 1
         /\ Len(log) \in Nat
         /\ log'[Len(log) + 1] = e
         /\ \A i \in 1..Len(log) : log'[i] = log[i]
  BY DEF Commit

-----------------------------------------------------------------------------
(* The steps that change no row, and the commits that only add an event.   *)

\* A process moves on and no row changes.
LEMMA JobOnly ==
  ASSUME GateInv, job' \in [Procs -> Job],
         UNCHANGED <<log, stage, blocked, active, step, artifacts, candidate, review, approval>>
  PROVE  GateInv'
<1>1. PlanningTypeOK'
  BY DEF GateInv, PlanningTypeOK
<1>2. PlanningChain'
  BY DEF GateInv, PlanningChain, Reached, Precedes
<1>3. Anchored'
  BY DEF GateInv, Anchored
<1>4. ReviewedOnce'
  BY DEF GateInv, ReviewedOnce, Precedes
<1>5. ApprovedOnce'
  BY DEF GateInv, ApprovedOnce
<1> QED
  BY <1>1, <1>2, <1>3, <1>4, <1>5 DEF GateInv

\* What a row says about an earlier event is still true after a commit.
LEMMA RowsStay ==
  ASSUME GateInv, NEW e \in Event, Commit(e)
  PROVE  /\ \A b \in artifacts : b.revision < Len(log')
         /\ \A b \in artifacts : b.kind # "BASELINE" => log'[b.revision] = log[b.revision]
         /\ \A r \in Reviews : review[r] # None =>
              /\ review[r].issued < Len(log')
              /\ log'[review[r].issued + 1] = log[review[r].issued + 1]
         /\ \A x \in Approvals : approval[x] # None =>
              /\ approval[x].revision < Len(log')
              /\ approval[x].consumed =>
                   /\ approval[x].revision + 1 < Len(log')
                   /\ log'[approval[x].revision + 2] = log[approval[x].revision + 2]
<1>0. /\ Len(log') = Len(log) + 1 /\ Len(log) \in Nat
      /\ \A i \in 1..Len(log) : log'[i] = log[i]
  BY CommitAppends DEF GateInv, PlanningTypeOK
<1>1. \A b \in artifacts : b.revision < Len(log')
  BY <1>0 DEF GateInv, PlanningTypeOK, Anchored, Artifact
<1>2. ASSUME NEW b \in artifacts, b.kind # "BASELINE"
      PROVE  log'[b.revision] = log[b.revision]
  <2>1. PICK r \in Reviews : review[r] # None /\ Precedes(review[r].artifact, b)
    BY <1>2 DEF GateInv, ReviewedOnce
  <2>2. review[r].artifact \in artifacts /\ review[r].artifact.revision + 1 < b.revision
    BY <2>1 DEF GateInv, Anchored, PlanningChain
  <2>3. b.revision \in Nat /\ review[r].artifact.revision \in Nat
    BY <2>2 DEF GateInv, PlanningTypeOK, Artifact
  <2>4. b.revision \in 1..Len(log)
    BY <1>0, <2>2, <2>3 DEF GateInv, Anchored
  <2> QED
    BY <1>0, <2>4
<1>3. ASSUME NEW r \in Reviews, review[r] # None
      PROVE  /\ review[r].issued < Len(log')
             /\ log'[review[r].issued + 1] = log[review[r].issued + 1]
  <2>1. review[r].issued \in Nat /\ review[r].issued < Len(log)
    BY <1>3 DEF GateInv, PlanningTypeOK, Anchored, Review
  <2>2. review[r].issued + 1 \in 1..Len(log)
    BY <1>0, <2>1
  <2> QED
    BY <1>0, <2>1, <2>2
<1>4. ASSUME NEW x \in Approvals, approval[x] # None
      PROVE  approval[x].revision \in Nat /\ approval[x].revision < Len(log')
  BY <1>0, <1>4 DEF GateInv, PlanningTypeOK, Anchored, Approval
<1>5. ASSUME NEW x \in Approvals, approval[x] # None, approval[x].consumed
      PROVE  /\ approval[x].revision + 1 < Len(log')
             /\ log'[approval[x].revision + 2] = log[approval[x].revision + 2]
  <2>1. approval[x].revision + 1 < Len(log)
    BY <1>5 DEF GateInv, Anchored
  <2>2. approval[x].revision + 2 \in 1..Len(log)
    BY <1>0, <1>4, <1>5, <2>1
  <2> QED
    BY <1>0, <1>4, <1>5, <2>1, <2>2
<1> QED
  BY <1>1, <1>2, <1>3, <1>4, <1>5

\* An event is added and no row of the gate changes.
LEMMA LogOnly ==
  ASSUME GateInv, NEW e \in Event, Commit(e), blocked' \in BOOLEAN, job' \in [Procs -> Job],
         UNCHANGED <<stage, active, step, artifacts, candidate, review, approval>>
  PROVE  GateInv'
<1>1. PlanningTypeOK'
  BY CommitAppends DEF GateInv, PlanningTypeOK
<1>2. PlanningChain'
  BY DEF GateInv, PlanningChain, Reached, Precedes
<1>3. Anchored'
  BY RowsStay DEF GateInv, Anchored
<1>4. ReviewedOnce'
  <2>1. \A b \in artifacts : b.kind # "BASELINE" => log'[b.revision] = log[b.revision]
    BY RowsStay
  <2> QED
    BY <2>1 DEF GateInv, ReviewedOnce, Precedes
<1>5. ApprovedOnce'
  BY RowsStay DEF GateInv, ApprovedOnce
<1> QED
  BY <1>1, <1>2, <1>3, <1>4, <1>5 DEF GateInv

-----------------------------------------------------------------------------
(* The transactions of the gate.                                           *)

\* The first document: there is no row yet.
LEMMA BaselineStep ==
  ASSUME GateInv, NEW p \in Procs, SubmitBaseline(p)
  PROVE  GateInv'
<1>1. PICK auth \in Authorities :
        StoreArtifact([kind |-> "BASELINE", authority |-> auth, packet |-> None,
                       revision |-> Len(log)], None)
  BY DEF SubmitBaseline, revision
<1> DEFINE a == [kind |-> "BASELINE", authority |-> auth, packet |-> None, revision |-> Len(log)]
           e == [type |-> "PLANNING_ARTIFACT_STORED", artifact |-> a, review |-> None]
<1>2. Len(log) \in Nat /\ a \in Artifact /\ e \in Event
  BY DEF GateInv, PlanningTypeOK, Artifact, Kinds, Event
<1>3. Commit(e)
  BY <1>1 DEF StoreArtifact
<1>4. /\ log' \in Seq(Event) /\ Len(log') = Len(log) + 1
      /\ \A i \in 1..Len(log) : log'[i] = log[i]
  BY <1>2, <1>3, CommitAppends DEF GateInv, PlanningTypeOK
<1>5. artifacts = {} /\ step = "NONE" /\ candidate = None /\ active = None
  <2>1. step = "NONE"
    BY DEF SubmitBaseline, InSequence, PriorStep
  <2>2. artifacts = {}
    BY <2>1 DEF GateInv, PlanningChain, Reached, PlanningTypeOK, Artifact, Kinds
  <2> QED
    BY <2>1, <2>2 DEF GateInv, PlanningChain, Anchored
<1>6. /\ artifacts' = {a} /\ candidate' = None /\ step' = "BASELINE_REVIEW_REQUIRED"
      /\ UNCHANGED <<stage, blocked, active, review, approval, job>>
  BY <1>1, <1>5 DEF StoreArtifact, SubmitBaseline, ReviewStep
<1>7. \A r \in Reviews : review[r] = None
  BY <1>5 DEF GateInv, Anchored
<1>8. \A x \in Approvals : approval[x] = None
  BY <1>5 DEF GateInv, Anchored
<1>9. PlanningTypeOK'
  BY <1>2, <1>4, <1>6 DEF GateInv, PlanningTypeOK, Steps
<1>10. PlanningChain'
  BY <1>2, <1>6, NoneAssumption DEF PlanningChain, Reached, Precedes, Kinds
<1>11. Anchored'
  BY <1>2, <1>4, <1>5, <1>6, <1>7, <1>8 DEF Anchored
<1>12. ReviewedOnce'
  BY <1>6, <1>7 DEF ReviewedOnce
<1>13. ApprovedOnce'
  BY <1>5, <1>6, <1>8 DEF GateInv, ApprovedOnce
<1> QED
  BY <1>9, <1>10, <1>11, <1>12, <1>13 DEF GateInv

\* A later document a, on its predecessor d and the current review r of d.
LEMMA SuccessorStep ==
  ASSUME GateInv, NEW p \in Procs, NEW k \in {"SPEC", "PLAN"}, SubmitSuccessor(p, k)
  PROVE  GateInv'
<1>0. PICK d \in Predecessors(k) :
        \E r \in Acceptances(d), pkt \in IF k = "PLAN" THEN Packets ELSE {None} :
          /\ Current(r)
          /\ review' = [review EXCEPT ![r].consumed = TRUE]
          /\ StoreArtifact([kind |-> k, authority |-> d.authority, packet |-> pkt,
                            revision |-> Len(log)], r)
  BY DEF SubmitSuccessor, revision
<1>1. PICK r \in Acceptances(d), pkt \in IF k = "PLAN" THEN Packets ELSE {None} :
        /\ Current(r)
        /\ review' = [review EXCEPT ![r].consumed = TRUE]
        /\ StoreArtifact([kind |-> k, authority |-> d.authority, packet |-> pkt,
                          revision |-> Len(log)], r)
  BY <1>0
<1> DEFINE a == [kind |-> k, authority |-> d.authority, packet |-> pkt, revision |-> Len(log)]
           e == [type |-> "PLANNING_ARTIFACT_STORED", artifact |-> a, review |-> r]
<1>2. /\ d \in artifacts /\ d \in Artifact /\ Precedes(d, a) /\ r \in Reviews
      /\ review[r] \in Review /\ review[r].artifact = d /\ review[r].decision = "ACCEPT"
      /\ review[r].issued + 1 = Len(log) /\ ~review[r].consumed
  BY <1>1 DEF Predecessors, Acceptances, Current, revision, Precedes, GateInv, PlanningTypeOK
<1>3. Len(log) \in Nat /\ a \in Artifact /\ e \in Event
  BY <1>1, <1>2 DEF GateInv, PlanningTypeOK, Artifact, Kinds, Event
<1>4. Commit(e)
  BY <1>1 DEF StoreArtifact
<1>5. /\ log' \in Seq(Event) /\ Len(log') = Len(log) + 1
      /\ \A i \in 1..Len(log) : log'[i] = log[i]
  BY <1>3, <1>4, CommitAppends DEF GateInv, PlanningTypeOK
<1>6. /\ artifacts' = artifacts \cup {a} /\ step' = ReviewStep(k)
      /\ candidate' = IF k = "PLAN" THEN a ELSE candidate
      /\ UNCHANGED <<stage, blocked, active, approval, job>>
  BY <1>1 DEF StoreArtifact, SubmitSuccessor
<1>7. /\ step = PriorStep(k) /\ active = None /\ candidate = None
      /\ \A b \in artifacts : b.kind # k /\ b.kind # "PLAN"
  <2>1. step = PriorStep(k)
    BY DEF SubmitSuccessor, InSequence
  <2>2. \A b \in artifacts : b.kind # k /\ b.kind # "PLAN"
    BY <2>1 DEF GateInv, PlanningChain, Reached, PriorStep, Kinds
  <2>3. candidate = None
    BY <2>2 DEF GateInv, PlanningChain
  <2>4. active = None
    BY <2>1 DEF GateInv, Anchored, PriorStep
  <2> QED
    BY <2>1, <2>2, <2>3, <2>4
<1>8. \A x \in Approvals : approval[x] = None
  BY <1>7 DEF GateInv, Anchored
<1>9. /\ review' \in [Reviews -> Review \cup {None}]
      /\ \A s \in Reviews : s # r => review'[s] = review[s]
      /\ review'[r] \in Review /\ review'[r].consumed /\ review'[r].artifact = d
      /\ review'[r].decision = "ACCEPT" /\ review'[r].issued = review[r].issued
  BY <1>1, <1>2 DEF GateInv, PlanningTypeOK, Review
<1>10. review'[r] # None
  BY <1>9, NoneAssumption
<1>11. d.revision + 1 < Len(log) /\ log[Len(log)] = [type |-> "PLANNING_REVIEW_RECEIPT_RECORDED", review |-> r]
  <2>1. review[r] # None
    BY <1>2, NoneAssumption
  <2> QED
    BY <1>2, <1>3, <2>1 DEF GateInv, Anchored, Artifact, Review
<1>12. PlanningTypeOK'
  BY <1>3, <1>5, <1>6, <1>9 DEF GateInv, PlanningTypeOK, Steps, ReviewStep
<1>13. PlanningChain'
  <2>1. ASSUME NEW m \in Kinds
        PROVE  (Reached(m) <=> \E b \in artifacts : b.kind = m)'
    <3>1. Reached(m) <=> \E b \in artifacts : b.kind = m
      BY DEF GateInv, PlanningChain
    <3>2. Reached(m)' <=> (Reached(m) \/ m = k)
      BY <1>6, <1>7 DEF Reached, ReviewStep, PriorStep, Kinds
    <3>3. (\E b \in artifacts' : b.kind = m) <=> (\E b \in artifacts : b.kind = m) \/ m = k
      <4>1. a.kind = k
        OBVIOUS
      <4> HIDE DEF a
      <4> QED
        BY <1>6, <4>1
    <3> QED
      BY <3>1, <3>2, <3>3
  <2>2. ASSUME NEW b \in artifacts', NEW c \in artifacts'
        PROVE  /\ b.kind = c.kind => b = c
               /\ b.authority = c.authority
               /\ Precedes(b, c) => b.revision + 1 < c.revision
    <3>1. \A m \in artifacts : m.authority = d.authority
      BY <1>2 DEF GateInv, PlanningChain
    <3>2. \A m \in artifacts : m.kind # k /\ ~Precedes(a, m) /\ (Precedes(m, a) => m = d)
      BY <1>2, <1>7 DEF GateInv, PlanningChain, Precedes
    <3>3. b \in artifacts /\ c \in artifacts => b.authority = c.authority
              /\ (b.kind = c.kind => b = c) /\ (Precedes(b, c) => b.revision + 1 < c.revision)
      BY DEF GateInv, PlanningChain
    <3>4. ~Precedes(a, a)
      BY DEF Precedes
    <3> QED
      BY <1>6, <1>11, <3>1, <3>2, <3>3, <3>4
  <2>3. \A b \in artifacts' : b.kind = "PLAN" <=> b = candidate'
    BY <1>3, <1>6, <1>7, NoneAssumption DEF GateInv, PlanningTypeOK
  <2>4. candidate' # None => candidate' \in artifacts' /\ candidate' \in artifacts'
    BY <1>6, <1>7
  <2> QED
    BY <2>1, <2>2, <2>3, <2>4 DEF PlanningChain, Precedes
<1>14. Anchored'
  <2>1. \A b \in artifacts' : b.revision < Len(log')
    BY <1>3, <1>5, <1>6 DEF GateInv, Anchored, PlanningTypeOK, Artifact
  <2>2. ASSUME NEW s \in Reviews, review'[s] # None
        PROVE  /\ review'[s].artifact \in artifacts' /\ review'[s].artifact.kind # "PLAN"
               /\ review'[s].artifact.revision < review'[s].issued
               /\ review'[s].issued < Len(log')
               /\ log'[review'[s].issued + 1] =
                    [type |-> "PLANNING_REVIEW_RECEIPT_RECORDED", review |-> s]
    <3>1. /\ review[s] # None /\ review'[s].artifact = review[s].artifact
          /\ review'[s].issued = review[s].issued
      BY <1>2, <1>9, <2>2, NoneAssumption
    <3>2. /\ review[s].issued < Len(log')
          /\ log'[review[s].issued + 1] = log[review[s].issued + 1]
      BY <1>3, <1>4, <3>1, RowsStay
    <3> QED
      BY <1>6, <3>1, <3>2 DEF GateInv, Anchored
  <2>3. step' # "PLAN_APPROVED" /\ active' = None
    BY <1>6, <1>7 DEF ReviewStep
  <2> QED
    BY <1>6, <1>8, <2>1, <2>2, <2>3 DEF Anchored
<1>15. ReviewedOnce'
  <2>1. ASSUME NEW b \in artifacts', b.kind # "BASELINE"
        PROVE  \E s \in Reviews :
                 /\ review'[s] # None /\ review'[s].consumed
                 /\ Precedes(review'[s].artifact, b)
                 /\ log'[b.revision] = [type |-> "PLANNING_REVIEW_RECEIPT_RECORDED", review |-> s]
    <3>1. CASE b = a
      <4>1. log'[Len(log)] = log[Len(log)]
        BY <1>3, <1>5, <1>11, <1>2 DEF Artifact
      <4> QED
        BY <1>2, <1>9, <1>10, <1>11, <3>1, <4>1
    <3>2. CASE b \in artifacts
      <4>1. PICK s \in Reviews :
              /\ review[s] # None /\ review[s].consumed
              /\ Precedes(review[s].artifact, b)
              /\ log[b.revision] = [type |-> "PLANNING_REVIEW_RECEIPT_RECORDED", review |-> s]
        BY <2>1, <3>2 DEF GateInv, ReviewedOnce
      <4>2. review'[s] = review[s]
        BY <1>2, <1>9, <4>1
      <4>3. log'[b.revision] = log[b.revision]
        BY <1>3, <1>4, <2>1, <3>2, RowsStay
      <4> QED
        BY <4>1, <4>2, <4>3
    <3> QED
      BY <1>6, <3>1, <3>2
  <2>2. ASSUME NEW s \in Reviews, review'[s] # None, review'[s].consumed
        PROVE  /\ review'[s].decision = "ACCEPT"
               /\ \E b \in artifacts' :
                    /\ Precedes(review'[s].artifact, b)
                    /\ b.revision = review'[s].issued + 1
    <3>1. CASE s = r
      BY <1>2, <1>6, <1>9, <3>1
    <3>2. CASE s # r
      BY <1>6, <1>9, <2>2, <3>2 DEF GateInv, ReviewedOnce
    <3> QED
      BY <3>1, <3>2
  <2>3. ASSUME NEW s \in Reviews, NEW t \in Reviews,
               review'[s] # None, review'[s].consumed, review'[t] # None, review'[t].consumed,
               review'[s].artifact = review'[t].artifact
        PROVE  s = t
    <3>1. PICK b \in artifacts', c \in artifacts' :
            /\ Precedes(review'[s].artifact, b) /\ b.revision = review'[s].issued + 1
            /\ Precedes(review'[t].artifact, c) /\ c.revision = review'[t].issued + 1
      BY <2>2, <2>3
    <3>2. b = c
      BY <1>13, <2>3, <3>1 DEF PlanningChain, Precedes
    <3>3. /\ log'[b.revision] = [type |-> "PLANNING_REVIEW_RECEIPT_RECORDED", review |-> s]
          /\ log'[c.revision] = [type |-> "PLANNING_REVIEW_RECEIPT_RECORDED", review |-> t]
      BY <1>14, <2>3, <3>1 DEF Anchored
    <3> QED
      BY <3>2, <3>3
  <2> QED
    BY <2>1, <2>2, <2>3 DEF ReviewedOnce, Precedes
<1>16. ApprovedOnce'
  BY <1>6, <1>7, <1>8 DEF GateInv, ApprovedOnce
<1> QED
  BY <1>12, <1>13, <1>14, <1>15, <1>16 DEF GateInv

\* A review is recorded: a row that was missing, at the end of the log.
LEMMA ReviewStepKeeps ==
  ASSUME GateInv, NEW r \in Reviews, NEW a \in artifacts,
         NEW decision \in {"ACCEPT", "REQUEST_CHANGES"}, RecordReview(r, a, decision)
  PROVE  GateInv'
<1> DEFINE e   == [type |-> "PLANNING_REVIEW_RECEIPT_RECORDED", review |-> r]
           row == [artifact |-> a, issued |-> Len(log), decision |-> decision, consumed |-> FALSE]
<1>1. /\ Commit(e) /\ review[r] = None /\ a.kind # "PLAN"
      /\ review' = [review EXCEPT ![r] = row]
      /\ UNCHANGED <<stage, blocked, active, step, artifacts, candidate, approval, job>>
  BY DEF RecordReview, revision
<1>2. Len(log) \in Nat /\ e \in Event /\ a \in Artifact /\ row \in Review
  BY DEF GateInv, PlanningTypeOK, Event, Review
<1>3. /\ log' \in Seq(Event) /\ Len(log') = Len(log) + 1 /\ log'[Len(log) + 1] = e
      /\ \A i \in 1..Len(log) : log'[i] = log[i]
  BY <1>1, <1>2, CommitAppends DEF GateInv, PlanningTypeOK
<1>4. /\ review' \in [Reviews -> Review \cup {None}]
      /\ \A s \in Reviews : s # r => review'[s] = review[s]
      /\ review'[r] = row
  BY <1>1, <1>2 DEF GateInv, PlanningTypeOK
<1> HIDE DEF e
<1>5. /\ \A b \in artifacts : b.revision < Len(log')
      /\ \A b \in artifacts : b.kind # "BASELINE" => log'[b.revision] = log[b.revision]
  BY <1>1, <1>2, RowsStay
<1>6. PlanningTypeOK'
  BY <1>1, <1>3, <1>4 DEF GateInv, PlanningTypeOK
<1>7. PlanningChain'
  BY <1>1 DEF GateInv, PlanningChain, Reached, Precedes
<1>8. Anchored'
  <2>2. ASSUME NEW s \in Reviews, review'[s] # None
        PROVE  /\ review'[s].artifact \in artifacts /\ review'[s].artifact.kind # "PLAN"
               /\ review'[s].artifact.revision < review'[s].issued
               /\ review'[s].issued < Len(log')
               /\ log'[review'[s].issued + 1] =
                    [type |-> "PLANNING_REVIEW_RECEIPT_RECORDED", review |-> s]
    <3>1. CASE s = r
      <4>1. a.revision < Len(log)
        BY DEF GateInv, Anchored
      <4> QED
        BY <1>1, <1>2, <1>3, <1>4, <3>1, <4>1 DEF e
    <3>2. CASE s # r
      <4>1. review'[s] = review[s] /\ review[s] # None
        BY <1>4, <2>2, <3>2
      <4>2. /\ review[s].issued < Len(log')
            /\ log'[review[s].issued + 1] = log[review[s].issued + 1]
        BY <1>1, <1>2, <4>1, RowsStay
      <4> QED
        BY <4>1, <4>2 DEF GateInv, Anchored
    <3> QED
      BY <3>1, <3>2
  <2>3. ASSUME NEW x \in Approvals, approval[x] # None
        PROVE  /\ approval[x].revision < Len(log')
               /\ approval[x].consumed => approval[x].revision + 1 < Len(log')
    BY <1>1, <1>2, <2>3, RowsStay
  <2> QED
    BY <1>1, <1>5, <2>2, <2>3 DEF GateInv, Anchored
<1>9. ReviewedOnce'
  <2>1. \A s \in Reviews : (review'[s] # None /\ review'[s].consumed) => review'[s] = review[s]
    BY <1>4
  <2>2. \A s \in Reviews : review[s] # None => review'[s] = review[s]
    BY <1>1, <1>4
  <2>3. \A b \in artifacts : b.kind # "BASELINE" =>
          \E s \in Reviews :
            /\ review'[s] # None /\ review'[s].consumed
            /\ Precedes(review'[s].artifact, b)
            /\ log'[b.revision] = [type |-> "PLANNING_REVIEW_RECEIPT_RECORDED", review |-> s]
    BY <1>5, <2>2 DEF GateInv, ReviewedOnce
  <2>4. \A s \in Reviews : (review'[s] # None /\ review'[s].consumed) =>
          /\ review'[s].decision = "ACCEPT"
          /\ \E b \in artifacts : /\ Precedes(review'[s].artifact, b)
                                  /\ b.revision = review'[s].issued + 1
    BY <2>1 DEF GateInv, ReviewedOnce
  <2>5. \A s, t \in Reviews :
          (/\ review'[s] # None /\ review'[s].consumed
           /\ review'[t] # None /\ review'[t].consumed
           /\ review'[s].artifact = review'[t].artifact) => s = t
    BY <2>1 DEF GateInv, ReviewedOnce
  <2> QED
    BY <1>1, <2>3, <2>4, <2>5 DEF ReviewedOnce, Precedes
<1>10. ApprovedOnce'
  <2>1. ASSUME NEW x \in Approvals, approval[x] # None, approval[x].consumed
        PROVE  log'[approval[x].revision + 2] = log[approval[x].revision + 2]
    BY <1>1, <1>2, <2>1, RowsStay
  <2> QED
    BY <1>1, <2>1 DEF GateInv, ApprovedOnce
<1> QED
  BY <1>6, <1>7, <1>8, <1>9, <1>10 DEF GateInv

\* The approval of the candidate is recorded: the first and only receipt.
LEMMA ApprovalStep ==
  ASSUME GateInv, NEW p \in Procs, NEW x \in Approvals, RecordApproval(p, x)
  PROVE  GateInv'
<1> DEFINE e   == [type |-> "PLAN_APPROVAL_RECEIPT_RECORDED", approval |-> x, plan |-> candidate]
           row == [plan |-> candidate, revision |-> Len(log), consumed |-> FALSE]
<1>1. /\ Commit(e) /\ candidate # None /\ step = "PLAN_REVIEW_REQUIRED"
      /\ \A y \in Approvals : approval[y] = None
      /\ approval' = [approval EXCEPT ![x] = row]
      /\ job' = [job EXCEPT ![p] = [at |-> "Consume", approval |-> x, revision |-> Len(log) + 1]]
      /\ UNCHANGED <<stage, blocked, active, step, artifacts, candidate, review>>
  BY DEF RecordApproval, CanRecordApproval, revision
<1>2. Len(log) \in Nat /\ e \in Event /\ row \in Approval
  BY <1>1 DEF GateInv, PlanningTypeOK, Event, Approval
<1>3. log' \in Seq(Event) /\ Len(log') = Len(log) + 1
  BY <1>1, <1>2, CommitAppends DEF GateInv, PlanningTypeOK
<1>4. /\ approval' \in [Approvals -> Approval \cup {None}] /\ approval'[x] = row
      /\ \A y \in Approvals : y # x => approval'[y] = None
  BY <1>1, <1>2 DEF GateInv, PlanningTypeOK
<1>5. job' \in [Procs -> Job]
  BY <1>1, <1>2 DEF GateInv, PlanningTypeOK, Job
<1>6. PlanningTypeOK'
  BY <1>1, <1>3, <1>4, <1>5 DEF GateInv, PlanningTypeOK
<1>7. PlanningChain'
  BY <1>1 DEF GateInv, PlanningChain, Reached, Precedes
<1>8. Anchored'
  <2>1. /\ \A b \in artifacts : b.revision < Len(log')
        /\ \A r \in Reviews : review[r] # None =>
             /\ review[r].issued < Len(log')
             /\ log'[review[r].issued + 1] = log[review[r].issued + 1]
    BY <1>1, <1>2, RowsStay
  <2>2. \A y \in Approvals : approval'[y] # None =>
          /\ candidate # None /\ approval'[y].plan = candidate
          /\ approval'[y].revision < Len(log')
          /\ ~approval'[y].consumed
    BY <1>1, <1>2, <1>3, <1>4
  <2> QED
    BY <1>1, <2>1, <2>2 DEF GateInv, Anchored
<1>9. ReviewedOnce'
  <2>1. \A b \in artifacts : b.kind # "BASELINE" => log'[b.revision] = log[b.revision]
    BY <1>1, <1>2, RowsStay
  <2>2. UNCHANGED <<artifacts, review>>
    BY <1>1
  <2> QED
    BY <2>1, <2>2 DEF GateInv, ReviewedOnce, Precedes
<1>10. ApprovedOnce'
  <2>1. active = None
    BY <1>1 DEF GateInv, Anchored
  <2> QED
    BY <1>1, <1>4, <2>1 DEF GateInv, ApprovedOnce
<1> QED
  BY <1>6, <1>7, <1>8, <1>9, <1>10 DEF GateInv

\* The receipt is consumed: its PLAN is the candidate, and its packet is in force.
LEMMA ActivationStep ==
  ASSUME GateInv, NEW p \in Procs, NEW x \in Approvals,
         ConsumeApproval(p, x)
  PROVE  GateInv'
<1> DEFINE e == [type |-> "PLAN_APPROVAL_RECEIPT_CONSUMED", approval |-> x,
                 packet |-> candidate.packet]
<1>1. /\ Commit(e) /\ approval[x] # None /\ approval[x].revision + 1 = Len(log) /\ approval[x].plan = candidate
      /\ step = "PLAN_REVIEW_REQUIRED" /\ stage = "PLANNING" /\ active = None
      /\ approval' = [approval EXCEPT ![x].consumed = TRUE]
      /\ active' = candidate.packet /\ step' = "PLAN_APPROVED" /\ stage' = "IMPLEMENTING"
      /\ job' = [job EXCEPT ![p] = Idle]
      /\ UNCHANGED <<blocked, artifacts, candidate, review>>
  BY DEF ConsumeApproval, CanConsume, revision
<1>2. candidate # None /\ candidate \in Artifact /\ approval[x] \in Approval
  BY <1>1 DEF GateInv, PlanningTypeOK, Anchored
<1>3. candidate.packet \in Packets /\ candidate.packet # None
  <2>1. candidate.kind = "PLAN"
    BY <1>2 DEF GateInv, PlanningChain
  <2> QED
    BY <1>2, <2>1, NoneAssumption DEF Artifact
<1>4. Len(log) \in Nat /\ e \in Event
  BY <1>3 DEF GateInv, PlanningTypeOK, Event
<1>5. log' \in Seq(Event) /\ Len(log') = Len(log) + 1 /\ log'[Len(log) + 1] = e
  BY <1>1, <1>4, CommitAppends DEF GateInv, PlanningTypeOK
<1>6. /\ approval' \in [Approvals -> Approval \cup {None}]
      /\ approval'[x] = [approval[x] EXCEPT !.consumed = TRUE]
      /\ \A y \in Approvals : y # x => approval'[y] = approval[y]
  BY <1>1, <1>2 DEF GateInv, PlanningTypeOK, Approval
<1>7. \A y \in Approvals : y # x => approval[y] = None
  BY <1>1 DEF GateInv, ApprovedOnce
<1>8. /\ approval'[x] # None /\ approval'[x].consumed /\ approval'[x].plan = candidate
      /\ approval'[x].revision + 1 = Len(log) /\ approval'[x].revision \in Nat
  BY <1>1, <1>2, <1>6, NoneAssumption DEF Approval
<1>9. PlanningTypeOK'
  BY <1>1, <1>3, <1>5, <1>6 DEF GateInv, PlanningTypeOK, Steps, Job
<1>10. PlanningChain'
  <2>1. UNCHANGED <<artifacts, candidate>>
    BY <1>1
  <2>2. \A k \in Kinds : Reached(k)' <=> Reached(k)
    BY <1>1 DEF Reached, Kinds
  <2> QED
    BY <2>1, <2>2 DEF GateInv, PlanningChain, Precedes
<1>11. Anchored'
  <2>1. /\ \A b \in artifacts : b.revision < Len(log')
        /\ \A r \in Reviews : review[r] # None =>
             /\ review[r].issued < Len(log')
             /\ log'[review[r].issued + 1] = log[review[r].issued + 1]
    BY <1>1, <1>4, RowsStay
  <2>2. \A y \in Approvals : approval'[y] # None =>
          /\ candidate # None /\ approval'[y].plan = candidate
          /\ approval'[y].revision + 1 < Len(log') /\ approval'[y].revision < Len(log')
    <3>1. \A y \in Approvals : approval'[y] # None => y = x
      BY <1>6, <1>7
    <3> QED
      BY <1>2, <1>4, <1>5, <1>8, <3>1
  <2>3. active' # None /\ step' = "PLAN_APPROVED"
    BY <1>1, <1>3
  <2> HIDE DEF e
  <2> QED
    BY <1>1, <2>1, <2>2, <2>3 DEF GateInv, Anchored
<1>12. ReviewedOnce'
  <2>1. \A b \in artifacts : b.kind # "BASELINE" => log'[b.revision] = log[b.revision]
    BY <1>1, <1>4, RowsStay
  <2> HIDE DEF e
  <2> QED
    BY <1>1, <2>1 DEF GateInv, ReviewedOnce, Precedes
<1>13. ApprovedOnce'
  <2>1. log'[approval'[x].revision + 2] = e
    BY <1>4, <1>5, <1>8
  <2>2. \A y, z \in Approvals : (approval'[y] # None /\ approval'[z] # None) => y = z
    BY <1>6, <1>7
  <2> QED
    BY <1>1, <1>2, <1>3, <1>8, <2>1, <2>2 DEF ApprovedOnce
<1> QED
  BY <1>9, <1>10, <1>11, <1>12, <1>13 DEF GateInv

-----------------------------------------------------------------------------
(* The invariant.                                                          *)

LEMMA InitGateInv == Init => GateInv
<1> SUFFICES ASSUME Init PROVE GateInv
  OBVIOUS
<1>1. PlanningTypeOK
  <2>1. log \in Seq(Event)
    BY DEF Init
  <2>2. /\ review \in [Reviews -> Review \cup {None}]
        /\ approval \in [Approvals -> Approval \cup {None}]
        /\ job \in [Procs -> Job]
    BY DEF Init, Job
  <2> QED
    BY <2>1, <2>2 DEF Init, PlanningTypeOK, Steps
<1>2. PlanningChain
  BY DEF Init, PlanningChain, Reached, Kinds
<1>3. Anchored /\ ReviewedOnce /\ ApprovedOnce
  BY DEF Init, Anchored, ReviewedOnce, ApprovedOnce
<1> QED
  BY <1>1, <1>2, <1>3 DEF GateInv

LEMMA NextGateInv == GateInv /\ [Next]_vars => GateInv'
<1> SUFFICES ASSUME GateInv, [Next]_vars PROVE GateInv'
  OBVIOUS
<1>1. CASE UNCHANGED vars
  BY <1>1, JobOnly DEF vars, GateInv, PlanningTypeOK
<1>2. ASSUME NEW p \in Procs, SubmitBaseline(p) PROVE GateInv'
  BY <1>2, BaselineStep
<1>3. ASSUME NEW p \in Procs, NEW k \in {"SPEC", "PLAN"}, SubmitSuccessor(p, k) PROVE GateInv'
  BY <1>3, SuccessorStep
<1>4. ASSUME NEW p \in Procs, NEW k \in {"SPEC", "PLAN"}, SubmitStale(p, k) PROVE GateInv'
  <2>1. job' \in [Procs -> Job]
    BY <1>4 DEF SubmitStale, GateInv, PlanningTypeOK, Job
  <2> QED
    BY <1>4, <2>1, JobOnly DEF SubmitStale
<1>5. ASSUME NEW p \in Procs, SubmitRefused(p) PROVE GateInv'
  <2>1. job' \in [Procs -> Job]
    BY <1>5 DEF SubmitRefused, GateInv, PlanningTypeOK, Job
  <2> QED
    BY <1>5, <2>1, JobOnly DEF SubmitRefused
<1>6. ASSUME NEW p \in Procs, RecordRejection(p) PROVE GateInv'
  <2>1. job' \in [Procs -> Job]
    BY <1>6 DEF RecordRejection, GateInv, PlanningTypeOK, Job
  <2>2. CASE blocked
    BY <1>6, <2>1, <2>2, JobOnly DEF RecordRejection
  <2>3. CASE ~blocked
    <3>1. [type |-> "PLANNING_SUBMISSION_REJECTED"] \in Event
      BY DEF Event
    <3>2. blocked' \in BOOLEAN
      BY <1>6 DEF RecordRejection, GateInv, PlanningTypeOK
    <3> QED
      BY <1>6, <2>1, <2>3, <3>1, <3>2, LogOnly DEF RecordRejection
  <2> QED
    BY <2>2, <2>3
<1>7. ASSUME NEW p \in Procs, NEW x \in Approvals, RecordApproval(p, x) PROVE GateInv'
  BY <1>7, ApprovalStep
<1>8. ASSUME NEW p \in Procs, NEW x \in Approvals, FindApproval(p, x) PROVE GateInv'
  <2>1. job' \in [Procs -> Job]
    BY <1>8 DEF FindApproval, revision, GateInv, PlanningTypeOK, Job
  <2> QED
    BY <1>8, <2>1, JobOnly DEF FindApproval
<1>9. ASSUME NEW p \in Procs, Consume(p) PROVE GateInv'
  <2>1. job[p].approval \in Approvals
    BY <1>9 DEF Consume, GateInv, PlanningTypeOK, Job, Idle
  <2>2. CASE ConsumeApproval(p, job[p].approval)
    BY <2>1, <2>2, ActivationStep
  <2>3. CASE ConsumeRefused(p, job[p].approval)
    <3>1. job' \in [Procs -> Job]
      BY <2>3 DEF ConsumeRefused, GateInv, PlanningTypeOK, Job
    <3> QED
      BY <2>3, <3>1, JobOnly DEF ConsumeRefused
  <2> QED
    BY <1>9, <2>2, <2>3 DEF Consume
<1>10. ASSUME NEW p \in Procs, Die(p) PROVE GateInv'
  <2>1. job' \in [Procs -> Job]
    BY <1>10 DEF Die, GateInv, PlanningTypeOK, Job
  <2> QED
    BY <1>10, <2>1, JobOnly DEF Die
<1>11. ASSUME NEW r \in Reviews, NEW a \in artifacts, NEW d \in {"ACCEPT", "REQUEST_CHANGES"},
              RecordReview(r, a, d)
       PROVE  GateInv'
  BY <1>11, ReviewStepKeeps
<1>12. CASE Block
  <2>1. [type |-> "RUN_BLOCKED"] \in Event
    BY DEF Event
  <2>2. job' \in [Procs -> Job] /\ blocked' \in BOOLEAN
    BY <1>12 DEF Block, GateInv, PlanningTypeOK
  <2> QED
    BY <1>12, <2>1, <2>2, LogOnly DEF Block
<1>13. CASE OtherCommit
  <2>1. [type |-> "OTHER"] \in Event
    BY DEF Event
  <2>2. job' \in [Procs -> Job] /\ blocked' \in BOOLEAN
    BY <1>13 DEF OtherCommit, GateInv, PlanningTypeOK
  <2> QED
    BY <1>13, <2>1, <2>2, LogOnly DEF OtherCommit
<1> QED
  BY <1>1, <1>2, <1>3, <1>4, <1>5, <1>6, <1>7, <1>8, <1>9, <1>10, <1>11, <1>12, <1>13 DEF Next

\* The inductive invariant holds in every reachable state.
THEOREM GateInvariant == Spec => []GateInv
  BY InitGateInv, NextGateInv, PTL DEF Spec

\* The rows of the planning tables and the event log keep their types.
THEOREM PlanningTyped == Spec => []PlanningTypeOK
  BY GateInvariant, PTL DEF GateInv

\* The artifacts of a Run form one chain under one authority, and the planning
\* step and the candidate tell where it ends.
THEOREM PlanningChained == Spec => []PlanningChain
  BY GateInvariant, PTL DEF GateInv

\* A document after the first consumed exactly one accepting review of its
\* predecessor, recorded by the commit just before its own.
THEOREM PlanningReviewed == Spec => []ReviewedOnce
  BY GateInvariant, PTL DEF GateInv

\* The packet in force is that of the approved candidate, activated by the
\* commit that follows the only receipt.
THEOREM PlanningApproved == Spec => []ApprovedOnce
  BY GateInvariant, PTL DEF GateInv

-----------------------------------------------------------------------------
(* The gate implements GatedPlan.                                          *)

\* A step of the gate seen from outside: the three sets of documents.
LEMMA SameReviews ==
  ASSUME \A r \in Reviews : /\ review'[r] # None <=> review[r] # None
                            /\ review'[r].decision = review[r].decision
                            /\ review'[r].artifact = review[r].artifact
  PROVE  {Doc(review'[r].artifact) : r \in Accepted'} = {Doc(review[r].artifact) : r \in Accepted}
<1>1. Accepted' = Accepted
  BY DEF Accepted
<1>2. \A r \in Accepted : Doc(review'[r].artifact) = Doc(review[r].artifact)
  BY DEF Accepted, Doc
<1> QED
  BY <1>1, <1>2

LEMMA DocOfArtifact ==
  ASSUME NEW a \in Artifact
  PROVE  /\ Doc(a) \in Gate!Document
         /\ Doc(a).kind = a.kind /\ Doc(a).authority = a.authority /\ Doc(a).packet = a.packet
  BY DEF Artifact, Doc, Gate!Document

\* A new document is settled.
LEMMA StoreSettles ==
  ASSUME NEW a \in Artifact, artifacts \in SUBSET Artifact, artifacts' = artifacts \cup {a},
         \A b \in artifacts : b.kind # a.kind,
         \/ a.kind = "BASELINE"
         \/ \E r \in Accepted : /\ review[r].artifact \in Artifact
                               /\ Precedes(review[r].artifact, a)
                               /\ review[r].artifact.authority = a.authority,
         {Doc(review'[r].artifact) : r \in Accepted'} = {Doc(review[r].artifact) : r \in Accepted},
         UNCHANGED <<approval, active>>
  PROVE  Gate!Settle
<1> DEFINE acc == {Doc(review[r].artifact) : r \in Accepted}
<1>1. Doc(a) \in Gate!Document /\ Doc(a).kind = a.kind /\ Doc(a).authority = a.authority
  BY DocOfArtifact
<1>2. \A e \in {Doc(b) : b \in artifacts} : e.kind # Doc(a).kind
  BY <1>1, DocOfArtifact
<1>3. \/ Doc(a).kind = "BASELINE"
      \/ \E e \in acc : Gate!Precedes(e, Doc(a)) /\ e.authority = Doc(a).authority
  <2>1. ASSUME NEW r \in Accepted, review[r].artifact \in Artifact,
               Precedes(review[r].artifact, a), review[r].artifact.authority = a.authority
        PROVE  \E e \in acc : Gate!Precedes(e, Doc(a)) /\ e.authority = Doc(a).authority
    <3>1. Doc(review[r].artifact) \in acc
      OBVIOUS
    <3>2. /\ Doc(review[r].artifact).kind = review[r].artifact.kind
          /\ Doc(review[r].artifact).authority = review[r].artifact.authority
      BY <2>1, DocOfArtifact
    <3> QED
      BY <1>1, <2>1, <3>1, <3>2 DEF Precedes, Gate!Precedes
  <2> QED
    BY <1>1, <2>1
<1>4. {Doc(b) : b \in artifacts'} = {Doc(b) : b \in artifacts} \cup {Doc(a)}
  OBVIOUS
<1>5. {Doc(approval'[x].plan) : x \in Issued'} = {Doc(approval[x].plan) : x \in Issued}
  BY DEF Issued
<1> HIDE DEF acc
<1> QED
  BY <1>1, <1>2, <1>3, <1>4, <1>5 DEF Gate!Settle, acc, Doc

\* Nothing a reader of the gate sees has changed.
LEMMA Unseen ==
  ASSUME UNCHANGED <<artifacts, review, approval, active>>
  PROVE  UNCHANGED Gate!gate
  BY DEF Gate!gate, Doc, Accepted, Issued

LEMMA BaselineSettles ==
  ASSUME GateInv, NEW p \in Procs, SubmitBaseline(p)
  PROVE  Gate!Settle
<1>1. PICK auth \in Authorities :
        StoreArtifact([kind |-> "BASELINE", authority |-> auth, packet |-> None,
                       revision |-> Len(log)], None)
  BY DEF SubmitBaseline, revision
<1> DEFINE a == [kind |-> "BASELINE", authority |-> auth, packet |-> None, revision |-> Len(log)]
<1>2. a \in Artifact /\ artifacts \in SUBSET Artifact
  BY DEF GateInv, PlanningTypeOK, Artifact
<1>3. \A b \in artifacts : b.kind # a.kind
  BY DEF SubmitBaseline, InSequence, PriorStep, GateInv, PlanningChain, Reached, Kinds
<1>4. artifacts' = artifacts \cup {a} /\ UNCHANGED <<review, approval, active>>
  BY <1>1 DEF StoreArtifact, SubmitBaseline
<1>5. {Doc(review'[r].artifact) : r \in Accepted'} = {Doc(review[r].artifact) : r \in Accepted}
  BY <1>4, SameReviews
<1>6. a.kind = "BASELINE"
  OBVIOUS
<1> HIDE DEF a
<1> QED
  BY <1>2, <1>3, <1>4, <1>5, <1>6, StoreSettles

LEMMA SuccessorSettles ==
  ASSUME GateInv, NEW p \in Procs, NEW k \in {"SPEC", "PLAN"}, SubmitSuccessor(p, k)
  PROVE  Gate!Settle
<1>0. PICK d \in Predecessors(k) :
        \E r \in Acceptances(d), pkt \in IF k = "PLAN" THEN Packets ELSE {None} :
          /\ review' = [review EXCEPT ![r].consumed = TRUE]
          /\ StoreArtifact([kind |-> k, authority |-> d.authority, packet |-> pkt,
                            revision |-> Len(log)], r)
  BY DEF SubmitSuccessor, revision
<1>1. PICK r \in Acceptances(d), pkt \in IF k = "PLAN" THEN Packets ELSE {None} :
        /\ review' = [review EXCEPT ![r].consumed = TRUE]
        /\ StoreArtifact([kind |-> k, authority |-> d.authority, packet |-> pkt,
                          revision |-> Len(log)], r)
  BY <1>0
<1> DEFINE a == [kind |-> k, authority |-> d.authority, packet |-> pkt, revision |-> Len(log)]
<1>2. /\ d \in Artifact /\ a.kind = k /\ a.authority = d.authority /\ Precedes(d, a)
      /\ r \in Reviews /\ review[r] \in Review /\ review[r] # None /\ r \in Accepted
      /\ review[r].artifact = d
  BY <1>1 DEF Predecessors, Acceptances, Accepted, Precedes, GateInv, PlanningTypeOK
<1>3. a \in Artifact /\ artifacts \in SUBSET Artifact
  BY <1>1, <1>2 DEF GateInv, PlanningTypeOK, Artifact
<1>4. \A b \in artifacts : b.kind # a.kind
  BY <1>2 DEF SubmitSuccessor, InSequence, PriorStep, GateInv, PlanningChain, Reached, Kinds
<1>5. artifacts' = artifacts \cup {a} /\ UNCHANGED <<approval, active>>
  BY <1>1 DEF StoreArtifact
<1>6. {Doc(review'[s].artifact) : s \in Accepted'} = {Doc(review[s].artifact) : s \in Accepted}
  <2>1. /\ \A s \in Reviews : s # r => review'[s] = review[s]
        /\ review'[r] \in Review /\ review'[r].artifact = review[r].artifact
        /\ review'[r].decision = review[r].decision
    BY <1>1, <1>2 DEF GateInv, PlanningTypeOK, Review
  <2>2. review'[r] # None
    BY <2>1, NoneAssumption
  <2> QED
    BY <1>2, <2>1, <2>2, SameReviews
<1> HIDE DEF a
<1> QED
  BY <1>2, <1>3, <1>4, <1>5, <1>6, StoreSettles

LEMMA ReviewAccepts ==
  ASSUME GateInv, NEW r \in Reviews, NEW a \in artifacts,
         NEW decision \in {"ACCEPT", "REQUEST_CHANGES"}, RecordReview(r, a, decision)
  PROVE  [Gate!Next]_Gate!gate
<1> DEFINE row == [artifact |-> a, issued |-> Len(log), decision |-> decision, consumed |-> FALSE]
           acc == {Doc(review[s].artifact) : s \in Accepted}
<1>1. /\ a.kind # "PLAN" /\ review[r] = None /\ review' = [review EXCEPT ![r] = row]
      /\ UNCHANGED <<artifacts, approval, active>>
  BY DEF RecordReview, revision
<1>2. a \in Artifact /\ row # None
  <2>1. a \in Artifact /\ Len(log) \in Nat
    BY DEF GateInv, PlanningTypeOK
  <2>2. row \in Review
    BY <2>1 DEF Review
  <2> QED
    BY <2>1, <2>2, NoneAssumption
<1>3. /\ review'[r] = row
      /\ \A s \in Reviews : s # r => review'[s] = review[s]
  BY <1>1 DEF GateInv, PlanningTypeOK
<1>4. r \notin Accepted
  BY <1>1 DEF Accepted
<1>5. \A s \in Accepted : review'[s] = review[s]
  BY <1>3, <1>4 DEF Accepted
<1>6. Accepted' = IF decision = "ACCEPT" THEN Accepted \cup {r} ELSE Accepted
  BY <1>2, <1>3, <1>4 DEF Accepted
<1>7. review'[r].artifact = a
  BY <1>3
<1> HIDE DEF row
<1>8. acc' = IF decision = "ACCEPT" THEN acc \cup {Doc(a)} ELSE acc
  BY <1>5, <1>6, <1>7 DEF Doc
<1>9. /\ {Doc(b) : b \in artifacts}' = {Doc(b) : b \in artifacts}
      /\ {Doc(approval[x].plan) : x \in Issued}' = {Doc(approval[x].plan) : x \in Issued}
  BY <1>1 DEF Issued, Doc
<1>10. CASE decision = "ACCEPT"
  <2>1. Doc(a) \in {Doc(b) : b \in artifacts} /\ Doc(a).kind # "PLAN"
    BY <1>1, <1>2, DocOfArtifact
  <2>2. Gate!Accept
    BY <1>1, <1>8, <1>9, <1>10, <2>1 DEF Gate!Accept, Doc
  <2> QED
    BY <2>2 DEF Gate!Next
<1>11. CASE decision # "ACCEPT"
  BY <1>1, <1>8, <1>9, <1>11 DEF Gate!gate, Doc
<1> QED
  BY <1>10, <1>11

LEMMA ApprovalApproves ==
  ASSUME GateInv, NEW p \in Procs, NEW x \in Approvals, RecordApproval(p, x)
  PROVE  Gate!Approve
<1> DEFINE row == [plan |-> candidate, revision |-> Len(log), consumed |-> FALSE]
<1>1. /\ candidate # None /\ \A y \in Approvals : approval[y] = None
      /\ approval' = [approval EXCEPT ![x] = row]
      /\ UNCHANGED <<active, artifacts, review>>
  BY DEF RecordApproval, CanRecordApproval, revision
<1>2. candidate \in artifacts /\ candidate \in Artifact /\ candidate.kind = "PLAN"
  BY <1>1 DEF GateInv, PlanningTypeOK, PlanningChain
<1>3. row # None
  <2>1. Len(log) \in Nat
    BY DEF GateInv, PlanningTypeOK
  <2>2. row \in Approval
    BY <1>2, <2>1 DEF Approval
  <2> QED
    BY <2>2, NoneAssumption
<1>4. Issued = {} /\ Issued' = {x} /\ approval'[x].plan = candidate
  BY <1>1, <1>3 DEF Issued, GateInv, PlanningTypeOK
<1>5. /\ {Doc(approval[y].plan) : y \in Issued} = {}
      /\ {Doc(approval'[y].plan) : y \in Issued'} = {Doc(candidate)}
  BY <1>4
<1>6. Doc(candidate).kind = "PLAN" /\ Doc(candidate) \in {Doc(b) : b \in artifacts}
  BY <1>2, DocOfArtifact
<1>7. /\ {Doc(b) : b \in artifacts'} = {Doc(b) : b \in artifacts}
      /\ {Doc(review'[r].artifact) : r \in Accepted'} = {Doc(review[r].artifact) : r \in Accepted}
  BY <1>1, SameReviews
<1> QED
  BY <1>1, <1>5, <1>6, <1>7 DEF Gate!Approve, Doc

LEMMA ActivationActivates ==
  ASSUME GateInv, NEW p \in Procs, NEW x \in Approvals, ConsumeApproval(p, x)
  PROVE  Gate!Activate
<1>1. /\ approval[x] # None /\ approval[x].plan = candidate /\ active = None
      /\ approval' = [approval EXCEPT ![x].consumed = TRUE] /\ active' = candidate.packet
      /\ UNCHANGED <<artifacts, review>>
  BY DEF ConsumeApproval, CanConsume
<1>2. approval[x] \in Approval /\ candidate \in Artifact
  BY <1>1 DEF GateInv, PlanningTypeOK, Approval
<1>3. x \in Issued /\ Doc(approval[x].plan).packet = candidate.packet
  BY <1>1, <1>2, DocOfArtifact DEF Issued
<1>4. {Doc(approval'[y].plan) : y \in Issued'} = {Doc(approval[y].plan) : y \in Issued}
  <2>1. /\ \A y \in Approvals : y # x => approval'[y] = approval[y]
        /\ approval'[x] \in Approval /\ approval'[x].plan = approval[x].plan
    BY <1>1, <1>2 DEF GateInv, PlanningTypeOK, Approval
  <2>2. approval'[x] # None
    BY <2>1, NoneAssumption
  <2>3. Issued' = Issued
    BY <1>1, <2>1, <2>2 DEF Issued
  <2>4. \A y \in Issued : approval'[y].plan = approval[y].plan
    BY <2>1 DEF Issued
  <2> QED
    BY <2>3, <2>4
<1>5. /\ {Doc(b) : b \in artifacts'} = {Doc(b) : b \in artifacts}
      /\ {Doc(review'[r].artifact) : r \in Accepted'} = {Doc(review[r].artifact) : r \in Accepted}
  BY <1>1, SameReviews
<1> QED
  BY <1>1, <1>3, <1>4, <1>5 DEF Gate!Activate, Doc

\* Whatever the receipts, the revisions and the processes that die between two
\* transactions do, the gate is the abstract one: one chain of accepted
\* documents, one approval, one activation.
THEOREM GateImplemented == Spec => KeepsGate
<1>1. Init => Gate!Init
  BY DEF Init, Gate!Init, Accepted, Issued
<1>2. GateInv /\ [Next]_vars => [Gate!Next]_Gate!gate
  <2> SUFFICES ASSUME GateInv, [Next]_vars PROVE [Gate!Next]_Gate!gate
    OBVIOUS
  <2>1. CASE UNCHANGED vars
    BY <2>1, Unseen DEF vars
  <2>2. ASSUME NEW p \in Procs, SubmitBaseline(p) PROVE Gate!Next
    BY <2>2, BaselineSettles DEF Gate!Next
  <2>3. ASSUME NEW p \in Procs, NEW k \in {"SPEC", "PLAN"}, SubmitSuccessor(p, k) PROVE Gate!Next
    BY <2>3, SuccessorSettles DEF Gate!Next
  <2>4. ASSUME NEW p \in Procs, NEW x \in Approvals, RecordApproval(p, x) PROVE Gate!Next
    BY <2>4, ApprovalApproves DEF Gate!Next
  <2>5. ASSUME NEW p \in Procs, Consume(p) PROVE [Gate!Next]_Gate!gate
    <3>1. job[p].approval \in Approvals
      BY <2>5 DEF Consume, GateInv, PlanningTypeOK, Job, Idle
    <3>2. CASE ConsumeApproval(p, job[p].approval)
      BY <3>1, <3>2, ActivationActivates DEF Gate!Next
    <3>3. CASE ConsumeRefused(p, job[p].approval)
      BY <3>3, Unseen DEF ConsumeRefused
    <3> QED
      BY <2>5, <3>2, <3>3 DEF Consume
  <2>6. ASSUME NEW r \in Reviews, NEW a \in artifacts, NEW d \in {"ACCEPT", "REQUEST_CHANGES"},
               RecordReview(r, a, d)
        PROVE  [Gate!Next]_Gate!gate
    BY <2>6, ReviewAccepts
  <2>7. ASSUME NEW p \in Procs,
               \/ \E k \in {"SPEC", "PLAN"} : SubmitStale(p, k)
               \/ SubmitRefused(p) \/ RecordRejection(p)
               \/ \E x \in Approvals : FindApproval(p, x)
               \/ Die(p)
        PROVE  UNCHANGED Gate!gate
    BY <2>7, Unseen DEF SubmitStale, SubmitRefused, RecordRejection, FindApproval, Die
  <2>8. CASE Block \/ OtherCommit
    BY <2>8, Unseen DEF Block, OtherCommit
  <2> QED
    BY <2>1, <2>2, <2>3, <2>4, <2>5, <2>6, <2>7, <2>8 DEF Next
<1> QED
  BY <1>1, <1>2, GateInvariant, PTL DEF Spec, KeepsGate, Gate!Spec

-----------------------------------------------------------------------------
(* An approval that waits to be consumed, and one that waited too long.    *)

\* An approval can be consumed as soon as it is recorded, by whoever runs
\* approve-plan next, and as long as nothing else is committed: what is left
\* of ApprovalSettles to the scheduling is that somebody does.
FreshApprovalCounts ==
  \A x \in Approvals :
    approval[x] # None /\ ~blocked /\ revision = approval[x].revision + 1 => CanConsume(x, revision)

\* The commit that had to consume the approval was another one.
Overtaken ==
  \E x \in Approvals :
    approval[x] # None /\ ~approval[x].consumed /\ revision > approval[x].revision + 1

\* A known limit of the code: one commit between the two transactions of an
\* approve-plan that was cut short is enough, and no PLAN of the Run is ever
\* activated, whoever tries it again.
OvertakenForGood == [][Overtaken => Overtaken' /\ active' = None]_vars

LEMMA LogGrows ==
  ASSUME GateInv, [Next]_vars
  PROVE  Len(log) \in Nat /\ Len(log') \in Nat /\ Len(log') >= Len(log)
<1>1. log \in Seq(Event) /\ log' \in Seq(Event)
  BY NextGateInv DEF GateInv, PlanningTypeOK
<1> DEFINE Longer == Len(log') = Len(log) + 1
<1>2. ASSUME NEW e, Commit(e) PROVE Longer
  BY <1>1, <1>2 DEF Commit
<1> HIDE DEF Longer
<1>3. ASSUME NEW a, NEW r, StoreArtifact(a, r) PROVE Longer
  BY <1>2, <1>3 DEF StoreArtifact
<1>4. ASSUME NEW p \in Procs,
             \/ SubmitBaseline(p)
             \/ \E k \in {"SPEC", "PLAN"} : SubmitSuccessor(p, k)
      PROVE  Longer
  BY <1>3, <1>4 DEF SubmitBaseline, SubmitSuccessor
<1>5. ASSUME NEW p \in Procs,
             \/ \E k \in {"SPEC", "PLAN"} : SubmitStale(p, k)
             \/ SubmitRefused(p) \/ Die(p)
             \/ \E x \in Approvals : FindApproval(p, x)
      PROVE  log' = log
  BY <1>5 DEF SubmitStale, SubmitRefused, Die, FindApproval
<1>6. ASSUME NEW p \in Procs, RecordRejection(p) PROVE log' = log \/ Longer
  BY <1>2, <1>6 DEF RecordRejection
<1>7. ASSUME NEW p \in Procs, NEW x \in Approvals, RecordApproval(p, x) PROVE Longer
  BY <1>2, <1>7 DEF RecordApproval
<1>8. ASSUME NEW p \in Procs, Consume(p) PROVE log' = log \/ Longer
  <2>1. CASE ConsumeApproval(p, job[p].approval)
    BY <1>2, <2>1 DEF ConsumeApproval
  <2>2. CASE ConsumeRefused(p, job[p].approval)
    BY <2>2 DEF ConsumeRefused
  <2> QED
    BY <1>8, <2>1, <2>2 DEF Consume
<1>9. ASSUME NEW r \in Reviews, NEW a \in artifacts, NEW d \in {"ACCEPT", "REQUEST_CHANGES"},
             RecordReview(r, a, d)
      PROVE  Longer
  BY <1>2, <1>9 DEF RecordReview
<1>10. ASSUME Block \/ OtherCommit PROVE Longer
  BY <1>2, <1>10 DEF Block, OtherCommit
<1>11. ASSUME UNCHANGED vars PROVE log' = log
  BY <1>11 DEF vars
<1>12. log' = log \/ Longer
  BY <1>4, <1>5, <1>6, <1>7, <1>8, <1>9, <1>10, <1>11 DEF Next
<1> QED
  BY <1>1, <1>12 DEF Longer

\* An approval changes when it is recorded, and when it is consumed.
LEMMA ApprovalRows ==
  ASSUME [Next]_vars
  PROVE  \/ UNCHANGED approval
         \/ \A y \in Approvals : approval[y] = None
         \/ \E p \in Procs : job[p].at = "Consume" /\ ConsumeApproval(p, job[p].approval)
<1>1. CASE UNCHANGED vars
  BY <1>1 DEF vars
<1>2. ASSUME NEW p \in Procs, Consume(p)
      PROVE  \/ UNCHANGED approval
             \/ job[p].at = "Consume" /\ ConsumeApproval(p, job[p].approval)
  <2>1. CASE ConsumeApproval(p, job[p].approval)
    BY <1>2, <2>1 DEF Consume
  <2>2. CASE ConsumeRefused(p, job[p].approval)
    BY <2>2 DEF ConsumeRefused
  <2> QED
    BY <1>2, <2>1, <2>2 DEF Consume
<1>3. ASSUME NEW p \in Procs, NEW x \in Approvals, RecordApproval(p, x)
      PROVE  \A y \in Approvals : approval[y] = None
  BY <1>3 DEF RecordApproval, CanRecordApproval
<1>4. ASSUME NEW p \in Procs, SubmitBaseline(p) PROVE UNCHANGED approval
  BY <1>4 DEF SubmitBaseline, StoreArtifact
<1>5. ASSUME NEW p \in Procs, NEW k \in {"SPEC", "PLAN"}, SubmitSuccessor(p, k)
      PROVE  UNCHANGED approval
  BY <1>5 DEF SubmitSuccessor, StoreArtifact
<1>6. ASSUME NEW p \in Procs,
             \/ \E k \in {"SPEC", "PLAN"} : SubmitStale(p, k)
             \/ SubmitRefused(p) \/ RecordRejection(p) \/ Die(p)
             \/ \E x \in Approvals : FindApproval(p, x)
      PROVE  UNCHANGED approval
  BY <1>6 DEF SubmitStale, SubmitRefused, RecordRejection, Die, FindApproval
<1>7. CASE \E r \in Reviews, a \in artifacts, d \in {"ACCEPT", "REQUEST_CHANGES"} :
             RecordReview(r, a, d)
  BY <1>7 DEF RecordReview
<1>8. CASE Block \/ OtherCommit
  BY <1>8 DEF Block, OtherCommit
<1>9. CASE Next
  BY <1>2, <1>3, <1>4, <1>5, <1>6, <1>7, <1>8, <1>9 DEF Next
<1> QED
  BY <1>1, <1>9

LEMMA OvertakenStep == GateInv /\ Overtaken /\ [Next]_vars => Overtaken' /\ active' = None
<1> SUFFICES ASSUME GateInv, Overtaken, [Next]_vars PROVE Overtaken' /\ active' = None
  OBVIOUS
<1>1. PICK x \in Approvals :
        approval[x] # None /\ ~approval[x].consumed /\ Len(log) > approval[x].revision + 1
  BY DEF Overtaken, revision
<1>2. approval[x].revision \in Nat
  BY <1>1 DEF GateInv, PlanningTypeOK, Approval
<1>3. ASSUME NEW p \in Procs, job[p].at = "Consume", ConsumeApproval(p, job[p].approval) PROVE FALSE
  <2>1. job[p].approval \in Approvals
    BY <1>3 DEF GateInv, PlanningTypeOK, Job, Idle
  <2>2. job[p].approval = x
    BY <1>1, <1>3, <2>1 DEF ConsumeApproval, CanConsume, GateInv, ApprovedOnce
  <2>3. approval[x].revision + 1 = Len(log)
    BY <1>3, <2>2 DEF ConsumeApproval, CanConsume, revision
  <2> QED
    BY <1>1, <1>2, <2>3, LogGrows
<1>4. UNCHANGED approval
  BY <1>1, <1>3, ApprovalRows
<1>5. Overtaken'
  BY <1>1, <1>2, <1>4, LogGrows DEF Overtaken, revision
<1>6. active' = None
  BY <1>1, <1>4, NextGateInv DEF GateInv, ApprovedOnce
<1> QED
  BY <1>5, <1>6

\* No approval is ever lost to a crash alone: it stays good until another
\* commit.
THEOREM FreshApprovalsCount == Spec => []FreshApprovalCounts
<1>1. GateInv => FreshApprovalCounts
  <2> SUFFICES ASSUME GateInv, NEW x \in Approvals, approval[x] # None, ~blocked,
                      revision = approval[x].revision + 1
               PROVE  CanConsume(x, revision)
    BY DEF FreshApprovalCounts
  <2>1. approval[x].plan = candidate /\ candidate # None
    BY DEF GateInv, Anchored
  <2>2. ~approval[x].consumed
    BY DEF GateInv, PlanningTypeOK, Anchored, Approval, revision
  <2>3. active = None /\ stage = "PLANNING"
    BY <2>2 DEF GateInv, PlanningTypeOK, ApprovedOnce
  <2>4. step = "PLAN_REVIEW_REQUIRED"
    <3>1. candidate \in artifacts /\ candidate.kind = "PLAN"
      BY <2>1 DEF GateInv, PlanningChain
    <3>2. Reached("PLAN")
      BY <3>1 DEF GateInv, PlanningChain, Kinds
    <3> QED
      BY <2>3, <3>2 DEF Reached, GateInv, Anchored
  <2> QED
    BY <2>1, <2>2, <2>3, <2>4 DEF CanConsume
<1> QED
  BY <1>1, GateInvariant, PTL

\* An approval that was overtaken is good for nothing, and there is no other.
THEOREM OvertakenStaysOvertaken == Spec => OvertakenForGood
<1>1. GateInv /\ [Next]_vars => [Overtaken => Overtaken' /\ active' = None]_vars
  BY OvertakenStep
<1> QED
  BY <1>1, GateInvariant, PTL DEF Spec, OvertakenForGood

-----------------------------------------------------------------------------
(* The reviews a submission may fetch.                                     *)

\* Whichever review of the predecessor is fetched, it is current.
SureFor(k) ==
  /\ InSequence(k)
  /\ Predecessors(k) # {}
  /\ \A d \in Predecessors(k) : Acceptances(d) # {} /\ \A q \in Acceptances(d) : Current(q)

\* The first accepting review of the last document opens the way to the next
\* one, whatever reviews that ask for changes came before it.
FirstAcceptanceReopens ==
  [][\A r \in Reviews, a \in artifacts :
       RecordReview(r, a, "ACCEPT") /\ step = ReviewStep(a.kind) /\ Acceptances(a) = {}
         => \E k \in {"SPEC", "PLAN"} : SureFor(k)']_vars

\* An accepting review that another commit has overtaken can still be fetched.
StaleFor(r, a) == r \in Acceptances(a) /\ review[r].issued + 1 < revision
StaleAcceptancesRemain ==
  [][\A r \in Reviews, a \in artifacts : StaleFor(r, a) => StaleFor(r, a)']_vars

LEMMA FirstReviewOpens ==
  ASSUME GateInv, NEW r \in Reviews, NEW a \in artifacts,
         RecordReview(r, a, "ACCEPT"), step = ReviewStep(a.kind), Acceptances(a) = {}
  PROVE  \E k \in {"SPEC", "PLAN"} : SureFor(k)'
<1> DEFINE row == [artifact |-> a, issued |-> Len(log), decision |-> "ACCEPT", consumed |-> FALSE]
<1>1. /\ ~blocked /\ a.kind # "PLAN" /\ review' = [review EXCEPT ![r] = row]
      /\ Commit([type |-> "PLANNING_REVIEW_RECEIPT_RECORDED", review |-> r])
      /\ UNCHANGED <<stage, blocked, active, step, artifacts, candidate, approval, job>>
  BY DEF RecordReview, revision
<1>2. Len(log') = Len(log) + 1
  BY <1>1, CommitAppends DEF GateInv, PlanningTypeOK, Event
<1>3. row \in Review /\ row # None
  <2>1. a \in Artifact /\ Len(log) \in Nat
    BY DEF GateInv, PlanningTypeOK
  <2>2. row \in Review
    BY <2>1 DEF Review
  <2> QED
    BY <2>2, NoneAssumption
<1>4. review'[r] = row /\ \A q \in Reviews \ {r} : review'[q] = review[q]
  BY <1>1 DEF GateInv, PlanningTypeOK
<1>5. Current(r)' /\ Acceptances(a)' = {r}
  BY <1>2, <1>3, <1>4 DEF Current, Acceptances, revision
<1>6. a.kind \in {"BASELINE", "SPEC"}
  BY <1>1 DEF GateInv, PlanningTypeOK, Artifact
<1>7. \A d \in artifacts : d.kind = a.kind => d = a
  BY DEF GateInv, PlanningChain
<1>8. CASE a.kind = "BASELINE"
  <2>1. step = "BASELINE_REVIEW_REQUIRED"
    BY <1>8 DEF ReviewStep
  <2>2. InSequence("SPEC")' /\ Predecessors("SPEC")' = {a}
    BY <1>1, <1>7, <1>8, <2>1 DEF InSequence, PriorStep, RequiredKinds, Predecessors
  <2> QED
    BY <1>5, <2>2 DEF SureFor
<1>9. CASE a.kind = "SPEC"
  <2>1. step = "SPEC_REVIEW_REQUIRED"
    BY <1>9 DEF ReviewStep
  <2>2. candidate = None
    BY <2>1 DEF GateInv, PlanningChain, Reached, Kinds
  <2>3. \E b \in artifacts : b.kind = "BASELINE"
    BY <2>1 DEF GateInv, PlanningChain, Reached, Kinds
  <2>4. InSequence("PLAN")' /\ Predecessors("PLAN")' = {a}
    BY <1>1, <1>7, <1>9, <2>1, <2>2, <2>3 DEF InSequence, PriorStep, RequiredKinds, Predecessors
  <2> QED
    BY <1>5, <2>4 DEF SureFor
<1> QED
  BY <1>6, <1>8, <1>9

\* A review changes when it is recorded, and when it is consumed as current.
LEMMA ReviewRows ==
  ASSUME GateInv, [Next]_vars, NEW r \in Reviews, review[r] # None, ~Current(r)
  PROVE  review'[r] = review[r]
<1> DEFINE Kept == review'[r] = review[r]
<1>1. CASE UNCHANGED vars
  BY <1>1 DEF vars
<1>2. ASSUME NEW p \in Procs, NEW k \in {"SPEC", "PLAN"}, SubmitSuccessor(p, k)
      PROVE  Kept
  <2>1. PICK q \in Reviews : Current(q) /\ review' = [review EXCEPT ![q].consumed = TRUE]
    BY <1>2 DEF SubmitSuccessor, Acceptances
  <2> QED
    BY <2>1 DEF GateInv, PlanningTypeOK
<1>3. ASSUME NEW q \in Reviews, NEW a \in artifacts, NEW d \in {"ACCEPT", "REQUEST_CHANGES"},
             RecordReview(q, a, d)
      PROVE  Kept
  BY <1>3 DEF RecordReview, GateInv, PlanningTypeOK
<1>4. ASSUME NEW p \in Procs,
             \/ SubmitBaseline(p)
             \/ \E k \in {"SPEC", "PLAN"} : SubmitStale(p, k)
             \/ SubmitRefused(p) \/ RecordRejection(p) \/ Die(p)
             \/ \E x \in Approvals : RecordApproval(p, x) \/ FindApproval(p, x)
      PROVE  Kept
  BY <1>4 DEF SubmitBaseline, SubmitStale, SubmitRefused, RecordRejection, Die, RecordApproval,
     FindApproval
<1>5. ASSUME NEW p \in Procs, Consume(p) PROVE Kept
  BY <1>5 DEF Consume, ConsumeApproval, ConsumeRefused
<1>6. CASE Block \/ OtherCommit
  BY <1>6 DEF Block, OtherCommit
<1>7. CASE Next
  BY <1>2, <1>3, <1>4, <1>5, <1>6, <1>7 DEF Next
<1> QED
  BY <1>1, <1>7

LEMMA StaleStep ==
  ASSUME GateInv, [Next]_vars, NEW r \in Reviews, NEW a \in artifacts, StaleFor(r, a)
  PROVE  StaleFor(r, a)'
<1>1. review[r] # None /\ review[r].issued \in Nat /\ review[r].issued + 1 < Len(log)
  BY DEF StaleFor, Acceptances, revision, GateInv, PlanningTypeOK, Review
<1>2. review'[r] = review[r]
  BY <1>1, LogGrows, ReviewRows DEF Current, revision
<1>3. review[r].issued + 1 < Len(log')
  BY <1>1, LogGrows
<1> QED
  BY <1>2, <1>3 DEF StaleFor, Acceptances, revision

\* Requests for changes do not wedge the planning of a Run: the first accepting
\* review that follows them is the only row a submission can fetch, and it is
\* current until the next commit.
THEOREM FirstAcceptancesReopen == Spec => FirstAcceptanceReopens
<1>1. GateInv => [\A r \in Reviews, a \in artifacts :
                    RecordReview(r, a, "ACCEPT") /\ step = ReviewStep(a.kind) /\ Acceptances(a) = {}
                      => \E k \in {"SPEC", "PLAN"} : SureFor(k)']_vars
  BY FirstReviewOpens
<1> QED
  BY <1>1, GateInvariant, PTL DEF FirstAcceptanceReopens

\* The other half of CurrentReviewSuffices: a stale accepting review is never
\* used up and never goes away, so it may be fetched, and the submission then be
\* refused, however many current reviews are recorded after it.
THEOREM StaleAcceptancesStay == Spec => StaleAcceptancesRemain
<1>1. GateInv /\ [Next]_vars
        => [\A r \in Reviews, a \in artifacts : StaleFor(r, a) => StaleFor(r, a)']_vars
  BY StaleStep
<1> QED
  BY <1>1, GateInvariant, PTL DEF Spec, StaleAcceptancesRemain
=============================================================================

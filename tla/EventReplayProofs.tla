-------------------------- MODULE EventReplayProofs --------------------------
(***************************************************************************)
(* The replay accepts every history, for any number of phases, sessions,   *)
(* requests and clock values.  The argument: the fold and the rows move    *)
(* together, one event at a time (Agrees), which needs the ladder of the   *)
(* phases, the place a lease holds and the gate of the evidence, that is,  *)
(* the invariant of the store.                                             *)
(***************************************************************************)
EXTENDS EventReplay, RunStoreProofs

\* Types of the columns that only the replay looks at.
ColumnsTyped ==
  /\ joined \in [Sessions -> [rev : Nat, at : Times] \cup {None}]
  /\ left \in [Sessions -> Times \cup {None}]
  /\ updated \in [Phases -> Times \cup {None}]
  /\ \A s \in Sessions : member[s] # "NONE" => joined[s] \in [rev : Nat, at : Times]
  /\ \A s \in Sessions : member[s] # "REVOKED" => left[s] = None
  /\ stage # "PLANNING" => updated \in [Phases -> Times]

\* Identifiers are revisions of the past.
IdsBounded ==
  /\ \A b \in batches : b \in [id : Nat, result : Evidence] /\ b.id <= revision
  /\ \A d \in drives : d.seq \in Nat /\ d.seq <= revision
  /\ \A c \in confirmations : c.seq \in Nat /\ c.seq <= revision

ExtrasTyped == ColumnsTyped /\ IdsBounded

\* The latest verdict is the result of the batch with the highest id.
LatestIsLast ==
  \/ seen.latest = None /\ batches = {}
  \/ \E b \in batches : b.result = seen.latest /\ \A o \in batches : o.id <= b.id

\* Before the first acceptance there is no RUN_ACCEPTED.
NoEarlyAcceptance == stage # "ACCEPTED" => seen.accepted = {}

Earned(d) == d.result.ready /\ ~d.result.failed

\* A drive that earns a FIT follows a passing batch at once.
DrivesEarned ==
  \A d \in drives : Earned(d) =>
    \E b \in batches :
      /\ b.id < d.seq /\ b.result.passed
      /\ \A o \in batches : o.id <= b.id \/ o.id > d.seq

\* A FIT confirms a drive that earns it.
FitsEarned ==
  \A c \in confirmations : c.outcome = "FIT" =>
    \E d \in drives : d.request = c.drive /\ d.seq < c.seq /\ Earned(d)

History == LatestIsLast /\ NoEarlyAcceptance /\ DrivesEarned /\ FitsEarned

IInv == Inv /\ ExtrasTyped /\ ReplayAgrees /\ History

USE PhasesAssumption DEF Phases, Person, Phase, Changes

-----------------------------------------------------------------------------
(* The store underneath.                                                   *)

LEMMA StepIsStoreStep == [Next]_vars => [StoreNext]_store
  <1> SUFFICES ASSUME Next PROVE StoreNext
    BY DEF vars
  <1> USE DEF StoreNext
  <1>1. CASE \E t \in Times : ActivateLogged(t)
    BY <1>1 DEF ActivateLogged
  <1>2. CASE \E s \in Sessions, c \in Calls, declared \in SUBSET Paths, before \in Digest :
               AuthorizeLogged(s, c, declared, before)
    BY <1>2 DEF AuthorizeLogged
  <1>3. CASE \E s \in Sessions, c \in Calls, digest \in Digest, actual \in SUBSET Paths, t \in Times :
               WriteLogged(s, c, digest, actual, t)
    BY <1>3 DEF WriteLogged
  <1>4. CASE \E c \in Calls : RecoverLogged(c)
    BY <1>4 DEF RecoverLogged
  <1>5. CASE \E p \in Phases, outcome \in {"changed", "no-change"}, t \in Times : CompleteLogged(p, outcome, t)
    BY <1>5 DEF CompleteLogged
  <1>6. CASE (\E t \in Times : ReopenLogged(t)) \/ RejectLogged \/ ApproveLogged
    BY <1>6 DEF ReopenLogged, RejectLogged, ApproveLogged
  <1>7. CASE \E e \in Evidence, t \in Times : VerifyLogged(e, t)
    BY <1>7 DEF VerifyLogged
  <1>8. CASE \E code \in BlockCodes : BlockLogged(code)
    BY <1>8 DEF BlockLogged
  <1>9. CASE \E s \in Sessions, t \in Times : AttachLogged(s, t) \/ RevokeLogged(s, t)
    BY <1>9 DEF AttachLogged, RevokeLogged
  <1>10. CASE (\E q \in Requests : DriveLogged(q)) \/ (\E q \in Requests, d \in drives : ConfirmLogged(q, d))
    BY <1>10 DEF DriveLogged, ConfirmLogged
  <1>11. QED
    BY <1>1, <1>2, <1>3, <1>4, <1>5, <1>6, <1>7, <1>8, <1>9, <1>10 DEF Next

LEMMA StoreKept == IInv /\ [Next]_vars => Inv'
  BY StepIsStoreStep, NextInv DEF IInv

-----------------------------------------------------------------------------
(* What the fold makes of an event, field by field.                        *)

LEMMA FoldCounts ==
  ASSUME NEW e, NEW r, NEW b, NEW a
  PROVE  /\ Replay(r, e, b, a).count = r.count + 1
         /\ Replay(r, e, b, a).stage = a
         /\ Replay(r, e, b, a).broken = (r.broken \/ Rejects(r, e, b))
         /\ Replay(r, e, b, a).people = ReplayPeople(r.people, e, r.count + 1)
         /\ Replay(r, e, b, a).phases = ReplayPhases(r.phases, e)
         /\ Replay(r, e, b, a).open = ReplayOpen(r.open, e)
  BY DEF Replay

LEMMA FoldKeepsContent ==
  ASSUME NEW e, NEW r, NEW b, NEW a,
         e.type \notin {"WRITE_RECORDED", "PLAN_APPROVAL_RECEIPT_CONSUMED", "CHANGES_REQUESTED"} \cup Verdicts
  PROVE  /\ Replay(r, e, b, a).ws = r.ws
         /\ Replay(r, e, b, a).evidence = r.evidence
         /\ Replay(r, e, b, a).batches = r.batches
         /\ Replay(r, e, b, a).latest = r.latest
  BY DEF Replay

LEMMA FoldKeepsRest ==
  ASSUME NEW e, NEW r, NEW b, NEW a
  PROVE  /\ e.type # "RUN_BLOCKED" => Replay(r, e, b, a).blocked = r.blocked
         /\ e.type # "RUN_ACCEPTED" => Replay(r, e, b, a).accepted = r.accepted
         /\ e.type # "QUALITY_DRIVEN" => Replay(r, e, b, a).drives = r.drives
         /\ e.type # "QUALITY_FITNESS_CONFIRMED" =>
              Replay(r, e, b, a).confirmations = r.confirmations
         /\ e.type \notin Verdicts =>
              /\ Replay(r, e, b, a).batches = r.batches
              /\ Replay(r, e, b, a).latest = r.latest
         /\ e.type # "WRITE_RECORDED" => Replay(r, e, b, a).ws = r.ws
  BY DEF Replay

LEMMA FoldKeepsRows ==
  ASSUME NEW e, NEW r, NEW rev
  PROVE  /\ e.type \notin {"SESSION_ATTACHED", "SESSION_REVOKED"} => ReplayPeople(r.people, e, rev) = r.people
         /\ e.type \notin {"PLAN_APPROVAL_RECEIPT_CONSUMED", "WRITE_RECORDED", "PHASE_COMPLETED",
                           "VERIFICATION_FAILED", "CHANGES_REQUESTED"} => ReplayPhases(r.phases, e) = r.phases
         /\ e.type \notin {"WRITE_AUTHORIZED", "WRITE_RECORDED", "WRITE_RECOVERED"} => ReplayOpen(r.open, e) = r.open
  BY DEF ReplayPeople, ReplayPhases, ReplayOpen

-----------------------------------------------------------------------------
(* Events that leave the participants, the phases and the logs alone.      *)

LEMMA HistoryKept ==
  ASSUME IInv, stage' # "ACCEPTED" => stage # "ACCEPTED",
         UNCHANGED <<batches, drives, confirmations>>,
         seen'.latest = seen.latest, seen'.accepted = seen.accepted
  PROVE  History' /\ QualitySound'
  <1>1. LatestIsLast' /\ NoEarlyAcceptance'
    BY DEF IInv, History, LatestIsLast, NoEarlyAcceptance
  <1>2. DrivesEarned' /\ FitsEarned'
    BY DEF IInv, History, DrivesEarned, FitsEarned, Earned
  <1>3. QualitySound'
    BY DEF IInv, ReplayAgrees, QualitySound
  <1>4. QED
    BY <1>1, <1>2, <1>3 DEF History

LEMMA IdsKept ==
  ASSUME IInv, revision' = revision + 1, UNCHANGED <<batches, drives, confirmations>>
  PROVE  IdsBounded'
  <1>1. revision \in Nat
    BY DEF IInv, Inv, TypeOK
  <1>2. \A n \in Nat : n <= revision => n <= revision'
    BY <1>1
  <1>3. \A b \in batches : b.id \in Nat
    BY DEF IInv, ExtrasTyped, IdsBounded
  <1>4. QED
    BY <1>2, <1>3 DEF IInv, ExtrasTyped, IdsBounded

LEMMA ColumnsKept ==
  ASSUME IInv, UNCHANGED <<joined, left, updated, member>>,
         stage' # "PLANNING" => stage # "PLANNING"
  PROVE  ColumnsTyped'
  BY DEF IInv, ExtrasTyped, ColumnsTyped

LEMMA PeopleKept ==
  ASSUME IInv, UNCHANGED <<member, joined, left>>, seen'.people = seen.people
  PROVE  PeopleMatch' /\ PeopleSound'
  BY DEF IInv, ReplayAgrees, PeopleMatch, PeopleSound, PersonRow

LEMMA PhasesKept ==
  ASSUME IInv, UNCHANGED <<status, touched, updated>>, seen'.phases = seen.phases
  PROVE  PhasesMatch'
  BY DEF IInv, ReplayAgrees, PhasesMatch, PhaseRow

LEMMA RejectPreserves == ASSUME IInv, RejectLogged PROVE ExtrasTyped' /\ ReplayAgrees' /\ History'
  <1> DEFINE e == [type |-> "PLANNING_SUBMISSION_REJECTED"]
  <1>1. /\ seen' = Replay(seen, e, stage, stage')
        /\ UNCHANGED <<stage, active, ws, evidence, blocked, status, touched, lease, member>>
        /\ UNCHANGED extras
        /\ revision' = revision + 1
    BY DEF RejectLogged, RecordRejection, Event, Log
  <1>2. ~Rejects(seen, e, stage)
    BY DEF Rejects, IInv, ReplayAgrees, AnchorsMatch
  <1>3. ~seen'.broken /\ AnchorsMatch' /\ seen'.latest = seen.latest /\ seen'.accepted = seen.accepted
    BY <1>1, <1>2 DEF Replay, IInv, ReplayAgrees, AnchorsMatch, Verdicts
  <1>4. /\ seen'.people = seen.people /\ seen'.phases = seen.phases /\ seen'.open = seen.open
        /\ seen'.batches = seen.batches /\ seen'.drives = seen.drives
        /\ seen'.confirmations = seen.confirmations
    BY <1>1 DEF Replay, ReplayPeople, ReplayPhases, ReplayOpen, Verdicts
  <1>5. PeopleMatch' /\ PeopleSound' /\ PhasesMatch' /\ LeaseMatch' /\ LogsMatch'
    BY <1>1, <1>4, PeopleKept, PhasesKept DEF extras, IInv, ReplayAgrees, LeaseMatch, LogsMatch
  <1>6. History' /\ QualitySound'
    BY <1>1, <1>3, HistoryKept DEF extras
  <1>7. PhasesSound' /\ LeaseSound'
    BY <1>1 DEF IInv, ReplayAgrees, PhasesSound, LeaseSound
  <1>8. EvidenceSound'
    BY <1>1, <1>3 DEF IInv, Inv, TypeOK, ReplayAgrees, EvidenceSound
  <1>9. ExtrasTyped'
    BY <1>1, IdsKept, ColumnsKept DEF ExtrasTyped, extras
  <1>10. QED
    BY <1>3, <1>5, <1>6, <1>7, <1>8, <1>9 DEF ReplayAgrees

LEMMA BlockLoggedPreserves ==
  ASSUME IInv, NEW code \in BlockCodes, BlockLogged(code)
  PROVE  ExtrasTyped' /\ ReplayAgrees' /\ History'
  <1> DEFINE e == [type |-> "RUN_BLOCKED", code |-> code]
  <1>1. /\ seen' = Replay(seen, e, stage, stage')
        /\ UNCHANGED <<stage, active, ws, evidence, status, touched, lease, member>>
        /\ UNCHANGED extras
        /\ revision' = revision + 1
        /\ blocked' = code
    BY DEF BlockLogged, Block, Event, Log
  <1>2. ~Rejects(seen, e, stage)
    BY DEF Rejects, IInv, ReplayAgrees, AnchorsMatch
  <1>3. ~seen'.broken /\ AnchorsMatch' /\ seen'.latest = seen.latest /\ seen'.accepted = seen.accepted
    BY <1>1, <1>2 DEF Replay, IInv, ReplayAgrees, AnchorsMatch, Verdicts
  <1>4. /\ seen'.people = seen.people /\ seen'.phases = seen.phases /\ seen'.open = seen.open
        /\ seen'.batches = seen.batches /\ seen'.drives = seen.drives
        /\ seen'.confirmations = seen.confirmations
    BY <1>1 DEF Replay, ReplayPeople, ReplayPhases, ReplayOpen, Verdicts
  <1>5. PeopleMatch' /\ PeopleSound' /\ PhasesMatch' /\ LeaseMatch' /\ LogsMatch'
    BY <1>1, <1>4, PeopleKept, PhasesKept DEF extras, IInv, ReplayAgrees, LeaseMatch, LogsMatch
  <1>6. History' /\ QualitySound'
    BY <1>1, <1>3, HistoryKept DEF extras
  <1>7. PhasesSound' /\ LeaseSound'
    BY <1>1 DEF IInv, ReplayAgrees, PhasesSound, LeaseSound
  <1>8. EvidenceSound'
    BY <1>1, <1>3 DEF IInv, Inv, TypeOK, ReplayAgrees, EvidenceSound
  <1>9. ExtrasTyped'
    BY <1>1, IdsKept, ColumnsKept DEF ExtrasTyped, extras
  <1>10. QED
    BY <1>3, <1>5, <1>6, <1>7, <1>8, <1>9 DEF ReplayAgrees

LEMMA AuthorizePreserves ==
  ASSUME IInv, NEW s \in Sessions, NEW c \in Calls, NEW declared \in SUBSET Paths,
         NEW before \in Digest, AuthorizeLogged(s, c, declared, before)
  PROVE  ExtrasTyped' /\ ReplayAgrees' /\ History'
  <1> DEFINE e == [type |-> "WRITE_AUTHORIZED", lease |-> lease']
  <1>1. /\ seen' = Replay(seen, e, stage, stage')
        /\ UNCHANGED <<stage, active, ws, evidence, blocked, status, touched, member>>
        /\ UNCHANGED extras
        /\ revision' = revision + 1
        /\ lease = None /\ lease'.phase = active /\ status[active] = "ACTIVE"
    BY DEF AuthorizeLogged, CreateWriteLease, CanCreateLease, Event, Log,
           PeopleRowsKept, PhaseRowsKept, QualityKept, extras
  <1>2. lease' # None
    <2>1. active \in Phases /\ revision' \in Nat
      BY DEF AuthorizeLogged, CreateWriteLease, CanCreateLease, Event, IInv, Inv, TypeOK
    <2>2. lease' \in Lease
      BY <2>1 DEF AuthorizeLogged, CreateWriteLease, CanCreateLease, Lease
    <2>3. QED
      BY <2>2, NoneAssumption
  <1>3. ~Rejects(seen, e, stage)
    BY DEF Rejects, IInv, ReplayAgrees, AnchorsMatch
  <1>4. ~seen'.broken /\ AnchorsMatch' /\ seen'.latest = seen.latest /\ seen'.accepted = seen.accepted
    BY <1>1, <1>3 DEF Replay, IInv, ReplayAgrees, AnchorsMatch, Verdicts
  <1>5. /\ seen'.people = seen.people /\ seen'.phases = seen.phases
        /\ seen'.open = seen.open \cup {lease'}
        /\ seen'.batches = seen.batches /\ seen'.drives = seen.drives
        /\ seen'.confirmations = seen.confirmations
    BY <1>1 DEF Replay, ReplayPeople, ReplayPhases, ReplayOpen, Verdicts
  <1>6. PeopleMatch' /\ PeopleSound' /\ PhasesMatch' /\ LeaseMatch' /\ LogsMatch'
    BY <1>1, <1>2, <1>5, PeopleKept, PhasesKept DEF extras, IInv, ReplayAgrees, LeaseMatch, LogsMatch
  <1>7. History' /\ QualitySound'
    BY <1>1, <1>4, HistoryKept DEF extras
  <1>8. PhasesSound' /\ LeaseSound'
    BY <1>1 DEF IInv, ReplayAgrees, PhasesSound, LeaseSound
  <1>9. EvidenceSound'
    BY <1>1, <1>4 DEF IInv, Inv, TypeOK, ReplayAgrees, EvidenceSound
  <1>10. ExtrasTyped'
    BY <1>1, IdsKept, ColumnsKept DEF ExtrasTyped, extras
  <1>11. QED
    BY <1>4, <1>6, <1>7, <1>8, <1>9, <1>10 DEF ReplayAgrees

LEMMA RecoverPreserves ==
  ASSUME IInv, NEW c \in Calls, RecoverLogged(c)
  PROVE  ExtrasTyped' /\ ReplayAgrees' /\ History'
  <1> DEFINE e == [type |-> "WRITE_RECOVERED", call |-> c]
  <1>1. /\ seen' = Replay(seen, e, stage, stage')
        /\ UNCHANGED <<stage, active, ws, evidence, blocked, status, touched, member>>
        /\ UNCHANGED extras
        /\ revision' = revision + 1
        /\ lease # None /\ lease.call = c /\ lease' = None
    BY DEF RecoverLogged, CancelUnchangedLease, CanCancelLease, Event, Log,
           PeopleRowsKept, PhaseRowsKept, QualityKept, extras
  <1>2. ~Rejects(seen, e, stage)
    BY DEF Rejects, IInv, ReplayAgrees, AnchorsMatch
  <1>3. ~seen'.broken /\ AnchorsMatch' /\ seen'.latest = seen.latest /\ seen'.accepted = seen.accepted
    BY <1>1, <1>2 DEF Replay, IInv, ReplayAgrees, AnchorsMatch, Verdicts
  <1>4. /\ seen'.people = seen.people /\ seen'.phases = seen.phases
        /\ seen'.open = {l \in seen.open : l.call # c}
        /\ seen'.batches = seen.batches /\ seen'.drives = seen.drives
        /\ seen'.confirmations = seen.confirmations
    BY <1>1 DEF Replay, ReplayPeople, ReplayPhases, ReplayOpen, Verdicts
  <1>5. LeaseMatch'
    BY <1>1, <1>4 DEF IInv, ReplayAgrees, LeaseMatch
  <1>6. PeopleMatch' /\ PeopleSound' /\ PhasesMatch' /\ LogsMatch'
    BY <1>1, <1>4, PeopleKept, PhasesKept DEF extras, IInv, ReplayAgrees, LogsMatch
  <1>7. History' /\ QualitySound'
    BY <1>1, <1>3, HistoryKept DEF extras
  <1>8. PhasesSound' /\ LeaseSound'
    BY <1>1 DEF IInv, ReplayAgrees, PhasesSound, LeaseSound
  <1>9. EvidenceSound'
    BY <1>1, <1>3 DEF IInv, Inv, TypeOK, ReplayAgrees, EvidenceSound
  <1>10. ExtrasTyped'
    BY <1>1, IdsKept, ColumnsKept DEF ExtrasTyped, extras
  <1>11. QED
    BY <1>3, <1>5, <1>6, <1>7, <1>8, <1>9, <1>10 DEF ReplayAgrees

LEMMA ApproveLoggedPreserves ==
  ASSUME IInv, ApproveLogged PROVE ExtrasTyped' /\ ReplayAgrees' /\ History'
  <1> DEFINE e == [type |-> "RUN_ACCEPTED", ws |-> ws, result |-> evidence]
  <1>1. /\ seen' = Replay(seen, e, stage, stage')
        /\ stage = "REVIEW_REQUIRED" /\ stage' = "ACCEPTED"
        /\ active' = 0
        /\ UNCHANGED <<ws, evidence, blocked, status, touched, lease, member>>
        /\ UNCHANGED extras
        /\ revision' = revision + 1 /\ revision \in Nat
        /\ evidence # None
    BY DEF ApproveLogged, Approve, CanApprove, Event, Log, IInv, Inv, TypeOK
  <1>2. ~Rejects(seen, e, stage)
    BY DEF Rejects, IInv, ReplayAgrees, AnchorsMatch
  <1>3. /\ ~seen'.broken /\ AnchorsMatch' /\ seen'.latest = seen.latest
        /\ seen'.accepted = {[id |-> revision', ws |-> ws, result |-> evidence]}
    BY <1>1, <1>2 DEF Replay, IInv, ReplayAgrees, AnchorsMatch, Verdicts, History, NoEarlyAcceptance
  <1>4. /\ seen'.people = seen.people /\ seen'.phases = seen.phases /\ seen'.open = seen.open
        /\ seen'.batches = seen.batches /\ seen'.drives = seen.drives
        /\ seen'.confirmations = seen.confirmations
    BY <1>1 DEF Replay, ReplayPeople, ReplayPhases, ReplayOpen, Verdicts
  <1>5. PeopleMatch' /\ PeopleSound' /\ PhasesMatch' /\ LeaseMatch' /\ LogsMatch'
    BY <1>1, <1>4, PeopleKept, PhasesKept DEF extras, IInv, ReplayAgrees, LeaseMatch, LogsMatch
  <1>6. LatestIsLast' /\ DrivesEarned' /\ FitsEarned' /\ QualitySound'
    BY <1>1, <1>3 DEF extras, IInv, History, ReplayAgrees, LatestIsLast, DrivesEarned, FitsEarned,
       QualitySound, Earned
  <1>7. NoEarlyAcceptance'
    BY <1>1 DEF NoEarlyAcceptance
  <1>8. PhasesSound' /\ LeaseSound'
    BY <1>1 DEF IInv, ReplayAgrees, PhasesSound, LeaseSound
  <1>9. EvidenceSound'
    <2>1. revision' \in 1..revision'
      BY <1>1
    <2>2. QED
      BY <1>1, <1>3, <2>1 DEF IInv, ReplayAgrees, EvidenceSound
  <1>10. ExtrasTyped'
    BY <1>1, IdsKept, ColumnsKept DEF ExtrasTyped, extras
  <1>11. QED
    BY <1>3, <1>5, <1>6, <1>7, <1>8, <1>9, <1>10 DEF ReplayAgrees, History

-----------------------------------------------------------------------------
(* Participants.                                                           *)

LEMMA AttachPreserves ==
  ASSUME IInv, NEW s \in Sessions, NEW t \in Times, AttachLogged(s, t)
  PROVE  ExtrasTyped' /\ ReplayAgrees' /\ History'
  <1> DEFINE e == [type |-> "SESSION_ATTACHED", session |-> s, at |-> t]
  <1>1. /\ seen' = Replay(seen, e, stage, stage')
        /\ UNCHANGED <<stage, active, ws, evidence, blocked, status, touched, lease>>
        /\ UNCHANGED <<left, updated, batches, drives, confirmations>>
        /\ revision' = revision + 1
        /\ member[s] = "NONE" /\ member' = [member EXCEPT ![s] = "ACTIVE"]
        /\ joined' = [joined EXCEPT ![s] = [rev |-> revision', at |-> t]]
    BY DEF AttachLogged, AttachSession, Event, Log, QualityKept
  <1>0. [rev |-> revision', at |-> t] \in [rev : Nat, at : Times]
    BY <1>1 DEF IInv, Inv, TypeOK
  <1>2. left[s] = None
    BY <1>1 DEF IInv, ExtrasTyped, ColumnsTyped
  <1>3. ~Rejects(seen, e, stage)
    BY <1>1 DEF Rejects, IInv, ReplayAgrees, AnchorsMatch, PeopleMatch, PersonRow
  <1>4. ~seen'.broken /\ AnchorsMatch' /\ seen'.latest = seen.latest /\ seen'.accepted = seen.accepted
    BY <1>1, <1>3 DEF Replay, IInv, ReplayAgrees, AnchorsMatch, Verdicts
  <1>5. /\ seen'.phases = seen.phases /\ seen'.open = seen.open
        /\ seen'.batches = seen.batches /\ seen'.drives = seen.drives
        /\ seen'.confirmations = seen.confirmations
    BY <1>1 DEF Replay, ReplayPhases, ReplayOpen, Verdicts
  <1>6. seen'.people = [seen.people EXCEPT ![s] = [status |-> "ACTIVE", rev |-> revision', at |-> t, left |-> None]]
    BY <1>1 DEF Replay, ReplayPeople, IInv, ReplayAgrees, AnchorsMatch
  <1>7. PeopleMatch'
    <2>1. joined'[s] = [rev |-> revision', at |-> t] /\ member'[s] = "ACTIVE"
      BY <1>1 DEF IInv, ExtrasTyped, ColumnsTyped, Inv, TypeOK
    <2>2. PersonRow(s)' = [status |-> "ACTIVE", rev |-> revision', at |-> t, left |-> None]
      BY <1>1, <1>2, <2>1 DEF PersonRow
    <2>3. \A u \in Sessions \ {s} : PersonRow(u)' = PersonRow(u)
      BY <1>1 DEF PersonRow
    <2>4. QED
      BY <1>6, <2>2, <2>3 DEF IInv, ReplayAgrees, PeopleMatch
  <1>8. PeopleSound'
    BY <1>1 DEF IInv, ReplayAgrees, PeopleSound, Inv, TypeOK, ExtrasTyped, ColumnsTyped
  <1>9. PhasesMatch' /\ LeaseMatch' /\ LogsMatch'
    BY <1>1, <1>5, PhasesKept DEF IInv, ReplayAgrees, LeaseMatch, LogsMatch
  <1>10. History' /\ QualitySound'
    BY <1>1, <1>4, HistoryKept
  <1>11. PhasesSound' /\ LeaseSound'
    BY <1>1 DEF IInv, ReplayAgrees, PhasesSound, LeaseSound
  <1>12. EvidenceSound'
    BY <1>1, <1>4 DEF IInv, Inv, TypeOK, ReplayAgrees, EvidenceSound
  <1>13. ExtrasTyped'
    <2>1. joined' \in [Sessions -> [rev : Nat, at : Times] \cup {None}]
      BY <1>1, <1>0 DEF IInv, ExtrasTyped, ColumnsTyped
    <2>2. \A u \in Sessions : (member'[u] # "NONE" => joined'[u] \in [rev : Nat, at : Times])
                             /\ (member'[u] # "REVOKED" => left'[u] = None)
      BY <1>1, <1>0 DEF IInv, ExtrasTyped, ColumnsTyped, Inv, TypeOK
    <2>3. QED
      BY <1>1, <2>1, <2>2, IdsKept DEF IInv, ExtrasTyped, ColumnsTyped
  <1>14. QED
    BY <1>4, <1>7, <1>8, <1>9, <1>10, <1>11, <1>12, <1>13 DEF ReplayAgrees

LEMMA RevokePreserves ==
  ASSUME IInv, NEW s \in Sessions, NEW t \in Times, RevokeLogged(s, t)
  PROVE  ExtrasTyped' /\ ReplayAgrees' /\ History'
  <1> DEFINE e == [type |-> "SESSION_REVOKED", session |-> s, at |-> t]
  <1>1. /\ seen' = Replay(seen, e, stage, stage')
        /\ UNCHANGED <<stage, active, ws, evidence, blocked, status, touched, lease>>
        /\ UNCHANGED <<joined, updated, batches, drives, confirmations>>
        /\ revision' = revision + 1
        /\ member[s] = "ACTIVE" /\ member' = [member EXCEPT ![s] = "REVOKED"]
        /\ t >= joined[s].at
        /\ left' = [left EXCEPT ![s] = t]
    BY DEF RevokeLogged, RevokeSession, Event, Log, QualityKept
  <1>2. seen.people[s] = [status |-> "ACTIVE", rev |-> joined[s].rev, at |-> joined[s].at, left |-> left[s]]
    BY <1>1 DEF IInv, ReplayAgrees, PeopleMatch, PersonRow
  <1>3. seen.people[s] # None
    <2>1. seen.people[s] \in PersonRows
      BY <1>1, <1>2 DEF IInv, ExtrasTyped, ColumnsTyped, PersonRows
    <2>2. QED
      BY <2>1, NoRowAssumption
  <1>4. ~Rejects(seen, e, stage)
    BY <1>2, <1>3 DEF Rejects, IInv, ReplayAgrees, AnchorsMatch
  <1>5. ~seen'.broken /\ AnchorsMatch' /\ seen'.latest = seen.latest /\ seen'.accepted = seen.accepted
    BY <1>1, <1>4 DEF Replay, IInv, ReplayAgrees, AnchorsMatch, Verdicts
  <1>6. /\ seen'.phases = seen.phases /\ seen'.open = seen.open
        /\ seen'.batches = seen.batches /\ seen'.drives = seen.drives
        /\ seen'.confirmations = seen.confirmations
    BY <1>1 DEF Replay, ReplayPhases, ReplayOpen, Verdicts
  <1>7. seen'.people = [seen.people EXCEPT ![s] = Person("REVOKED", @.rev, @.at, t)]
    BY <1>1, <1>3 DEF Replay, ReplayPeople
  <1>8. PeopleMatch'
    <2>1. member'[s] = "REVOKED" /\ left'[s] = t
      BY <1>1 DEF IInv, ExtrasTyped, ColumnsTyped, Inv, TypeOK
    <2>2. PersonRow(s)' = [status |-> "REVOKED", rev |-> joined[s].rev, at |-> joined[s].at, left |-> t]
      BY <1>1, <2>1 DEF PersonRow
    <2>3. \A u \in Sessions \ {s} : PersonRow(u)' = PersonRow(u)
      BY <1>1 DEF PersonRow
    <2>4. seen'.people[s] = PersonRow(s)'
      BY <1>2, <1>7, <2>2 DEF IInv, ReplayAgrees, PeopleMatch
    <2>5. QED
      BY <1>7, <2>3, <2>4 DEF IInv, ReplayAgrees, PeopleMatch
  <1>9. PeopleSound'
    BY <1>1 DEF IInv, ReplayAgrees, PeopleSound, Inv, TypeOK, ExtrasTyped, ColumnsTyped
  <1>10. PhasesMatch' /\ LeaseMatch' /\ LogsMatch'
    BY <1>1, <1>6, PhasesKept DEF IInv, ReplayAgrees, LeaseMatch, LogsMatch
  <1>11. History' /\ QualitySound'
    BY <1>1, <1>5, HistoryKept
  <1>12. PhasesSound' /\ LeaseSound'
    BY <1>1 DEF IInv, ReplayAgrees, PhasesSound, LeaseSound
  <1>13. EvidenceSound'
    BY <1>1, <1>5 DEF IInv, Inv, TypeOK, ReplayAgrees, EvidenceSound
  <1>14. ExtrasTyped'
    <2>1. left' \in [Sessions -> Times \cup {None}]
      BY <1>1 DEF IInv, ExtrasTyped, ColumnsTyped
    <2>2. \A u \in Sessions : (member'[u] # "NONE" => joined'[u] \in [rev : Nat, at : Times])
                             /\ (member'[u] # "REVOKED" => left'[u] = None)
      BY <1>1 DEF IInv, ExtrasTyped, ColumnsTyped, Inv, TypeOK
    <2>3. QED
      BY <1>1, <2>1, <2>2, IdsKept DEF IInv, ExtrasTyped, ColumnsTyped
  <1>15. QED
    BY <1>5, <1>8, <1>9, <1>10, <1>11, <1>12, <1>13, <1>14 DEF ReplayAgrees

-----------------------------------------------------------------------------
(* Quality.                                                                *)

LEMMA DrivePreserves ==
  ASSUME IInv, NEW q \in Requests, DriveLogged(q)
  PROVE  ExtrasTyped' /\ ReplayAgrees' /\ History'
  <1> DEFINE d == [request |-> q, seq |-> revision', result |-> Projection]
             e == [type |-> "QUALITY_DRIVEN", drive |-> d]
  <1>1. /\ seen' = Replay(seen, e, stage, stage')
        /\ UNCHANGED <<stage, active, ws, evidence, blocked, status, touched, lease, member>>
        /\ UNCHANGED <<joined, left, updated, batches, confirmations>>
        /\ revision' = revision + 1 /\ revision \in Nat
        /\ drives' = drives \cup {d}
        /\ \A r \in drives : r.request # q
    BY DEF DriveLogged, DriveQuality, Event, Log, Known, IInv, Inv, TypeOK
  <1>2. ~Rejects(seen, e, stage)
    BY DEF Rejects, IInv, ReplayAgrees, AnchorsMatch
  <1>3. ~seen'.broken /\ AnchorsMatch' /\ seen'.latest = seen.latest /\ seen'.accepted = seen.accepted
    BY <1>1, <1>2 DEF Replay, IInv, ReplayAgrees, AnchorsMatch, Verdicts
  <1>4. /\ seen'.people = seen.people /\ seen'.phases = seen.phases /\ seen'.open = seen.open
        /\ seen'.batches = seen.batches /\ seen'.drives = seen.drives \cup {d}
        /\ seen'.confirmations = seen.confirmations
    BY <1>1 DEF Replay, ReplayPeople, ReplayPhases, ReplayOpen, Verdicts
  <1>5. PeopleMatch' /\ PeopleSound' /\ PhasesMatch' /\ LeaseMatch' /\ LogsMatch'
    BY <1>1, <1>4, PeopleKept, PhasesKept DEF IInv, ReplayAgrees, LeaseMatch, LogsMatch
  <1>6. \A r \in drives : r.seq \in Nat /\ r.seq < revision'
    BY <1>1 DEF IInv, ExtrasTyped, IdsBounded
  <1>7. QualitySound'
    <2>1. \A c \in confirmations : \E r \in drives' : r.request = c.drive
      BY <1>1 DEF IInv, ReplayAgrees, QualitySound
    <2>2. \A r, o \in drives' : r.request = o.request \/ r.seq = o.seq => r = o
      BY <1>1, <1>6 DEF IInv, ReplayAgrees, QualitySound
    <2>3. QED
      BY <1>1, <2>1, <2>2 DEF IInv, ReplayAgrees, QualitySound
  <1>8. LatestIsLast' /\ NoEarlyAcceptance'
    BY <1>1, <1>3 DEF IInv, History, LatestIsLast, NoEarlyAcceptance
  <1>9. DrivesEarned'
    <2>1. SUFFICES ASSUME Earned(d)
                   PROVE  \E b \in batches :
                            /\ b.id < d.seq /\ b.result.passed
                            /\ \A o \in batches : o.id <= b.id \/ o.id > d.seq
      BY <1>1 DEF DrivesEarned, IInv, History, Earned
    <2>2. stage = "REVIEW_REQUIRED"
      BY <2>1 DEF Earned, Projection
    <2>3. evidence # None /\ evidence.passed /\ seen.latest = evidence
      BY <2>2 DEF IInv, Inv, EvidenceGate, ReplayAgrees, EvidenceSound
    <2>4. PICK b \in batches : b.result = seen.latest /\ \A o \in batches : o.id <= b.id
      BY <2>3 DEF IInv, History, LatestIsLast
    <2>5. b.id < revision'
      BY <1>1 DEF IInv, ExtrasTyped, IdsBounded
    <2>6. QED
      BY <2>3, <2>4, <2>5
  <1>10. FitsEarned'
    BY <1>1 DEF FitsEarned, IInv, History, Earned
  <1>11. PhasesSound' /\ LeaseSound'
    BY <1>1 DEF IInv, ReplayAgrees, PhasesSound, LeaseSound
  <1>12. EvidenceSound'
    BY <1>1, <1>3 DEF IInv, Inv, TypeOK, ReplayAgrees, EvidenceSound
  <1>13. IdsBounded'
    BY <1>1 DEF IInv, ExtrasTyped, IdsBounded
  <1>14. QED
    BY <1>1, <1>3, <1>5, <1>7, <1>8, <1>9, <1>10, <1>11, <1>12, <1>13, ColumnsKept
       DEF ReplayAgrees, History, ExtrasTyped

LEMMA ConfirmPreserves ==
  ASSUME IInv, NEW q \in Requests, NEW d \in drives, ConfirmLogged(q, d)
  PROVE  ExtrasTyped' /\ ReplayAgrees' /\ History'
  <1> DEFINE c == [request |-> q, seq |-> revision', drive |-> d.request, outcome |-> Fitness(d)]
             e == [type |-> "QUALITY_FITNESS_CONFIRMED", confirmation |-> c]
  <1>1. /\ seen' = Replay(seen, e, stage, stage')
        /\ UNCHANGED <<stage, active, ws, evidence, blocked, status, touched, lease, member>>
        /\ UNCHANGED <<joined, left, updated, batches, drives>>
        /\ revision' = revision + 1 /\ revision \in Nat
        /\ confirmations' = confirmations \cup {c}
        /\ \A r \in confirmations : r.request # q
    BY DEF ConfirmLogged, DriveQuality, Event, Log, Known, IInv, Inv, TypeOK
  <1>2. ~Rejects(seen, e, stage)
    BY DEF Rejects, IInv, ReplayAgrees, AnchorsMatch
  <1>3. ~seen'.broken /\ AnchorsMatch' /\ seen'.latest = seen.latest /\ seen'.accepted = seen.accepted
    BY <1>1, <1>2 DEF Replay, IInv, ReplayAgrees, AnchorsMatch, Verdicts
  <1>4. /\ seen'.people = seen.people /\ seen'.phases = seen.phases /\ seen'.open = seen.open
        /\ seen'.batches = seen.batches /\ seen'.drives = seen.drives
        /\ seen'.confirmations = seen.confirmations \cup {c}
    BY <1>1 DEF Replay, ReplayPeople, ReplayPhases, ReplayOpen, Verdicts
  <1>5. PeopleMatch' /\ PeopleSound' /\ PhasesMatch' /\ LeaseMatch' /\ LogsMatch'
    BY <1>1, <1>4, PeopleKept, PhasesKept DEF IInv, ReplayAgrees, LeaseMatch, LogsMatch
  <1>6. /\ \A r \in confirmations : r.seq \in Nat /\ r.seq < revision'
        /\ d.seq < revision'
    BY <1>1 DEF IInv, ExtrasTyped, IdsBounded
  <1>7. QualitySound'
    <2>1. \A r \in confirmations' : \E o \in drives : o.request = r.drive
      BY <1>1 DEF IInv, ReplayAgrees, QualitySound
    <2>2. \A r, o \in confirmations' : r.request = o.request \/ r.seq = o.seq => r = o
      BY <1>1, <1>6 DEF IInv, ReplayAgrees, QualitySound
    <2>3. QED
      BY <1>1, <2>1, <2>2 DEF IInv, ReplayAgrees, QualitySound
  <1>8. LatestIsLast' /\ NoEarlyAcceptance' /\ DrivesEarned'
    BY <1>1, <1>3 DEF IInv, History, LatestIsLast, NoEarlyAcceptance, DrivesEarned, Earned
  <1>9. FitsEarned'
    <2>1. Fitness(d) = "FIT" => Earned(d)
      BY DEF Fitness, Earned
    <2>2. \A r \in confirmations : r.outcome = "FIT" =>
            \E o \in drives : o.request = r.drive /\ o.seq < r.seq /\ Earned(o)
      BY DEF IInv, History, FitsEarned
    <2>3. c.outcome = "FIT" => \E o \in drives : o.request = c.drive /\ o.seq < c.seq /\ Earned(o)
      BY <1>6, <2>1
    <2>4. QED
      BY <1>1, <2>2, <2>3 DEF FitsEarned, Earned
  <1>10. PhasesSound' /\ LeaseSound'
    BY <1>1 DEF IInv, ReplayAgrees, PhasesSound, LeaseSound
  <1>11. EvidenceSound'
    BY <1>1, <1>3 DEF IInv, Inv, TypeOK, ReplayAgrees, EvidenceSound
  <1>12. IdsBounded'
    BY <1>1 DEF IInv, ExtrasTyped, IdsBounded
  <1>13. QED
    BY <1>1, <1>3, <1>5, <1>7, <1>8, <1>9, <1>10, <1>11, <1>12, ColumnsKept
       DEF ReplayAgrees, History, ExtrasTyped

-----------------------------------------------------------------------------
(* Phases, writes and verdicts.                                            *)

LEMMA PhaseRowsTyped ==
  ASSUME IInv, NEW p \in Phases, status[p] # "ABSENT", stage # "PLANNING"
  PROVE  /\ seen.phases[p] = Phase(status[p], Changes(p), updated[p])
         /\ seen.phases[p] # None
         /\ seen.phases[p].status = status[p]
         /\ seen.phases[p].changes = Changes(p)
  <1>1. seen.phases[p] = Phase(status[p], Changes(p), updated[p])
    BY DEF IInv, ReplayAgrees, PhasesMatch, PhaseRow
  <1>2. status[p] \in {"PENDING", "ACTIVE", "COMPLETED"} /\ updated[p] \in Times
    BY DEF IInv, Inv, TypeOK, Statuses, ExtrasTyped, ColumnsTyped
  <1>3. Phase(status[p], Changes(p), updated[p]) \in PhaseRows
    BY <1>2 DEF PhaseRows
  <1>4. QED
    BY <1>1, <1>3, NoRowAssumption

LEMMA ActivateLoggedPreserves ==
  ASSUME IInv, NEW t \in Times, ActivateLogged(t)
  PROVE  ExtrasTyped' /\ ReplayAgrees' /\ History'
  <1> DEFINE e == [type |-> "PLAN_APPROVAL_RECEIPT_CONSUMED", at |-> t]
  <1>1. /\ seen' = Replay(seen, e, stage, stage')
        /\ UNCHANGED <<ws, blocked, lease, member>>
        /\ UNCHANGED <<joined, left, batches, drives, confirmations>>
        /\ stage = "PLANNING" /\ stage' = "IMPLEMENTING" /\ active' = 1
        /\ status' = [p \in Phases |-> IF p = 1 THEN "ACTIVE" ELSE "PENDING"]
        /\ touched' = {} /\ evidence' = None
        /\ updated' = [p \in Phases |-> t]
        /\ revision' = revision + 1
    BY DEF ActivateLogged, ActivatePlan, CanActivate, Event, Log, PeopleRowsKept, QualityKept
  <1>2. lease = None
    BY <1>1 DEF IInv, Inv, LeasePinsRun
  <1>3. ~Rejects(seen, e, stage)
    BY DEF Rejects, IInv, ReplayAgrees, AnchorsMatch
  <1>4. ~seen'.broken /\ AnchorsMatch' /\ seen'.latest = seen.latest /\ seen'.accepted = seen.accepted
    BY <1>1, <1>3 DEF Replay, IInv, ReplayAgrees, AnchorsMatch, Verdicts
  <1>5. /\ seen'.people = seen.people /\ seen'.open = seen.open
        /\ seen'.phases = [p \in Phases |-> Phase(IF p = 1 THEN "ACTIVE" ELSE "PENDING", 0, t)]
        /\ seen'.batches = seen.batches /\ seen'.drives = seen.drives
        /\ seen'.confirmations = seen.confirmations
    BY <1>1 DEF Replay, ReplayPeople, ReplayPhases, ReplayOpen, Verdicts
  <1>6. PhasesMatch'
    BY <1>1, <1>5 DEF PhasesMatch, PhaseRow
  <1>7. PeopleMatch' /\ PeopleSound' /\ LeaseMatch' /\ LogsMatch'
    BY <1>1, <1>5, PeopleKept DEF IInv, ReplayAgrees, LeaseMatch, LogsMatch
  <1>8. History' /\ QualitySound'
    BY <1>1, <1>4, HistoryKept
  <1>9. PhasesSound' /\ LeaseSound'
    BY <1>1, <1>2 DEF PhasesSound, LeaseSound
  <1>10. EvidenceSound'
    BY <1>1 DEF EvidenceSound
  <1>11. ColumnsTyped'
    BY <1>1 DEF IInv, ExtrasTyped, ColumnsTyped
  <1>12. QED
    BY <1>1, <1>4, <1>6, <1>7, <1>8, <1>9, <1>10, <1>11, IdsKept DEF ReplayAgrees, ExtrasTyped

LEMMA WritePreserves ==
  ASSUME IInv, NEW s \in Sessions, NEW c \in Calls, NEW digest \in Digest,
         NEW actual \in SUBSET Paths, NEW t \in Times, WriteLogged(s, c, digest, actual, t)
  PROVE  ExtrasTyped' /\ ReplayAgrees' /\ History'
  <1>0. PICK p \in Phases : p = lease.phase /\ lease # None
    BY DEF WriteLogged, FinishWrite, CanFinishWrite, IInv, Inv, TypeOK, Lease
  <1> DEFINE e == [type |-> "WRITE_RECORDED", at |-> t, call |-> c, phase |-> p,
                   paths |-> actual, ws |-> digest]
  <1>1. /\ seen' = Replay(seen, e, stage, stage')
        /\ UNCHANGED <<stage, active, blocked, status, member>>
        /\ UNCHANGED <<joined, left, batches, drives, confirmations>>
        /\ lease # None /\ lease.call = c /\ lease' = None
        /\ touched' = IF actual = {} THEN touched ELSE touched \cup {p}
        /\ ws' = digest /\ evidence' = None
        /\ updated' = [updated EXCEPT ![p] = t]
        /\ revision' = revision + 1
    BY <1>0 DEF WriteLogged, FinishWrite, CanFinishWrite, Event, Log, PeopleRowsKept, QualityKept
  <1>2. p = active /\ stage = "IMPLEMENTING" /\ status[p] = "ACTIVE"
    BY <1>0 DEF IInv, Inv, TypeOK, Lease, LeasePinsRun, ReplayAgrees, LeaseSound
  <1>3. seen.phases[p] = Phase("ACTIVE", Changes(p), updated[p]) /\ seen.phases[p] # None
    BY <1>2, PhaseRowsTyped
  <1>4. ~Rejects(seen, e, stage)
    BY <1>3 DEF Rejects, IInv, ReplayAgrees, AnchorsMatch
  <1>5. ~seen'.broken /\ AnchorsMatch' /\ seen'.latest = seen.latest /\ seen'.accepted = seen.accepted
    BY <1>1, <1>4 DEF Replay, IInv, ReplayAgrees, AnchorsMatch, Verdicts
  <1>6. /\ seen'.people = seen.people
        /\ seen'.open = {l \in seen.open : l.call # c}
        /\ seen'.phases = [seen.phases EXCEPT ![p] = Phase(@.status, IF actual = {} THEN @.changes ELSE 1, t)]
        /\ seen'.batches = seen.batches /\ seen'.drives = seen.drives
        /\ seen'.confirmations = seen.confirmations
    BY <1>1 DEF Replay, ReplayPeople, ReplayPhases, ReplayOpen, Verdicts
  <1>7. PhasesMatch'
    <2>1. updated'[p] = t
      BY <1>1, <1>2 DEF IInv, ExtrasTyped, ColumnsTyped
    <2>2. PhaseRow(p)' = Phase("ACTIVE", IF actual = {} THEN Changes(p) ELSE 1, t)
      BY <1>1, <1>2, <2>1 DEF PhaseRow
    <2>3. \A q \in Phases \ {p} : PhaseRow(q)' = PhaseRow(q)
      BY <1>1 DEF PhaseRow
    <2>4. seen'.phases[p] = PhaseRow(p)'
      BY <1>2, <1>3, <1>6, <2>2 DEF IInv, ReplayAgrees, PhasesMatch
    <2>5. QED
      BY <1>6, <2>3, <2>4 DEF IInv, ReplayAgrees, PhasesMatch
  <1>8. LeaseMatch'
    BY <1>1, <1>6 DEF IInv, ReplayAgrees, LeaseMatch
  <1>9. PeopleMatch' /\ PeopleSound' /\ LogsMatch'
    BY <1>1, <1>6, PeopleKept DEF IInv, ReplayAgrees, LogsMatch
  <1>10. History' /\ QualitySound'
    BY <1>1, <1>5, HistoryKept
  <1>11. PhasesSound' /\ LeaseSound'
    BY <1>1 DEF IInv, ReplayAgrees, PhasesSound, LeaseSound
  <1>12. EvidenceSound'
    BY <1>1, <1>2 DEF EvidenceSound
  <1>13. ColumnsTyped'
    BY <1>1, <1>2 DEF IInv, ExtrasTyped, ColumnsTyped
  <1>14. QED
    BY <1>1, <1>5, <1>7, <1>8, <1>9, <1>10, <1>11, <1>12, <1>13, IdsKept DEF ReplayAgrees, ExtrasTyped

LEMMA CompleteLoggedPreserves ==
  ASSUME IInv, NEW p \in Phases, NEW outcome \in {"changed", "no-change"}, NEW t \in Times,
         CompleteLogged(p, outcome, t)
  PROVE  ExtrasTyped' /\ ReplayAgrees' /\ History'
  <1> DEFINE e == [type |-> "PHASE_COMPLETED", at |-> t, phase |-> p, outcome |-> outcome]
  <1>1. /\ seen' = Replay(seen, e, stage, stage')
        /\ UNCHANGED <<ws, evidence, blocked, touched, lease, member>>
        /\ UNCHANGED <<joined, left, batches, drives, confirmations>>
        /\ stage = "IMPLEMENTING" /\ active = p /\ lease = None
        /\ outcome = "changed" => p \in touched
        /\ updated' = [q \in Phases |-> IF q \in {p, p + 1} THEN t ELSE updated[q]]
        /\ revision' = revision + 1
    BY DEF CompleteLogged, CompletePhase, CanCompletePhase, Event, Log, PeopleRowsKept, QualityKept
  <1>2. stage' \in {"IMPLEMENTING", "VERIFYING"}
    BY <1>1 DEF CompleteLogged, CompletePhase
  <1>3. status' = [q \in Phases |-> IF q = p THEN "COMPLETED"
                                    ELSE IF q = p + 1 THEN "ACTIVE" ELSE status[q]]
    BY DEF CompleteLogged, CompletePhase, IInv, Inv, TypeOK
  <1>4. /\ status[p] = "ACTIVE"
        /\ \A q \in Phases : status[q] # "ABSENT"
        /\ p + 1 \in Phases => status[p + 1] = "PENDING"
    BY <1>1 DEF IInv, Inv, PhaseLadder
  <1>5. \A q \in Phases : /\ seen.phases[q] = Phase(status[q], Changes(q), updated[q])
                          /\ seen.phases[q] # None
                          /\ seen.phases[q].status = status[q]
                          /\ seen.phases[q].changes = Changes(q)
    BY <1>1, <1>4, PhaseRowsTyped
  <1>6. ~Rejects(seen, e, stage)
    <2>1. p < NumPhases => p + 1 \in Phases
      OBVIOUS
    <2>2. /\ seen.phases[p] # None /\ seen.phases[p].status = "ACTIVE"
          /\ outcome = "changed" => seen.phases[p].changes = 1
          /\ p < NumPhases => seen.phases[p + 1].status = "PENDING"
      BY <1>1, <1>4, <1>5, <2>1
    <2>3. seen.stage = stage
      BY DEF IInv, ReplayAgrees, AnchorsMatch
    <2>4. QED
      BY <2>2, <2>3 DEF Rejects
  <1>7. ~seen'.broken /\ AnchorsMatch' /\ seen'.latest = seen.latest /\ seen'.accepted = seen.accepted
    BY <1>1, <1>6 DEF Replay, IInv, ReplayAgrees, AnchorsMatch, Verdicts
  <1>8. /\ seen'.people = seen.people /\ seen'.open = seen.open
        /\ seen'.phases = [q \in Phases |->
                             IF q = p THEN Phase("COMPLETED", seen.phases[q].changes, t)
                             ELSE IF q = p + 1 THEN Phase("ACTIVE", seen.phases[q].changes, t)
                             ELSE seen.phases[q]]
        /\ seen'.batches = seen.batches /\ seen'.drives = seen.drives
        /\ seen'.confirmations = seen.confirmations
    BY <1>1 DEF Replay, ReplayPeople, ReplayPhases, ReplayOpen, Verdicts
  <1>9. PhasesMatch'
    <2>1. \A q \in Phases : PhaseRow(q)' = Phase(status'[q], Changes(q), updated'[q])
      BY <1>1, <1>3, <1>4 DEF PhaseRow
    <2>2. \A q \in Phases : seen'.phases[q] = PhaseRow(q)'
      <3>1. \A q \in Phases : seen.phases[q].changes = Changes(q)
        BY <1>5
      <3>2. \A q \in Phases : q \notin {p, p + 1} => /\ seen'.phases[q] = seen.phases[q]
                                                  /\ PhaseRow(q)' = seen.phases[q]
        BY <1>1, <1>3, <1>5, <1>8, <2>1
      <3>3. \A q \in Phases : q \in {p, p + 1} => /\ seen'.phases[q] = Phase(status'[q], Changes(q), t)
                                                 /\ updated'[q] = t
        <4>1. seen'.phases[p] = Phase("COMPLETED", Changes(p), t) /\ status'[p] = "COMPLETED"
          BY <1>3, <1>8, <3>1
        <4>2. p + 1 \in Phases => /\ seen'.phases[p + 1] = Phase("ACTIVE", Changes(p + 1), t)
                                  /\ status'[p + 1] = "ACTIVE"
          BY <1>3, <1>8, <3>1
        <4>3. QED
          BY <1>1, <4>1, <4>2
      <3>4. QED
        BY <2>1, <3>2, <3>3
    <2>3. QED
      BY <1>8, <2>2 DEF PhasesMatch
  <1>10. PeopleMatch' /\ PeopleSound' /\ LeaseMatch' /\ LogsMatch'
    BY <1>1, <1>8, PeopleKept DEF IInv, ReplayAgrees, LeaseMatch, LogsMatch
  <1>11. History' /\ QualitySound'
    BY <1>1, <1>2, <1>7, HistoryKept
  <1>12. PhasesSound' /\ LeaseSound'
    <2>1. PhaseLadder'
      BY StoreKept DEF Inv, Next
    <2>2. stage' = "IMPLEMENTING" => {q \in Phases : status'[q] = "ACTIVE"} = {active'}
      BY <2>1, StoreKept DEF PhaseLadder, Next, Inv, TypeOK
    <2>3. QED
      BY <1>1, <1>2, <2>1, <2>2 DEF PhasesSound, LeaseSound, PhaseLadder
  <1>13. EvidenceSound'
    BY <1>1, <1>2, <1>7 DEF IInv, ReplayAgrees, EvidenceSound
  <1>14. ColumnsTyped'
    BY <1>1 DEF IInv, ExtrasTyped, ColumnsTyped
  <1>15. QED
    BY <1>1, <1>7, <1>9, <1>10, <1>11, <1>12, <1>13, <1>14, IdsKept DEF ReplayAgrees, ExtrasTyped

LEMMA ReopenLoggedPreserves ==
  ASSUME IInv, NEW t \in Times, ReopenLogged(t)
  PROVE  ExtrasTyped' /\ ReplayAgrees' /\ History'
  <1> DEFINE e == [type |-> "CHANGES_REQUESTED", at |-> t]
  <1>1. /\ seen' = Replay(seen, e, stage, stage')
        /\ UNCHANGED <<ws, blocked, touched, lease, member>>
        /\ UNCHANGED <<joined, left, batches, drives, confirmations>>
        /\ stage = "REVIEW_REQUIRED" /\ stage' = "IMPLEMENTING"
        /\ active' = NumPhases /\ evidence' = None
        /\ status' = [status EXCEPT ![NumPhases] = "ACTIVE"]
        /\ updated' = [updated EXCEPT ![NumPhases] = t]
        /\ revision' = revision + 1
    BY DEF ReopenLogged, ReopenLastPhase, CanReopen, Event, Log, PeopleRowsKept, QualityKept
  <1>2. \A q \in Phases : status[q] = "COMPLETED"
    BY <1>1 DEF IInv, Inv, PhaseLadder
  <1>3. \A q \in Phases : /\ seen.phases[q] = Phase(status[q], Changes(q), updated[q])
                          /\ seen.phases[q] # None
                          /\ seen.phases[q].status = status[q]
                          /\ seen.phases[q].changes = Changes(q)
    BY <1>1, <1>2, PhaseRowsTyped
  <1>4. ~Rejects(seen, e, stage)
    <2>1. \A q \in Phases : seen.phases[q] # None /\ seen.phases[q].status = "COMPLETED"
      BY <1>2, <1>3
    <2>2. seen.stage = stage
      BY DEF IInv, ReplayAgrees, AnchorsMatch
    <2>3. QED
      BY <2>1, <2>2 DEF Rejects
  <1>5. ~seen'.broken /\ AnchorsMatch' /\ seen'.latest = seen.latest /\ seen'.accepted = seen.accepted
    BY <1>1, <1>4 DEF Replay, IInv, ReplayAgrees, AnchorsMatch, Verdicts
  <1>6. /\ seen'.people = seen.people /\ seen'.open = seen.open
        /\ seen'.phases = [seen.phases EXCEPT ![NumPhases] = Phase("ACTIVE", @.changes, t)]
        /\ seen'.batches = seen.batches /\ seen'.drives = seen.drives
        /\ seen'.confirmations = seen.confirmations
    BY <1>1 DEF Replay, ReplayPeople, ReplayPhases, ReplayOpen, Verdicts
  <1>7. PhasesMatch'
    <2>1. \A q \in Phases : PhaseRow(q)' = Phase(status'[q], Changes(q), updated'[q])
      BY <1>1, <1>2 DEF PhaseRow, IInv, Inv, TypeOK
    <2>2. /\ status'[NumPhases] = "ACTIVE" /\ updated'[NumPhases] = t
          /\ \A q \in Phases \ {NumPhases} : status'[q] = status[q] /\ updated'[q] = updated[q]
      BY <1>1 DEF IInv, Inv, TypeOK, ExtrasTyped, ColumnsTyped
    <2>3. seen.phases = [q \in Phases |-> PhaseRow(q)]
      BY DEF IInv, ReplayAgrees, PhasesMatch
    <2>4. \A q \in Phases : seen'.phases[q] = PhaseRow(q)'
      <3>1. NumPhases \in Phases /\ seen.phases[NumPhases].changes = Changes(NumPhases)
        <4>1. NumPhases \in Phases
          OBVIOUS
        <4>2. QED
          BY <1>3, <4>1
      <3>2. seen'.phases[NumPhases] = Phase("ACTIVE", Changes(NumPhases), t)
        BY <1>6, <2>3, <3>1
      <3>3. \A q \in Phases \ {NumPhases} : /\ seen'.phases[q] = seen.phases[q]
                                           /\ seen.phases[q] = PhaseRow(q)'
        <4>1. \A q \in Phases \ {NumPhases} : seen'.phases[q] = seen.phases[q]
          BY <1>6, <2>3
        <4>2. \A q \in Phases \ {NumPhases} : PhaseRow(q)' = Phase(status[q], Changes(q), updated[q])
          BY <2>1, <2>2
        <4>3. QED
          BY <1>3, <4>1, <4>2
      <3>4. QED
        BY <2>1, <2>2, <3>2, <3>3
    <2>5. QED
      BY <1>6, <2>3, <2>4 DEF PhasesMatch
  <1>8. lease = None
    BY <1>1 DEF IInv, Inv, LeasePinsRun
  <1>9. PeopleMatch' /\ PeopleSound' /\ LeaseMatch' /\ LogsMatch'
    BY <1>1, <1>6, PeopleKept DEF IInv, ReplayAgrees, LeaseMatch, LogsMatch
  <1>10. History' /\ QualitySound'
    BY <1>1, <1>5, HistoryKept
  <1>11. PhasesSound' /\ LeaseSound'
    <2>1. {q \in Phases : status'[q] = "ACTIVE"} = {NumPhases}
      BY <1>1, <1>2 DEF IInv, Inv, TypeOK
    <2>2. QED
      BY <1>1, <1>8, <2>1 DEF PhasesSound, LeaseSound
  <1>12. EvidenceSound'
    BY <1>1 DEF EvidenceSound
  <1>13. ColumnsTyped'
    BY <1>1 DEF IInv, ExtrasTyped, ColumnsTyped
  <1>14. QED
    BY <1>1, <1>5, <1>7, <1>9, <1>10, <1>11, <1>12, <1>13, IdsKept DEF ReplayAgrees, ExtrasTyped

LEMMA VerifyPreserves ==
  ASSUME IInv, NEW v \in Evidence, NEW t \in Times, VerifyLogged(v, t)
  PROVE  ExtrasTyped' /\ ReplayAgrees' /\ History'
  <1> DEFINE type == IF v.passed THEN "VERIFICATION_PASSED" ELSE "VERIFICATION_FAILED"
             e == [type |-> type, at |-> t, result |-> v]
             b == [id |-> revision', result |-> v]
  <1>1. /\ seen' = Replay(seen, e, stage, stage')
        /\ UNCHANGED <<ws, blocked, touched, lease, member>>
        /\ UNCHANGED <<joined, left, drives, confirmations>>
        /\ stage = "VERIFYING" /\ evidence' = v /\ v.ws = ws
        /\ batches' = batches \cup {b}
        /\ revision' = revision + 1 /\ revision \in Nat
    BY DEF VerifyLogged, FinishVerification, CanFinishVerification, Event, Log, PeopleRowsKept,
           QualityKept, IInv, Inv, TypeOK
  <1>2. \/ /\ v.passed /\ type = "VERIFICATION_PASSED"
           /\ stage' = "REVIEW_REQUIRED" /\ UNCHANGED <<active, status, updated>>
        \/ /\ ~v.passed /\ type = "VERIFICATION_FAILED"
           /\ stage' = "IMPLEMENTING" /\ active' = NumPhases
           /\ status' = [status EXCEPT ![NumPhases] = "ACTIVE"]
           /\ updated' = [updated EXCEPT ![NumPhases] = t]
    BY DEF VerifyLogged, FinishVerification
  <1>3. active = 0 /\ \A q \in Phases : status[q] = "COMPLETED"
    BY <1>1 DEF IInv, Inv, PhaseLadder
  <1>4. \A q \in Phases : /\ seen.phases[q] = Phase(status[q], Changes(q), updated[q])
                          /\ seen.phases[q] # None
                          /\ seen.phases[q].status = status[q]
                          /\ seen.phases[q].changes = Changes(q)
    BY <1>1, <1>3, PhaseRowsTyped
  <1>5. ~Rejects(seen, e, stage)
    <2>1. \A q \in Phases : seen.phases[q] # None /\ seen.phases[q].status = "COMPLETED"
      BY <1>3, <1>4
    <2>2. seen.stage = stage
      BY DEF IInv, ReplayAgrees, AnchorsMatch
    <2>3. e.type \in Verdicts
      BY DEF Verdicts
    <2>4. QED
      BY <2>1, <2>2, <2>3 DEF Rejects, Verdicts
  <1>6. /\ ~seen'.broken /\ AnchorsMatch' /\ seen'.latest = v /\ seen'.accepted = seen.accepted
        /\ seen'.batches = seen.batches \cup {b}
    BY <1>1, <1>2, <1>5 DEF Replay, IInv, ReplayAgrees, AnchorsMatch, Verdicts
  <1>7. /\ seen'.people = seen.people /\ seen'.open = seen.open
        /\ seen'.drives = seen.drives /\ seen'.confirmations = seen.confirmations
        /\ seen'.phases = ReplayPhases(seen.phases, e)
    BY <1>1, <1>2 DEF Replay, ReplayPeople, ReplayOpen, Verdicts
  <1>8. PhasesMatch'
    <2>0. seen.phases = [q \in Phases |-> PhaseRow(q)]
      BY DEF IInv, ReplayAgrees, PhasesMatch
    <2>1. CASE v.passed
      <3>1. seen'.phases = seen.phases /\ UNCHANGED <<status, updated>>
        BY <1>2, <1>7, <2>1 DEF ReplayPhases
      <3>2. QED
        BY <1>1, <3>1, PhasesKept
    <2>2. CASE ~v.passed
      <3>1. NumPhases \in Phases
        OBVIOUS
      <3>2. /\ status'[NumPhases] = "ACTIVE" /\ updated'[NumPhases] = t
            /\ \A q \in Phases \ {NumPhases} : status'[q] = status[q] /\ updated'[q] = updated[q]
        <4>1. /\ status' = [status EXCEPT ![NumPhases] = "ACTIVE"]
              /\ updated' = [updated EXCEPT ![NumPhases] = t]
          BY <1>2, <2>2
        <4>2. status \in [Phases -> Statuses] /\ updated \in [Phases -> Times \cup {None}]
          BY DEF IInv, Inv, TypeOK, ExtrasTyped, ColumnsTyped
        <4>3. QED
          BY <3>1, <4>1, <4>2
      <3>3. seen'.phases = [seen.phases EXCEPT ![NumPhases] = Phase("ACTIVE", @.changes, t)]
        BY <1>2, <1>7, <2>2 DEF ReplayPhases
      <3>4. \A q \in Phases : PhaseRow(q)' = Phase(status'[q], Changes(q), updated'[q])
        <4>1. \A q \in Phases : status'[q] # "ABSENT"
          BY <1>3, <3>2
        <4>2. QED
          BY <1>1, <4>1 DEF PhaseRow
      <3>5. seen'.phases[NumPhases] = PhaseRow(NumPhases)'
        <4>1. seen.phases[NumPhases].changes = Changes(NumPhases)
          BY <1>4, <3>1
        <4>2. seen'.phases[NumPhases] = Phase("ACTIVE", Changes(NumPhases), t)
          BY <2>0, <3>1, <3>3, <4>1
        <4>3. QED
          BY <3>1, <3>2, <3>4, <4>2
      <3>6. \A q \in Phases \ {NumPhases} : seen'.phases[q] = PhaseRow(q)'
        <4>1. \A q \in Phases \ {NumPhases} : seen'.phases[q] = seen.phases[q]
          BY <2>0, <3>3
        <4>2. \A q \in Phases \ {NumPhases} : PhaseRow(q)' = Phase(status[q], Changes(q), updated[q])
          BY <3>2, <3>4
        <4>3. QED
          BY <1>4, <4>1, <4>2
      <3>7. QED
        BY <2>0, <3>3, <3>5, <3>6 DEF PhasesMatch
    <2>3. QED
      BY <2>1, <2>2
  <1>9. lease = None
    BY <1>1 DEF IInv, Inv, LeasePinsRun
  <1>10. PeopleMatch' /\ PeopleSound' /\ LeaseMatch' /\ LogsMatch'
    BY <1>1, <1>6, <1>7, PeopleKept DEF IInv, ReplayAgrees, LeaseMatch, LogsMatch
  <1>11. \A o \in batches : o.id \in Nat /\ o.id < revision'
    BY <1>1 DEF IInv, ExtrasTyped, IdsBounded
  <1>12. LatestIsLast' /\ NoEarlyAcceptance'
    <2>1. \A o \in batches' : o.id <= b.id
      BY <1>1, <1>11
    <2>2. b \in batches' /\ b.result = seen'.latest
      BY <1>1, <1>6
    <2>3. NoEarlyAcceptance'
      BY <1>1, <1>6 DEF IInv, History, NoEarlyAcceptance
    <2>4. QED
      BY <2>1, <2>2, <2>3 DEF LatestIsLast
  <1>13. DrivesEarned'
    <2>1. \A d \in drives : d.seq \in Nat /\ d.seq < revision'
      BY <1>1 DEF IInv, ExtrasTyped, IdsBounded
    <2>2. \A d \in drives : b.id > d.seq
      BY <2>1
    <2>3. SUFFICES ASSUME NEW d \in drives, Earned(d)
                   PROVE  \E k \in batches' :
                            /\ k.id < d.seq /\ k.result.passed
                            /\ \A o \in batches' : o.id <= k.id \/ o.id > d.seq
      BY <1>1 DEF DrivesEarned, Earned
    <2>4. PICK k \in batches : /\ k.id < d.seq /\ k.result.passed
                               /\ \A o \in batches : o.id <= k.id \/ o.id > d.seq
      BY <2>3 DEF IInv, History, DrivesEarned
    <2>5. QED
      BY <1>1, <2>2, <2>4
  <1>14. FitsEarned' /\ QualitySound'
    BY <1>1 DEF IInv, History, ReplayAgrees, FitsEarned, QualitySound, Earned
  <1>15. PhasesSound' /\ LeaseSound'
    <2>1. ~v.passed => {q \in Phases : status'[q] = "ACTIVE"} = {NumPhases}
      BY <1>2, <1>3 DEF IInv, Inv, TypeOK
    <2>2. QED
      BY <1>1, <1>2, <1>3, <1>9, <2>1 DEF PhasesSound, LeaseSound
  <1>16. EvidenceSound'
    <2>1. seen.accepted = {}
      BY <1>1 DEF IInv, History, NoEarlyAcceptance
    <2>2. v # None
      BY NoneAssumption
    <2>3. QED
      BY <1>1, <1>2, <1>6, <2>1, <2>2 DEF EvidenceSound
  <1>17. ColumnsTyped'
    BY <1>1, <1>2 DEF IInv, ExtrasTyped, ColumnsTyped
  <1>18. IdsBounded'
    <2>1. b \in [id : Nat, result : Evidence]
      BY <1>1
    <2>2. QED
      BY <1>1, <2>1 DEF IInv, ExtrasTyped, IdsBounded
  <1>19. QED
    BY <1>6, <1>8, <1>10, <1>12, <1>13, <1>14, <1>15, <1>16, <1>17, <1>18
       DEF ReplayAgrees, ExtrasTyped, History

-----------------------------------------------------------------------------
(* Every execution.                                                        *)

LEMMA InitReplay == Init => IInv
  <1> SUFFICES ASSUME Init PROVE IInv
    OBVIOUS
  <1>1. Inv
    BY InitInv DEF Init
  <1>2. PICK t \in Times : joined = [s \in Sessions |-> IF member[s] = "NONE" THEN None ELSE [rev |-> 0, at |-> t]]
    BY DEF Init
  <1>3. \A s \in Sessions : member[s] \in {"NONE", "ACTIVE"}
    BY DEF Init, StoreInit
  <1>4. ExtrasTyped
    <2>1. [rev |-> 0, at |-> t] \in [rev : Nat, at : Times]
      OBVIOUS
    <2>2. ColumnsTyped
      BY <1>2, <1>3, <2>1 DEF Init, StoreInit, ColumnsTyped
    <2>3. QED
      BY <2>2 DEF Init, ExtrasTyped, IdsBounded
  <1>5. ~seen.broken /\ AnchorsMatch /\ PeopleMatch /\ LeaseMatch /\ LogsMatch
    BY DEF Init, StoreInit, AnchorsMatch, PeopleMatch, LeaseMatch, LogsMatch
  <1>6. PhasesMatch
    BY DEF Init, StoreInit, PhasesMatch, PhaseRow
  <1>7. PeopleSound /\ PhasesSound /\ LeaseSound /\ EvidenceSound /\ QualitySound
    BY <1>3 DEF Init, StoreInit, PeopleSound, PhasesSound, LeaseSound, EvidenceSound, QualitySound
  <1>8. History
    BY DEF Init, History, LatestIsLast, NoEarlyAcceptance, DrivesEarned, FitsEarned
  <1>9. QED
    BY <1>1, <1>4, <1>5, <1>6, <1>7, <1>8 DEF IInv, ReplayAgrees

LEMMA StutterReplay == IInv /\ UNCHANGED vars => IInv'
  <1> SUFFICES ASSUME IInv, UNCHANGED vars PROVE IInv'
    OBVIOUS
  <1>1. UNCHANGED <<stage, revision, active, ws, evidence, blocked, status, touched, lease, member>>
    BY DEF vars, store
  <1>2. UNCHANGED <<joined, left, updated, batches, drives, confirmations, seen>>
    BY DEF vars, extras
  <1>3. Inv'
    BY StoreKept DEF vars
  <1>4. ExtrasTyped' /\ History'
    BY <1>1, <1>2 DEF IInv, ExtrasTyped, ColumnsTyped, IdsBounded, History, LatestIsLast,
       NoEarlyAcceptance, DrivesEarned, FitsEarned, Earned
  <1>5. AnchorsMatch' /\ PeopleMatch' /\ PhasesMatch' /\ LeaseMatch' /\ LogsMatch' /\ ~seen'.broken
    BY <1>1, <1>2 DEF IInv, ReplayAgrees, AnchorsMatch, PeopleMatch, PersonRow, PhasesMatch, PhaseRow,
       LeaseMatch, LogsMatch
  <1>6. PeopleSound' /\ PhasesSound' /\ LeaseSound' /\ EvidenceSound' /\ QualitySound'
    BY <1>1, <1>2 DEF IInv, ReplayAgrees, PeopleSound, PhasesSound, LeaseSound, EvidenceSound, QualitySound
  <1>7. QED
    BY <1>3, <1>4, <1>5, <1>6 DEF IInv, ReplayAgrees

LEMMA NextReplay == IInv /\ [Next]_vars => IInv'
  <1> SUFFICES ASSUME IInv, Next PROVE ExtrasTyped' /\ ReplayAgrees' /\ History'
    BY StoreKept, StutterReplay DEF IInv
  <1>1. CASE \E t \in Times : ActivateLogged(t)
    BY <1>1, ActivateLoggedPreserves
  <1>2. CASE \E s \in Sessions, c \in Calls, declared \in SUBSET Paths, before \in Digest :
               AuthorizeLogged(s, c, declared, before)
    BY <1>2, AuthorizePreserves
  <1>3. CASE \E s \in Sessions, c \in Calls, digest \in Digest, actual \in SUBSET Paths, t \in Times :
               WriteLogged(s, c, digest, actual, t)
    BY <1>3, WritePreserves
  <1>4. CASE \E c \in Calls : RecoverLogged(c)
    BY <1>4, RecoverPreserves
  <1>5. CASE \E p \in Phases, outcome \in {"changed", "no-change"}, t \in Times : CompleteLogged(p, outcome, t)
    BY <1>5, CompleteLoggedPreserves
  <1>6. CASE \E t \in Times : ReopenLogged(t)
    BY <1>6, ReopenLoggedPreserves
  <1>7. CASE RejectLogged
    BY <1>7, RejectPreserves
  <1>8. CASE \E e \in Evidence, t \in Times : VerifyLogged(e, t)
    BY <1>8, VerifyPreserves
  <1>9. CASE ApproveLogged
    BY <1>9, ApproveLoggedPreserves
  <1>10. CASE \E code \in BlockCodes : BlockLogged(code)
    BY <1>10, BlockLoggedPreserves
  <1>11. CASE \E s \in Sessions, t \in Times : AttachLogged(s, t)
    BY <1>11, AttachPreserves
  <1>12. CASE \E s \in Sessions, t \in Times : RevokeLogged(s, t)
    BY <1>12, RevokePreserves
  <1>13. CASE \E q \in Requests : DriveLogged(q)
    BY <1>13, DrivePreserves
  <1>14. CASE \E q \in Requests, d \in drives : ConfirmLogged(q, d)
    BY <1>14, ConfirmPreserves
  <1>15. QED
    BY <1>1, <1>2, <1>3, <1>4, <1>5, <1>6, <1>7, <1>8, <1>9, <1>10, <1>11, <1>12, <1>13, <1>14 DEF Next

LEMMA ReplayInvariant == Spec => []IInv
  BY InitReplay, NextReplay, PTL DEF Spec

\* Whatever the transactions commit, in any order and at any time of the
\* clock, select_run accepts it: the Run stays readable and changeable.
THEOREM ReplayAccepted == Spec => []ReplayAgrees
  BY ReplayInvariant, PTL DEF IInv

LEMMA EarnedFits == DrivesEarned /\ FitsEarned => FitIsEarned
  <1> SUFFICES ASSUME DrivesEarned, FitsEarned, NEW c \in confirmations, c.outcome = "FIT"
               PROVE  \E d \in drives : \E b \in batches :
                        /\ d.request = c.drive /\ d.seq < c.seq
                        /\ b.id < d.seq /\ b.result.passed
                        /\ \A o \in batches : o.id <= b.id \/ o.id > d.seq
    BY DEF FitIsEarned
  <1>1. PICK d \in drives : d.request = c.drive /\ d.seq < c.seq /\ Earned(d)
    BY DEF FitsEarned
  <1>2. QED
    BY <1>1 DEF DrivesEarned

\* QualityRepository.confirm says FIT only of a drive that follows a passing
\* verification at once.
THEOREM FitsAreEarned == Spec => []FitIsEarned
  BY ReplayInvariant, EarnedFits, PTL DEF IInv, History
=============================================================================

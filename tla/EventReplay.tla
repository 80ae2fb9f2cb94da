----------------------------- MODULE EventReplay -----------------------------
(***************************************************************************)
(* The event chain of a Run and its replay.  Every transaction begins with *)
(* select_run, which folds all the events of the Run and compares what     *)
(* they say with the rows of the tables; a difference is                   *)
(* PERSISTED_STATE_BROKEN or EVENT_CHAIN_BROKEN and the Run can neither be *)
(* read nor changed any more.  This module adds to RunStore the columns    *)
(* that only the replay looks at and `seen`, the fold of the events so     *)
(* far: as the replay goes through the events once, in order, keeping the  *)
(* fold is keeping the events.                                             *)
(*                                                                         *)
(* Nearly every transaction ends with the same select_run, so that a       *)
(* history the replay would reject is rolled back.  The two transactions   *)
(* it can reject have that as a guard (see RevokeLogged, VerifyLogged);    *)
(* that there is no third one is the property ReplayAgrees.                *)
(*                                                                         *)
(* Data kept out: hashes, actors, the packet (frozen once, so that all the *)
(* packet digests agree) and the documents checked by PlanningGate.  The   *)
(* wall clock is arbitrary: it may step back between two transactions.     *)
(***************************************************************************)
EXTENDS RunStore

CONSTANTS
  Times,      \* what utc_now may return
  Requests    \* request ids of quality drives and confirmations

ASSUME TimesAssumption == Times \subseteq Int /\ Times # {}

PersonRows == [status : {"ACTIVE", "REVOKED"}, rev : Nat, at : Times, left : Times \cup {None}]
PhaseRows  == [status : {"PENDING", "ACTIVE", "COMPLETED"}, changes : {0, 1}, at : Times]

ASSUME NoRowAssumption == None \notin Times \cup PersonRows \cup PhaseRows

VARIABLES
  joined,         \* run_sessions.attached_revision and attached_at
  left,           \* run_sessions.revoked_at
  updated,        \* phase_executions.updated_at
  batches,        \* the batches of table evidence
  drives,         \* table quality_drives
  confirmations,  \* table quality_confirmations
  seen            \* what the replay makes of the events

extras == <<joined, left, updated, batches, drives, confirmations>>
vars == <<store, extras, seen>>

-----------------------------------------------------------------------------
(* The fold over the events.                                               *)

Person(stat, rev, at, gone) == [status |-> stat, rev |-> rev, at |-> at, left |-> gone]
Phase(stat, changes, at) == [status |-> stat, changes |-> changes, at |-> at]

\* _verify_participants
ReplayPeople(people, e, rev) ==
  IF e.type = "SESSION_ATTACHED"
  THEN [people EXCEPT ![e.session] = Person("ACTIVE", rev, e.at, None)]
  ELSE IF e.type = "SESSION_REVOKED" /\ people[e.session] # None
  THEN [people EXCEPT ![e.session] = Person("REVOKED", @.rev, @.at, e.at)]
  ELSE people

\* _replay_phase_snapshot
ReplayPhases(phases, e) ==
  IF e.type = "PLAN_APPROVAL_RECEIPT_CONSUMED"
  THEN [p \in Phases |-> Phase(IF p = 1 THEN "ACTIVE" ELSE "PENDING", 0, e.at)]
  ELSE IF e.type = "WRITE_RECORDED"
  THEN [phases EXCEPT ![e.phase] = Phase(@.status, IF e.paths = {} THEN @.changes ELSE 1, e.at)]
  ELSE IF e.type = "PHASE_COMPLETED"
  THEN [p \in Phases |-> IF p = e.phase THEN Phase("COMPLETED", phases[p].changes, e.at)
                         ELSE IF p = e.phase + 1 THEN Phase("ACTIVE", phases[p].changes, e.at)
                         ELSE phases[p]]
  ELSE IF e.type \in {"VERIFICATION_FAILED", "CHANGES_REQUESTED"}
  THEN [phases EXCEPT ![NumPhases] = Phase("ACTIVE", @.changes, e.at)]
  ELSE phases

\* _verify_lease: the authorizations that no later event has closed.
ReplayOpen(open, e) ==
  IF e.type = "WRITE_AUTHORIZED" THEN open \cup {e.lease}
  ELSE IF e.type \in {"WRITE_RECORDED", "WRITE_RECOVERED"}
  THEN {l \in open : l.call # e.call}
  ELSE open

\* What the replay raises on while it goes through the events.
Rejects(r, e, before) ==
  \/ before # r.stage
  \/ e.type = "SESSION_ATTACHED" /\ r.people[e.session] # None
  \/ /\ e.type = "SESSION_REVOKED"
     /\ r.people[e.session] = None \/ r.people[e.session].status # "ACTIVE"
  \/ /\ e.type = "WRITE_RECORDED"
     /\ r.phases[e.phase] = None \/ r.phases[e.phase].status # "ACTIVE"
  \/ /\ e.type = "PHASE_COMPLETED"
     /\ \/ r.phases[e.phase] = None \/ r.phases[e.phase].status # "ACTIVE"
        \/ e.outcome = "changed" /\ r.phases[e.phase].changes = 0
        \/ e.phase < NumPhases /\ r.phases[e.phase + 1].status # "PENDING"
  \/ /\ e.type \in {"VERIFICATION_FAILED", "CHANGES_REQUESTED"}
     /\ \E p \in Phases : r.phases[p] = None \/ r.phases[p].status # "COMPLETED"

Verdicts == {"VERIFICATION_PASSED", "VERIFICATION_FAILED"}

\* One more event: verify_event_records counts it and follows the stages,
\* _verify_run_anchors keeps content, evidence and block.
Replay(r, e, before, after) ==
  LET rev == r.count + 1
  IN [broken   |-> r.broken \/ Rejects(r, e, before),
      count    |-> rev,
      stage    |-> after,
      ws       |-> IF e.type = "WRITE_RECORDED" THEN e.ws ELSE r.ws,
      evidence |-> IF e.type \in Verdicts THEN e.result
                   ELSE IF e.type \in {"PLAN_APPROVAL_RECEIPT_CONSUMED", "WRITE_RECORDED", "CHANGES_REQUESTED"}
                   THEN None ELSE r.evidence,
      blocked  |-> IF e.type = "RUN_BLOCKED" THEN e.code ELSE r.blocked,
      people   |-> ReplayPeople(r.people, e, rev),
      phases   |-> ReplayPhases(r.phases, e),
      open     |-> ReplayOpen(r.open, e),
      batches  |-> IF e.type \in Verdicts THEN r.batches \cup {[id |-> rev, result |-> e.result]} ELSE r.batches,
      latest   |-> IF e.type \in Verdicts THEN e.result ELSE r.latest,
      accepted |-> IF e.type = "RUN_ACCEPTED"
                   THEN r.accepted \cup {[id |-> rev, ws |-> e.ws, result |-> e.result]} ELSE r.accepted,
      drives   |-> IF e.type = "QUALITY_DRIVEN" THEN r.drives \cup {e.drive} ELSE r.drives,
      confirmations |-> IF e.type = "QUALITY_FITNESS_CONFIRMED"
                        THEN r.confirmations \cup {e.confirmation} ELSE r.confirmations]

-----------------------------------------------------------------------------
(* The rows the fold is compared with.                                     *)

PersonRow(s) ==
  IF member[s] = "NONE" THEN None
  ELSE Person(member[s], joined[s].rev, joined[s].at, left[s])

\* change_count, counted up to one.
Changes(p) == IF p \in touched THEN 1 ELSE 0

PhaseRow(p) ==
  IF status[p] = "ABSENT" THEN None
  ELSE Phase(status[p], Changes(p), updated[p])

\* What the events of the Run must amount to.
AnchorsMatch ==
  /\ seen.count = revision /\ seen.stage = stage
  /\ seen.ws = ws /\ seen.evidence = evidence /\ seen.blocked = blocked
PeopleMatch == seen.people = [s \in Sessions |-> PersonRow(s)]
PhasesMatch == seen.phases = [p \in Phases |-> PhaseRow(p)]
LeaseMatch  == seen.open = (IF lease = None THEN {} ELSE {lease})
LogsMatch   == /\ seen.batches = batches
               /\ seen.drives = drives
               /\ seen.confirmations = confirmations

\* A participant left after joining, by the clock of the rows.
PeopleSound == \A s \in Sessions : member[s] = "REVOKED" => left[s] >= joined[s].at

PhasesSound ==
  IF stage = "IMPLEMENTING"
  THEN {p \in Phases : status[p] = "ACTIVE"} = {active}
  ELSE /\ active = 0
       /\ stage # "PLANNING" => \A p \in Phases : status[p] = "COMPLETED"

LeaseSound == lease # None => status[lease.phase] = "ACTIVE"

\* _verify_evidence: current evidence is the latest batch and about the
\* recorded content; a reviewable Run has passing evidence, an accepted one
\* exactly one acceptance, of what it now holds.
EvidenceSound ==
  /\ evidence = None => stage \notin {"REVIEW_REQUIRED", "ACCEPTED"}
  /\ evidence # None =>
       /\ seen.latest = evidence
       /\ evidence.ws = ws
       /\ stage \in {"REVIEW_REQUIRED", "ACCEPTED"} => evidence.passed
       /\ IF stage = "ACCEPTED"
          THEN \E n \in 1..revision : seen.accepted = {[id |-> n, ws |-> ws, result |-> evidence]}
          ELSE seen.accepted = {}

\* _verify_quality
QualitySound ==
  /\ \A c \in confirmations : \E d \in drives : d.request = c.drive
  /\ \A d, e \in drives : d.request = e.request \/ d.seq = e.seq => d = e
  /\ \A c, d \in confirmations : c.request = d.request \/ c.seq = d.seq => c = d

-----------------------------------------------------------------------------
(***************************************************************************)
(* The transactions of RunStore with their event.  The event carries the   *)
(* stage before and after; its time matters where a row repeats it.        *)
(***************************************************************************)
Log(e) == seen' = Replay(seen, e, stage, stage')

PhaseRowsKept == UNCHANGED updated
PeopleRowsKept == UNCHANGED <<joined, left>>
QualityKept == UNCHANGED <<drives, confirmations>>

ActivateLogged(t) ==
  /\ ActivatePlan
  /\ updated' = [p \in Phases |-> t]
  /\ Log([type |-> "PLAN_APPROVAL_RECEIPT_CONSUMED", at |-> t])
  /\ UNCHANGED batches /\ PeopleRowsKept /\ QualityKept

AuthorizeLogged(s, c, declared, before) ==
  /\ CreateWriteLease(s, c, declared, before, revision)
  /\ Log([type |-> "WRITE_AUTHORIZED", lease |-> lease'])
  /\ UNCHANGED batches /\ PeopleRowsKept /\ PhaseRowsKept /\ QualityKept

WriteLogged(s, c, digest, actual, t) ==
  /\ FinishWrite(s, c, digest, actual, revision)
  /\ updated' = [updated EXCEPT ![lease.phase] = t]
  /\ Log([type |-> "WRITE_RECORDED", at |-> t, call |-> c, phase |-> lease.phase,
                            paths |-> actual, ws |-> digest])
  /\ UNCHANGED batches /\ PeopleRowsKept /\ QualityKept

RecoverLogged(c) ==
  /\ CancelUnchangedLease(c)
  /\ Log([type |-> "WRITE_RECOVERED", call |-> c])
  /\ UNCHANGED batches /\ PeopleRowsKept /\ PhaseRowsKept /\ QualityKept

\* Fault: the row of the next phase is stamped by a second look at the clock.
CompleteLoggedTwice(p, outcome, t) ==
  /\ CompletePhase(p, outcome, revision)
  /\ \E u \in Times : updated' = [q \in Phases |-> IF q = p THEN t ELSE IF q = p + 1 THEN u ELSE updated[q]]
  /\ Log([type |-> "PHASE_COMPLETED", at |-> t, phase |-> p, outcome |-> outcome])
  /\ UNCHANGED batches /\ PeopleRowsKept /\ QualityKept

CompleteLogged(p, outcome, t) ==
  /\ CompletePhase(p, outcome, revision)
  /\ updated' = [q \in Phases |-> IF q \in {p, p + 1} THEN t ELSE updated[q]]
  /\ Log([type |-> "PHASE_COMPLETED", at |-> t, phase |-> p, outcome |-> outcome])
  /\ UNCHANGED batches /\ PeopleRowsKept /\ QualityKept

ReopenLogged(t) ==
  /\ ReopenLastPhase(revision, ws, evidence)
  /\ updated' = [updated EXCEPT ![NumPhases] = t]
  /\ Log([type |-> "CHANGES_REQUESTED", at |-> t])
  /\ UNCHANGED batches /\ PeopleRowsKept /\ QualityKept

RejectLogged ==
  /\ RecordRejection
  /\ Log([type |-> "PLANNING_SUBMISSION_REJECTED"])
  /\ UNCHANGED extras

\* The replay rolls the transaction back when the evidence is about another
\* content than the recorded one.
VerifyLogged(e, t) ==
  /\ FinishVerification(e)
  /\ e.ws = ws
  /\ batches' = batches \cup {[id |-> revision', result |-> e]}
  /\ updated' = IF e.passed THEN updated ELSE [updated EXCEPT ![NumPhases] = t]
  /\ Log([type |-> IF e.passed THEN "VERIFICATION_PASSED" ELSE "VERIFICATION_FAILED",
          at |-> t, result |-> e])
  /\ PeopleRowsKept /\ QualityKept

ApproveLogged ==
  /\ Approve(revision, ws, evidence, ws)
  /\ Log([type |-> "RUN_ACCEPTED", ws |-> ws, result |-> evidence])
  /\ UNCHANGED extras

BlockLogged(code) ==
  /\ Block(code)
  /\ Log([type |-> "RUN_BLOCKED", code |-> code])
  /\ UNCHANGED extras

AttachLogged(s, t) ==
  /\ AttachSession(s, revision)
  /\ joined' = [joined EXCEPT ![s] = [rev |-> revision', at |-> t]]
  /\ Log([type |-> "SESSION_ATTACHED", session |-> s, at |-> t])
  /\ UNCHANGED <<left, updated, batches>> /\ QualityKept

\* The replay rolls the transaction back when the clock shows a time before
\* the attachment.
RevokeLogged(s, t) ==
  /\ RevokeSession(s)
  /\ t >= joined[s].at
  /\ left' = [left EXCEPT ![s] = t]
  /\ Log([type |-> "SESSION_REVOKED", session |-> s, at |-> t])
  /\ UNCHANGED <<joined, updated, batches>> /\ QualityKept

-----------------------------------------------------------------------------
(* Quality drives and fitness confirmations.                               *)

\* project_quality_status, on the rows of the transaction: every read of the
\* facade is about the same revision, which the transaction checks again.
Projection == [ready |-> stage = "REVIEW_REQUIRED",
               failed |-> seen.latest # None /\ ~seen.latest.passed]

\* A request id that is known is answered from its row and changes nothing.
Known(table, q) == \E r \in table : r.request = q

DriveLogged(q) ==
  /\ ~Known(drives, q)
  /\ DriveQuality(revision)
  /\ LET drive == [request |-> q, seq |-> revision', result |-> Projection]
     IN /\ drives' = drives \cup {drive}
        /\ Log([type |-> "QUALITY_DRIVEN", drive |-> drive])
  /\ UNCHANGED <<joined, left, updated, batches, confirmations>>

\* Fault: the fitness only counts failed checks.
FitnessUncheckedStage(drive) == IF drive.result.failed THEN "UNFIT" ELSE "FIT"

Fitness(drive) == IF drive.result.ready /\ ~drive.result.failed THEN "FIT" ELSE "UNFIT"

ConfirmLogged(q, d) ==
  /\ ~Known(confirmations, q)
  /\ d \in drives
  /\ DriveQuality(revision)
  /\ LET confirmation == [request |-> q, seq |-> revision', drive |-> d.request, outcome |-> Fitness(d)]
     IN /\ confirmations' = confirmations \cup {confirmation}
        /\ Log([type |-> "QUALITY_FITNESS_CONFIRMED", confirmation |-> confirmation])
  /\ UNCHANGED <<joined, left, updated, batches, drives>>

-----------------------------------------------------------------------------
Init ==
  /\ StoreInit
  /\ \E t \in Times : joined = [s \in Sessions |-> IF member[s] = "NONE" THEN None ELSE [rev |-> 0, at |-> t]]
  /\ left = [s \in Sessions |-> None]
  /\ updated = [p \in Phases |-> None]
  /\ batches = {} /\ drives = {} /\ confirmations = {}
  /\ seen = [broken |-> FALSE, count |-> 0, stage |-> stage, ws |-> ws, evidence |-> None,
             blocked |-> None, people |-> [s \in Sessions |-> PersonRow(s)],
             phases |-> [p \in Phases |-> None], open |-> {}, batches |-> {}, latest |-> None,
             accepted |-> {}, drives |-> {}, confirmations |-> {}]

Next ==
  \/ \E t \in Times : ActivateLogged(t)
  \/ \E s \in Sessions, c \in Calls, declared \in SUBSET Paths, before \in Digest :
       AuthorizeLogged(s, c, declared, before)
  \/ \E s \in Sessions, c \in Calls, digest \in Digest, actual \in SUBSET Paths, t \in Times :
       WriteLogged(s, c, digest, actual, t)
  \/ \E c \in Calls : RecoverLogged(c)
  \/ \E p \in Phases, outcome \in {"changed", "no-change"}, t \in Times : CompleteLogged(p, outcome, t)
  \/ \E t \in Times : ReopenLogged(t)
  \/ RejectLogged
  \/ \E e \in Evidence, t \in Times : VerifyLogged(e, t)
  \/ ApproveLogged
  \/ \E code \in BlockCodes : BlockLogged(code)
  \/ \E s \in Sessions, t \in Times : AttachLogged(s, t)
  \/ \E s \in Sessions, t \in Times : RevokeLogged(s, t)
  \/ \E q \in Requests : DriveLogged(q)
  \/ \E q \in Requests, d \in drives : ConfirmLogged(q, d)

Spec == Init /\ [][Next]_vars

-----------------------------------------------------------------------------
(* Properties.                                                             *)

\* Any history the transactions can commit is one the replay accepts: no
\* event is refused while it is folded, what the events amount to is what the
\* rows say, and the rows satisfy the checks made after the fold.  A legal
\* sequence of calls that broke this would leave the Run unreadable.
ReplayAgrees ==
  /\ ~seen.broken
  /\ AnchorsMatch /\ PeopleMatch /\ PhasesMatch /\ LeaseMatch /\ LogsMatch
  /\ PeopleSound /\ PhasesSound /\ LeaseSound /\ EvidenceSound /\ QualitySound

\* A FIT is about a Run that had earned it: the drive it confirms was made
\* after a batch that passed, with no other verification between the two.
\* (It may be confirmed later, when the Run has been sent back.)
FitIsEarned ==
  \A c \in confirmations : c.outcome = "FIT" =>
    \E d \in drives : \E b \in batches :
      /\ d.request = c.drive /\ d.seq < c.seq
      /\ b.id < d.seq /\ b.result.passed
      /\ \A o \in batches : o.id <= b.id \/ o.id > d.seq
=============================================================================

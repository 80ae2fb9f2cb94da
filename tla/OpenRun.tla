------------------------------- MODULE OpenRun -------------------------------
(***************************************************************************)
(* The `open` command for one project, run by several terminals at once:   *)
(* once SchemaUpgrade has let it in, it looks for the active Run of the    *)
(* project, resumes it, retires a Run whose frozen packet is older than the*)
(* certainty contract, or starts a new Run.  Looking, creating the         *)
(* worktree, registering the Run, launching OpenCode, waiting for the      *)
(* handshake of its plugin and the cleanup of a failed start are separate  *)
(* transactions and file operations, and a terminal may be interrupted or  *)
(* killed between any two of them.  OpenCode goes on by itself: it binds   *)
(* the first message as the task of the Run, other sessions join, the      *)
(* work is done, and a reviewer accepts it and removes the worktree.       *)
(*                                                                         *)
(* Packets, phases and writes are the business of RunStore and             *)
(* PlanningGate; here a Run is planning, working or accepted.              *)
(***************************************************************************)
EXTENDS SchemaUpgrade

CONSTANTS
  Uncertain,  \* the old Runs whose packet says nothing of certainty
  Sessions,   \* OpenCode session ids
  None

ASSUME UncertainAssumption == Uncertain \subseteq OldRuns
ASSUME NoneAssumption == None \notin RunIds \cup Sessions

VARIABLES
  stage,      \* runs.stage
  blocked,    \* runs.blocked_code
  bound,      \* runs.session_id, set together with runs.task
  owners,     \* table run_sessions: pairs of a Run and a session
  tree,       \* the worktrees that exist
  run,        \* the Run it works on
  child       \* the OpenCode it has launched

rows == <<stage, blocked, bound, owners>>
terminals == <<pc, run, child>>
vars == <<schema, level, rows, tree, terminals>>

\* How a terminal may end: refused with an error and nothing left to clean,
\* refused with an error that does not tell of the worktree it leaves, after a
\* start that failed and was cleaned up, after a cleanup that failed,
\* interrupted or killed, and closed with its OpenCode.
Ended == {"refused", "stranded", "failed", "uncleaned", "dead", "closed"}
Places == Ended \cup Opening \cup {"unopened", "look", "retire", "prepare", "create",
                      "inspect", "scrap", "register", "unregister", "resume", "launch",
                      "wait", "terminate", "cleanup", "cancel", "cancelDirty", "active"}

\* OpenCode attaches when its plugin writes the handshake file; once that is
\* done it may leave before the terminal has seen the file.
Children == {"none", "starting", "attached", "left"}

\* find_active
Active == {r \in runs : stage[r] # "ACCEPTED" /\ blocked[r] \notin {"STARTUP_FAILED", "LEGACY_RUN_RETIRED"}}

Created(p) == run[p] = p

Go(p, place) == pc' = [pc EXCEPT ![p] = place]
On(p, r) == run' = [run EXCEPT ![p] = r]
End(p, place) == Go(p, place) /\ On(p, None)

-----------------------------------------------------------------------------
(* The steps of `open`.                                                    *)

\* cli._open: the first look.  More than one active Run is an error.
Look(p) ==
  /\ pc[p] = "look"
  /\ \/ Active = {} /\ Go(p, "prepare") /\ UNCHANGED run
     \/ \E r \in RunIds :
          /\ Active = {r}
          /\ On(p, r)
          /\ Go(p, IF r \in Uncertain THEN "retire" ELSE "resume")
     \/ /\ \E r, q \in Active : r # q
        /\ End(p, "refused")
  /\ UNCHANGED <<schema, level, rows, tree, child>>

\* store.block_run keeps an earlier block, which must then be the retirement.
Retire(p) ==
  /\ pc[p] = "retire"
  /\ IF blocked[run[p]] = "NONE"
     THEN blocked' = [blocked EXCEPT ![run[p]] = "LEGACY_RUN_RETIRED"]
     ELSE UNCHANGED blocked
  /\ End(p, IF blocked'[run[p]] = "LEGACY_RUN_RETIRED" THEN "prepare" ELSE "refused")
  /\ UNCHANGED <<schema, level, stage, bound, owners, tree, child>>

\* Everything that raises a GuardError before anything of the Run exists: the
\* preflight, the environment, an explicit session that is not attached, a
\* HEAD that moved, images that are missing.
Refuse(p) ==
  /\ pc[p] \in {"look", "prepare", "resume"}
  /\ End(p, "refused")
  /\ UNCHANGED <<schema, level, rows, tree, child>>

\* Fault: the worktree is created before the terminal knows the id of its Run.
PrepareUnnamed(p) ==
  /\ pc[p] = "prepare"
  /\ IF Active = {} THEN Go(p, "create") /\ UNCHANGED run ELSE End(p, "refused")
  /\ UNCHANGED <<schema, level, rows, tree, child>>

\* start_run looks again and chooses a new id.
Prepare(p) ==
  /\ pc[p] = "prepare"
  /\ IF Active = {} THEN On(p, p) /\ Go(p, "create") ELSE End(p, "refused")
  /\ UNCHANGED <<schema, level, rows, tree, child>>

\* create_worktree: `git worktree add`, or a failure before there is anything
CreateWorktree(p) ==
  /\ pc[p] = "create"
  /\ \/ tree' = tree \cup {p} /\ Go(p, "inspect") /\ UNCHANGED run
     \/ UNCHANGED tree /\ End(p, "refused")
  /\ UNCHANGED <<schema, level, rows, child>>

\* The rest of create_worktree.  A worktree that cannot be filled, or differs
\* from the base when it is, is removed.  An error of the snapshot that compares
\* the two is caught neither there nor by start_run or open.
Inspect(p) ==
  /\ pc[p] = "inspect"
  /\ Go(p, "register") \/ Go(p, "scrap") \/ Go(p, "stranded")
  /\ UNCHANGED <<schema, level, rows, tree, run, child>>

\* _remove_failed_worktree; if it cannot, its own error is all that is said.
Scrap(p) ==
  /\ pc[p] = "scrap"
  /\ \/ tree' = tree \ {run[p]} /\ End(p, "refused")
     \/ UNCHANGED <<tree, run>> /\ Go(p, "stranded")
  /\ UNCHANGED <<schema, level, rows, child>>

\* runs.create, after another snapshot of the new worktree
Register(p) ==
  /\ pc[p] = "register"
  /\ runs' = runs \cup {run[p]}
  /\ Go(p, "launch")
  /\ UNCHANGED <<version, tables, versioned, leases, readonly, level, rows, tree, run, child>>

RegisterFails(p) ==
  /\ pc[p] = "register"
  /\ Go(p, "unregister")
  /\ UNCHANGED <<schema, level, rows, tree, run, child>>

\* Fault: the worktree of a Run that could not be registered is kept.
UnregisterKeeping(p) ==
  /\ pc[p] = "unregister"
  /\ End(p, "refused")
  /\ UNCHANGED <<schema, level, rows, tree, child>>

\* The worktree goes again, or its removal fails, be it after the fact in `git
\* worktree prune`: RUN_START_CLEANUP_FAILED.
Unregister(p) ==
  /\ pc[p] = "unregister"
  /\ \/ tree' = tree \ {run[p]} /\ End(p, "refused")
     \/ tree' \in {tree, tree \ {run[p]}} /\ Go(p, "uncleaned") /\ UNCHANGED run
  /\ UNCHANGED <<schema, level, rows, child>>

\* resume_run looks again; without its worktree the Run cannot be reconciled.
Resume(p) ==
  /\ pc[p] = "resume"
  /\ IF \E r \in tree : Active = {r}
     THEN \E r \in tree : Active = {r} /\ On(p, r) /\ Go(p, "launch")
     ELSE End(p, "refused")
  /\ UNCHANGED <<schema, level, rows, tree, child>>

\* Fault: a terminal that only resumed the Run cleans up as well.
FailAndClean(p) == Go(p, "cleanup") /\ UNCHANGED run

\* A GuardError once the Run exists: who created it cleans up.
Fail(p) ==
  IF Created(p) THEN Go(p, "cleanup") /\ UNCHANGED run ELSE End(p, "refused")

\* The checks between the Run and its OpenCode, and Popen
Launch(p) ==
  /\ pc[p] = "launch"
  /\ \/ Go(p, "wait") /\ child' = [child EXCEPT ![p] = "starting"] /\ UNCHANGED run
     \/ Fail(p) /\ UNCHANGED child
  /\ UNCHANGED <<schema, level, rows, tree>>

\* Fault: the launcher waits for the handshake however long it takes.
WaitPatiently(p) ==
  /\ pc[p] = "wait"
  /\ \/ child[p] \in {"attached", "left"} /\ Go(p, "active")
     \/ child[p] = "none" /\ Go(p, "terminate")
  /\ UNCHANGED <<schema, level, rows, tree, run, child>>

\* wait_for_plugin_handshake: the file is there, or the deadline passes, be
\* it an instant before the file appears, or OpenCode has exited without it.
Wait(p) ==
  /\ pc[p] = "wait"
  /\ \/ child[p] \in {"attached", "left"} /\ Go(p, "active")
     \/ Go(p, "terminate")
  /\ UNCHANGED <<schema, level, rows, tree, run, child>>

Terminate(p) ==
  /\ pc[p] = "terminate"
  /\ child' = [child EXCEPT ![p] = "none"]
  /\ Fail(p)
  /\ UNCHANGED <<schema, level, rows, tree>>

\* The worktree of the failed start is removed; an error, before or after the
\* fact, is kept for later.
Cleanup(p) ==
  /\ pc[p] = "cleanup"
  /\ \/ tree' = tree \ {run[p]} /\ Go(p, "cancel")
     \/ tree' \in {tree, tree \ {run[p]}} /\ Go(p, "cancelDirty")
  /\ UNCHANGED <<schema, level, rows, run, child>>

\* Faults: a bound Run is cancelled like an unbound one; an error of the
\* cancellation is swallowed.
CanCancelBound(r) == stage[r] = "PLANNING" /\ blocked[r] \in {"NONE", "STARTUP_FAILED"}
CancelQuietly(p) ==
  /\ pc[p] \in {"cancel", "cancelDirty"}
  /\ blocked' = IF bound[run[p]] = None /\ blocked[run[p]] = "NONE"
                THEN [blocked EXCEPT ![run[p]] = "STARTUP_FAILED"] ELSE blocked
  /\ Go(p, IF pc[p] = "cancel" THEN "failed" ELSE "uncleaned")
  /\ UNCHANGED <<schema, level, stage, bound, owners, tree, run, child>>

\* cancel_startup: only a planning Run without a task, not blocked otherwise.
CanCancel(r) ==
  stage[r] = "PLANNING" /\ bound[r] = None /\ blocked[r] \in {"NONE", "STARTUP_FAILED"}

Cancel(p) ==
  /\ pc[p] \in {"cancel", "cancelDirty"}
  /\ IF CanCancel(run[p])
     THEN /\ blocked' = [blocked EXCEPT ![run[p]] = "STARTUP_FAILED"]
          /\ Go(p, IF pc[p] = "cancel" THEN "failed" ELSE "uncleaned")
     ELSE UNCHANGED blocked /\ Go(p, "uncleaned")
  /\ UNCHANGED <<schema, level, stage, bound, owners, tree, run, child>>

\* process.wait
Close(p) ==
  /\ pc[p] = "active" /\ child[p] = "left"
  /\ End(p, "closed")
  /\ child' = [child EXCEPT ![p] = "none"]
  /\ UNCHANGED <<schema, level, rows, tree>>

\* An error that is not a GuardError, an interrupt (both end the OpenCode that
\* was launched) or the death of the terminal (which does not): nothing is
\* cleaned up.
Die(p) ==
  /\ pc[p] \notin Ended
  /\ Go(p, "dead")
  /\ \/ UNCHANGED child
     \/ child[p] \in {"starting", "attached"} /\ child' = [child EXCEPT ![p] = "none"]
  /\ UNCHANGED <<schema, level, rows, tree, run>>

Step(p) ==
  \/ (Initialize(p) \/ OpenAgain(p)) /\ UNCHANGED <<rows, tree, run, child>>
  \/ Look(p) \/ Retire(p) \/ Prepare(p) \/ CreateWorktree(p) \/ Inspect(p) \/ Scrap(p)
  \/ Register(p) \/ RegisterFails(p) \/ Unregister(p) \/ Resume(p)
  \/ Launch(p) \/ Wait(p) \/ Terminate(p) \/ Cleanup(p) \/ Cancel(p)

-----------------------------------------------------------------------------
(* OpenCode, its plugin and the authority server it starts.                *)

\* The plugin asks the server for the status and writes the handshake; the
\* server cannot start without the worktree.
Attach(p) ==
  /\ child[p] = "starting" /\ run[p] \in tree
  /\ child' = [child EXCEPT ![p] = "attached"]
  /\ UNCHANGED <<schema, level, rows, tree, pc, run>>

Leave(p) ==
  /\ child[p] \in {"starting", "attached"}
  /\ child' = [child EXCEPT ![p] = IF @ = "starting" THEN "none" ELSE "left"]
  /\ UNCHANGED <<schema, level, rows, tree, pc, run>>

\* Fault: session ids are unique within a Run only.
FreePerRun(r, s) == <<r, s>> \notin owners

\* run_sessions.session_id is UNIQUE over all Runs.
Free(r, s) == \A q \in RunIds : <<q, s>> \notin owners

BindTask(p, s) ==
  LET r == run[p]
  IN /\ child[p] = "attached"
     /\ blocked[r] = "NONE" /\ bound[r] = None /\ stage[r] = "PLANNING"
     /\ Free(r, s)
     /\ bound' = [bound EXCEPT ![r] = s]
     /\ owners' = owners \cup {<<r, s>>}
     /\ UNCHANGED <<schema, level, stage, blocked, tree, terminals>>

\* attach_session, for a session that is not a participant yet
AttachSession(p, s) ==
  LET r == run[p]
  IN /\ child[p] = "attached" /\ bound[r] # None
     /\ Free(r, s) /\ \A q \in RunIds \ {r} : bound[q] # s
     /\ owners' = owners \cup {<<r, s>>}
     /\ UNCHANGED <<schema, level, stage, blocked, bound, tree, terminals>>

\* The PLAN is approved, or the work accepted; a Run from before the planning
\* tables can only go on with the packet it has.
Work(r) ==
  /\ version = Latest
  /\ r \in runs /\ bound[r] # None /\ blocked[r] = "NONE" /\ r \in tree
  /\ \/ stage[r] = "PLANNING" /\ r \notin readonly /\ stage' = [stage EXCEPT ![r] = "WORKING"]
     \/ stage[r] = "WORKING" /\ stage' = [stage EXCEPT ![r] = "ACCEPTED"]
  /\ UNCHANGED <<schema, level, blocked, bound, owners, tree, terminals>>

\* The review command removes the worktree of the Run it has accepted.
RemoveAccepted(r) ==
  /\ stage[r] = "ACCEPTED" /\ r \in tree
  /\ tree' = tree \ {r}
  /\ UNCHANGED <<schema, level, rows, terminals>>

\* A hook or a resume blocks the Run for a write it cannot attribute.
Block(r) ==
  /\ version = Latest
  /\ r \in runs /\ stage[r] # "ACCEPTED" /\ blocked[r] = "NONE"
  /\ blocked' = [blocked EXCEPT ![r] = "OTHER"]
  /\ UNCHANGED <<schema, level, stage, bound, owners, tree, terminals>>

Others ==
  \/ \E p \in Openers : Attach(p) \/ Leave(p) \/ (\E s \in Sessions : BindTask(p, s) \/ AttachSession(p, s))
  \/ \E r \in RunIds : Work(r) \/ RemoveAccepted(r) \/ Block(r)

-----------------------------------------------------------------------------
\* The upgrade of the database leaves at most one old Run to resume; one with a
\* frozen packet is working, and the session it is bound to need not be in
\* run_sessions.
Init ==
  /\ SchemaInit
  /\ \A r, q \in runs : r = q
  /\ stage \in [RunIds -> {"PLANNING", "WORKING"}]
  /\ \A r \in RunIds : stage[r] = "WORKING" => r \in runs
  /\ \A r \in runs \cap (Uncertain \cup leases) : stage[r] = "WORKING"
  /\ blocked = [r \in RunIds |-> "NONE"]
  /\ \E s \in Sessions \cup {None} :
       /\ bound = [r \in RunIds |-> IF r \in runs THEN s ELSE None]
       /\ s = None => \A r \in runs : stage[r] = "PLANNING"
       /\ owners \in {{}, IF version < 2 \/ s = None THEN {} ELSE {<<r, s>> : r \in runs}}
  /\ tree = runs
  /\ run = [p \in Openers |-> None]
  /\ child = [p \in Openers |-> "none"]

Next ==
  \/ \E p \in Openers : Step(p) \/ Refuse(p) \/ Close(p) \/ Die(p)
  \/ Others

\* A terminal runs until it ends or waits for its user, and the user repeats
\* a command that could not open the database.
Fairness == \A p \in Openers : WF_vars(Step(p))

Spec == Init /\ [][Next]_vars /\ Fairness
-----------------------------------------------------------------------------
(* Properties.                                                             *)

\* Types; a terminal that is at work on a Run knows which.
OpenTypeOK ==
  /\ version \in 0..Latest /\ tables \subseteq Groups /\ versioned \in {"yes", "no"}
  /\ runs \subseteq RunIds /\ leases \subseteq runs \cap OldRuns /\ readonly \subseteq runs
  /\ level \in [Openers -> 0..Latest]
  /\ stage \in [RunIds -> {"PLANNING", "WORKING", "ACCEPTED"}]
  /\ blocked \in [RunIds -> {"NONE", "STARTUP_FAILED", "LEGACY_RUN_RETIRED", "OTHER"}]
  /\ bound \in [RunIds -> Sessions \cup {None}] /\ owners \subseteq RunIds \X Sessions
  /\ tree \subseteq RunIds
  /\ pc \in [Openers -> Places] /\ run \in [Openers -> RunIds \cup {None}]
  /\ child \in [Openers -> Children]
  /\ \A p \in Openers :
       pc[p] \notin Opening \cup {"unopened", "look", "prepare", "refused", "closed", "dead"} =>
         run[p] # None

\* A start that fails once its Run is registered, and reports no cleanup error,
\* has left nothing: no worktree, and a Run that is cancelled and never had a
\* task.  What binds, blocks or resumes the Run between the timeout and the
\* cancellation makes the terminal report an incomplete cleanup instead.  (Of
\* a start that fails earlier StrayTreesTraced tells what it may leave.)
FailedStartLeavesNothing ==
  \A p \in Openers : pc[p] = "failed" =>
    /\ run[p] \notin tree
    /\ blocked[run[p]] = "STARTUP_FAILED"

\* Only a Run that nobody has bound is ever cancelled, and nothing binds it
\* afterwards: no task disappears with a failed start.
CancelledUnused ==
  \A r \in RunIds : blocked[r] = "STARTUP_FAILED" => bound[r] = None /\ stage[r] = "PLANNING"

\* Where a worktree without a row comes from: the terminal that created it is
\* about to register or to remove it, or died over it, or reported that it could
\* not remove it (RUN_START_CLEANUP_FAILED), or ended "stranded", with an error
\* inside create_worktree that says nothing of it.  No other way to fail leaves
\* one, and no other terminal ever takes it for a Run.
StrayTreesTraced ==
  \A r \in tree \ runs :
    /\ \E p \in Openers :
         /\ r = p /\ run[p] = p
         /\ pc[p] \in {"inspect", "scrap", "register", "unregister",
                      "uncleaned", "stranded", "dead"}
    /\ \A q \in Openers : run[q] = r => q = r

\* An active Run loses its worktree only to the cleanup of the terminal that
\* created it, which says so (STARTUP_CLEANUP_FAILED) unless it dies first.
LostTreesReported ==
  \A r \in Active \ tree : \E p \in Openers :
    r = p /\ run[p] = p /\ pc[p] \in {"cancel", "cancelDirty", "uncleaned", "dead"}

\* A session takes part in one Run, and no two Runs that this program has
\* started are bound to the same session.
SessionHasOneRun ==
  /\ \A s \in Sessions, r, q \in RunIds : <<r, s>> \in owners /\ <<q, s>> \in owners => r = q
  /\ \A r, q \in RunIds \ OldRuns : bound[r] = bound[q] /\ bound[r] # None => r = q

\* A command that is given again as long as it cannot open the database gets
\* to its end or to a running OpenCode, unless the database is stuck: no
\* handshake and no other terminal keeps it waiting.
OpenSettles ==
  \A p \in Openers : pc[p] = "version" ~> (pc[p] \in Ended \cup {"active"} \/ Stuck)

\* "Project already has an active Run; use open to resume it."
\* (facade.py:142): a second Run is not started next to an active one.
OneActiveRun == Cardinality(Active) <= 1
=============================================================================

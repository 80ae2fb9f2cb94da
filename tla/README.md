# A verified model of OpenCode Guard Authority

This directory holds TLA+ specifications of the guard authority in this
repository, the TLC configurations that check them on small instances, and
proofs, checked by TLAPS, of the theorems that matter for every instance.
`PROJECT.json` is the index: which lines each definition models, what each run
checks, which fault each property detects, which hazards the properties are for.

Paths below are relative to `src/src/opencode_guardian/` unless they say
otherwise (`hooks.js` and `client.js` are in `src/opencode-plugin/`).

## 1. The system

The guard runs an OpenCode session inside a *Run*: a Git worktree, a frozen
development packet made of ordered phases, and a record of every write, every
verification and every decision.  The model proposes; the guard decides what may
be written, when a phase is over, whether the checks pass, and a person or a CI
system accepts the result.

| Part | State it keeps | Operations | Talks to |
| --- | --- | --- | --- |
| **Run store** (`persistence/execution.py`, `evidence.py`, `runs.py`, `quality.py`, `database.py`) | SQLite: `runs`, `phase_executions`, `write_leases`, `run_sessions`, `evidence`, `events`, quality tables | one transaction each: activate the PLAN, create / finish / cancel a write lease, complete a phase, record a verification, approve, reopen, block, attach, revoke, drive | everybody, through `BEGIN IMMEDIATE` |
| **Facade** (`facade.py`, class `Guardian`) | none but local variables | `authorize_tool`, `post_tool`, `complete_phase` (+ `_verify`), `review`, `reconcile_workspace`, `start_run`, `resume_run`, planning submissions | the store, the workspace, the sandbox |
| **RPC server** (`rpc.py`) | a cache of answers, one request at a time | `serve`, `_dispatch`; reconciles when it starts | the facade; the plugin by stdin/stdout |
| **Plugin** (`hooks.js`, `client.js`, `tools.js`) | the last status, the context of each authorized call, pending requests | hooks before and after each tool, `ensureSession`, handshake | the RPC server; OpenCode |
| **Command line** (`cli.py`, `launcher.py`, `persistence/runs.py`) | `runs`, the worktree and the handshake file of a start | `open` (start or resume, launch, wait, clean up), `review`, receipts, quality commands | the facade, in a process of its own; OpenCode |
| **MCP server** (`mcp.py`) | none | read views; planning submissions | the facade, in a process of its own |
| **Planning gate** (`persistence/execution.py`, `contracts.py`) | planning artifacts, reviews, receipts, `planning_states` | baseline, SPEC and PLAN submissions, reviews, approval receipts | the store |
| **Event chain and replay** (`integrity.py`, `persistence/integrity.py`) | the hash chain of events | replay of the whole history at every read | the store |
| **Workspace** (`workspace.py`) | the worktree on disk | create, remove, snapshot | Git, the file system |
| **Sandbox** (`sandbox.py`) | none | run one check in a container, worktree mounted read-only | Docker |
| **Database** (`persistence/database.py`) | `PRAGMA user_version`, the tables | create the schema, migrate it from versions 1 to 6, refuse | every command, when it starts |
| **Preflight, environment, installation** (`preflight.py`, `environment.py`, `trusted_install.py`, `scripts/`) | none | refuse an environment that is not the expected one | the file system |
| **Design skill packages** (`src/design/`) | none | offline document validators | nobody |

What makes the system hard is that **an operation of the facade is not a
transaction**.  It reads the Run, compares the disk, reads a lease, runs checks
for minutes, and commits at the end; a server, a terminal and an MCP server do
this at once over one database and one worktree, tools write that worktree in
the meantime, servers die and plugins give up.  Only two things hold it
together: the *revision* of the Run, which every commit increments and most
commits compare, and the *write lease*.

For each part, what makes it correct:

- *store*: phases form a ladder; a pending write pins stage, phase, scope and
  owner; passing evidence stands exactly between a verification and the next
  reopening; a blocked Run records no write; an accepted one keeps its verdict;
- *facade*: whatever it read, it commits only what is still true; the recorded
  content moves only under a lease and in its files; evidence and verdict are
  about the recorded content; nobody verifies twice at once; an interrupted
  write is settled by a resume;
- *RPC server and client*: a request runs at most once, given up or not; its
  answer belongs to it; the context of a mutation never goes back;
- *planning gate*: a PLAN is activated once, from artifacts that were reviewed,
  current and approved;
- *startup*: a start that fails after its Run was registered leaves neither
  worktree nor live Run or says so, a worktree without a row has one of a few
  known causes, no Run with a task is cancelled, a session takes part in one Run, a project has at
  most one active Run;
- *database*: the version in the file names the tables in it, whoever migrates
  it at once and dies; only old Runs become read-only;
- *replay*: it accepts every history the transactions can write.  Every
  transaction begins with it, so one rejected history is a lost Run.

## 2. Modules

| Module | Contents | Proofs in |
| --- | --- | --- |
| `RunStore` | the transactions of one activated Run, from *any* caller at any time | `RunStoreProofs` |
| `EventReplay` | extends `RunStore`: the event each transaction appends, the rows only the replay reads, the fold of the events, and quality drives | `EventReplayProofs` |
| `Guardian` | extends `RunStore`: processes, the disk, tool calls; the facade's operations step by step | `GuardianProofs` |
| `GuardedRun` | abstract: what a Run promises to whoever reads its record | |
| `PlanningGate` | the transactions of the planning gate, the events they write and the replay that reads them | `PlanningGateProofs`, `PlanningReplayProofs` |
| `GatedPlan` | abstract: settle, accept, approve, activate | |
| `SchemaUpgrade` | opening the database: creation and migrations, step by step | `OpenRunProofs` |
| `OpenRun` | extends `SchemaUpgrade`: the `open` command of several terminals, its OpenCode, sessions across Runs | `OpenRunProofs` |
| `RpcChannel` | the pipe between plugin and server: ids, cache, timers, late answers, contexts | `RpcChannelProofs` |
| `RemoteCall` | abstract: a request that runs at most once | |
| `PathScope` | the tests that compare paths with the scope of a phase, as operators | `PathScopeProofs` |
| `MCEventReplay`, `MCGuardian`, `MCPlanningGate`, `MCOpenRun`, `MCRpcChannel` | instances for TLC | |

How they fit together.  `Guardian` implements `StoreSpec` of `RunStore`
(`ImplementsStore`), so the store is checked once, against any caller, in
`EventReplay`, whose transactions are those of `RunStore` with their event.
`Promise == INSTANCE GuardedRun WITH ...` maps the composed system to the
abstract one (`KeepsPromise`): the phase in progress is `active_phase`, the
attested content is that of the evidence if it passed.  `PlanningGate` ends
where `RunStore` begins: its `ConsumeApproval` and `ActivatePlan` there are two
views of `consume_plan_approval_receipt`; `Gate == INSTANCE GatedPlan WITH ...`
maps it to its abstract specification (`KeepsGate`).  `OpenRun` surrounds both:
it knows of a Run only whether it is planning, working or accepted, blocked,
bound, and which sessions it has.  `RpcChannel` is the transport of the requests
that `Guardian` treats as a step; `Remote == INSTANCE RemoteCall WITH ...`
(`KeepsCall`) is why it may.

### RunStore

State: the columns of `runs` (`stage`, `revision`, `active`, `ws`, `evidence`,
`blocked`), `phase_executions` (`status`, `touched`), `write_leases` (`lease`)
and `run_sessions` (`member`).  Every repository method that commits is one
`BEGIN IMMEDIATE` transaction, hence one action: `Can<X>` is the checks made
inside the transaction, in any order since they only refuse, and `<X>` adds the
effect.  `Event` is `append_event`: one event, one revision.

| Action | Code |
| --- | --- |
| `ActivatePlan` | `consume_plan_approval_receipt`, the part that touches the Run |
| `CreateWriteLease`, `FinishWrite`, `CancelUnchangedLease` | the methods of the same names |
| `CompletePhase`, `ReopenLastPhase` | `complete_phase`, `reopen_last_phase` |
| `FinishVerification`, `Approve` | `finish_verification`, `review` of the evidence repository |
| `Block`, `AttachSession`, `RevokeSession` | `block`, `attach_session`, `revoke_session` |
| `RecordRejection`, `DriveQuality` | operations that only add an event |

Abstractions, and why they lose nothing the properties look at:

- A digest is the content it identifies; files and contents are small sets.
- `change_count` is only ever compared with zero: `touched` is the set of phases
  where it is positive.
- The packet and its digest never change after activation (the revision route of
  packets is retired), so comparisons of packet digests always succeed.
- Evidence is the content it is about and whether every check passed.
- A phase is its position; its scope is `Allowed[p]`.  `_covers` on path
  patterns is membership here; `PathScope` says what that leaves out.
- Not modelled here: migrated Runs (`COMPATIBILITY_READ_ONLY`) and the uniqueness
  of a session over several Runs, which are in `OpenRun`.
- `revision` counts from the activation of the PLAN.

### EventReplay

Every transaction begins with `select_run`, which folds all the events of the Run
and compares the result with the rows; a difference makes the Run unreadable
(`PERSISTED_STATE_BROKEN`).  The fold goes through the events once and in order,
so the model keeps the fold so far, `seen`, instead of the events: `Replay(r, e,
before, after)` is one round of the loops in `persistence/integrity.py`.  The
further columns are `joined` and `left` (`attached_revision`, `attached_at`,
`revoked_at`), `updated` (`updated_at` of a phase), `batches`, `drives` and
`confirmations`.

| Part | Code |
| --- | --- |
| `ReplayPeople`, `PeopleMatch`, `PeopleSound` | `_verify_participants` |
| `ReplayPhases`, `PhasesMatch`, `PhasesSound` | `_verify_phases`, `_replay_phase_snapshot` |
| `ReplayOpen`, `LeaseMatch`, `LeaseSound` | `_verify_lease` |
| `Rejects`, `AnchorsMatch` | `verify_event_records`, `_verify_run_anchors` |
| `EvidenceSound`, `QualitySound`, `LogsMatch` | `_verify_evidence`, `_verify_quality` |
| `<X>Logged` | the transaction of `RunStore` with its `append_event` and its time stamps |
| `DriveLogged`, `ConfirmLogged`, `Projection`, `Fitness` | `persistence/quality.py`, `quality/projection.py` |

Nearly every transaction ends with the replay as well, which rolls back what it
would reject.  A model with that check as a guard everywhere could not fail, so
it is a guard only where a rejection is possible: `RevokeLogged` (the wall clock,
which may step back between two transactions, shows a time before the
attachment) and `VerifyLogged` (evidence about another content).  That there is no
third transaction that can be rolled back is what `ReplayAgrees` says.

Hashes, actors and documents are left out; the packet digest never changes.  A
known request id of a drive changes nothing and needs no action.

### Guardian

`job[p]` is where process `p` is between two steps of an operation, with exactly
the local variables that the code still uses.  `calls[c]` is what the plugin
knows of a tool call.  A step ends where the code reads or writes something
another process can change: a read of the database, a snapshot, a transaction.

| Operation | Steps |
| --- | --- |
| `authorize_tool` | `AuthorizeBegin` (reads, scope check), `AuthorizeSnapshot`, `AuthorizeCommit` |
| `post_tool` | `PostBegin` (request), `PostRun`, `PostLease`, `PostSnapshot`, `PostCommit` |
| `complete_phase` | `Complete`, then `VerifySnapshot`, `VerifyChecks`, `VerifyCommit` |
| `review` | `ApproveBegin`, `ApproveSnapshot`, `ApproveCommit`; `RequestChanges` |
| `reconcile_workspace` | `ReconcileBegin`, `ReconcileSnapshot`, `ReconcileLease`, `ReconcileCancel`, or the steps of `post_tool` |
| `block_run` at the end of any of them | `BlockCommit` |
| one-transaction operations, by any process | `Activate`, `Attach`, `Revoke`, `Reject`, `Drive` |
| plugin | `HookConfirm`, `HookTimeout` |
| world | `ToolWrite`, `ExternalEdit`, `Crash` |

Where several reads are one step, the interleavings left out can only end in a
refusal: a request whose context is stale on arrival is refused before any
write, so requests begin with a current context; `RequestChanges` compares the
anchors it has just read; a phase completion carries the revision it is checked
against.  `ReconcileBegin` merges the search of the active Run with the read of
the Run; a Run accepted between the two is reconciled the way a starting server
does.  A snapshot is atomic.  `confirm_fitness` has the effect of `Drive`.  A
terminal that dies is one that takes no more steps.  A write of a tool outside
its declared files is an `ExternalEdit`.  `post_tool` tests
the files written twice, against the declared ones and against the phase; with
scopes that are sets of files the second test repeats the first, since
`LeasePinsRun` holds.  See `PathScope` for the one case where it does not, which
ends in the same block.

### PathScope

No state: the operators with which the code compares paths as text, over paths
that are sequences of segments.  A declaration is an exact path or the tree below
a root (`src/**`); what `normalize_packet` lets through has no other wildcard.

| Operator | Code |
| --- | --- |
| `Matches`, `MayWrite` | `fnmatchcase`, `_assert_paths_allowed`: authorization, the end of a write, coverage of criteria |
| `Covers`, `MayLease` | `_covers`, the test of `create_write_lease` |
| `PathsWithin` | `_paths_within` |
| `Added`, `Removed` | `_scope_delta`: what a revision of the packet changes |
| `Ambiguous`, `RepairScope`, `PathCoverage` | what a packet must satisfy to be frozen |

The two comparisons differ at the root of a tree: `src` is covered by `src/**`
and does not match it.  The facade no longer revises packets (`submit_packet` is
retired there); the store still can and the replay still checks such revisions
of older Runs, which is where `Added` matters.  `MCGuardian` compares the
operators with what they should mean, over all declarations of one or two
segments, in `ASSUME`s that TLC evaluates at each run of `Guardian`.

### PlanningGate

State: `planning_artifacts`, `plan_candidates`, `planning_review_receipts`,
`plan_approval_receipts`, `planning_states` (`step`; the review gate goes with
the step), the columns `stage`, `blocked_code` and `packet_digest` of the Run,
the event log, and what each process has left to do.

| Action | Code |
| --- | --- |
| `SubmitBaseline`, `SubmitSuccessor` | `store_planning_artifact`, the second with `_immediate_predecessor`, `_require_inherited_closure` and `_consume_planning_review` |
| `SubmitStale`, `SubmitRefused`, then `RecordRejection` | a submission that raises and `record_planning_submission_rejection`, a transaction of its own |
| `RecordReview` | `record_planning_review_receipt` |
| `RecordApproval` or `FindApproval`, then `Consume` | `approve_plan_receipt`: record the receipt or find it recorded, then consume it, in two transactions |
| `Die` | a process that ends between its two transactions |
| `Block`, `OtherCommit` | a block; any other commit (task, sessions, drives), which matters here by the revision it takes |
| `VerifyRunAnchors`, `VerifyPlanning` | the parts of the replay (`persistence/integrity.py`) that read these events |

Abstractions:

- An artifact is its kind, the authority it claims (the eight fields that
  `_require_inherited_closure` compares, as one value) and, for a PLAN, its
  packet.  Its identifier and digest name these; a kind is stored once, so
  collisions of identifiers refuse a request that is out of sequence anyway.
- A receipt identifier stands for the identifier and the nonce, both unique.
- `base_sha` and `workspace_digest` do not change before activation, so a
  document or receipt that names others is refused; refusals of any kind are
  `SubmitRefused`.
- The revision of the Run is the length of the log.
- `SELECT ... fetchone()` without an ORDER BY returns any matching row.
- The gate is followed up to activation: what the Run does afterwards is
  `RunStore`.  Blocking codes are one bit.

### SchemaUpgrade and OpenRun

State of the database: `version` (`PRAGMA user_version`), `tables` by the version
that introduced them, `versioned` (whether packet artifacts have versions),
`runs`, `leases` of old Runs, `readonly` (`planning_states` of migrated Runs).
State of the Runs: `stage`, `blocked`, `bound` (the session a task was bound
from), `owners` (`run_sessions`), `tree` (worktrees that exist).  A terminal has
a place `pc`, the Run it works on and the OpenCode it has launched; the Run that
a terminal starts bears its name, since it starts at most one.

| Action | Code |
| --- | --- |
| `ReadVersion`, `ReadTables` | the two reads of `Database._initialize` |
| `RunScript`, `Stamp` | `executescript(SCHEMA)`, which commits statement by statement, then the version |
| `MigrateAll`, `MigrateStep` | the migration from version 1 in one transaction; `_migrate_v2_to_v3` to `_migrate_v6_to_v7`, one transaction each |
| `Look`, `Retire` | `cli._open` with `find_active`; the retirement of a Run whose packet knows no certainty |
| `Prepare` | `start_run` as far as `create_worktree`: the second look, a new id |
| `CreateWorktree`, `Inspect`, `Scrap` | `create_worktree`: `git worktree add`; filling it and the snapshot that compares it with the base; `_remove_failed_worktree` |
| `Register`, `RegisterFails`, `Unregister` | the rest of `start_run`: a second snapshot and the row, and the removal when one of them fails |
| `Resume` | `resume_run` |
| `Launch`, `Wait`, `Terminate` | `launcher.py`, `wait_for_plugin_handshake`, the end of an OpenCode without handshake |
| `Cleanup`, `Cancel` | the `except` clauses of `open`: worktree first, then `cancel_startup` |
| `Refuse`, `Die`, `Close`, `OpenAgain` | any other `GuardError`, an interrupt or death, the end of OpenCode, the user repeating the command |
| `Attach`, `Leave`, `BindTask`, `AttachSession` | the plugin and its server: handshake, exit, `bind_task`, `attach_session` |
| `Work`, `RemoveAccepted`, `Block` | what the rest of the system does to a Run, as far as it matters here |

Abstractions: columns, constraints and triggers are left out except the versions
of artifacts; all the rows a start writes are one transaction in the code and
one step here; `find_active` and `start_run` look at the same set `Active`; the
handshake file is the state of the child.  `remove_worktree` may fail before the
worktree is gone or after it, in `git worktree prune`.  A terminal that ends
`stranded` failed inside `create_worktree`, outside every `try` that cleans up,
and its error tells nothing of the worktree.  A block other than those of a start
is `OTHER`.

### RpcChannel

State: the pipes `inbox` and `outbox`, the request `serving`, the answer `cache`,
whether the server is up, the `revision` of the Run; for the client `nextID`,
`pending` and `failure`; for each concurrent hook or tool its `stage`, the id it
`asked` with and the revision its status showed (`known`); `latest` is
`latestStatus` of the hooks.  `served` and `heard` are history variables.

| Action | Code |
| --- | --- |
| `Replay`, `Dispatch`, `Reply` | `serve`: a remembered id, `_dispatch`, remembering and writing the answer |
| `Crash`, `Fail` | the end of the server, killed or not; `fail` and `close` of the client, which may come before or after it |
| `AskStatus`, `AskMutation` | `authorityRequest` of the hooks and the tools, with `contextBinding` |
| `Deliver`, `Resolve` | the answer handler of `createAuthorityClient`, late answers included, and what the hooks keep of an answer |
| `Timeout` | the timer of a request |
| `TooLarge` | a request that takes an id and is refused before it is written |
| `OtherCommit` | a commit by a terminal, an MCP server or another authority |
| `OtherWrites`, `OtherReads` | another program at the end of the pipe |

The plugin never repeats a line or an id, so with it alone the cache would never
answer.  The protocol is for any program, and the integration tests speak it as
they like; this is the second kind of `peer`.  `_dispatch` is reduced to
what it may do to the revision: a mutation that succeeds is bound to the current
one or leaves it alone (a drive or a fitness that is already logged); one that
fails may move it (a recorded refusal, a block), whatever it was bound to.  Ids
are numbered over the lines that are written; one that `REQUEST_TOO_LARGE` takes
leaves a gap, in which nothing can be compared.  Framing of lines
and malformed lines are left out.  `latestStatus ||= ...` never finds an empty
status in practice, since every caller asks for the status first (`RpcTypeOK`
says so: a bound caller implies a context).

## 3. What TLC checks

All runs set `CHECK_DEADLOCK FALSE`: a Run that is accepted really stops, and
so does one whose revision or event log has reached the bound; terminals and
clients end.

| Run | Instance | Shows |
| --- | --- | --- |
| `history` | 2 phases with different scopes, 1 file, 2 sessions, 1 call, 7 events, 2 clock readings, 1 request id | `TypeOK`, `PhaseLadder`, `LeasePinsRun`, `EvidenceGate`, `BlockedRecordsNoWrite`, `AcceptedKeepsVerdict`, `ReplayAgrees`, `FitIsEarned`, whoever calls the store |
| `facade` | 2 servers, 1 terminal, 2 calls, 6 events | `LeaseAnchored`, `RevisionFences`, `OneVerifier`, `EvidenceCurrent`, `KeepsPromise`, `GuardianTypeOK` |
| `phases` | 1 server, 1 terminal, 2 phases, 2 files, 1 outside write, 6 events | `WritesAttributed`, `ImplementsStore` |
| `interrupted` | fair; 1 server, 1 terminal, 2 sessions that come and go, 1 outside write, 4 events | `InterruptedWriteSettles` |
| `planning` | 2 processes, 2 authorities, 2 packets, 3 reviews, 2 approvals, 8 events | `PlanningChain`, `ReviewedOnce`, `ApprovedOnce`, `ReplayAccepts`, `KeepsGate`, `PlanningTypeOK` |
| `approval_retry` | fair; 2 processes, 2 reviews, 1 approval, 8 events | `ApprovalSettles` |
| `opening` | fair; 2 terminals, 2 old Runs of which one predates certainty, 1 session, databases of versions 0, 1, 2 and 7 | `OpenTypeOK`, `VersionNamesTables`, `ReadOnlyIsOld`, `FailedStartLeavesNothing`, `CancelledUnused`, `StrayTreesTraced`, `LostTreesReported`, `SessionHasOneRun`, `OpenSettles` |
| `rpc` | fair; 2 callers, a cache of 2, 4 lines, revisions up to 2; or a program that uses one id for two lines | `RpcTypeOK`, `RunsOnce`, `AnswersOwnLine`, `StatusSettlesEarlier`, `LatestForward`, `KeepsCall`, `CallsEnd` |

Bounds.  `MaxRevision` limits the events of a behaviour: one phase takes six
(activate, authorize, write, complete, verify, accept), and a refusal, a block
or a cancelled lease takes one more, so six or seven events reach every stage
and one detour on the way.  With two phases six events do not reach the acceptance
of a write: `facade` does, with one phase.  Two processes of a kind and two calls
are enough for an operation to be overtaken by another of its kind.  `MaxEdits`
limits writes outside the hooks; one is enough to separate the disk from the
record.  Two contents make an edit and its undoing.  Two clock readings make a
clock that steps back.  The planning gate takes seven events from the baseline to
the activation; the eighth leaves room for one detour at any point, and the third
review receipt for a stale one beside the two that are used.  In `opening` each
of two terminals can be overtaken between any two of its steps; version 1 has the
one migration of its own kind and version 2 goes through every other step (the
proofs take any version to start from).  In `rpc` four lines overrun a cache of
two.  Symmetry permutes processes, calls, contents, sessions, receipts, packets
and authorities; the liveness runs use none.

Fairness.

- `FairSpec` of `Guardian`: an operation that has begun goes on (`Work`), as
  nothing in it waits for another process, SQLite waits with a timeout, and a
  sandbox run has one.  Somebody keeps resuming the Run from a terminal
  (`ReconcileBegin`): it is what the message of a second `open` asks for, and
  what the property is about.  Nothing else is owed: no tool needs to write, no
  plugin to answer, no server to start, no reviewer to decide.
- `FairSpec` of `PlanningGate`: the same, and a process that began to record a
  refusal does so unless it dies, and whoever runs `approve-plan` runs it again
  when it was cut short (strong fairness of `FindApproval` and `Consume`, since a
  death disables them only until the retry).
- `OpenRun`: weak fairness of `Step(p)`.  A terminal runs until it ends, is
  killed or waits for its user, and the user repeats a command that could not
  open the database.  OpenCode owes nothing; it is the deadline that ends the wait.
- `RpcChannel`: weak fairness of `Timeout(c)` alone.  A timer that is not cleared
  runs out.  The server owes nothing.

`InterruptedWriteSettles` carries two excuses: the model's bound, and a revision
that has moved past the lease, after which the recovery raises
`REVISION_CONFLICT` at every resume.  `ApprovalSettles` has the same two and a
third one, a block.  A commit between the recording of an approval and its
consumption makes the receipt stale, and a second receipt for the same PLAN is
refused: such a Run stays in PLANNING for good.  `OpenSettles` excuses a database
that is `Stuck`, see below.

### Where the code and its own words differ

Four runs expect a violation.  Each checks one sentence of the code as a property.

| Run | The sentence | What TLC finds |
| --- | --- | --- |
| `second_call` | "Workspace changed without a valid write lease." | a second authorization between the write of the first call and its after hook blocks the Run although the lease is valid |
| `resume_verify` | "...; use open to resume it." | a verification whose process died is never restarted |
| `stale_review` | "External review receipt is stale." | once one accepting review of a document went stale, the submission that follows may be refused because of it although a current review is recorded |
| `two_runs` | "Project already has an active Run; use open to resume it." | two terminals that find no active Run start one each, and from then on every `open` of the project is refused |

### What the models had to admit

Behaviour found while modelling that contradicts no sentence of the repository
but that a reader of the properties should know; each is in the models, and the
properties are stated so as to hold with it.

- A Run that is blocked while its checks run goes on to REVIEW_REQUIRED and can
  be accepted: `finish_verification` and `review` do not look at the block.
- A terminal that resumes cancels the lease of a call that has not written yet;
  the plugin notices until its last look at the revision (`RevisionFences`), and
  after it the write is taken for one outside the hooks.
- The recovery of an interrupted write after an unrelated commit raises
  `REVISION_CONFLICT` for ever.
- The creation of the schema is not one transaction: a process that dies in it
  leaves version 0 with tables, which every later process refuses (`Creating`).
- A pending lease in a database of version 1 refuses its migration, one in a
  database of version 2, 3 or 4 stops it at version 4 (`Stuck`).
- The session of a Run older than `run_sessions` need not have a row there and
  can be bound to a second Run, hence the restriction of `SessionHasOneRun` to
  the Runs of this program.
- A terminal whose wait for the handshake ran out removes the worktree of its Run
  even when another terminal resumed that Run meanwhile; it does say so
  (`STARTUP_CLEANUP_FAILED`, `LostTreesReported`).
- Only a `GuardError` is cleaned up after; an interrupt leaves worktree and Run
  (`StrayTreesTraced`, for a Run that has no row yet).
- Not every `GuardError` is: the snapshot at the end of `create_worktree`
  (`workspace.py:86`) runs when the worktree exists and is outside its `try`, and
  `start_run` calls `create_worktree` before its own.  If it raises, or
  `_remove_failed_worktree` does, `open` is refused and a worktree without a row
  stays that nothing reports and, by `StraysAreForGood`, nothing ever removes.
- A FIT may be confirmed when the Run has already been sent back; what
  `FitIsEarned` guarantees is that it was earned when driven.

## 4. What TLAPS proves

For every packet, every number of processes, terminals, callers, calls, sessions,
files, contents, receipts and packets, every size of the cache and every bound:
all the invariants, action properties and refinements of the passing runs.
Only the four liveness properties (`InterruptedWriteSettles`, `ApprovalSettles`,
`OpenSettles`, `CallsEnd`) and the four violations are left to TLC: TLAPS does
not reason about fairness and ENABLED here.

The constants are assumed to be what the code makes them: at least one phase
(`PhasesAssumption`), a scope for each (`AllowedAssumption`), a clock that shows
some time (`TimesAssumption`), Runs of the terminals distinct from the old ones
(`RunsAssumption`, `UncertainAssumption`), lines of another program that are lines
(`OtherLinesAssumption`), some name for a file (`SegmentAssumption`), natural bounds and a positive cache (`SizesAssumption`),
and `None` different from any value it stands beside (the `No...Assumption`s and
`NoneAssumption`).

- `RunStoreProofs`.  The inductive invariant `Inv` is the conjunction of
  `TypeOK`, `PhaseLadder`, `LeasePinsRun` and `EvidenceGate`.  None of them is
  inductive alone: the ladder needs no lease in a completed phase, the lease
  needs the ladder to stay in the active phase, the gate needs the ladder's
  stages.  The two action properties follow from it.
- `EventReplayProofs`.  `IInv` is `Inv` of the store, which each logged
  transaction preserves because it is one of the store's, the types of the new
  columns (and that ids of batches and drives lie in the past), `ReplayAgrees`
  itself and `History`, what the replay does not check but its acceptance and
  `FitIsEarned` depend on: the latest verdict is that of the batch with the
  highest id, nothing is accepted before its acceptance, a drive that earns a FIT
  follows a passing batch at once.  The step lemmas are one per transaction and part of the fold.
- `GuardianProofs`.  `StepOfStore` shows that each step is a step of the store or
  leaves it alone; hence `ImplementsStore`, and the invariant `Inv` for free.
  `GInv` adds the types of the local variables, `Fences` (the part of
  `RevisionFences` about content), `LeaseAnchored`, `OneVerifier` and
  `EvidenceCurrent`.  The argument is that of
  the code: what a process remembers is either current or carries a revision that
  is no longer current, and the commits compare revisions; the
  one commit that compares none, `finish_verification`, is safe because leaving
  VERIFYING takes a verifier and there is only one (`OneVerifier`).
  `WritesAttributed` and the refinement `KeepsPromise` follow from `GInv`.
  On top of it `Held` says of every write under way that it has its lease as long
  as its revision is current; it is inductive with `LeaseFresh` (a lease of the
  current revision was taken by the last event, which then was no block), since
  every event takes a new revision (`PastStaysPast`).  `GInv` and `Held` are
  `RevisionFences`.  Three more results say how things end:
  `CurrentWritesGoThrough` (a write is refused only after another commit, which is
  the safety half of `InterruptedWriteSettles`), `AcceptedRunsAreSettled`, and
  `AbandonedStaysAbandoned` (the finding `resume_verify` is final: no operation of
  any process gets such a Run out of VERIFYING).
- `PlanningGateProofs`.  `GateInv` is `PlanningTypeOK`, `PlanningChain`,
  `ReviewedOnce`, `ApprovedOnce` and `Anchored`, which ties the tables to the log:
  every row lies in the past, a recorded review is the event at its revision, a
  recorded approval is one of the candidate, and the step is PLAN_APPROVED exactly
  when a packet is in force.  `Anchored` is what the others lack: a commit that
  compares the revision of a receipt with the current one knows by it that the
  event just before its own is that of the receipt.  `KeepsGate` follows from
  `GateInv`, action by action.  So do the safety half of `ApprovalSettles`
  (`FreshApprovalsCount`: an approval nothing overtook can be consumed), the
  reason of its third excuse (`OvertakenStaysOvertaken`: one commit in between and
  no PLAN of this Run is ever activated).  Two more are about the way on after
  REQUEST_CHANGES.  `FirstAcceptancesReopen`: the first accepting review of the
  last document is the only row a submission can fetch, and current.
  `StaleAcceptancesStay`: once another commit has overtaken it, it can still be
  fetched and is never used up, so a second accepting review need not help; this
  is the finding `stale_review`, and it does not pass with time.
- `PlanningReplayProofs`.  `ReplayInv` adds to `GateInv` the converse, `Logged`:
  each stored document, block, approval and activation has its one event, and no
  event lacks its row.  With both directions the replay has nothing to object to.
- `OpenRunProofs`.  `IInv` is `OpenTypeOK`, `DatabaseInv`, `RunInv` and `TreeInv`.
  `DatabaseInv` adds to the two properties of the database that a terminal never
  believes in a version later than the one in the file, and that who is in the
  script has created every group before its own.  `RunInv` adds what the
  place of a terminal says about its Run (`PlacesInv`), that an unregistered Run
  has no history, and that the session of a new Run is a participant.
  `StuckStaysStuck` shows that the excuse of `OpenSettles` is honest: such a
  database shuts out every process for ever.  `DoneStaysDone`: no finished Run
  comes back.  `SerialStartsAreAlone` names the only cause of the finding
  `two_runs`: if no two terminals are ever between their look and their row
  (`OneStarts`), there is never a second active Run.  `StraysAreForGood`: what an
  ended terminal leaves without a row stays, since the others remove only what is
  theirs (`PlacesInv`) and a review only what has a row (`FreshInv`).
- `RpcChannelProofs`.  Types first (`TInv`, with the ends of the pipe that are
  not in use), then three layers that each need only the one they name.
  `OInv` (with the plugin, ids are positions: the n-th line carried out has id n)
  gives `StatusSettlesEarlier`, and from it `KeepsCall` follows step by step;
  `FInv` (answers in the pipe and the context are ordered by revision) gives
  `LatestForward`; `WInv` (the cache is the last `CacheSize` lines carried out
  and answered, and equal ids lie further apart than that) gives `RunsOnce` and
  `AnswersOwnLine`, for any program at the other end.  A fourth, `PInv`, is about
  who waits: `TimersPaired` (every waiting caller has a timer of its own, every
  timer a caller: the safety half of `CallsEnd`) and `AnswersFitQuestions`
  (whatever is on its way under an id somebody waits for is what was asked).
- `PathScopeProofs`.  About the operators, for paths and scopes of any size: no
  induction is needed, since `Below` is transitive (`BelowTransitive`).
  `FacadeIsStricter` and `CoversIsInclusion` say what the two tests mean;
  `SilentRevisionIsHarmless` and `SilentRevisionsCompose`, that a revision without
  an approval gives no lease the old packet refused, and however many of them
  neither; a tool gains at most the root of an old tree, if that is no directory.
  `SecondScopeTest` and `ScopesAreSetsOfFiles` justify the abstraction of
  `Guardian`; `LastPhaseRepairs`, that the phase which reopens can repair all
  that the criteria require.

An observation from the faults tried against the model: with the revision
compared, the absence of a lease that `complete_phase` tests is not what keeps a
content from moving during a verification; it is what keeps `LeasePinsRun`.

## 5. What is not modelled

`PROJECT.json` lists every component.  Left out for good:

- `contracts.py` but for the scopes of a packet: pure functions from a document to
  the same document or an error.  What the transactions require of the result is
  in the models;
- the normalization of paths as text, and links in the worktree;
- the hash chain itself and the tampering it detects; the shape of each event;
- reading and framing of lines, refusals of malformed ones;
- Docker commands, environment inspection, installation scripts, the file system
  work of `workspace.py`;
- the offline validators of `src/design/`, which are not part of the running
  system;
- permission tables, prompts and tool schemas of the plugin.

What could follow: one composition of `RpcChannel` with `Guardian`, in place of
the argument that `KeepsCall` makes a request a step.

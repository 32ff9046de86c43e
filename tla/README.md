# A TLA+ model of OrgMemory

OrgMemory is a FastAPI backend (`src/backend/app`) over one SQLite database: it
collects what connected providers say, keeps it as company memory, lets agents
and watches propose changes that people approve, and writes back to providers
when they do. A Next.js frontend, a desktop shell, a Python SDK and an MCP
server are clients of its HTTP API.

The code is sequential to read and concurrent to run. Every helper opens its
own connection (`core/database.py`: `connect()` commits once, `row()` and
`rows()` use connections of their own), so a row that is read and the row that
is written later belong to different transactions; handlers run in a thread
pool, two loops of `main.py` run beside them, and any number of server processes
may share the database. What keeps the system right is a handful of guarded
`UPDATE`s, `UNIQUE` constraints and reservations. This project models those
protocols, checks them with TLC and proves the central ones with TLAPS.

Line numbers below are those of the modelled commit; `PROJECT.json` maps every
definition to its lines.

## Inventory

| Component | State | Operations | What makes it correct |
|---|---|---|---|
| Sync engine, `connectors/sync.py` | `connector_sync_jobs`, `connector_applied_records`; a batch per worker | `enqueue`, `run_once` (reclaim, select, claim), `_process`, `_apply_once`, `_retry` | no record version completed twice; the cursor runs ahead of memory only where a crash or a failed release left a reservation; a job has one owner; every job settles |
| Webhooks, same file | `connector_webhook_deliveries` | `receive_webhook` | a delivery is worked on once; its records and the workers' exclude each other; an acknowledged event that names a resource is not lost |
| Record application, `connectors/application.py` | none | `apply_record` | called under a reservation; a withdrawn source is retired |
| Tool calls, `connectors/runtime.py` | `connector_tool_calls` | `request_write`, `resolve_write`, `execute_approved` | no write without an approval; the row tells what happened; an approved call ends |
| Action plans, `orgops/service.py` | `org_action_plans`, `org_tasks` | `propose_plan`, `approve_plan`, `reject_plan`, `_apply`; `find_blockers`, `find_conflicts` | an approved plan is applied completely, as far as its tasks exist; a settled one rests; stalls and conflicts are seen |
| Watches, `orgops/watch.py` | `org_watches`, `org_watch_findings` | `run`, `due`, `run_due` | a finding is filed once and offers its fix; a conflict is found |
| Ingestion, `ingestion/` | `knowledge_items`, chunks | `ingest_item`, repository scans, maintenance | an unchanged source changes nothing; a changed one reaches memory |
| Company brain, `memory/brain.py` | `source_revisions`, change sets, artifacts, compiled skills | `record_source_revision`, `finalize_change_set`, `save_artifact`, `compile_skill` | one current revision; memory follows it, up to the matching of subjects; what rested on memory the revision retired is marked |
| Company memory, `memory/company.py` | `memory_units`, `memory_relationships` | `create`, `retire_source_memories` | the last word on a subject is current |
| Beliefs, `memory/beliefs.py`, `memory/authority.py` | `beliefs`, evidence, relationships | `create`, `update`, `set_status`, `reconcile` | a belief yields to a successor, a removal or a higher authority, and the ledger says which |
| Change intelligence, `memory/change_intelligence.py` | `semantic_change_events` | `observe`, `process`, `reconcile` | a delivery is processed once; ready means recorded; an event ends |
| Runbooks, `runbooks/service.py` | `runbooks` and versions | `extract`, `save` | every step has a claim to review |
| Reliability, `reliability/` | `operational_assertions` | `ensure_runbook_assertions`, `transition`, `auto_verify_undisputed`, `flag_possibly_stale`, `analyze` | automation leaves a person's decision on a claim alone unless it had read the claim before |
| Approvals, `approvals/service.py` and `api/routes.py` | `actions`, `repository_refresh_requests`, `memory_proposals` | `propose`, `resolve`, `_run_repository_refresh` | trust in what may be approved rests on decided claims; a decision takes effect; a denial stops |
| Execution runs, `execution/runner.py` | `execution_runs` | `start`, `execute`, `_finish` | the status tells what reached the remote; a run ends |
| Learned skills, `skills/library.py` | `learned_skills` | `matches`, `record_use`, `distil`, `retire` | trust is earned twice; retirement lasts |
| Outcomes, `outcomes/ledger.py` | `context_events`, `outcome_events` | `record_outcome` | a run's own last label of its context tells its status; a context that several runs or a person label has whatever came last |
| Work items, `work/service.py` | `memory_work`, steps | create, approve and post, resolve | a step is posted once (not modelled yet) |
| Retrieval, intelligence, HCAG, swarm, briefing | readings of the tables | search, rank, summarize | quality rather than state |
| Auth, vault, scopes | sessions, codes, keys | login, redeem, bind | not modelled |
| Graph, audit, guard | a second copy of rows; events; rate windows | upsert, record, check | best effort; limits |

How they interact:

- The sync worker loop and request threads share the reservations of
  `_apply_once`; both end in `apply_record`, which ingests and creates memory.
- A webhook without records enqueues sync jobs; with records it applies them
  itself to every project subscribed to the resource.
- Ingestion writes the revision, then the memories of its text, then retires
  what the text no longer says, then marks artifacts and compiled skills that
  rested on it. Uploads, connectors, scans and approved refreshes all end there.
- New memory puts tasks into conflict (`find_conflicts`); the watch loop files
  the conflict and drafts a plan; a person's approval changes the task.
- A change webhook adds a background task that reconciles beliefs.
- Extraction of a runbook creates claims; people, the stability policy and the
  impact analysis move them; the reliability gate of a proposal reads them.
- A run is given skills, and when it ends it counts their use, teaches one and
  labels the context it was served.
- Every operation may fail at its audit insert or at the graph write after its
  own commit, and most such failures run the operation's error handler.

What is hard: rows written by id after an earlier read; leases shorter than
the work; crashes between a reservation and its effect; error handlers that run
after the success was stored; deciders who act at once; operations of many
connections that die in the middle; and things that must be noticed
eventually. `PROJECT.json` lists each under `hazards` at its line.

## Modules

| Module | Models | Extends |
|---|---|---|
| `SyncEngine` | jobs, workers, leases, reservations | |
| `JobLifecycle` | what a sync job promises its user: abstract specification of `SyncEngine`'s rows | |
| `WebhookDelivery` | request threads beside the workers: composes with `SyncEngine` | `SyncEngine` |
| `ToolCalls` | approved writes to providers | |
| `ActionPlans` | tasks, memory, plans, deciders | |
| `StandingWatches` | watch runs over all of that: composes with `ActionPlans` | `ActionPlans` |
| `SourceMemory` | ingestion, scans, withdrawals and compilations over revisions, memory, artifacts and skills | |
| `Beliefs` | change events and the belief ledger they write | |
| `ExecutionRuns` | runs, the skill library and the outcome ledger | |
| `Decisions` | the approval inbox: commands, repository refreshes, proposed memories | |
| `Reviews` | a runbook, its claims and the proposals that rest on them | |
| `MC*` | small instances | |
| `SyncEngineProofs`, `ToolCallsProofs`, `ActionPlansProofs`, `SourceMemoryProofs`, `BeliefsProofs`, `ExecutionRunsProofs`, `DecisionsProofs`, `ReviewsProofs` | theorems | the module they are about; `SyncEngineProofs` and `ActionPlansProofs` extend the compositions `WebhookDelivery` and `StandingWatches` |

Conventions. A program counter per actor marks the points between two database
connections: an action is what happens inside one connection, or one call to the
outside. Statuses carry the code's names, with "absent", "free" or no row for
what is not there. `Faults` names the faults an instance injects, or `MaxFaults`
(`MaxErrors`, `MaxFailures`) counts them, and `MaxCrashes` bounds the ends of
the process; `MaxEvents` bounds faults, ends of the process and reported
outcomes together. History variables, named as such, are read by properties only. Some
definitions are preceded by a mutated form ("Mutant:" in the comment), the
plausible bug that a property must notice.

### SyncEngine, JobLifecycle

A worker walks `idle -> reclaim -> claim -> (load -> sync -> apply <-> applying
-> commit | retry) -> claim ... -> idle`. `RunOnce` reads the clock and the
stale rows, `Reclaim` is one reclaiming `UPDATE`, `SelectDue` the second
`SELECT`, `Claim` the guarded one; `Load` reads the row `_process` works from;
`Reserve`/`Skip`/`ApplyOk`/`ApplyFails` are `_apply_once` for one record;
`Commit` is the final `UPDATE` and its audit event, `CommitUnaudited` the same
with the event lost, `Retry` is `_retry`. `PageFails` is an error inside the
`try`, `BatchFails` one outside it, `Crash` the end of the process.

`ApplyFails` is an `apply_record` that raises. Its memory rows are inserted long
before its last write, so `memory` may hold the record (`Remembered`) or not;
the same is true of a crash. The releasing `DELETE` has a connection of its own
and may raise too: `ReleaseFails` then leaves the reservation. The history
variable `orphaned` names the reservations that a failed release or a crash has
left; the retried page takes such a record for applied.

Time is relative: `age[j]` since `updated_at`, `wait[j]` until
`next_attempt_at`, `batchAge[w]` since the worker read the clock, because the
claim dates the lease from the start of the batch. Ages saturate at the lease
and waits at its negative, which no comparison tells apart from larger values,
so `Tick` needs no bound. `Punctual` restricts `Tick` to deployments where every batch ends
within a lease; only the theorems about ownership need it.

A resource is a fixed sequence of pages; a record is an id, version and
operation, the key of `connector_applied_records`. `memory` and `completions`
record what `apply_record` wrote and how often it came to its end. Configured
delays and attempts are constants.

`JobLifecycle` is the promise: open, one page after the other, then succeeded
or failed for good. `ImplementsLifecycle` is refinement under
`phase <- Phase(status)`, `taken <- cursor - 1`.

### WebhookDelivery

`Receive` is the lookup, `Insert`/`InsertRefused` the race for the UNIQUE row,
`Fanout` computes the subscribers (webhook jobs count, as in the query), then
the records are applied pair by pair, or, if the event names a resource
(`Named`), jobs are enqueued under the delivery's own key; an event with neither
is answered as applied. `HookApplyFails` and `HookReleaseFails` are those of the
workers. A replay answers from the row and changes nothing, so it is no action.
Signature checks happen before any state is touched and are left out.

### ToolCalls

`Decide` is the read of `resolve_write`, `Approve` and `Deny` its unguarded
`UPDATE`; `Execute`, `Claim`, `RunOk`/`RunFails`, `Store`, `RecordFailure` are
`execute_approved`, whose claim is guarded. A provider that raises may have
written or not. `approvals`, `decisions` and `executions` are history.
`CHECK_DEADLOCK FALSE` in its configurations: when every call is settled and
nobody decides, nothing is left to do.

### ActionPlans

`ReadPending` is the read of `approve_plan` or `reject_plan`. `ReadTask` and
`WriteTask` are the two connections of `_apply`'s `update_task`, `MissTask` the
one that finds no row: the result says `ok: False`, and the loop and the approval
go on. `CreateTask` and `AddMemory` are the other operations; `Approve` and
`Reject` the final
`UPDATE` by id. `ApplyRaises` and `MemoryRaises` leave the plan pending with a
part applied; the latter has written its memory, since `create` updates the
graph after its commit. `applied[p][i]` counts how often operation i took
effect.

`Blockers` and `Conflicts` translate `find_blockers` and `find_conflicts`.
Timestamps are kept as order: `older` relates memories by `updated_at`, `news`
says which were written after a task was. What a memory says is abstract:
`Subject`, `Content`, `Settles` stand for the term comparison and the settled
patterns, `UpdatesOf` for the choice between UPDATES and CONTRADICTS. Which of
several overtaking memories `find_conflicts` names is left open.

Abstractions: `CompanyMemory.create` is one step here (its own races belong to
`SourceMemory`); `Tasks` and `Units` are pools that bound how many are ever
created; authorization and the scenario's reset are left out. A proposal may
name any task: the route looks updated tasks up (`org_routes.py:311`), the
console agent (`org_routes.py:487`) and dependencies are not looked up at all.
That a new task's id is named by no plan on file (`Fresh`) is what random ids
come to.

### StandingWatches

A run walks `idle -> conflicts -> record (-> draft -> link -> record) -> idle`.
`Record` is `INSERT OR IGNORE` under the fingerprint, whose parts are the
record `[kind, task, of]`; `DraftPlan` calls the same `Propose` as the agents;
`LinkPlan` is the `UPDATE` that names the plan. A check that raises ends the
checks, not the run. Left out: the staleness check (it drafts nothing), when a
watch is due (a run may start at any time, which covers every schedule and the
request route), watches that check only one kind, and a user's resolving or
deleting.

### SourceMemory

`work[i]` is what thread i has read and not yet used. An ingestion walks
`begin -> revise -> (supersede) -> file -> create ... -> change -> artifacts ->
skills -> done`: `Begin` reads what the source says so far, `FindRevision` looks
for an equal text among all revisions, `InsertRevision` is the superseding
`UPDATE` and the `INSERT` in one transaction, which the two UNIQUE constraints
may refuse (`InsertRefused`). `FindPrevious`, `Merge` and `Insert` are
`CompanyMemory.create` for one statement: a lookup by subject, then either the
source is added to an equal row, or every current row of the subject is retired
and the new one related to it. `Invalidate` retires what the new text dropped,
one `UPDATE` per memory; `ReportChange`, `StaleArtifact` and `OutdateSkill` are
the rest of `finalize_change_set`. `Apply` and `Remove` enter through the
connector applier, which first withdraws what the source told: `RetireList`
reads its rows, `RetireWrite` takes the source off each and retires those no
other source tells (`withdrawn`), `DropItems` deletes its items, and only then
does the ingestion begin. `finalize_change_set` therefore compares with what the
withdrawal left, which is why `DependentsMarked` excepts `withdrawn`. `Scan`
enters through the repository ingestor with its shortcut for files that did not
change, `Compile` is `compile_skill`. `Fails` is an
exception, or the end of the process, at any step.

A text is the sequence of statements that extraction finds; a statement has a
subject, and `Contradicts` says which pairs `_relationship` tells apart.
Subjects are matched in two ways: `create` compares `lower(subject)`
(`SameSubject`), `finalize_change_set` the words `_key` leaves of it (`KeyOf`),
which loses punctuation and other alphabets. `Key` maps the finer to the
coarser. So an older row whose subject was respelled is found by neither: not
replaced by `create`, and not retired because its key still occurs. The
last statement of a text on a subject (`IsLastWord`) is the one an ingestion
leaves current. Sources
of different projects never meet, so one project is modelled.

### Beliefs

`Observe` inserts the event under its UNIQUE delivery id and adds the task;
`ObserveRaises` is the graph write between the two. A task walks `start ->
interpret -> (look -> find -> [insert ->] attach -> [relate -> settle | retire])
... -> activate -> complete -> publish -> done`, one round for every change, in
the order of `reconcile`: added, modified, removed. `Look` is `get_current`,
`Find`, `Insert` and `Attach` are `create`, `Retire` the connection of `update`,
`Relate` and `Settle` are `AuthorityResolver.reconcile`. `Raises` reaches the
handler, `FailRaises` is an error in it, `Crash` the end of the process; nothing
takes an event up again.

What the interpreter makes of a diff is one of `Extractions`; a value stands for
its text up to case; `arrived` orders the events by `created_at`, which their
beliefs carry as `valid_from`. Confidence, agent implications and evidence
against a belief are left out. The synchronous route
`/memory/semantic-changes/interpret` observes and processes in the same way.

`LedgerIsWhole` says of two beliefs that a chain of relationships joins them, as
`get_history` follows it. `Linked` says so without naming the chain: every set
that holds one and is closed under `Joined` holds the other.

### ExecutionRuns

`Ask` builds a handoff with the skills that match, `StartRun` queues it;
`Begin`, `RunAgent`, `SaveCommit`, `Push` and `Publish` are `execute`; `Finish`,
`ReadUse`/`WriteUse` per skill, `FindClosest` with `Reinforce` or `Propose`,
and `Label` are `_finish`. An error inside the `try` ends the run as failed,
also one raised by the final read (`ReturnRaises`), which finishes the run a
second time; one before it, or in the handler, leaves it as it was and is noted
in `unheard`. Similarity of tasks is equality up to wording; `earned` remembers
which runs a skill counted. `Learned` is a library that earlier runs left;
`ExecutionAssumption` asks of it what the code establishes.

The ledger is kept by context, and the client says which context a run was
served (`Named`): retrying a handoff names the one of the earlier run, and
`Report` is the route by which a person labels it. An entry tells who wrote it.
`LabelsAgree` is about the last entry a run wrote itself; whose entry is the
last of the context is left open, as in the code. It excepts a run whose handler
was struck by an error (`unheard`): if the final read raises and finishing the
second time raises too, the row says failed while the run's last entry has the
first outcome.

### Decisions

`Read` is the check for a pending status, `Remember` the memory that is created
before the decision is written, `Write` the `UPDATE` by id, `Audit` the event
after it. An approved refresh goes on as a background task: `Claim` is its
guarded `UPDATE`, then `Ingest`, `Enqueue`, `Succeed`, `Tell`, or `Fail`.
`AuditRaises` is what keeps a queued refresh from ever being run. `verdict` and
`verdicts` are history.

### Reviews

`Extract` and `InsertRunbook` are `save` up to its row, which replaces the row
of the same key; `Look` and `Create` are `ensure_runbook_assertions`, step by
step. `AutoVerify` is the stability policy behind a listing, `ReadImpact` and
`Flag` the impact analysis, `Dismiss` and `WriteDismissal` a dismissal with its
read and its write, `Review` any other transition a person may ask for, `Judge`
and `File` a production proposal with its reliability gate. The policy sends such
a proposal to approval or denies it (`Verdicts`); the claims are held against the
former only, a denied one is answered as trusted whatever they are, and
`TrustIsReviewed` is about proposals that may still be approved. A dismissal
counts as a decision on its claim. `work[t].late` holds
the claims that were closed after thread t had read them, `calm` says that no
save ran while a proposal was made.

## Runs

No run is cut short by a state constraint; each ends in about a minute or two.

| Run | Instance | Shows |
|---|---|---|
| `sync_two_workers` | 2 workers, 1 job of 2 pages, every fault, 1 crash, lease 2 | exactly-once application: `AppliedAtMostOnce`, `ExclusiveApply` |
| `sync_single_worker` | 1 worker, 2 jobs sharing records, failing pages, applications and releases, 1 crash, fair | `CursorBehindWork`, `EveryJobSettles`, and `ImplementsLifecycle`, the refinement of `JobLifecycle` |
| `sync_crash_loses` | 1 worker, 1 crash | violated: `SucceededDelivers`; a crash between reservation and application loses the record |
| `webhook_delivery` | 2 interchangeable handlers, 3 deliveries (with records, without, without a resource), 1 worker, faults | `HandlersExclusive`, `CompletedIsSettled`, `RecordlessDeliveryQueues` |
| `tool_calls` | 3 deciders, 1 call, every fault, 1 crash, fair | `ExecutionsApproved`, `StatusTellsExecution`, `ExecutingIsAttended`, `ApprovedSettles` |
| `action_plans` | 2 deciders, 2 plans of up to 2 operations, one naming a missing task, 5 tasks, 2 memories, 1 fault | `ApprovedIsApplied`, `SettledPlansRest`, `FieldsKept`, `StallIsExplained` |
| `standing_watches` | 2 runs of 1 watch, 1 decider, 3 plans, 2 tasks, every fault once, fair | `OnePlanPerFinding`, `ConflictOffersFix`, `ConflictIsNoticed` |
| `source_memory` | 2 threads, a runbook and a report, 2 texts of 2 statements out of 4 on 3 subjects with 2 keys, 4 memories, 3 operations, 1 failure; threads and memories are interchangeable | `OneCurrentRevision`, `OneCurrentSkill`, `MemoryFollowsText`, `DependentsMarked` |
| `beliefs` | 2 events, 1 claim, 3 values, 2 authority tiers, 5 readings of a diff, 2 faults, 1 crash, fair | `ReadyIsRecorded`, `ContradictedByHigher`, `LedgerIsWhole`, `EventsSettle` |
| `execution_runs` | 2 runs of 2 tasks, 1 context that both may name, 4 skills (one active, one proposed, two free), 1 fault, crash or reported outcome, a reviewer, fair | `TrustEarned`, `RetirementHolds`, `LibraryStaysSelective`, `StatusIsHonest`, `LabelsAgree`, `EveryRunSettles` |
| `decisions` | 2 deciders, one item of each kind, 2 faults, 1 crash, fair | `DecisionTakesEffect`, `DenialStops`, `SettledRests`, `RefreshSettles` |
| `reviews` | 2 threads, 2 row ids, 2 extractions, 4 requests or reviews, 1 fault; threads and ids are interchangeable | `StepsAreClaimed`, `TrustIsReviewed`, `DecisionsStand` |

Why the bounds are enough for the cases that matter. Two workers, handlers,
deciders, tasks or threads give every pairwise race, and the third decider of
`tool_calls` lets a claim meet two overwrites. `execution_runs` injects one
fault, crash or reported outcome; what a second one adds to the labels is covered
by the theorem `RunsLabelTheirContext`, which bounds none of them. Two pages distinguish the first,
a middle and the last page; two jobs on one resource share records; attempts of
2 separate retry from giving up; a lease of 2 lets a batch be fresh, half way
and expired. Three operations in `source_memory` let a half done ingestion be
followed by two others, one of which may overlap; going to the new text
contradicts a statement and drops a subject, going back updates it and drops one
whose key another subject shares. The readings of
`beliefs` hold every kind of change, equal and different authority, a return to
an earlier value and a removal. Four skills let two runs teach one each while
two others are in use. Four requests in `reviews` are an extraction, a listing
or review, a change and a proposal. One crash or error at any step reaches every
intermediate state a restart can find. The proofs cover all other sizes.

Deadlock is not checked in `tool_calls`, `source_memory`, `beliefs`,
`execution_runs`, `decisions` and `reviews`: when every call, event, run or item
is settled, or the bounds on requests are used up, nothing is left to do.

### Fairness

`SyncEngine!FairSpec`: weak fairness of each worker's `Step` and of `Tick`:
`run_connector_sync_worker` loops for ever and survives errors, and the clock
runs. `FairWatchSpec`: of a run's steps, since `run_watch_worker` loops for
ever. `ToolCalls!FairSpec`, `Decisions!FairSpec` and `Beliefs!FairSpec`: a
thread that took a request or was given a background task runs on.
`ExecutionRuns!FairSpec`: so does a run's thread, where each step or its failure
comes to an end, because every subprocess has a timeout. No fault, no person and
no agent is ever obliged to act.

What the liveness properties leave out is what the code leaves behind.
`EveryJobSettles` is checked without abandoned batches and lost audit events: a
connector that is revoked with jobs pending aborts `run_once` on every attempt,
and such a job never settles (hazard at `sync.py:301`). `EveryRunSettles`,
`EventsSettle` and `RefreshSettles` except what ended with the process or on an
error outside the `try` block: no run, event or request is ever resumed.

## Proofs

All theorems hold for arbitrary constants that satisfy the module's `ASSUME`.
A type invariant is proved for every component whose safety is; the runs do not
check those again.

- `SyncEngineProofs`: `TypeCorrect`, `AppliedOnce`, `ApplyIsExclusive`.
  `LedgerInv` strengthens the last two: a completed record is reserved and
  nobody is inside `apply_record` with it; a worker inside holds the
  reservation. No assumption about crashes, leases or faults is needed: this is
  what makes double work harmless. `OneOwner`, under `Dependable` (punctual, no
  crash, no abandoned batch, no lost audit event): a claimed job has one owner, for any
  number of workers; `OwnerInv` adds that a running row is as old as its owner's
  batch, hence never stale. `SyncImplementsLifecycle`, under the same condition;
  `CursorInv` adds that an owner's page is its row's page.
  `LoneWorkerImplementsLifecycle`: one worker needs no lease, only that no audit
  event is lost after a page was saved, and implements the life cycle across
  crashes and abandoned batches, since it reclaims rows between its pages only.
  `CursorFollowsDelivery` (`CursorBehindWork`) has two hypotheses. `LoneWorker`: with two workers a
  page is skipped past a record that the other has reserved and is still
  applying. `OneProjectPerRecord`: the reservation does not name the project, so
  a second project's job skips what the first one's reserved. The instance of
  `sync_single_worker` meets both. `WorkInv` says what a worker holds, what its
  page still owes, and that every record before a cursor is reserved and, unless
  its reservation is orphaned, in memory.
  About the composition with any number of request threads (`HookSpec`):
  `CompletedStaysSettled`, `WebhooksApplyOnce`, `HandlersStayExclusive`,
  `RecordlessQueues`. `HookLedgerInv` extends `LedgerInv` to what handlers hold;
  `DeliveryInv` says that only the thread that inserted a delivery works on it
  and how far it has come.
- `ToolCallsProofs`: `ToolTypeCorrect`, `NoUnapprovedExecution`,
  `NoOrphanedExecution`, `RowTellsExecution`. `ApprovalInv` counts: executions,
  plus calls approved or being executed, never exceed approvals; it needs
  finitely many deciders, because it counts threads. `TellInv` ties a call that
  was decided at most once to the one thread that can be past its decision.
- `ActionPlansProofs`: `PlanTypeCorrect`; `ApprovedPlansApplied`, from
  `BehindIsApplied` (everything before the operation a decider is at took
  effect); `SettledRest`; `KeepsFields`; `StallsExplained`, from `NoCircle`
  (every set of tasks has one that waits for none of the set), which needs that
  tasks never vanish, that a dependency exists or is named by a plan
  (`DependenciesKnown`), and that a new task's id is named by none (`Fresh`): a
  missing dependency stays missing.
  Among the waiting tasks' open dependencies the member that waits for no
  other is the blocker.
  About the composition with any number of watch runs (`WatchSpec`):
  `OnePlanEach`, from `FilingInv` (the finding a run is filing is on file, no
  other run files it, and it has no plan until this run drafts one); `ConflictsOffered`, from
  `OfferInv` (a run that is about to link a plan holds one that fixes the finding);
  `WatchedPlansApplied`, since a drafted plan starts with nothing applied.
- `SourceMemoryProofs`: `TablesStayTyped`, `OneRevisionIsCurrent`,
  `OneSkillIsCurrent`. The invariant adds what each thread has reserved: the
  version it is about to insert was the next one when it looked, and a table
  that has moved on since refuses it; so it needs no lock.
  `MemoryFollows` and `DependentsAreMarked`, from `SoloInv`, which
  `SolitudeInductive` shows invariant: what an ingestion that is alone has read
  is so still, so at each of its places memory holds the last word of the part
  of the text it has filed, whatever else is current shares a key with the text or
  is about to be retired, and no dependent before the one it is at rests on what
  it retired itself. It starts from any memory that failed or overlapping
  ingestions left.
- `BeliefsProofs`: `LedgerStaysTyped`, `ReadyIsComplete`, `AuthorityDecides`,
  for any number of tasks at once. What is shown of other tasks' steps is that
  the ledger only grows: of a belief no more than its status changes, and no
  evidence or relationship goes away. `Sound` says what a task has achieved at
  each of its places: all changes before the one it is at are recorded, what it
  read belongs to the claim, and where it settles the two beliefs are linked and
  of different rank.
  `LedgerStaysWhole`, whose premise (no overlap, no error, no crash) is that of
  the property. `InTurn` says that one task at most is busy (`OneBusy`), that
  what it read is so still (`InHand`), and that any two active beliefs of a
  claim are linked unless the task still has to join one of them (`Loose`). A
  chain goes through the current belief: whatever is joined to it is linked to
  all that were (`ChainOn`, `ChainBack`).
- `ExecutionRunsProofs`: `RunsTypeCorrect`, `SkillsEarnTrust`,
  `RetiredStaysRetired`, `RunsTellWhatWasDone`, `RunsLabelTheirContext`,
  `LibraryIsSelective`. For trust: a skill's counted
  successes, and those in a row a thread holds, come from as many different runs
  as trust asks for (`SkillsEarned`), a thread teaches a skill at most once
  (`TaughtOnce`), and knows only what was in the library (`Knows`). For the
  status, `HonestInv` ties the row to the commit and the push at each place.
  `LabelInv` says at which places a run's last label may differ from its row; entries
  of other runs and of people do not matter to it.
  `LibraryIsSelective` has the hypothesis `SelectiveStart`: the library that
  earlier runs left, perhaps while they overlapped, is selective itself; an
  empty one is. `SelectInv` adds that without overlap the row a thread holds is
  the library's.
- `DecisionsProofs`: `DeniedStaysUnread`, `SettledItemsRest`,
  `DecisionsTakeEffect`. Known items have
  a row, one that nobody holds and that is not pending was decided, and a queued
  request was approved by the decision written last (`QueuedApproved`).
  `EffectInv` says of an item decided at most once, while nothing failed, that
  one thread at most goes on after its verdict and how much of it is done at
  each of its places.
- `ReviewsProofs`: `ReviewsTypeCorrect`, `StepsStayClaimed`,
  `TrustStaysReviewed`, `DecisionsKeepStanding`. The invariant says of every
  save how far its claims have come, of every proposal in the making which
  steps passed unless it is denied, and of every thread which claims it knows from
  before.

Every safety property that a passing run checks has its theorem. Only
model-checked is what is stated under fairness (`EveryJobSettles`,
`ApprovedSettles`, `ConflictIsNoticed`, `EventsSettle`, `EveryRunSettles`,
`RefreshSettles`), since the prover handles neither `ENABLED` nor liveness here.

## Where the code and its words differ

Met while modelling; the first is checked by `sync_crash_loses`, the others
follow from the modelled definitions.

- A reclaimed job skips what a dead worker had reserved (`sync.py:430`), while
  `docs/CONNECTORS.md:125` says that it is reclaimed automatically.
- The reservation of a record whose application fails is released "so the durable
  retry can finish this exact revision" (`sync.py:457`), but the `DELETE` may raise
  itself (`sync.py:460`), and then the retry skips the record. And an application
  that fails after its memory rows are in (`ingestion/service.py:298` to `:325`)
  is repeated, with its memory already there.
- A delivery that ends as retryable is never retried (`sync.py:254`), against the
  same comment.
- Events that carry no records and name no resource (`github/client.py:235`,
  `:244`, `slack/client.py:246`, `notion/client.py:308`) are answered as applied,
  and nothing is queued (`sync.py:205`).
- A plan that updates a task nobody has is approved, its result saying `ok: False`
  (`orgops/service.py:1190`). The route looks updated tasks up, the console agent
  does not, and dependencies are looked up nowhere.
- A row whose subject differs from the new text's in punctuation or in letters
  outside ASCII stays current beside it: `create` looks for the same
  `lower(subject)` (`company.py:85`), `finalize_change_set` spares what has the
  same `_key` (`brain.py:146`).
- Artifacts and skills that rest on memory the connector applier has withdrawn
  (`application.py:47`) are not marked, although
  `docs/COMPANY_BRAIN_ARCHITECTURE.md:66` has the affected ones marked stale.
- A denied proposal answers `trusted: True` over unresolved claims
  (`approvals/service.py:53`, `:138`), against `docs/RUNBOOK_RELIABILITY.md:25`.
- "Last outcome per context wins" (`outcomes/ledger.py:254`), and several runs may
  name one context (`routes.py:1682`): the label of a context may be another
  run's, or a person's (`routes.py:1796`), and not of the run one is looking at.
- A second approval of a tool call executes it again when it meets the first one
  between its read and its write (`runtime.py:588`), against
  `tests/test_connector_platform.py:144`.
- The fingerprint of a blocker stays unique for ever (`watch.py:260`): one that
  was closed and blocks again is not filed, against the comment above it.
- A memory that updates a task's evidence retires it and is skipped by
  `find_conflicts` (`orgops/service.py:725`, `:736`).
- Dismissed claims do not count for the reliability gate
  (`approvals/service.py:42`), so a step all of whose claims were dismissed is
  recorded as trusted; `docs/APPROVALS.md:37` says that the gate "does not
  silently turn stale evidence into a trusted claim".
- A step that is extracted again with a new text keeps its verified claim
  (`runbooks/service.py:124` calls extraction's claims reviewable, "not
  automatically trusted truth").
- Two saves of a runbook may give different contents the same version, and the
  final `UPDATE` of one may overwrite the other (`runbooks/service.py:67`,
  `:136`).
- `execute` reads before its `try` block although it is said never to raise
  (`runner.py:192`).
- The audit event of a refresh that succeeded is inside the `try` block, so
  losing it turns the request into a failed one (`routes.py:3319`).
- A denied memory cannot be proposed again: the lookup leaves denied rows out,
  the UNIQUE key does not (`routes.py:3541`).
- Relationships of beliefs need not be chronological (`beliefs.py:20`): `create`
  answers with an older equal row, which then is the successor.

## Plan

1. Done: sync engine, webhooks, tool calls, action plans, standing watches,
   source memory, execution runs with skills and outcomes, the approval inbox,
   runbook claims and the reliability gate, beliefs; theorems as above.
2. Next: `MemoryWork` (`work/service.py`): the claim before a post to Slack is
   guarded by the status, `resolve_step` is not, and a crash leaves a step
   posting. Property: a step is posted once.
3. Proofs: `MemoryWork`, once modelled. What is left of the other modules is
   liveness, which stays with TLC.
4. Algorithms against reference definitions: the rate limiter's window, blast
   radius over the dependency graph.

## Not modelled, and why

Ranking, prompting, summaries and language-model calls are judged by quality,
not by a state. Parsing, redaction and chunking of text, providers' clients and
the graph copy are inputs or best-effort outputs of the modelled protocols and
appear as errors or opaque values. Maintenance resets and rebuilds tables while
nothing else runs. A bulk review is a sequence of reviews. Authentication,
secrets, the frontend, the SDK, the MCP server and deployment hold none of the
state above. Floating-point scores (confidence, similarity) are out of TLC's
reach and left out of rows. `PROJECT.json` names each part with its reason.

# Goldenshare operations runtime: TLA+ models, checks and proofs

Goldenshare collects market data into PostgreSQL. What is collected is decided
by datasets and their rules; *when* it is collected, by which process, what
happens when a process dies, a run is canceled, or two processes reach for the
same row, is decided by the operations runtime (`src/ops`, with the ingestion
engine in `src/foundation/ingestion`). That is the program's own core logic and
the part that tests reach least, because several processes share a handful of
tables and each process decides on what it read some time ago. This directory
models it.

All paths below are relative to the repository.

## 1. The system

### 1.1 Processes

| process | code | what it does |
| --- | --- | --- |
| general worker | `run_ops_worker_serve` (`src/cli_parts/ops_handlers.py`) | reconciles stale runs, then executes queued runs of the general lane |
| lane workers (`stk_mins`, `index_mins`, `qtf`) | `run_ops_lane_worker_serve` | executes queued runs of one lane, does not reconcile |
| completion worker | `run_ops_task_completion_worker_serve` | polls for ended runs and does their side effects |
| scheduler | `src/ops/runtime/scheduler.py` | turns due schedules into queued runs; runs the probes |
| audit worker | `src/ops/services/date_completeness_audit_service.py` | executes queued completeness audits |
| web application | `src/app`, `src/ops/api` | submits, retries and cancels runs; everything else it does is read-only for the runtime |

Every one of them is a systemd service with `Restart=always`
(`scripts/goldenshare-*.service`): a process may die anywhere and comes back at
the top of its loop, with nothing but the database.

They share no memory and send no messages. They interact through rows. Each
process has a SQLAlchemy session over PostgreSQL in READ COMMITTED, with the
default `expire_on_commit` (`src/db.py`). So an `UPDATE ... WHERE` is one atomic
step, while "load the row, decide in Python, commit" is two steps, with every
other process free to commit between them, and what a session has loaded is
stale until its next commit.

### 1.2 Components

| component | state | operations | what makes it correct |
| --- | --- | --- | --- |
| task-run lifecycle (`runtime/worker.py`) | rows of `ops.task_run`: status, `cancel_requested_at`, `updated_at`; per worker: the loop, the selected run, the loaded row | select, claim, cancel queued, execute, finalize, finalize again after an exception | a run is executed once, by one worker; a cancel is not lost; every run ends |
| stale-run reconciliation (`operations_task_run_reconciliation_service.py`) | none of its own | end rows nobody writes any more | orphans end; a run is not restarted by it |
| worker lanes (`runtime/worker_lane.py`) | none | a Python predicate and an SQL predicate on (task_type, resource_key) | both say the same, every kind of row has exactly one lane |
| submission, retry, cancel (`task_run_service.py`) | rows of `ops.task_run` | create, retry, request_cancel, windows since the last success | a cancel answer is true; windows leave no gap |
| completion worker (`task_completion_worker.py`, `task_run_completion_service.py`) | a cursor in memory | initialize, load a batch, side effects, advance | no side effect twice, none forgotten |
| dispatcher (`task_run_dispatcher.py`) | `ops.task_run_node`, `ops.task_run_issue` | dataset action, workflow, maintenance action, external | node statuses agree with the run; steps after a failure obey the workflow's policy |
| run progress (`task_run_ingestion_context.py`) | counters of the row | update_progress | counters agree with what is committed |
| ingestion executor (`foundation/ingestion/executor.py`) | units, fetches in flight | plan, fetch (serial, staged, concurrent), normalize, write, commit, cancel | what is reported is what is committed; a cancel leaves whole units |
| staged publication (`foundation/ingestion/staged_stream.py`, `foundation/dao/fund_portfolio_dao.py`) | the stage table, the serving table, an advisory lock of a pooled connection | lock, clear the stage, stage a page, publish a period, clean up, unlock | the stage belongs to one execution; a scope becomes visible whole or not at all; published facts stay |
| schedules (`operations_schedule_service.py`) | `ops.schedule`: status, `next_run_at`, a row lock | enqueue_due_schedules; pause, resume, update, delete | one run per due time, of an active schedule; no day lost by windows; no due schedule left for ever |
| probes (`operations_probe_runtime_service.py`) | `ops.probe_rule`, `ops.probe_run_log` | run_once; the binding of rules to schedules | the daily limit is kept, a target triggers once |
| completeness audits (`date_completeness_*`) | `ops.dataset_date_completeness_run` | create, run_next | repairs of one audit keep clear of those of another |
| index_daily reconciliation and repair (`index_daily_completeness_*`) | slots and repairs of a trade date | enqueue_due_audits, create_repair_task_runs | a gap is repaired, late codes are retried, no repair of a code is created beside one under way |
| news-stock linking (`news_stock_linking_*`) | none besides the run | exclusion of parallel runs by an advisory lock | at most one run of the action is open that has not ended before |
| dataset status snapshots, notification, resolution and serving, business APIs, realtime collection, QTF research, frontends, Lake console | see `PROJECT.json` | | not modelled, section 7 |

### 1.3 What is hard

`PROJECT.json` lists the hazards one by one, at their lines. In groups:

* **Stale decisions.** `request_cancel`, `_finalize_task_run` and the
  reconciliation decide on a loaded row and write by primary key, without a
  condition on the status they overwrite.
* **Races for a row.** Two workers of a lane, a serve loop and an explicit run,
  a claim and a cancel.
* **Crashes between two commits.** A run whose worker dies keeps the status it
  has; only the reconciliation ends it, and only on silence, which a live run
  may show as well.
* **Faults in the finalization.** An exception after the commit of the final
  status makes the worker finalize a second time.
* **Order of commits.** `ended_at` is taken before the commit; whoever orders by
  it sees endings appear in another order.
* **A lock that belongs to a connection.** The staged publisher's advisory lock
  ends with its database session and survives a rollback and the return of the
  connection to the pool.
* **Commits whose outcome is unknown.** A publication may be durable although
  its commit raised.
* **NULL.** Lanes are selected by SQL over a nullable column.
* **Units in flight.** Fetches end in any order while the main thread commits;
  one failure or stop request leaves fetches running and results unused, and
  what was committed, counted and reported must still agree.
* **Partial failure.** A step of a workflow, its node or the record of its issue
  may fail, before or after a commit; the steps behind it, the nodes and the
  final status must still agree.
* **Ticks that started long ago.** A tick plans with the time at which it began
  and with what it reads as it goes; other ticks lock rows beside it
  (`SKIP LOCKED`), and requests write rows they read before. A due time must give
  one run, a pause must hold, a window must not leave a day out.
* **One bad element of a loop.** An exception ends the whole tick: a schedule
  that does not validate, or a probe rule that was deleted meanwhile, stops
  whatever comes after it, the look at the audits included.
* **A run and its log.** The task run of a probe hit and the log that counts it
  are two commits; a change of the schedule replaces the rule and with it the
  log.
* **Facts that are inferred.** No row says that a slot of a late code is used up,
  or that a code is under repair: both are read off task runs, in several
  statements, while these start and end.
* **Rows that are written again.** A run that has ended may say something else
  later; the cursor of the completion worker, the windows, the probes and the
  repairs have decided on what it said before.
* **Audits frozen by a death.** An audit that its worker left running counts as
  open for ever, and whoever asks for another one looks for that first.

## 2. Modules

| module | models | code |
| --- | --- | --- |
| `WorkerLane` | the two lane predicates, the SQL one in three-valued logic | `src/ops/runtime/worker_lane.py` |
| `TaskQueue` | abstract specification: a queue from which each run is taken once or withdrawn | what a submitter relies on |
| `TaskRunLifecycle` | the task-run table under workers, reconciliation and web requests; extends `WorkerLane`; implements `TaskQueue` | `worker.py`, `operations_task_run_reconciliation_service.py`, `task_run_service.py`, the serve loops |
| `TaskCompletion` | the completion worker's cursor under the writers of endings | `task_completion_worker.py`, `task_run_completion_service.py` |
| `DatasetStep` | abstract specification: a dataset is maintained commit by commit, and is called a success only when all of it is durable | what a workflow relies on when it calls `DatasetMaintainService` |
| `IngestionExecution` | one dataset action from its dispatch to its final status: units, threads, commits, reports; implements `DatasetStep` | `executor.py`, `service.py`, `task_run_ingestion_context.py`, `_dispatch_dataset_action` and `_run_dataset_action_plan` of `task_run_dispatcher.py`, the finalization of `worker.py` |
| `ImmutableScopes` | abstract specification: whole scopes appear, published facts stay | what readers of the serving table rely on |
| `StagedPublication` | executions that publish report periods through a shared stage table; implements `ImmutableScopes` | `executor.py` (`_run_staged_units_serially`), `staged_stream.py`, `fund_portfolio_dao.py` |
| `TaskDispatch` | workflows and maintenance actions, step by step: nodes, failure policies, outcome; its dataset steps implement `DatasetStep` | `task_run_dispatcher.py` (`_dispatch_workflow`, `_dispatch_maintenance_action`, `_dispatch_registered_maintenance_action`), the finalization of `worker.py` |
| `SchedulerProcesses` | the scheduler processes, shared by the modules of the tick | `scheduler.py` |
| `DueSchedules` | abstract specification: due schedules served one by one, each in one step on the runs as they are | what those who schedule a task rely on |
| `ScheduleTick` | due schedules of every kind, beside requests that change them, with the probes reduced to the runs they create; implements `DueSchedules` | `operations_schedule_service.py`, `schedule_probe_binding_service.py`, parts of `task_run_service.py` and `schedule_planner.py` |
| `ProbeTick` | the probes of a tick in detail; extends `ScheduleTick` and implements it | `operations_probe_runtime_service.py` |
| `IndexDailyRepair` | audits of a trade date of `index_daily` and their repairs | `date_completeness_audit_service.py`, `index_daily_completeness_*_service.py`, `index_daily_source_serviceability_service.py`, `index_daily_reconciliation_policy.py` |
| `OperationsTick` | the whole tick: composes `ProbeTick` and `IndexDailyRepair`, implements both | `runtime/scheduler.py` |
| `TaskRunLifecycleProofs`, `TaskCompletionProofs`, `IngestionExecutionProofs`, `TaskDispatchProofs`, `StagedPublicationProofs`, `ScheduleTickProofs`, `DueSchedulesRefinement`, `OperationsTickProofs` | theorems and proofs | |
| `MCTaskRunLifecycle`, `MCTaskCompletion`, `MCIngestionExecution`, `MCTaskDispatch`, `MCStagedPublication`, `MCOperationsTick` | small instances for TLC | |

### 2.1 TaskRunLifecycle

One atomic step is one SQL statement with its commit, or the reading half or the
committing half of a load-decide-commit sequence.

| code | action |
| --- | --- |
| `create_task_run`, `stage_task_run` | `Submit` |
| `retry_task_run` | `Retry` (a new row; the old one is not touched) |
| `request_cancel` | `CancelRead`, then `CancelWrite` or `CancelLost` |
| `_is_stale` becomes true | `GoQuiet` (time itself is abstracted to "no write for longer than the limit") |
| `reconcile_stale_task_runs`, `_apply_reconciliation` | `ReconcileRead`, `ReconcileCommit` |
| `_cancel_next_queued_task_run`, `_cancel_queued_task_run` | `PickCanceled`, `CancelQueued` |
| `run_next`, `_claim_task_run` | `PickQueued`, `Claim` |
| `run_task_run` | `RunExplicitly`, then `CancelQueued` or `Claim` |
| `_run_started_task_run` | `StartRun`, `DispatchEnd` or `DispatchRaises` |
| `update_progress` and the dispatcher's node commits | `Progress` |
| `_finalize_task_run` | `FinalizeRead`, `FinalizeWrite`, `FinishRun` |
| its `except` branch | `FinalizeFault` |
| the process dies; systemd restarts it | `Crash` |

The session is part of the state. `rowStatus` and `rowCancel` are the row as the
worker's session holds it. Every dispatch but the external one commits on that
session, which expires the row, so the final `session.get` reads it again
(`FinalizeRead`). The external executor works on its own session: the worker
finalizes with what it loaded before the dispatch, so its `DispatchEnd` goes
straight to `write`. SQLAlchemy writes only the columns that differ from what
was loaded, which is why `FinalizeWrite` leaves the status alone when it equals
the loaded one.

A dispatch is a choice among the statuses its path can return (`Outcomes`).
`LegacyCancels` lets rows start as queued with a cancel request. No writer
produces that state today (`request_cancel` ends a queued row at once), but the
worker has code for it, and only this initial state exercises that code.

### 2.2 TaskCompletion

The worker polls for endings behind its cursor, in the order `(ended_at, id)`,
and keeps the cursor in memory only. A writer of an ending takes the time
(`BeginEnding`) and commits later (`CommitEnding`). `LateCancel` is the one
effect of `TaskRunLifecycle` that matters here besides endings: an ended row
becomes `canceling` again and keeps its `ended_at`. `view` is the worker's
session: the audit of `index_daily` commits or rolls back on it, which expires
the rows of the batch, and the cursor then takes the `ended_at` the row has by
then. `Crash` also stands for an exception in `build_completion_summary`, which
nothing catches.

`InitializeCursor` puts the cursor on the newest ending. The history variable
`watched` therefore holds only endings committed while the worker had a cursor:
nothing is promised about the others, by design
(`docs/ops/ops-task-completion-side-effect-worker-plan-v1.md:82-89`).

### 2.3 IngestionExecution

What `TaskRunLifecycle` takes as one choice of an outcome, in its steps, for one
run of a dataset action that a worker has claimed.

| code | action |
| --- | --- |
| `_dispatch_dataset_action`: plan and node | `Prepare`, `PrepareFails` |
| `_run_dataset_action_plan` on a closed trading day | `SkipClosedDay` |
| what may raise before the service is called | `BeginFails` |
| `DatasetMaintainService._run` | `Begin`, `BeginCanceled` |
| `_run_units_serially` | `StartUnit`, `StartUnitCanceled`, `Fetched`, `FetchRaised`, `UnitsDone` |
| `submit_next` before the loop | `SubmitFirst`, `SubmitFirstCanceled`, `FirstSubmitted` |
| `wait(..., FIRST_COMPLETED)` | `WaitReturns`, `WaitReturnsFailed`, `AllFetched` |
| `for future in done` | `Take`, `BatchDone` |
| `submit_next` in the loop | `Resubmit`, `NothingToSubmit`, `ResubmitCanceled` |
| a thread of the pool | `FetchBegins`, `FetchEnds` |
| leaving the pool's `with` | `Drained` |
| `_process_fetched_unit`, `_record_unit_exception` | `CommitUnit`, `CommitFails` |
| `update_progress` | `Progress`, in `Report` and `ReportFailure` |
| the end of the dispatch | `DispatchSuccess`, `DispatchSuccessFails`, `DispatchFailure`, `DispatchFailureFails` |
| `_finalize_task_run` and its `except` branch | `Finalize`, `FinalizeRaises` |
| a stop request, a dead process, the reconciliation | `RequestCancel`, `Crash`, `Reconcile` |

A row counter is modelled as the set of the units whose rows it includes, so
that "counted but not committed" and "committed but not counted" can be told
apart. `fetch` says how far each unit's fetch is; `in_flight` and `batch` are the
dictionary and the `done` set of `_run_units_with_concurrent_fetch`. The thread
pool takes queued units in any order and starts all that are queued at once if it
likes: `in_flight` never holds more than the pool has threads, so its size is no
further restriction (`FetchesHaveThreads` proves it).

Three details of the code are kept because they decide what is true. A stop
request is looked for where a unit is taken from the plan and nowhere else, so
not after the last one was submitted (`NothingToSubmit`). When one fetch of a
round failed, the completed others are dropped, not written
(`WaitReturnsFailed`). `rows_committed` is added to after the commit, so a commit
that raises and is durable all the same is never counted (`CommitFails`). In the
same way the commit of the node may raise and be durable (`PrepareFails`): the
run fails and its node says `running`.

`commits`, `late` and `closed` are history: durable commits per unit, the units
committed after the stop request, and whether the day turned out to be closed.
`Step` maps an execution to the abstract `DatasetStep`: it waits until its loops
begin, works while they run, and is over from then on; what is left of its work
is what is not durable, nothing on a closed day; it is evidence while its node
says success. The session's view of the row, and the races
for its status, belong to `TaskRunLifecycle`; here the final write reads the row
as it is.

### 2.4 StagedPublication

`fund_portfolio` is delivered page by page, is far too large for one
transaction of fetches, and must never be seen in part. An execution takes a
connection of its own and on it a session-level advisory lock, empties the
stage table, commits each page to it, and publishes a period in one
transaction that compares counts with what is published already.

| code | action |
| --- | --- |
| the planner (a range of quarters, or one fund of an existing quarter) | `Plan` |
| `__enter__` | `Connect` or `ConnectFails`, then `AcquireLock` or `LockBusy`, then `ClearStage` or `ClearStageFails` |
| the loop over units, `begin_unit` | `BeginUnit`, `AllUnitsDone` |
| the loop over pages, `stage_page` | `TakePage`, `PageFails`, `Cancel` |
| `finalize_unit`, `finalize_scope`, the counters | `Publish`, `PublishFails` |
| `__exit__` | `Cleanup`, then `Unlock` or `UnlockFails` |
| a process dies, a connection loses its server side, the database restarts | `ProcessDies`, `ConnectionLost`, `DatabaseCrash` |
| `pool_recycle` | `Recycle` |

Every transaction is a step. A fact is a pair of identity and content hash, and
the source may deliver anything: pages that repeat, contradict each other, or
lack facts that are published. `finalize_scope` is one step although its
statements each take a snapshot: only the holder of the lock writes the two
tables, and losing the connection loses the transaction with the lock.

`locks` counts how often a connection holds the advisory lock, since
PostgreSQL lets a session take it again. A rollback does not give it back, and
neither does the return to the pool; it ends with the session, which is why
`Without` clears it for the faults and for `Recycle`. A broken connection is
found out by the next statement; `__exit__` then works on a fresh one
(`Cleanup`), and its unlock frees nothing unless that one held the lock.
`PageFails` and `PublishFails` have a second disjunct for a commit that raised
and is durable all the same. `ConnectFails` is the pool's timeout or a database
that is down: an execution does not wait for a connection for ever.

The history variables `delivered` (rows of the accepted pages of the unit) and
`published` (periods whose publication is durable) are there for the
properties only.

### 2.5 TaskDispatch

The task runs with several steps, from the dispatcher to the final status. `kind`
is `workflow`, `action` (a maintenance action that the dispatcher runs itself,
one step) or `registered` (a maintenance action with an executor, one step per
unit of its plan). All three have the same course.

| code | action |
| --- | --- |
| the look-up of the workflow or action; the units of a plan | `Start`, `StartFails` |
| `_create_node` and the commit after it | `CreateNode`, `CreateNodeFails`, `CreateUnitNodeFails` |
| `_run_dataset_action_plan` for a step | `SkipClosedDay`, `BeginStep`, `CommitUnit`, `StepDone` |
| `_run_maintenance_action`, `execute_unit` | `RunAction` |
| whatever raises in the `try` of a step | `StepRaises` |
| `_finish_node(..., "success")` and the commit after it | `FinishStep`, `FinishStepFails` |
| the `except` branches | `StepFails`, `ActionFails`, `HandlerFails` |
| after the loop; `TaskRunDispatchOutcome` | `LoopEnds`, `DispatchEnds` |
| `_finalize_task_run` and its `except` branch | `Finalize`, `FinalizeRaises` |
| a stop request, a dead process, the reconciliation | `RequestCancel`, `Crash`, `Reconcile` |

`left` counts what is not yet durable of a step's work. A dataset step commits
unit by unit and looks for a stop request before the first and between any two,
which is `IngestionExecution` reduced to what matters here: a commit may follow
a stop request (`CommitUnit` has no guard on it, since the request may come
after the last look). That the reduction is justified is proved: an execution
and a dataset step of a workflow implement the same `DatasetStep` (section 5). A maintenance step does not look for a stop request.

`current_node_id` is the variable that the handler of a registered action blames:
it still names the unit before when the flush of the next node raises
(`CreateUnitNodeFails`, first disjunct), and then a node in success is marked as
failed. Elsewhere the handler knows the step's node. A commit that raises is
durable or not (`MaybeNode`, and the second disjunct of `StepRaises`).

A heat replay in PLAN mode has one node, and its plan is saved in the commit that
ends it; its units execute in a later task run. Both are `registered`. No
workflow of the catalogue has the policy `continue_on_error` today; the
dispatcher and `docs/ops/ops-workflow-catalog-v1.md` section 2.3 have it, so
`ContinueOnError` is a parameter.

### 2.6 ScheduleTick

One transaction of a tick locks a row, plans and commits; the plan is a step of
its own because requests and other ticks commit while the row is locked.

| code | action |
| --- | --- |
| `run_once` begins | `StartTick` |
| the SELECT with `SKIP LOCKED` | `TakeDue`, `EndDue` |
| `_validate_calendar_policy` raises | `RefusePolicy` |
| a fallback schedule whose probe did the work | `PlanSkippedFallback` |
| a dataset action or workflow | `PlanDataset` |
| the window since the last success | `PlanSinceLastSuccess` |
| `_process_heat_daily_schedule` | `PlanHeat` |
| `_process_news_stock_linking_schedule`, `stage_task_run` | `PlanNoNews`, `PlanNews` |
| task run, advance, commit | `CommitPlan` |
| a request loads the row and validates | `ReadRow` |
| `sync_for_schedule` deletes the rules | `DeleteRules` |
| UPDATE, new rule, commit | `CommitRequest`, `FailRequest` |
| `create_manual_task_run` of the news linking | `SubmitNews`, `CommitNews` |
| `retry_task_run` of a run with a window | `Retry` |
| the probes, as far as schedules see them | `CreateProbeRun`, `EndTick`, `AbortProbes` |
| a process dies; time | `Die`, `PassTime` |
| a task run ends; its row is written again after that | `EndRun`, `RewriteRun` |

The application's sessions do not flush on their own, so the UPDATE of a request
is its last statement, and writes only the columns whose value differs from what
it read: `status` and `next` of a request are `None` where the column is left
alone. The DELETE of the rules sees what is committed when it runs, and the
UPDATE waits for a tick that holds the row, so a request may act on a row that
the tick has advanced or paused since. `written` is history: the due times
requests have set, from which `SetBack` tells a second run for a due time that
an operator asked for from one that nobody did.

A cron expression falls due once a day, at `DueTime`. A heat schedule that waits
for its inputs moves its own due time until the deadline of its trade date. A
window since the last success begins after the latest end of a window whose run
is *successful*, a scheduled one or its retry (`WindowsOf`,
`_last_successful_schedule_end_date` does not look at the `trigger_source`), and
may overlap one that is still open. The kind `since` stands
for schedules with that policy; its window ends the day before the due time.

The tick decides on what the rows of task runs say, and a row that ended is
written again (section 6, 2): the final write of a worker that was written off
(`worker.py:182`), the second finalization after a failed refresh (`:200`), a
cancel request that read the row as running (`task_run_service.py:347-368`), and
the reconciliation of what that opened. `RewriteRun` lets the row of any run that
was queued and has ended say anything else, `open` included, any number of
times. `ever` is history: what the row said, at any time, that the ending was.
The properties that a rewritten row touches are stated with it: a day is not lost
when its window said success at *some* time, since its data was committed then,
whatever the row says now; two runs of the news linking may stand side by side
only when one of them ended before.

`Promise` maps the tables to `DueSchedules`, which has no processes, locks or
plans: the commit of a plan is one step there, at the time its tick began, and a
request is known only by the schedule it is about to change. What a row says
of its run may change there too (`Tell`), before and after it ended.

### 2.7 ProbeTick

After the due schedules, the same session loads the active rules and goes through
them.

| code | action |
| --- | --- |
| load the active rules | `LoadRules` |
| `_should_probe` says no | `PassRule` |
| the evaluation, the look for the same target | `Evaluate` |
| `_enqueue_on_match` | `Enqueue`, `EnqueueFails` |
| `ProbeRunLog`, `last_probed_at`, commit | `LogResult` |
| all rules done | `FinishProbes` |
| a loaded rule was deleted: loading or writing it raises | `LoseRule` |
| the process dies | `DieInTick` |

Window, interval, limit and target are those of the time at which the tick began,
the log has the time of the evaluation: over midnight a hit counts for another
day than its target. A target is a trade date. The commit in between expires the
rules, so each is loaded again when its turn comes. A rule that fails to
evaluate gets an error result and keeps its `last_probed_at`.

The look for the same target leaves out runs that say `failed`. A run that was
written off makes room for a second one, and its worker may succeed after all;
so `ProbeOncePerTarget` is about runs whose row never said `failed` (`ever`).

### 2.8 IndexDailyRepair

One trade date, from the first successful run of the day to the time when nobody
looks at it any more.

| code | action |
| --- | --- |
| a run of the dataset succeeds; the source delivered some codes | `MaintainSucceeds` |
| the completion worker looks for an open audit, then creates one | `FindNoAudit`, `AskOnCompletion` |
| an operator asks | `AskManually` |
| `enqueue_due_audits` in its statements | `LookAtAudits`, `LookAtRepairs`, `AskAgain`, `EndLook` |
| the pool of active codes | `AddActive`, `RemoveActive` |
| `run_next` | `PickAudit`, `MarkRunning`, `Compare`, `MarkSucceeded`, `MarkError` |
| `create_repair_task_runs` | `SkipRepair`, `Classify`, `LeaveOutPending`, `CreateRepair`, `AbandonRepair` |
| the audit worker dies | `DieAuditing` |
| task workers, cancel requests, the reconciliation | `StartRepair`, `CancelRepair`, `EndRepair` |
| a worker goes on with a repair whose row was ended | `WorkOn` |
| a cancel request opens an ended repair again | `CancelLate` |
| an operator retries a repair | `RetryRepair` |
| the hours of the two open days | `NextHour` |

No table holds the state of a gap. `CompletedSlots` and `PendingCodes` are
computed from the task runs, in two statements (`Classify`, `LeaveOutPending`),
as the code does; `Missing`, `IsProjectionGap` and `IsDelayed` are the
classification of a missing code. `MarkRunning` writes over whatever the audit
is by then: nothing keeps two audit workers from the same audit, which is why
`NoConcurrentRepair` is stated for one, as deployed
(`scripts/goldenshare-date-completeness-worker.service`).

That the row of a repair has ended does not say that nobody works on it: the
reconciliation ends rows of slow workers, `canceled_before_start` may be written
over a claimed row, and a late cancel makes an ended row `canceling`, which
counts as open (`INDEX_DAILY_REPAIR_OPEN_STATUSES`). `ended` is history. A retry
keeps the codes and the slot but is no longer the system's: it is pending while
it is open (`PendingCodes`), uses up no slot (`CompletedSlots`), and nothing
looks at other repairs before it is made.

### 2.9 OperationsTick

`run_once` is the sequence of the three. The composed step is a step of
`ProbeTick` (which is `ScheduleTick` in detail), or, once the rules are through
(`LookLast`), a step of the scheduler in `IndexDailyRepair`; the end of a tick is
one step in both (`EndOperationsTick`), and so is a death. `DueIsServed` and
`DelayedIsRetried` are stated here, because what stops an earlier part of the
tick stops the later ones. The clock of the schedules and the hours of the trade
date pass independently.

## 3. Runs

| run | instance | shows |
| --- | --- | --- |
| `lifecycle` | 2 runs of a minute dataset, 1 general worker, 2 workers of the lane, 1 cancel request, 1 crash, run 1 possibly queued with a cancel request; 1.3 million states | `TypeOK`, `ExecutedAtMostOnce`, `LaneIsolation`, `CancelInTimeIsNotSuccess` |
| `liveness` | a workflow and an external experiment, a general and a qtf worker, 1 cancel request, 1 crash; `FairSpec` | `EveryRunSettles`: every submitted run gets a terminal status that finally stays; `QueueSpec`: the table implements `TaskQueue` |
| `completion` | 3 rows, batches of 2, 2 times, 3 writes, 1 crash; `FairSpec`; 127 thousand states | `TypeOK`, `HandledAtMostOnce`, `OrderlyEndingIsNotMissed`, `OrderlyEndingIsHandled` |
| `staged_publication` | 2 executions in one process with 2 pooled connections, 1 quarter, 2 funds with a fact each, 2 contents, 2 pages of a row, 2 faults; `FairSpec`; 300 thousand states | `TypeOK`, `StageBelongsToPublisher`, `CountedIsPublished`, `WholeScopesOnly`, `ImmutableScopesSpec`; `ExecutionEnds`: whoever holds the connections or the lock, nobody waits for ever |
| `ingestion` | 4 units, `fetch_concurrency` 1 to 3; `FairSpec`; 175 thousand states | `TypeOK`, `UnitsAtMostOnce`, `ReportedIsDurable`, `SuccessIsComplete`, `CancelStopsSoon`, `RunEnds` |
| `dispatch` | workflows of 4 steps of which one is a maintenance action and one may fail without consequences, plain actions, registered ones with up to 4 units, 2 commits per step; `FairSpec`; 8 thousand states | `TypeOK`, `EvidenceIsDurable`, `StepsInOrder`, `OutcomeAgreesWithNodes`, `LateWorkInOneStep`, `DispatchSettles` |
| `operations` | 15 starts, see below; `FairSpec`; 435 thousand states | `OperationsTypeOK`, `OneRunPerDueTime`, `NoDayLost`, `OneNewsRun`, `HeatOncePerDate`, `ProbeOncePerTarget`, `DailyLimit`, `NoConcurrentRepair`, `RunsOfActiveRowsOnly`, `DueSchedulesSpec`: the tick implements `DueSchedules`; `DueIsServed`, `DelayedIsRetried` |
| `cancel_race` | as `lifecycle`, no legacy rows | violated: `CanceledBeforeStartIsNotExecuted` |
| `terminal_rewritten` | as `lifecycle`, no legacy rows | violated: `TerminalIsFinal` |
| `completion_missed` | as `completion` | violated: `EndingIsNotMissed` |
| `lock_leak` | as `staged_publication`, without fairness, 1 fault | violated: `NoLockInPool` |
| `saved_lost` | 3 units, up to 2 threads, without fairness | violated: `SavedIsKept` |

Bounds, all named:

* `Runs`. Two runs are enough for a worker to have a choice, for a retry next to
  its original, and for a reconciliation that writes two rows in one commit;
  every property but the queue's is about one row, and the queue is proved for
  any number (`ImplementsQueue`). The completion worker needs
  three: a batch of two and one behind it.
* `Workers`. Two of one lane race for a row; a third of another lane reconciles.
* `Users` (concurrent cancel requests). One request races with every writer; two
  requests for the same row write the same values.
* `MaxCrashes`. One death per behaviour; a restarted worker is like a fresh one.
  The proofs hold for any number.
* `NumUnits`, `MaxConcurrency`. Four units for three threads leave one to submit
  when a place becomes free, with a stop request before or after it; the pool with
  two threads has two. Rounds with several completed fetches, some of them
  failed, exist from two threads on.
* `NumSteps`, `DatasetSteps`, `ContinueOnError`, `TaskDispatch`'s `NumUnits`. Four
  steps give a maintenance step between dataset steps, a failure that is
  tolerated with steps before and behind it, and a last step; two commits give a
  step that is half durable.
* `MaxTime`, `MaxWrites`. Two times give ties and order; three writes give a
  batch, an overtaking commit, and a row that ends twice.

* `Executions`, `Conns`. Two executions compete for the stage; a third would meet
  the same lock. Two connections in the pool of one process are what a leaked
  lock needs to be met by its own connection or by another one.
* `NumPeriods`, `Ids`, `Hashes`. One quarter is published and then repaired or
  published again by the other execution; two funds give a repair something to
  leave alone; two contents give a conflict. With one quarter a plan is one unit,
  so the run shows of `CountedIsPublished` only that what is counted is durable
  and the reverse; that an execution which ends well has published *every* unit
  of its plan rests on the theorem `CountsAreDurable`, which is for any number.
  (Two quarters with their liveness are beyond the time of a run.)
* `MaxPages`, `MaxPageRows`. Two pages of a row give a page that is staged while
  the unit is not complete, a repeated fact and a contradiction across pages.
* `MaxFaults`. Two faults let a second execution meet what a first one left and
  lose its connection itself.
* `Configs` of `operations`. A configuration is the table of schedules (two at
  most), who runs, what requests there may be and where the clock stops:
  two schedulers over two schedules of which one is set back or paused
  (`TwoSchedulers`); two requests for one schedule (`TwoRequests`); a probe with
  fallback, periodic or once, under an edit that replaces its rule and a death
  (`ProbedCron`, `ProbedOnce`); windows since the last success behind a schedule
  that does not validate, over three days, with a retry and runs that end in
  every way (`WindowBehindInvalid`); the heat schedule and the news linking with
  two schedulers (`HeatTwice`, `NewsTwice`). Each meets one group of hazards, and
  the properties are about one schedule at a time or about its neighbour. Where
  statuses of ended runs matter (windows, the news linking, a probe), `rewritten`
  lets rows of ended runs be written again, without a bound. That these cases do
  occur shows when the history is left out: stated with the status a row has at
  the moment, `OneNewsRun`, `ProbeOncePerTarget`, `NoDayLost` and
  `NoConcurrentRepair` are violated in the instances of this run (section 6).
* `Instances` of `operations`. Two codes completed by two workers
  (`TwoCompletions`), a source that is late through both slots (`LateSource`), an
  audit worker that dies (`Deaths`), audits that fail (`Errors`), a repair that is
  worked on or opened again after it ended (`Reopened`), an audit asked for by
  hand beside a repair that is canceled, retried and opened again (`ByHand`), a code added to the pool (`Activated`), and a morning whose
  ticks a broken schedule stops (`BlockedTick` with `NextMorning`). `left` holds
  the bounds.
* `DayLength`, `DueTime`, `MaxTime`. A day has a time before its due time and the
  due time; five units give three due times, so that a window may be empty, one
  day, or longer than `MaxWindow` (one). `MaxTriggers` is 1, so that the limit is
  met at once; `BatchSize` 1 and `MaxBatches` 2 give an audit two batches.

Where a cfg uses symmetry it permutes what the specification treats alike (the
two workers of the same lane) and checks safety only. Runs are not permuted:
their ids are their order.

Deadlock is checked in every run of the task runs, of the completion worker and
of the ticks; a system at rest still has loops turning. Executions of units, dispatches
and staged executions all end, so their runs do not check it; `RunEnds`,
`DispatchSettles` and `ExecutionEnds` say that they do not stop before.

Each passing property is also checked to be sensitive to the code: `PROJECT.json`
names, for each, a mutated definition (a dropped condition in the claim's WHERE
clause, a retry in place, a cursor that compares times only, ...) under which
TLC finds the property violated.

## 4. Fairness

* `WF_vars(WorkerStep(w))` for every worker: the serve loops are endless and
  systemd restarts a dead process; a dispatch returns sooner or later. It is
  *not* assumed that a process survives, that a finalization succeeds, or that
  any web request arrives or completes.
* `WF_vars(GoQuiet(r))`: time passes, so a row that nobody writes becomes stale.
  Since live runs are silent too, a reconciliation of a live run is possible in
  every run.
* `WF_vars(WorkerStep)` in `TaskCompletion`, for the same reason.

* `WF_vars(Main)` and `WF_vars(Thread(u))` in `IngestionExecution`: the main
  thread goes on, the pool starts what is submitted, and a source answers or
  times out. It is not assumed that a fetch, a commit or a report succeeds, or
  that a stop request arrives. Where the main thread waits, only threads can let
  it go on, and each of them works on a unit of its own.
* `WF_vars(Dispatch \/ Finalize \/ FinalizeRaises)` in `TaskDispatch`: the worker's
  thread goes on, and what a step calls returns or raises. Each of its failures
  leads forward, so no failure needs to be excluded.
* `WF` of `OperationsStep(p)` for every scheduler process, of `CommitNews` and of
  `WorkStep` in `OperationsTick`: a tick goes on, a request that holds the
  advisory lock ends, the audits, repairs and completions get done in some
  order. It is not assumed that a request is made, that a task run ends, that a
  source delivers or that the hours pass, and no process dies for ever (the
  deaths of a start are bounded).
* `WF_vars(Step(e))` for every execution of `StagedPublication`: a process that
  runs an execution goes on with it, and a source answers or fails sooner or
  later. For a slot of the pool it waits until the pool's timeout
  (`ConnectFails`), so nothing waits without an end.

Strong fairness is not needed and not assumed.

`DueIsServed` and `DelayedIsRetried` are `[]<>` over clocks that stop at a bound
which each start chooses: once the clock stands, a schedule that is due and not
served, or a late code that is not asked for again, would stay so, and `[]<>`
says that it does not. The exceptions are in the properties: a schedule that does
not validate stops what stands behind it (`Blocks`), an audit that an error ended
or a death froze is not followed by another (`GivenUp`).

`EveryRunSettles` needs a worker of the run's lane and a general worker. Without
the second nothing ends a run whose worker died; the deployment has one.

## 5. Proofs

TLAPS proves, for any number of runs, workers, requests, crashes, any batch size
and any clock:

| theorem | module | statement |
| --- | --- | --- |
| `FilterMatchesPython` | `TaskRunLifecycleProofs` | the SQL filter is true exactly when the Python predicate holds, NULL included |
| `LanesPartition` | same | every kind of row belongs to exactly one lane |
| `TypeCorrect` | same | `Spec => []TypeOK` |
| `OneExecution` | same | `Spec => []ExecutedAtMostOnce` |
| `LanesAreIsolated` | same | `Spec => []LaneIsolation` |
| `CancelIsHonoured` | same | `Spec => []CancelInTimeIsNotSuccess` |
| `ImplementsQueue` | same | `Spec => QueueSpec` |
| `SettledRunsStaySettled` | same | `Spec => SettledIsFinal`: an ended run on which nobody works any more keeps its status |
| `CanceledRunsDoNotStart` | same | `Spec => NoClaimAfterCancel`: no claim after a committed cancel request |
| `TypeCorrect` | `TaskCompletionProofs` | `Spec => []TypeOK` |
| `NoEndingTwice` | same | `Spec => []HandledAtMostOnce` |
| `NoOrderlyEndingMissed` | same | `Spec => []OrderlyEndingIsNotMissed` |
| `TypeCorrect` | `IngestionExecutionProofs` | `Spec => []TypeOK` |
| `OneCommitPerUnit` | same | `Spec => []UnitsAtMostOnce` |
| `ReportsAreDurable` | same | `Spec => []ReportedIsDurable` |
| `SuccessesAreComplete` | same | `Spec => []SuccessIsComplete` |
| `StopsSoon` | same | `Spec => []CancelStopsSoon` |
| `ExecutionsAreFinite` | same | `Rank` is a natural number, at most `10 * NumUnits + 22` at first, and every step leaves less of it |
| `NothingIsWaitedForInVain` | same | `Spec => []WaitsForFetches` |
| `FetchesHaveThreads` | same | `Spec => []PoolIsLargeEnough` |
| `SavedRowsAreKept` | same | `Spec => NodeKeepsSaved /\ RowsAreForgottenAtTheEnd` |
| `ImplementsDatasetStep` | same | `Spec => DatasetStepSpec` |
| `TypeCorrect` | `TaskDispatchProofs` | `Spec => []TypeOK` |
| `SuccessNodesAreEvidence` | same | `Spec => []EvidenceIsDurable` |
| `StepsBeginInOrder` | same | `Spec => []StepsInOrder` |
| `StatusAgreesWithNodes` | same | `Spec => []OutcomeAgreesWithNodes` |
| `LateWorkIsOfOneStep` | same | `Spec => []LateWorkInOneStep` |
| `DispatchesAreFinite` | same | `Rank` is a natural number, at most `(NumUnits + 5) * last + 12` at first, and every step leaves less of it |
| `PastNodesStand` | same | `Spec => NodesGoForward` |
| `StepsAreDatasetSteps` | same | `Spec => WorkflowStepsSpec` |
| `TypeCorrect` | `StagedPublicationProofs` | `Spec => []TypeOK` |
| `StageIsExclusive` | same | `Spec => []StageBelongsToPublisher` |
| `PublishesWholeScopes` | same | `Spec => WholeScopesOnly` |
| `ImplementsImmutableScopes` | same | `Spec => ImmutableScopesSpec` |
| `CountsAreDurable` | same | `Spec => []CountedIsPublished` |
| `NoConnectionIsLost` | same | `Spec => []ConnectionsAreGivenBack` |
| `LeaksAreByFailure` | same | `Spec => LeaksByFailureOnly` |
| `StagedExecutionsAreFinite` | same | `Rank(e)` is a natural number, every step of `e` leaves less of it and no other step adds to it |
| `TypeCorrect` | `ScheduleTickProofs` | `Spec => []TypeOK` |
| `DueTimesRunOnce` | same | `Spec => []OneRunPerDueTime` |
| `RunsAreDue` | same | `Spec => RunsOfActiveRowsOnly` |
| `NewsRunsOnce` | same | `Spec => []OneNewsRun` |
| `HeatRunsOnce` | same | `Spec => []HeatOncePerDate` |
| `NoDayIsLost` | same | `Spec => []NoDayLost` |
| `ImplementsDueSchedules` | `DueSchedulesRefinement` | `Spec => DueSchedulesSpec` |
| `SchedulerTypesCorrect` | `OperationsTickProofs` | `SchedulerSpec => []SchedulerTypeOK` |
| `SchedulerImplementsSchedules` | same | `SchedulerSpec => Spec` (of `ScheduleTick`) |
| `ProbesRunOnce` | same | `SchedulerSpec => []ProbeOncePerTarget` |
| `ProbesKeepLimit` | same | `SchedulerSpec => []DailyLimit` |
| `RepairTypesCorrect` | same | `RepairSpec => []RepairTypeOK` |
| `RepairsAreApart` | same | `RepairSpec => []NoConcurrentRepair` |
| `OperationsImplementsParts` | same | `OperationsSpec => SchedulerSpec /\ RepairSpec` |
| `OperationsTypesCorrect` | same | `OperationsSpec => []OperationsTypeOK` |
| `OperationsKeepPromise` | same | `OperationsSpec => DueSchedulesSpec` |
| `OperationsAreSafe` | same | all of the above hold of the whole tick |

Assumptions are those the modules name: `OtherKeysAssumption`,
`LifecycleAssumption`, `CompletionAssumption`, `ExecutionAssumption`,
`DispatchAssumption`, `PublicationAssumption`, `SchedulesAssumption`,
`TimeAssumption`, `NoneAssumption`, `ProcessesAssumption`, `ConfigsAssumption`,
`ProbeAssumption`, `CodesAssumption`, `WorkersAssumption`, `InstancesAssumption`,
`BatchAssumption`, `StartsAssumption`. TLC evaluates them in the runs.

**Type correctness** is inductive only with two facts about program points: a
worker that has a job has a run (`JobKnown`), and a worker about to finalize has
an outcome (`OutcomeKnown`). In `TaskCompletion` it needs that rows of a batch
have ended and that the row being worked on has been loaded.

**One execution** follows from `Owned`: a row still in the queue was never
claimed; a busy worker holds the only claim of its run. `ExecutedAtMostOnce`
alone is not inductive, since it does not say that a queued row has no claim.
The lemma `ClaimOrNoClaim` splits the steps into claims and the rest, so that
only one case has work in it.

**Cancellation** follows from `CancelKept`: a worker about to write has loaded
the row after every cancel that came in time. The one subtle case is the second
finalization, which must load again.

**The queue.** The refinement maps a row to a phase by its claims and by the
workers, not by its status: late cancels and reconciliations write any status
over a run that still executes. `Remembered` states what is true of a row read
some time ago: a row that was open is not in the queue again. Every step is
first shown to be one for the queue (`StepIsQueueStep`), then each of these to
be a step of `TaskQueue` or a stutter.

**What remains of finality.** Terminal statuses are written over (section 6, 2),
so finality is proved of `Settled` runs only: ended, in nobody's hands, in no
reconciliation's plan and in no request that has read it open. Whoever begins
something reads the row first and leaves an ended one alone, so nobody ever
unsettles a run (`SettledStep`); a status written over was written by somebody
who knew the run before it ended. `CanceledRunsDoNotStart` is the same for the
other divergence: a cancel request that is committed is never taken back
(`CancelRequestStays`), and the claim's WHERE clause looks for it in the
statement that claims.

**The cursor.** `HandledAtMostOnce` and `OrderlyEndingIsNotMissed` rest on
`Promises`, which hold while no row is written again: the copies agree with the
table, the cursor separates the handled from the rest, and an orderly ending is
ahead of the batch when it is not in it. The condition is needed: a row that is
written again may move the cursor backwards or forwards.

**The units.** `UnitInv`: the iterator is ahead of every unit that was touched,
and a unit in flight or being processed was not committed before; that is what
keeps a unit from a second commit. `DurableInv`: every counter, the one in the
outcome included, holds durable units only. `LoopInv` accounts for every unit
the iterator has passed: it is counted, in flight or being processed while no
exception is on its way out, and the loops are left only when the iterator is at
its end; hence a healthy execution that returns is complete. `EndInv` carries
that from the outcome to the row. `PendInv` bounds the units that may still be
committed: never more than `fetch_concurrency`, one less where a unit is about
to be submitted, and from a stop request on, together with those committed since,
never more again.

**The end of an execution.** No fairness is needed for three halves of what TLC
checks as liveness. `ExecutionsAreFinite` has a rank: ten for every unit that the
iterator has yet to return, less for a unit whose fetch is open, in the batch, or
being processed, and a constant per program point; each step of the main thread,
of a thread, of a request or of the reconciliation leaves less of it, so every
behaviour stops changing. `NothingIsWaitedForInVain`: `FetchInv` ties the futures
to the fetches, so where the main thread waits, what it waits for is on its way
or over. `FetchesHaveThreads`: what is on its way has a thread, because pending
units (`PendInv`) bound it. That the main thread and the threads then do go on is
the fairness of section 4, and stays with TLC (`RunEnds`). The same holds of
`DispatchesAreFinite` (a step once left is never entered again) with
`DispatchSettles`, and of `StagedExecutionsAreFinite` with `ExecutionEnds`: there
the rank counts the units, pages and places of one execution, and the faults,
which happen to executions, only take from it.

**The rows that are shown.** `SavedInv`: the counters of row and node lag behind
the executor's, and only a successful outcome carries them on. Hence the node
never forgets, and the row forgets only where the final write of a failed or
canceled run sets it back, and then everything (section 6, 5).

**The contract of a dataset step.** A workflow relies on a few things when it
lets a dataset be maintained: the work begins after a look for a stop request,
becomes durable commit by commit while it lasts, is over for good when the call
has returned or raised, and is a success only when nothing is left. `DatasetStep`
says this with four variables. `ImplementsDatasetStep` shows it of an execution
with its threads: a commit lowers what is left by one because the unit at work
was not committed before (`UnitInv`), the node is written in success only when
the loops have accounted for every unit (`LoopInv`), a closed day is over at
once (`ClosedInv`), and a run that fails before its plan has no node that could
attest it (`NodeInv`). `StepsAreDatasetSteps` shows it of the dataset steps of a
workflow in `TaskDispatch`, which leave all this out (`EvidenceInv`). So what
`TaskDispatch` takes a step to be is not just assumed: both are steps of the same
contract, for any number of commits.

**The steps.** `PlaceInv` ties the thread to the nodes: at work on a step, its
node is running and is the one an exception will be recorded at, and no later
step has a node; in a handler the blamed node is the step's, or, for a registered
action only, the one before while the step has none. From that, layer by layer:
`EvidenceInv`, a node is finished only after the last commit of its work;
`OrderInv`, the steps before the one at work have succeeded or failed as the
policy tolerates; `CountInv`, as long as no failure is counted they have all
succeeded, and when one is, some node has failed; `OutcomeInv` carries that over
to the outcome and the row, which are written only where no node changes any
more. `LateInv` says that a step at work after a stop request is the only one
with late commits, since `BeginStep` looks for the request.
`PastNodesStand` needs `PlaceInv` only: whoever writes a node is at work on its
step, or is the handler of a registered action that still blames the one before.

**The stage.** `FullInv` has four layers. `TypeInv`: the types, and that a unit
is one of its plan. `LockInv`: no two executions share a connection, at most one
connection holds the lock, a broken one never does, and an execution between the
lock and `__exit__` whose connection lives holds it; so there is at most one such
execution (`OnePublisher`). `StageInv`: the stage rows of that execution are
those of its accepted pages, and nobody else has any. `ServingInv`: a period has
one content per identity, and a repair has a period to repair. Nothing is assumed
of an execution whose connection is lost, and nothing is needed: it cannot
publish any more. `PublicationEffect` derives from the checks of
`finalize_scope` what the requested scope looks like after the commit; the step
property and the refinement both follow from it.

**The counters of a publication.** `Counted`: until `__exit__`, the units an
execution has counted are exactly those whose publication it knows to be
durable, and they lie before the one at work; a publication that raised and is
durable all the same is not among them.

**Connections and locks.** `ConnInv`: an execution has a connection from
`__enter__` to the end of `__exit__` and at no other time; with `LockInv` nobody
shares one, so no slot of a pool is lost. `LeaksAreByFailure` goes through the
steps with `ConnInv` and finds the lock in a pooled connection only where
`ClearStageFails` or `UnlockFails` left it, or where it was before.

**The schedules.** `TypeInv` needs that a tick that holds a row has a schedule and
a due time. `LockInv`: a schedule that a tick works on is locked by it, active,
and still has the due time the tick read, since a request's UPDATE waits for the
lock; from that `RunsAreDue` follows without looking back. `DueInv`: a schedule
has left the due times of its runs behind unless a request set it back, so no
later tick finds one of them again. `NewsInv`: whoever has planned or staged a
run of the news linking holds the advisory lock, and then no run is open that has
not ended before (`HasFirstNews`); while the lock is held an ended one may be
opened again, and that one only.
`HeatInv`: a planned attempt for a date means that the schedule has none yet.
`Remembered`: a row that says how its run ended is one whose `ever` has it, and a
window that was never queued never says success. `WindowInv`: every day before
the first one of a scheduled, planned or retried window is covered by a window
that said success at some time; since `ever` only grows, `NoDayLost` survives
windows that end in any order, and successes that are taken back. `StepKinds` sorts the steps into those that matter and quiet ones, so
each of these proofs has few cases.

**One process.** `ImplementsDueSchedules` says that all the locks, plans and
requests come to this: due schedules are served as if one process took them one
by one, each in one step, on the runs as they are at that moment. The step is
the commit of a plan, but the plan was made earlier, on runs that have changed
since. `PlanFits` says what must still be true of it: that heat was not attempted, that
what a window leaves out is still covered, that the probe's run of the day is
still there (and `NewsInv`, that no run of the news linking is open for the first time). `FitInv`
keeps it between the plan and the commit, because whoever could spoil it is held off by
the row's lock or the advisory lock, or cannot undo what the plan relies on (what
a row said it has said, a run stays a run). `TakenInv` and `AskedInv` tie ticks
and requests to what they have read. `NextIsNextDue` and `HeatDateIsLast` are the
lemmas about the computed times: the planner's next occurrence is the first one
after the time at which the tick began, and the heat's date the last one whose
time has come. Requests map to `Ask`, `Change` and `Reject`; everything else
stutters. The time of a tick may lie behind the clock, and the promise leaves open
how far (`t` in `Serve`): it is never before the due time.

**The probes.** `SchedulerStepIsStep`: each step of `ProbeTick` is one of
`ScheduleTick` or leaves its variables alone, so everything proved there holds
here. `HitIsFirst`: a hit that is about to become a run has no run of its target
whose row never said `failed`; with one process nobody else can create one in
between, and no rewritten row becomes one (`RewriteRun` only adds to `ever`).
`CountInv` counts the task runs of a rule against its logged matches: for days
that are not over, the runs lead by the ticks that died and by the one run that
is not logged yet; a rule that a tick has yet to deal with has nothing
unlogged; a hit is below the limit. Days that are over need nothing: a tick
counts matches for the day it began, and no later tick begins on it. The
cardinalities come from the theorems about finite sets, one lemma for a new run
(`RunCounted`) and one for a new match (`MatchCounted`).

**The repairs.** `CreatesApart`: the codes an audit worker is about to create
repairs for are in no open repair of the system that has not ended before,
because only that worker creates repairs for the system, and one that ended is
never again one that has not (`RowChanges`).

**The whole tick.** Each step is a step of both parts or leaves one alone
(`OperationsStepIsStep`); the theorems about the parts carry over, the promise of
`DueSchedules` included.

Only model-checked: the liveness properties (`EveryRunSettles`,
`OrderlyEndingIsHandled`, `RunEnds`, `DispatchSettles`, `ExecutionEnds`,
`DueIsServed`, `DelayedIsRetried`), since liveness under fairness is beyond the
prover, and the five recorded divergences, of which a theorem gives the extent
(section 6).

Proved and in no run: the theorems whose property stands in a module of proofs
(finite executions and dispatches, waiting, threads, nodes, connections, leaks,
settled and canceled runs) and the two refinements of `DatasetStep`. They hold
for every value of the constants, so an instance would add nothing.

## 6. What disagrees with the documentation

1. **A cancel that says "before start" over a run that executes**
   (`cancel_race`). `request_cancel` decides on the status it loaded and commits
   by primary key. A worker may claim the row in between. The row then says
   `canceled` / `canceled_before_start`, and the worker executes it. The test
   `tests/web/test_ops_runtime.py:1493-1494` states what the reason means: the
   dispatcher was not called.
   `CanceledRunsDoNotStart` proves the extent: such a run was claimed before the
   cancel was committed, never after.
2. **A terminal status is not final** (`terminal_rewritten`). The final write,
   the reconciliation and a late cancel write over each other, and a failed
   refresh turns a committed success into `failed`. The page stops polling at
   the first terminal status
   (`docs/ops/ops-task-run-observability-redesign-plan-v1.md:497`).
   `EveryRunSettles` shows that it does not go on for ever,
   `CancelIsHonoured` that a cancel in time survives it, and
   `SettledRunsStaySettled` proves that only those who knew the run before it
   ended write over it.
3. **An ending that is missed** (`completion_missed`). The plan of the
   completion worker says that a run that ends while the worker runs normally
   is handled (`docs/ops/ops-task-completion-side-effect-worker-plan-v1.md:86`).
   An ending whose commit is overtaken by that of a later `ended_at` stays
   behind the cursor. `NoOrderlyEndingMissed` proves that this is the only way
   while no row is written again. One that is (2) may move the cursor ahead of
   endings that were not handled, or behind ones that were: the audit's commit
   expires the batch, and the cursor takes the `ended_at` that the row has by then
   (`task_completion_worker.py:39`). That is not excluded by anything, and both
   properties of the cursor assume that it does not happen.

4. **A lock in the pool** (`lock_leak`). The design of the staged publisher wants
   the advisory lock released in `finally` before the connection is closed
   (`docs/datasets/public-fund-b7-fund-portfolio-low-level-design-v1.md:320`).
   When `clear_stage` or its commit raises, `__enter__` closes the connection
   without unlocking, and `__exit__` is not called. Until the pool replaces the
   connection, executions on other connections end with `staged_scope_busy`.
   Safety does not suffer: `StageIsExclusive` is proved with the leak in the
   model, and `ExecutionEnds` holds. `LeaksAreByFailure` proves that this failure
   and one of the unlock itself are the only ways.
5. **Saved rows that are forgotten** (`saved_lost`). `rows_saved` of a task run is
   "already saved in the database"
   (`docs/ops/ops-task-run-observability-redesign-plan-v1.md:227`), and failed and
   canceled runs keep their cumulative rows (`:1147`). The outcome of a failed or
   canceled dataset action has no counters, and the final write takes the row's
   back to 0, although units are committed and were shown. The node of the run
   keeps its counters. `ReportedIsDurable` holds: the row says too little, never
   too much. `SavedRowsAreKept` proves that nothing but this final write takes
   back what was shown, and that the node never does.

Seen while `TaskDispatch` was written, and in the model as the code has it, but
without a run of their own:

* A workflow that is stopped inside a step ends as `failed`, or as `canceled`
  when a step before had succeeded: the step's `IngestionCanceledError` is an
  exception like any other, and the final status turns only `success` and
  `partial_success` into `canceled`. `docs/ops/ops-workflow-catalog-v1.md:60` and
  `:67` say `canceled`.
* The commit at `task_run_dispatcher.py:308` comes after the step was counted as
  completed. When it raises, the step counts twice, so a workflow whose first
  step fails so is a `partial_success` without a node in success (the same
  document, `:58-59`, wants a successful step for that), and its
  `progress_percent` may exceed 100.
* `depends_on` and `blocked` of the same document (`:51`) have no code.
* After a crash, or when the handler itself fails, a node stays `running` under a
  task run that has ended: the reconciliation writes the task run only.

And while the scheduler's modules were written:

* One schedule that does not validate raises out of every tick, at the same
  place, until somebody edits it. Schedules behind it, the probes and the look at
  the audits of `index_daily` wait as long. `DueIsServed` and `DelayedIsRetried`
  name it as the exception (`Blocks`).
* An edit that began before a pause commits after it: it writes neither status
  nor due time, but binds a rule, since the row it read was active. The paused
  schedule then has an active rule and goes on probing, which
  `schedule_automation_capability_audit_service.py:310-340` reports as a defect.
* The slots a code has used up are read before the repairs that are open
  (`Classify`, `LeaveOutPending`). A repair that ends in between is in neither,
  and the code is repaired a second time in the same slot, which
  `docs/ops/ops-index-daily-completeness-reconciliation-lld-v2.md` (section 3)
  excludes. `RepairsAreApart` proves that the second is not created while the
  first is open and has not ended before.
* An audit whose worker died stays `running`; there is no reconciliation for
  audits, and each one that would ask for another finds it open (`IsFrozen`).

What follows for the scheduler from terminal statuses that are not final (2). All
of it is in the model, and the properties say what holds nevertheless:

* A late cancel makes an ended run of the news linking `canceling`, which counts
  as active. If a new run was submitted in between, two are open
  (`NewsRunsOnce` proves that all but one of the open ones had ended before).
* A run of a probe that the reconciliation wrote off as `failed` does not count
  for its target any more. The next hit submits a second one, and the worker of
  the first may still write `success`: two effective runs for one target
  (`ProbesRunOnce` proves that this is the only way).
* A success may be taken back, by a failed refresh or a late cancel, after the
  next window was computed from it: the window has then begun behind a run that
  does not say `success`. Its data was committed (`NoDayIsLost`); but the next
  window goes back to the latest success that is left and covers the days again.
* A repair whose row was ended may still be at work, or be opened again, beside a
  second one for the same codes; so may one that an operator retries
  (`RepairsAreApart` proves that of those the system creates, all but one of the
  open ones had ended before).

## 7. Abstractions, and what is not modelled

* Payloads, parameters, reason texts, error messages, formatting, logging.
* Of the counters, only rows saved and units done; rows fetched, rejected and
  deduplicated are added to at the same places as rows written.
* In `TaskDispatch`: row counters, texts of issues, the checks of a replay plan
  against its snapshot (one choice, `StartFails`), and what a maintenance action
  computes.
* In `IngestionExecution`: what a unit fetches and writes; a fetch with its
  retries and pages is one step that returns or raises.
* Time: only "silent for longer than the limit" and, for the completion worker,
  the order of `ended_at`.
* The limit of rows per reconciliation round and of runs per cycle: any number.
* Priorities: the worker orders by `requested_at, id`; ids of the model are that
  order.
* In `StagedPublication`: dates, codes and amounts of a row are an identity and a
  hash; the progress rows, which have a session of their own and whose failures
  are swallowed, are left out; a stop request is a choice before each page; a
  dataset definition that names a DAO which does not exist (`dao_not_found` in
  `__enter__`) is a fault of the build.
* A commit whose outcome the client does not learn is a fault before or after
  it, both present.
* In `ScheduleTick`: cron expressions (one occurrence a day), the calendar
  policies that compute a window from the due time alone, the creation of
  schedules, and what validation looks at (`valid` is a constant of a schedule,
  although a change of the code or of a contract is what makes it false). The
  first rows are as creation leaves them. `resume_schedule` of a schedule with a
  window since the last success also validates the window; that only refuses.
* `RewriteRun` says more than the writers of section 6, 2 do: it does not ask who
  knew the run before it ended (`SettledRunsStaySettled`), nor in which order the
  writers come, so every order of theirs is a behaviour of the model, and there
  are more. `WorkOn` and `CancelLate` do the same for repairs. A window whose row
  said `success` at some time counts as committed: that a success is complete is
  `SuccessIsComplete`, of `IngestionExecution`.
* A retry is one step: nothing it reads can change. One of a probe's run counts in
  none of the looks at task runs, so there is none in the model, and one of the
  news linking is `SubmitNews`, since it takes the same lock and the same look.
* In `ProbeTick`: what a probe asks and how the answer is judged, and the order of
  the rules.
* In `IndexDailyRepair`: one trade date; what else the completeness center
  audits; the audit schedules of the center, which `run_once` serves between the
  due schedules and the probes and which have their own table.
* Sequential computations without interleavings (planning of units, validation,
  normalization, resolution of several sources, status snapshots), formatting
  and one-call I/O (notification), read-only APIs, user interfaces, migrations,
  the research code behind the external executor, and the realtime service,
  which has its own store and process. `PROJECT.json` gives the reason for each.

The modules cover a small share of the repository's lines. Most of these are
definitions of datasets (tables of fields and rules), the Lake console with its
Dagster assets and checks, frontends, document scrapers and queries: data and
sequential I/O, which have inputs and outputs but no states between which
another process could act. What has such states, the operations runtime and the
ingestion engine, is modelled but for the parts named above.

## 8. What could be added

* The conjunction of `TaskRunLifecycle` and `TaskCompletion`: every write of
  `ended_at` in the first is a writer of the second. Both are proved for any
  behaviour of the other side, so the conjunction would repeat them with more
  states.
* `TaskDispatch` and `IngestionExecution` as the outcomes `TaskRunLifecycle`
  allows a dispatch: `Outcomes` lists the statuses; a refinement would tie them to
  the steps.
* The audit schedules of the completeness center, as a second table of the kind
  `ScheduleTick` models.
* Two audit workers: `NoConcurrentRepair` does not hold for them, so the audit
  queue needs a conditional claim before a second one is deployed.

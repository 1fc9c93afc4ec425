# Alchemy v2, modelled in TLA+

Alchemy schedules training jobs on GPU nodes. A Node.js **server** keeps the
tasks in SQLite and in memory and talks over socket.io to one Python **stub
daemon** per node or SLURM allocation; the daemon runs each task as a process
and reports what becomes of it. Around that core the server keeps task graphs,
experiments, write locks, SLURM allocations and campaigns, delivers webhooks,
deploys stubs and backs itself up; an SDK submits experiments and runs inside the
tasks. This directory holds the specifications, the TLC configurations that check
them on small instances, and the proofs that hold for every instance.

    tlc -workers 2 -config OrchTasks.cfg MCOrchestrator
    tlc -workers 2 -config Services.cfg MCServices
    tlc -workers 2 -config Edges.cfg MCEdges
    tlc -workers 2 -config Views.cfg MCViews
    tlapm OrchestratorProofs.tla

Paths below are relative to `src/`; `stub.ts` is `server/src/socket/stub.ts`,
`capacity.ts` is `server/src/api/capacity.ts`, other `.ts` files without a
directory are below `server/src/`, Python files without one are in
`stub/alchemy_stub/`.

## 1. The system

| Component | State it keeps | Operations | Modules | Status |
|---|---|---|---|---|
| Status machine (`state-machine.ts`, `task-actions.ts`) | none | transition table, typed writes, `createRetryTask` | `TaskStatus`, `TaskLifecycle` | modelled |
| Task store (`store/index.ts`) | tasks table; `stub.tasks` arrays; index | `updateTask`, `_archiveTask`, moves, requeues, `setStub`, `_loadFromDb`, aliases | `Orchestrator`, `Storage`, `Names` | partly |
| Stub handlers (`stub.ts`, `reliable.ts`) | socket registry, generations, timers | resume, disconnect, heartbeat check, kill chain, task events, status.sync, reports of tasks, acknowledged messages | `Orchestrator`, `Registry`, `Telemetry` | partly |
| Scheduler (`scheduler.ts`) | re-entrancy flag, dispatch timers | `schedule`, `maybeDispatch`, dispatch timeout, eligibility, scores, diagnosis | `Orchestrator`, `Placement` | modelled |
| Task API (`api/tasks.ts`) | idempotency cache | submit, kill, cancel, pause, retry, requeue, reschedule, replace, controls; pages, inbox, marks, expedite | `Orchestrator`, `TaskGraph`, `Placement`, `Desk` | partly |
| Daemon, process manager (`daemon.py`, `process_mgr.py`) | `_procs`, pid file, `_connected`, drain | connect, task.run, task.kill, reap, re-attach, drain, idle exit | `Orchestrator`, `Walltime` | partly |
| Warm pool (`warm_pool.py`, `warm_worker.py`) | workers, semaphore, busy flags, results | submit, acquire, spawn, poll, kill, respawn | `WarmPool` | partly |
| Task DAG (`dag.ts`) | blocked tasks, `depends_on` | promotion, cascade, the requests that rewire a graph | `TaskGraph` | partly |
| Write locks, fingerprints (`dedup.ts`, store) | lock table, fingerprint index | acquire, release, rebuild, refusal | `WriteLocks` | modelled |
| Task controls (`task_socket.py`, SDK `transport.py`, `context.py`) | `control_requests`, pending controls | checkpoint and stop requests and their answers | `TaskControls` | partly |
| Campaigns (`campaigns/`) | campaign rows | the passes of the reconciler, the operator's calls | `CampaignLifecycle`, `Campaign` | modelled |
| SLURM allocations (`capacity.ts`) | allocation rows | submission, listing, cancellation, binding of stubs | `Slurm` | partly |
| Capacity policy (`capacity/automation.ts`) | policy, intents on disk | one reconciliation, the kill switch | `CapacityPolicy` | modelled |
| Webhooks (`webhooks.ts`, `api/webhooks.ts`) | subscriptions, outbox, record | first POST, retry, poll; subscribe, test | `Webhooks`, `Subscriptions` | partly |
| Experiments and grids (`api/experiments.ts`, `api/grids.ts`) | lists, refs, stored status, lineage, events | creation, evaluation, retries, adoption, moves, edits, decisions, timeline | `Experiments`, `Lineage`, `Journal` | partly |
| Renewal and deployment (`deploy.ts`, `ssh.ts`, `tunnel.ts`, `autorenew.ts`) | PID file, lock, backoff timer | deploy, restart, stop, tunnel, renew | `Deployment`, `Tunnel`, `Walltime` | partly |
| Managed submission (SDK `experiment.py`, `submit.py`) | keys | submit, edit, submit again | `Submission` | partly |
| Managed training (SDK `managed.py`) | checkpoint files | the loop, the atomic save, a later process | `Checkpointing` | modelled |
| Backup and restore (`store/backup.ts`) | files | export, write, prune, restore | `Storage` | modelled |
| Remote exec, files, shell (`api/exec.ts`, `exec.py`, `socket/web.ts`, `RemoteShell.tsx`) | requests under way | run, answer, repeat | `Relay` | partly |
| Metrics (`metrics.ts`, `api/metrics.ts`, `api/sdk.ts`), cost, audit, git | rings, curves, cached overview | push, read, report | `Telemetry` | partly |
| Telemetry of the host and discovery; notifications; dashboard, MCP bridge, CLI | | | | not modelled (section 8) |

How they interact: the API writes the store and calls the scheduler; the
scheduler moves a pending row into a stub's array and sends `task.run`; the
daemon runs a preflight, starts the process and emits `task.started`, logs and
a final `task.completed` or `task.failed`; the stub handlers write the store,
make retries, promote or cancel dependents, release locks, refresh the
experiment, enqueue webhooks, and call the scheduler again. Every server callback
runs to its end (single thread, synchronous SQLite), except where it awaits SSH,
a subscriber, a campaign's side effect or a file; the daemon's coroutines
interleave. A Python task may go to a warm worker instead of a process of its
own. SLURM jobs, allocations, campaigns and stubs meet in the allocation row: a
submission writes it, a listing of the queue moves it, a registration binds a stub
to it, a cancellation or a campaign gives it back.

What is hard:

* **Two copies of a task.** A row in the table and an object in the array of a
  stub; `handleResume` works on a copy of the stub object that shares the array,
  and a later `setStub` brings an outdated array back (`stub.ts:836`, `1036`).
* **Lost links.** Events emitted while disconnected are dropped
  (`daemon.py:140`), a link may be made again before the server saw the old one
  close (ghost sockets), and a daemon may die and re-attach to its processes.
* **Races with snapshots.** The payloads of `resume` and `status.sync`, a queue
  listing of SLURM, and the campaign row a pass has read describe an earlier
  moment than the one they are compared with.
* **Timers.** Dispatch timeout 30 s, heartbeat 180 s, kill repeat 60 s, 6 h
  disconnect timer, repeats of unacknowledged messages, the outbox's 250 ms, all
  racing late events.
* **A pool behind awaits.** A kill frees its worker before it has killed it, the
  job it killed frees that worker again when its connection breaks, and spawns
  run whatever became of the worker since they were scheduled.
* **Retries.** Five code paths fail a task, two of them retry without looking
  at what the failing did. Only two of them tell the dependents.
* **Several commits.** A move between arrays, an adoption between grids, a restore
  and a checkpoint are several writes with crashes between them.
* **Readers.** A list is read page by page while tasks move, a name outlives its
  object, a timeline is put together from what was said and what happened, a message
  is built again from a task that has gone on since.
* **Several owners.** One identity may have two daemons, one target two deploys,
  one allocation two submissions, one tunnel several restarts.

What makes each part correct: a task is in one place; a stub is never over its
slots nor its memory; a terminal status is final, above all `completed`; a retry
follows a failure, stays within `max_retries`, and is the only live attempt;
whatever is submitted reaches a terminal status if daemons reconnect; a worker of
the pool is never lost to it, and each task it took and nobody killed is
announced. A task starts after what it depends on, and none waits for what has
failed; a run_dir has one writer and a fingerprint one task; a control is carried
out once and truly reported; a delivery is posted until it succeeds, and after
that only if its row outlived the success; an allocation is given back, but not from under a running task; an
experiment agrees with its tasks; what is stored survives a crash; a key makes
one thing; and who reads the server is told what is so.

## 2. The modules

| Module | What it is |
|---|---|
| `TaskStatus` | the statuses, the table `LEGAL_TRANSITIONS`, the check of a status write |
| `TaskLifecycle` | the abstract specification: tasks as a status, a lineage and an attempt number |
| `Orchestrator` | server and daemons: rows, arrays, sockets, timers, messages, processes |
| `WarmPool` | the pool, its worker processes, and the process manager's polls and kills of warm tasks |
| `CampaignLifecycle`, `Campaign` | what a campaign promises; its reconciler, driver, operators and restarts |
| `Slurm` | one allocation row, its jobs and stubs, and the three kinds of handler that await SSH |
| `Webhooks` | deliveries, the outbox and overlapping polls |
| `TaskGraph` | dependencies, promotion, cascades and the requests that change a graph |
| `WriteLocks` | the table of write locks and the index of fingerprints |
| `TaskControls` | checkpoint and stop requests from the API to the SDK and back |
| `Experiments` | experiments, grids, lists, refs and the stored status |
| `Lineage` | criteria, recommendations, the tree and the leaderboard of experiments |
| `Journal` | the timeline of an experiment, its decision, its results and what is read from them |
| `Names` | mnemonic names of tasks and experiments, in memory, in rows and in backups |
| `Desk` | the list page by page, the inbox and its marks, priorities and their overlays |
| `Telemetry` | curves, progress, logs and results of running tasks, and the overview |
| `Subscriptions` | who is told of the end of a task, the message, the record of the deliveries |
| `Placement` | memory, leases and needs; the order, the scores and the diagnosis of the scheduler |
| `Registry` | sockets, identities, rows and acknowledged messages |
| `Walltime` | the end of a SLURM job: drain, idle exit, restart, renewal |
| `Deployment`, `Tunnel` | what SSH and the remote shells do; the cloudflared process |
| `Submission` | the SDK's submissions over a lossy connection |
| `Checkpointing` | the training loop and its files |
| `Storage` | commits, restarts, backups and restores |
| `Relay` | requests to a stub somebody waits for |
| `CapacityPolicy` | the automatic policy, its ledger and the kill switch |
| `MCOrchestrator` | the stories the runs of `Orchestrator` tell: the events each may spend, and who connects |
| `MCWarmPool`, `MCCampaign` | model values, budgets and symmetry for the runs |
| `MCServices` | `Slurm`, `Webhooks`, `TaskGraph`, `WriteLocks`, `TaskControls` side by side |
| `MCEdges` | `Placement` ... `CapacityPolicy` side by side |
| `MCExperiments` | `Experiments` and `Lineage` side by side |
| `MCViews` | `Journal`, `Names`, `Desk`, `Telemetry`, `Subscriptions` side by side |
| `OrchestratorProofs`, `WarmPoolProofs`, `CampaignProofs` | inductive invariants and theorems of one component each |
| `AdmissionProofs` | those of `TaskGraph` and `WriteLocks`: what keeps a task from the queue |
| `ServicesProofs` | those of `Slurm`, `Webhooks` and `TaskControls` |
| `LinkProofs` | those of `Tunnel`, `Registry` and `Deployment`, as parts of `MCEdges` |
| `EdgesProofs` | those of `Checkpointing`, `Submission`, `Relay`, `CapacityPolicy`, `Walltime` and `Storage`, as parts of `MCEdges` |
| `ExperimentProofs` | those of `Experiments`, as a part of `MCExperiments` |

`Orchestrator` and `WarmPool` are separate: to the server, a warm task is a
process like any other, and to the pool, the daemon is who submits and kills. The
parts of `MCServices`, `MCEdges` and `MCViews` meet only through the tasks they act on,
which each part has as far as it needs them: the ends of tasks are steps of the
environment there, and what their interleaving with reconnection does is the
matter of `Orchestrator`. Side by side means that a behaviour is one of the part in
`focus`: the parts share no variable, so an interleaving of two of them shows
nothing that one alone does not.

### State of `Orchestrator` and the code

| Variable | Code |
|---|---|
| `row` | the row of the tasks table: location, stub_id, status, `stub_offline`, `kill_requested`, `dispatch_attempts`, `retry_count`, `retry_of` |
| `mem` | `stub.tasks` of the object `store.stubs` holds, with the columns that may differ from the row |
| `online` | stubs whose `status` is `online` |
| `conn` | the server's side of the socket: none, up, or broken and not yet noticed |
| `link` | `_connected` of the daemon |
| `down`, `up` | messages in flight or in a handler; `down` is a set, because the daemon handles them in tasks of their own, `up` a queue |
| `failTimers`, `killTimers` | `disconnectFailTimers`, `killTimers` |
| `procs`, `dead` | `ProcessManager._procs` with the fate of each process, `_dead_on_reattach` |
| `left` | nothing in the code: what is left of the bound `Budget` |

The helpers of the server are operators from a *world* (row, mem, down) to the
set of worlds they may leave, so that an action composes them in the order of
the code: `Disconnect` is `Requeue`, then the flags, then `Schedule`. One action
is one callback with every call it makes: `Resume` is the whole of
`handleResume` (Cases A, B and C, dead tasks, the restored array, the answer,
the schedule pass), `HandleSynced` the whole answer to `status.sync`.

Abstractions:

* Priorities, scores, tags, GPU and memory admission are abstracted to slots:
  `Schedule` may choose any placement that fills the free slots.
* The `schedule()` passes inside one callback are taken as one where the first
  leaves nothing for the second.
* A stop requested for a task is one flag: `should_stop` and `kill_requested`
  are set together by the kill chain; the cooperative stop alone is
  the matter of `TaskControls`.
* Outcomes of a process: exit 0, a failure that is not retried, a failure that
  is (`auto_retry_on`, or a resumable death cause). A re-attached process has no
  exit status and always fails with -1 (`process_mgr.py:152-163`). The walltime
  drain of the daemon is a process that ends by itself.
* `status.sync` is answered through its ack, as the server expects; the daemon's
  fallback event `status.sync_response` has no handler on the server.
* Pausing is a status on the server only: no message goes to the daemon.
* `Reap` drops the entry of a process and reports its end in one step. The code awaits
  between the two (`process_mgr.py:665-722`, `daemon.py:850`, `864`): a resume that
  falls there omits the task and still sends its end afterwards, an order the model
  does not have. That a task whose process has ended may be missing from a resume, it has.
* The daemon's refusal of `task.run` while it drains, the warm pool, and the
  deferral of a kill during a checkpoint are not part of this module.

### State of `WarmPool` and the code

| Variable | Code |
|---|---|
| `started`, `sem` | `_started` and the value of `_sem` |
| `proc`, `busy` | `_WorkerState.proc` and `.busy` of each worker |
| `spawns` | nothing by name: the tasks `create_task(_spawn_worker(w))` left to the event loop |
| `taskWorker`, `results` | `_task_worker`, `_task_results` |
| `job` | the coroutine of a task: `submit`, then `_run_task_on_worker` |
| `kill` | the coroutine `kill_task`, whose `_kill` runs in an executor thread |
| `procs`, `reported` | the warm entries of `ProcessManager._procs`; the tasks whose end its monitor announced |
| `os` | the worker processes: starting, listening or dead, the SIGTERM flag, the task they serve |
| `path`, `conn` | who bound the socket file of a worker; whom each `_send_task_sync` is connected to |
| `faults` | nothing in the code: what is spent of the bound `Budget` |

What an asyncio coroutine does between two awaits is one action: `TaskEnds` is
all of `_run_task_on_worker` after its executor call. What runs in an executor
thread (`SendTask`, `KillTerminates`, `KillNow`, `KillSees`) and what a worker
process does (`Listen`, `Serve`, `Finish`, `Leave`, `Crash`) are actions of their
own. The lock of the pool is never held across an await, so it excludes nothing.

Abstractions:

* An answer is an exit code of the worker (`"exited"`) or the -1 of a lost one
  (`"lost"`); which exit code plays no role.
* `started` is `"starting"` until the spawns that `start` schedules have run:
  the event loop takes them before anything that wakes up later.
* The pings of a worker that starts, and the 30 s after which `_acquire_worker`
  stops waiting for it, change no state: `AcquireAgain` may follow at any time.
* A `Popen` that fails in `_acquire_worker` is repeated there without an await,
  so only the failure of a scheduled spawn is a step (`SpawnFails`).
* Ids of processes are used again when no one refers to them; a spawn waits
  while `MaxPid` of them are taken. That is a bound of the model, not of the code.
* Not modelled: `shutdown`, the environment and log capture of a task, the submission
  of one task id twice.

### The parts of `MCServices` and `MCExperiments`, and `Campaign`

| Module | State and code | Actions | Abstractions |
|---|---|---|---|
| `Campaign` | `campaign`: the row (`types.ts:661`); `allocation`: its row and job; `pass`: where each reconcile pass awaits and the row it read; `expired`: `max_runtime_seconds` | what a pass does between two awaits (`reconciler.ts:89-211`): read, one side effect, write if the row is still the one it read; `CancelCampaign`, `AdvanceToFailed`, `RestartServer` | `CampaignSideEffects` has no implementation in the repository: its effects (`*Lands`) are external and may come before, after or without their answer |
| `Slurm` | `slurmRow`: the allocation row; `request`: each submission that awaits `sbatch`; `snapshot`: the listing that was read; `cancel`: the stub that is held back, and the one the row named at the second look; `jobStub`: the stub of each job | `Submit`..`SubmitFails`, `ListJobs`, `ListFails` (an incomplete listing still matches the row with its stub), `ApplySnapshot`, `ChooseAllocation`..`CancelFails`, registrations and drops | all the requests with one idempotency key; `sbatch`, `squeue`, `scancel` are external |
| `Webhooks` | `hook`: the first POST; `outbox`: status, attempts, whether due; `poller`: batch and POST of each `processWebhookOutbox` | `StatusChanges`, `FirstPost*`, `Poll`, `Retry`, the two commits of a success (`RetrySucceeds`, `RetryRemoves`), `RetryFails`, `RemovalFails`, `WriteFails`, `PollEnds`, `HookRestart`, `Unsubscribe` | a POST may land or not, whatever its answer; lease and backoff are "due" or not; no handler runs between the two commits, but the other actions commute with the second |
| `TaskGraph` | `node`: status and `depends_on` | the handlers of `task.completed` and `task.failed` with promotion and cascade, ends by other paths (`EndsQuietly`), requeue, retry, reschedule, replace, delete | dependencies are on completion; what runs is `live` |
| `WriteLocks` | `holder`: the tasks; `lock`: `writeLockTable`; `index`: `fingerprintIndex` | both ways to submit, every update, requeue, retry, resume, restart | run_dirs are a small tree (`Nested`); the rebuild takes the last of several active tasks, which is any |
| `TaskControls` | `control`: `control_requests`; `emitting`: `reliableEmitToStub`; `sock`, `call`, `wire`: socket of the task and its lines; `sdk`: transport and main thread | one action per hop and direction, each with its failure | checkpoints nobody asked for carry no request; a path is told apart by the attempt that saved it |
| `Experiments` | `run`: the tasks; `exp`: lists, refs, results, stored status | creation, evaluation, ends, retries, replacements, adoption, moves with the crash between their commits, deletion | which task waits for which is `TaskGraph`'s; criteria are "hit" or "miss" |
| `Lineage` | `study`: the rows with tasks, parent, family, goal and criterion; `trial`: their tasks; `result`: `results` | creation, edit of the metadata, deletion, `task.eval`, start and end of tasks; recommendation, tree and leaderboard are operators | one metric and one bar; retries and adoptions are `Experiments`' |

Histories (`done`, `settled`, `forced`, `adrift`, `shared`, `opened`, `twice`,
`unheard`, `hasty`, `excused`, `cutHooks`, `outlived`, `cut`) have no counterpart in the code:
they say by which path a task or a delivery came to where it is, for the properties
that except a path by name. In the views they are what was handed out, said, asked
for, sent or read: `given`, `told`, `wish`, `arrived`, `reported`, `logged`, `owed`,
`inboxOf`, `hasRead`, the fields of `reader`, and the exceptions `clashed`, `cut`,
`again`, `copied`, `buried`, `restarted`.

### The parts of `MCViews`

| Module | State and code | Actions | Abstractions |
|---|---|---|---|
| `Journal` | `paper`: rows of experiments; `note`: their tasks; `log`: `experiment_events`; `bundle`: a research bundle between its collection and its manifest | remarks, entries of a ledger, decisions, announcements to a series, edits, deletion; starts, ends, results, verdicts, retries; the timeline, snapshot, series and bundle are operators | one metric; an entry has a content hash or none |
| `Names` | `registry`: the rows and the two maps; `saved`: a backup | save, delete, look up, restart, export, restore | a name is any of a small set, by object and nonce |
| `Desk` | `task`: rows with priority and overlay; `mark`: `task_marks`; `reader`: who turns pages | the life of tasks, pages, marks, expedite, edits of a priority, a restore | filters are of the status |
| `Telemetry` | `run`: rows; `live`, `ring`: the buffers of `MetricsStore`; `cache`: the overview | metrics, progress, lines, notices, reports of the SDK, phases, exports; moves and ends of tasks, restarts | a point is its number |
| `Subscriptions` | `subs`, `posts`, `waiting`: the outbox, `record`: the deliveries | subscribe, drop, test; ends, posts, retries with their two commits, deletions that throw, restores, restarts | what a log shows is a set of signs |

### The parts of `MCEdges`

| Module | State and code | Actions | Abstractions |
|---|---|---|---|
| `Placement` | `placed`: tasks with what they ask; `machine`: link, slots and telemetry of each stub | a whole `schedule()` pass in the order of the queue, dispatch and its timeout, submission, edits, pause, drop, return, heartbeat | memory in GB; tags, environments and GPU types are one set of needs |
| `Registry` | `link`: sockets and `socketToStub`; `row`: stub rows with their timers; `reg`: `stubSockets`, `stubGeneration`; `call`: pending emits | resume (refused, thrown, whole), disconnect, heartbeat timeout, fail timer, release, delete, emit, ack, retry | a stub has running tasks or none |
| `Walltime` | `alloc`: job, drain, daemon; `work`: the tasks; `renewal`: the stub's row at the server | the minute timers of both sides, drain, idle exit, restart, preflights and exits | time in minutes |
| `Deployment` | `order`: requests; `shell`: remote shells, which outlive SSH; `host`: daemons, PID file; `job`: SLURM jobs | every step of deploy, restart and stop, with the failure of each SSH command | requests that overlap are possible, and `spoilt` names it |
| `Tunnel` | `child`, `manager` (`proc`, `shuttingDown`, `restartTimer`, `backoffStep`), `caller` | exits, timers, restarts, SIGTERM | |
| `Submission` | `author`: `Experiment` objects; `post`: requests and answers; `db`: rows of a key; `single`: tasks with `idempotencyCache` | submit, edit, submit again, lost request or answer, delete, `POST /tasks`, `POST /stubs/:id/tasks` | a content stands for a whole payload |
| `Checkpointing` | `disk`, `temp`: files; `proc`: each process | steps, the four reasons to save, `tmp` then rename, kills, a full disk | |
| `Storage` | `rows`, `live`, `copy`, `files` | each handler with the states between its commits, export, text, file, prune, restore, crash | of a task only its status and place |
| `Relay` | `http`, `shells`, `tab`, `line` | requests and answers, the retries of `reliableEmitToStub`, connection and generation | output, paths and limits are left out |
| `CapacityPolicy` | `policy`, `ledger`, `pool`, `visit` | a reconciliation between its awaits, disable, restart | recommendations, barrier and backend are given to the router from outside |

## 3. The runs

| Run | Bounds | Checks | Shows |
|---|---|---|---|
| `tasks` | four stories, 2 slots a stub: `reconnect`, 2 tasks on one stub, 1 drop, 1 ghost, 1 log; `move`, 1 task and 2 stubs, 1 crash, 1 kill; `control`, 1 task, 1 each of cancel, pause, stall, restart, sync; `dispatch`, 1 task, 1 each of failing preflight, repeated message, tick, restart, sync; 1 retry each | `OneHome`, `SlotBound`, `CompletedGone`, `SingleAttempt`, `ImplementsLifecycle` | no reconnection before or after the server noticed, no crash, kill, move, handler, timer or restart breaks the two copies apart, overbooks a stub, or gives a task a life that `TaskLifecycle` does not have; a task that moves has one attempt |
| `reopened` | 1 stub, 2 slots, 2 tasks whose processes may fail, 1 drop, 1 ghost | `FailedIsFinal` is violated | section 6 |
| `settles` | 1 stub, 1 task + retry, 1 drop, 6 dispatch timeouts, `FairSpec` | `EverythingSettles` | what is submitted ends |
| `warm_pool` | 3 tasks, 2 workers, 3 processes at a time, 1 kill, 1 crash | `BusyHasJob`, `AnswerKept`, `PermitsAccounted` | a kill and a crash, with a task waiting for a permit, lose no worker, no result and no permit |
| `warm_answers` | 2 tasks, 2 workers, 4 processes, 1 crash, 1 failed spawn, 1 task of more than a day, `FairSpec` | `AllAnswered` | what is submitted is announced |
| `campaigns` | 2 passes, 1 task beside the smoke test, 2 attempts, 2 faults, `FairSpec` | `ObligationKept`, `SmokeBeforeDag`, `ReleaseSparesWork`, `ImplementsCampaignLifecycle`, `EveryCampaignEnds` | whatever passes, operators and restarts interleave, no allocation is forgotten, nothing runs untested or is cut off, and the campaign ends |
| `services` | 2 jobs, 2 faults; 2 deliveries, 2 polls, 3 attempts, 2 restarts or failed writes; graphs of 3 tasks + 1, 2 interventions; 3 tasks in 2 nested run_dirs, 2 disturbances; 1 checkpoint and a stop, 1 drop, 1 slow call | `DeliveryAccounted`, `GraphSound` (`RunsAfterDependencies`, `CascadeReachesAll`), `LocksSound` (`DirsGuarded`, `DuplicateRefused`), `SavedOnceAndTrue`, `CancelSparesWork`, `NoPostAfterSuccess` | the safety of the five parts |
| `progress` | 1 job; 1 delivery; graphs of 3 + 1, 1 intervention; 1 checkpoint and a retry of its task; `FairSpec` | `SeenJobsSettle`, `OutboxDrains`, `BlockedSettles`, `RequestsComplete` | rows of ended jobs are closed, the outbox drains, blocked tasks and requests settle |
| `experiments` | 3 tasks, 2 experiments, 1 request, crash or quiet end; 2 experiments of 1 or 2 tasks, 2 evaluations, 1 edit or deletion | `OneGridPerRun`, `SettledIsStored`, `ReadingsSound` | lists, refs and tasks agree through adoptions, moves and retries, the status of what has ended is stored, and verdicts, leaderboard and tree fit together |
| `stuck_experiment` | the first half of `experiments` | `StatusAfterCascade` is violated | section 6 |
| `edges` | a small instance of each part, 1 or 2 faults | `ReservationsFit`, `LeftForAReason`, `CheckpointsSound`, `CutTasksWarned`, `LinksKnown`, `RequestsKept`, `StorageSound`, `PolicyKept` | the safety of the ten parts; `RequestsKept` is `OneExperimentPerKey` of `Submission` and `RelaySound` of `Relay`, `LinksKnown` that of `Deployment`, `Tunnel` and `Registry` |
| `views` | one view at a time, see below | `JournalSound`, `NamesHold`, `DeskSound`, `ReportsSound` | timelines and answers of experiments, names, pages, inboxes and priorities, what tasks report and what subscribers are sent are true, through lost answers, crashes, restarts and restores |

No run checks a type invariant alone: those of `Placement`, of the modules behind
`LinksKnown`, of `Storage` and of the views are conjuncts of their properties, those of
`Experiments` and `Lineage` of `ReadingsSound`, and the others are conjuncts of the
inductive invariants of section 5.

In `Orchestrator` and `WarmPool`, `Budget` bounds how often each spontaneous event
(submit, kill, drop, crash, ...) may happen (in `Orchestrator` an initial state takes
one of `Budgets`, in its runs the one of the story in `focus`), `MaxTasks` the ids with the retries, `MaxUp` the events in flight, `Outcomes` how processes may end. Timers, handlers,
processes and reconnections are not bounded. The other modules bound faults and
requests of operators by one number each (`SlurmFaults`, `HookFaults`,
`Interventions`, `Disturbances`, `LinkDrops`, `SlowCalls`, `Meddling`, `Upsets`,
`Mishaps`, `Incidents`, `SshFaults`, `Turns`, `Mischances`, `Slips`, `Faults`,
`PolicyCrashes`, `Edits`, `Reports`, `Doings`, `Cuts`, `Upheavals`, `Changes`,
`Ends`), ids by another.

Why the bounds are enough:

* The array of `handleResume` goes wrong only with two tasks of which one is
  archived (two tasks and two slots in `reconnect` and `reopen`); a task meets its
  older self only after it moved (two stubs in `move`); a status that a handler reads
  from an object differs from its row only after a repeated message, a stall or a
  restart (`control`, `dispatch`); three dispatch timeouts end an attempt, and there
  are two attempts (six in `settles`). `move`, where `SingleAttempt` is stated, and
  `settles` have one task and no pause: of a second task, or a paused one, both say
  too much (section 6). In a story, processes that may only succeed are those whose
  failure the other stories have (`Kept`).
* In the pool, a third task on two workers is the one that waits for a permit and
  is then given the worker a kill has freed, while the killed job still holds it;
  the third process is the one that replaces it. `warm_answers` has a fourth, for
  the spawns that replace a live process.
* Two passes of a campaign are the serial loop and a `POST .../reconcile` beside
  it; with two attempts an acquire fails once and is tried again.
* A second job is what a submission makes whose answer came after the row had
  failed; the cancellation chooses one and meets the other. Two polls are a timer
  that overlaps a poll that awaits, and three attempts have a middle one. A chain
  of three with a replacement or a retry is the shortest in which a rewired
  dependency has a dependent of its own. A third task finds both a lock and a
  nested one.
* Three tasks in two experiments are a first task, one blocked by it, and one that
  is moved or adopted. One with two values and one with the opposite goal are the
  least that a verdict can compare wrongly; a parent edited to the child, or to the
  experiment itself, closes a circle.
* In `edges`: three tasks on two machines of which one is leased; two processes
  of a task over two steps; a job with five minutes left whose drain
  begins with four left and whose idle exit comes after three; three orders, of which two may overlap; two
  daemons of one identity and three sockets; two posts of an author with two
  contents; two backups, of which one may be kept, where tasks are on one stub and a
  write may fail, or are on both and nothing fails, and one where both and faults are (the stubs are alike,
  so the first is taken of those nothing knows of yet, `FirstHostFirst`, which loses no
  behaviour but for the names); two wanted allocations under a cap of one and two
  overlapping rounds.
* In `views`: two experiments of a family, one of them of a matrix, two doings and a
  crash, which is an entry posted twice or an announcement and a departure; three
  tasks and an experiment whose names collide from the first nonce on, with two
  upheavals (a backup of the collision and a restart after it); three tasks under
  three filters with pages of one, three ends or restores; two priorities and both
  overlays; two curves of which two points are kept and three arrive, a ring of two
  that five steps wrap twice, three lines kept of four and one in the tail, an archive
  that keeps one log warm, an overview that is cached for two of three ticks; two
  subscriptions that may bear one name after the other, two ends, two attempts, one
  restart, restore or failed deletion. What is beside the point of a focus is kept fixed there
  (`JournalPlain`, `PriorityPlain`, `OneRuns`, `HooksPlain`): what is not a result where
  the latest counts, priorities where pages are read, the second task where curves are,
  subscriptions after the last end; the second subscription has the first one's name, or
  another and asks for less or for nothing, and there is none where a task is deleted or
  a row outlives its success. A part that is not in focus does not move, and
  `ReportsSound` asks each of its parts where it is in focus.

`CHECK_DEADLOCK FALSE` everywhere: a system without tasks left, and with its
budget spent, rightly stops.

Symmetry is used in `tasks` over the two stubs, and in `warm_pool` over the
tasks, which no definition tells apart; the workers are numbers, because the pool
takes the first that is free. It is not used with liveness.

## 4. Fairness

`Orchestrator!FairSpec` adds weak fairness of: the server's handling of an event
that has arrived and of a closed socket; the dispatch timer; the daemon's handlers
of `task.run`, `task.kill` and the resume answer; its monitor loop; its reconnect
loop (`daemon.py:1180-1194`, forever, 5 s apart); and the end of each process,
which is what the platform schedules jobs for. Nothing is assumed of users, of
the network, of crashes, of the heartbeat checker or of `status.sync`. Weak
fairness is enough: each of these stays enabled until it happens or until the
link goes away, and links go away a bounded number of times.

`WarmPool!FairSpec` adds weak fairness of the coroutines, the executor threads, the
monitor loop and the worker processes: the event loop and the kernel run what can
run, and scripts end. Faults, kills and submissions are not fair.

The other parts of which a liveness is stated, each over its own steps:

* `Campaign`: the loop's timer fires, the calls it awaits end with an answer or an
  error, the runtime passes, and jobs have a walltime. Nothing is assumed of
  operators, stubs or tasks: a campaign nothing goes well for must end too.
* `Slurm`: the serial loop lists the queue (weak), and a listing is read in the end
  (strong: SSH may fail again and again, but not for ever).
* `Webhooks`: the timers fire, a fetch ends or is aborted after ten seconds, and a
  call that recorded a success goes on to delete its row.
  Subscribers are not fair: exhaustion ends what they never accept.
* `TaskGraph`: what is pending is run, and what runs ends through one of the two
  handlers. An end by another path leaves dependents without their event, and
  `BlockedSettles` excepts it (`adrift`).
* `TaskControls`: messages on a live link arrive, stub and SDK reconnect for ever,
  the training loop polls and saves, calls are answered or fail.

## 5. The proofs

### `Orchestrator`

`OrchestratorProofs` proves, for any sets and numbers of stubs, tasks, slots and
retries and any budget of faults, pauses and kills, from `ConstantsAssumption` alone:

* `Invariance`: `Spec => []IndInv`, with `IndInv == TypeOK /\ OneHome /\ CompletedGone`;
* `TypeCorrect`, `ObjectsHaveOneHome`, `CompletedTasksAreGone`: its three parts;
* `CompletedIsFinal`: `Spec => CompletedFinal`, completed rows stay completed;
* `SlotInvariance`: `Spec => []SlotInv`, with `SlotInv == IndInv /\ Sound(World)`;
* `SlotsBounded`: `Spec => []SlotBound`;
* `RowsImplementLifecycle`: `Spec => ImplementsLifecycle`, the refinement.

Why that invariant: `OneHome` says where an object may be. A step that archives
or requeues a row must find no second object of it, so the proof needs
`OneHome` to show that the row it rewrites belongs to the array it rewrites.
`CompletedFinal` cannot be proved from types: the writes of the handlers ask the
status of the object, not that of the row. `CompletedGone` closes the gap: a
completed row has no object, so no handler writes it; and `OneHome` is what
keeps `CompletedGone` when a resume restores an array, because the tasks it
brings back are never completed ones.

How it is laid out: `IndInv` is split into `Good(World)`, about rows, arrays and
messages, and `RestTypeOK`. Each world operator (`Put`, `SetStatus`, `Requeue`,
`Assign`, `Schedule`, `RetryAll`, `CaseA`, `SetStub`...) has a lemma: from a good
world it makes good worlds in which completed tasks stay completed. Each action
has a lemma `<Action>Step` that composes them, and `NextInv` collects these.

`SlotBound` asks the arrays, and the code breaks the arrays apart: a resume may put
back one from before its own handlers had run (`stub.ts:1036`), a restart makes
objects of whatever rows say `running`. So `Sound` says of a world what these rest
on: a row lies where its status says (`Filed`); an object agrees with its row, unless
the row has failed behind its back (`Agrees`); what runs is backed by an object, so
that a restart finds no more tasks than there were slots (`Backed`); and no array
holds more than its slots (`Fits`). Cardinalities only meet two ways to change them:
a set that shrinks, and a schedule pass that fills free slots.

The refinement needs what the helpers do to the rows, one after the other. `Onward`
is their step relation: it says of each task how it goes on within a callback, and,
because a second helper meets what a first one left, which tasks are `Dead`, ended and
held by no array. It is transitive (`OnwardTransitive`), and from a sound world it is
`Lawful`, a step of `TaskLifecycle` (`OnwardIsLawful`). The array that a resume puts
back is the hard case: `Recalls` says that the world still knows that array, every
task of it being as it was or failed since, and `Subsides` that the helpers of a resume
keep this, because they only fail tasks that have left the queue. From these,
`RestoredSound` has that the restored array fits and agrees.

`TaskLifecycle` says what is true of the code, and no more: it lets a failed task go on
from the status its object was restored with, and a retry be born of a paused task
(section 6). What it forbids whatever drops, crashes, resumes and restarts: a completed
or cancelled task that goes on, a running one that is queued again, a row that loses its
lineage, a retry of a task that has neither failed nor been paused, and more than
`MaxRetries` of them.

Model-checked only: `SingleAttempt`, which speaks of a behaviour of one task without
pauses, and `EverythingSettles`, since liveness is out of the prover's reach.

### `WarmPool`

`WarmPoolProofs` proves, for any numbers of workers, tasks and processes and any
budget of faults, from `ConstantsAssumption` and `TaskAssumption`:

* `PoolInvariance`: `Spec => []IndInv`, with
  `IndInv == TypeOK /\ Coherent /\ BusyHasJob /\ AnswerKept /\ PermitsAccounted`;
* `PoolTypeCorrect`, and `BusyWorkersHaveJobs`, `WatchedTasksKeepAnswers`,
  `NoPermitLost`: the three properties of the `warm_pool` run.

Why that invariant: the three properties are not inductive alone. When a job
ends, `AnswerKept` needs that it has an answer to store, `BusyHasJob` that it is
on a worker; when a kill ends, `PermitsAccounted` needs that it gave no permit
back before; when a kill begins, `AnswerKept` needs that the task is watched no
more. `Coherent` says just that of each task's coroutines. `PermitsAccounted`
compares cardinalities, hence the assumption that tasks are finitely many. A
lemma (`Undisturbed`) covers the steps that touch neither permits nor answers;
each other action has a lemma of its own with a step per conjunct.

Model-checked only: `AllAnswered`.

### `Campaign`

`CampaignProofs` proves from `CampaignAssumption` alone, for any number of passes,
tasks of the DAG, attempts and faults:

* `CampaignInvariance`: `Spec => []CampaignInv`, with `CampaignInv == TypeOK /\
  PassesFit /\ SmokeFits /\ ObligationKept /\ SmokeBeforeDag`;
* `NoAllocationForgotten`, `SmokeComesFirst`: `ObligationKept`, `SmokeBeforeDag`;
* `NothingCutOff`: `Spec => ReleaseSparesWork`;
* `CampaignRefines`: `Spec => ImplementsCampaignLifecycle`, the refinement.

Why that invariant: a pass acts on a row it read before its awaits. `PassesFit`
says what the row still has in common with it as long as nobody has written it,
and `SmokeFits` that a campaign past its smoke test has a completed one. Every step
of a pass stops, awaits or writes; a lemma for each of the three serves all the
actions, and a write goes through only if the row is the one that was read.

### `Webhooks`

`ServicesProofs`, from `WebhookAssumption`: `HookInvariance` (`HookInv ==
WebhookTypeOK /\ OneAtWork /\ WorkIsOpen /\ RowsAfterFirstPost /\
RowsOfSuccesses /\ DeliveryAccounted`), `NoDeliveryLost` and `SuccessIsFinal`. One
call of the timer is at work at a time, what it read and has not dealt with is still
open, and a row comes after the first POST. `RowsOfSuccesses` says of each success
that its row is gone, or about to be deleted by the call that recorded it, or was left
behind by a restart or a failed write between the two commits (`outlived`). A call
between its commits posts nothing, and the other calls hold nothing: so only what is
in `outlived` can be posted after its success.

### `TaskGraph`

`AdmissionProofs`, from `GraphAssumption`: `GraphInvariance` (`GraphInv ==
GraphTypeOK /\ Recorded /\ RunsAfterDependencies /\ CascadeReachesAll`),
`DependenciesFirst`, `NoneLeftWaiting` and the two together, `GraphsSound`
(`GraphSound`), for graphs of any size. `Downstream` is
the smallest closed set, not a recursion, so that its closure is a lemma
(`DownstreamClosed`); `Recorded` ties the histories to the statuses.

### `WriteLocks`

`AdmissionProofs`, from `LockAssumption`: `LockInvariance` (`LockInv == LockTypeOK /\
LocksHaveOwners /\ OneWriterPerDir /\ HoldersHaveLocks /\ DuplicateRefused`),
`WritersExclude`, `ActivePrintRefused` and the two together, `OneWriter`
(`LocksSound`), for any nesting of run_dirs. That locks
have owners does not keep writers apart, because a lock may be missing:
`HoldersHaveLocks` is the converse, once a stub has resumed and but for the
run_dirs that were shared or opened, and it is what a submission that finds a
run_dir free rests on.

### `Slurm`

`ServicesProofs`, from `SlurmAssumption`: `SlurmInvariance` (`SlurmInv == SlurmTypeOK /\
BarrierStands /\ StaysIdle`) and `CancellationSpares` (`CancelSparesWork`), for any
number of submissions, jobs, dropped stubs and restarts. The argument has two halves:
from the barrier on, the stub that was chosen stays held back, because nothing but a
dispatch adds work to a stub and nothing takes the barrier down; so the stub the
second look saw idle is idle until `scancel` lands, though listings, registrations
and submissions write to the row meanwhile. It says nothing of a cancellation whose
two looks named different stubs.

### `TaskControls`

`ServicesProofs`, from `ControlAssumption`: `RequestsSavedOnce` (`SavedOnceAndTrue`),
for any number of requests, attempts, lost links and slow calls, by `ControlInv ==
ControlTypeOK /\ SavedOnce /\ CountedOnce /\ ReportsBacked`. A report takes three
hops, and is repeated on each: `ReportsBacked` says that whatever is on its way, in
the line to the stub, in the call under way or in a call that was given up and may
still land, tells of a checkpoint that is saved; `CountedOnce` that the path of a
request names the attempt that counted it, so that a repetition is not counted
again; `SavedOnce` that what the training loop has taken up is neither the request
it is answering nor saved twice.

### `Experiments`

`ExperimentProofs`, from `ExperimentAssumption` and about the specification of
`MCExperiments`: `TasksHaveOneHome` (`OneGridPerRun`) and `EndsAreStored`
(`SettledIsStored`), for any numbers of tasks and experiments. `HomeInv ==
ExperimentTypeOK /\ AtHome` says where a task may be listed, and that no task names an
experiment that was never begun, which is what a creation rests on. `ExperimentInv ==
HomeInv /\ SettledIsStored`. Each request is one of three kinds, with a lemma for each:
those that tell an experiment of an end and store what is derived (`ToldStep`), those
that leave the experiments alone (`SameExperiments`), and those that change a list
between two commits; a crash between them leaves the list behind or the task, and
`AtHome` allows just that. A grid that is posted is a matrix whose second commit was cut
off (`GridIsCutMatrix`).

### `MCEdges`

`EdgesProofs` and `LinkProofs` are about the specification of `MCEdges`: `PartsBegin` and
`PartsMove` in the one, `LinksBegin` and `LinksMove` in the other say that its behaviours
are behaviours of each part, and the rest is said of the parts.

* `Checkpointing`, from `CheckpointingAssumption`: `SavedWorkSurvives`
  (`CheckpointsSound`), for any number of processes, tasks, steps, kills and full disks,
  by `CheckpointInv == FilesOK /\ \A p : Relies(p)`. `CheckpointsSound` speaks of a
  process at the head of its loop and after its end, and is not inductive; `Relies` adds
  what holds in between: a temporary file that is about to be renamed is whole, the file
  that was just placed is of the step the process is at, and a SIGUSR1 that is not
  answered is still set. Files are never lost (`DiskGrows`), so a step of one process
  leaves alone what another of the same task relies on (`OneAtATime`). That the highest
  checkpoint exists (`HighestStep`) rests on the library's well-foundedness of the
  natural numbers.
* `Submission` and `Relay`, from their assumptions: `AskedOnceDoneOnce` (`RequestsKept`).
  `SubmissionInv` says that the row of a key is whole (a grid has its tasks, and an
  experiment the content of its grid), that an answer which tells of an experiment
  tells of what is stored, and that one post per key created anything. `RelayInv` says
  that a copy of a shell command still on the line is on the connection its command was
  sent on, which is why a copy can be refused after a reconnection, and that the first
  copy of the command a page waits for has not ended unheard.
* `CapacityPolicy`, from `PolicyAssumption` (what is owned at the start is finite and
  under the cap): `PolicyStaysWithinItsLimits` (`PolicyKept`), for any caps, cooldowns,
  calls and restarts. The caps and the cooldown hold of reconciliations that do not
  overlap; the switch holds of all.
* `Walltime`, from `WalltimeAssumption`: `NoTaskCutUnwarned` (`CutTasksWarned`), for any
  number of tasks and any walltime, under the hypothesis `Incidents + 2 < DrainAt`:
  squeue fails for fewer minutes than the drain begins early, less two. The daemon
  begins the drain in the minute in which it reads that little time is left
  (`DrainBegunInTime`), and each minute squeue fails takes one away; without the
  hypothesis the property is false, and TLC shows it. The code's drain begins ten
  minutes before the end; `Edges.cfg` has four and one failure.

* `Storage`, from `StorageAssumption` (the mark of no stub is no stub):
  `KeptThroughRestarts` (`StorageSound`), for any tasks, stubs, backups, crashes and
  failed writes. `StorageInv` says that between two handlers, and between the two
  commits of a move, database and memory agree on every task that is not known as
  behind (`Matched`); that the backup under way has every task it was taken of, in its
  tables or its arrays, and what it shares of the arrays is what the memory has
  (`CopyFits`), which is why a push, an update and a filter tear nothing and the splice
  of a dispatch timeout does; that the files are as whole as they were written, one of
  them uncut once any was (`FilesFit`); and what a handler relies on between its commits
  (`BetweenCommits`). An earlier form of the exceptions did not survive the proof: a
  task that moved while its arrays were shared is restored to two arrays, and a backup
  taken of that state hands it on although nothing has torn it. Such tasks are named for
  what they are now (`Twice`), and `edges` has two backups on two stubs, where TLC finds
  the old form false.

* `Tunnel`, `Registry` and `Deployment`, from their assumptions: `LinksHold`
  (`LinksKnown`), for any numbers of stubs, sockets, messages, tunnels, requests, daemons
  and faults. Each of the three is kept by an invariant of its own, and each needs what
  is true in the middle of a handler.
  `TunnelInv` adds to `TunnelKept` who waits for whom (`WaitsSound`): while the server
  serves, nobody waits for the process that runs unless the tunnel is being stopped, so
  that the exit of an old process cannot be taken for that of the new one.
  `RegistryInv` says of every socket that it speaks for the identity of its own daemon
  (`LinkFits`), of every row that it names a socket of its own identity, one that is open
  and mapped back to it while the row is online and heard (`RowFits`, `OnlineFits`), and
  of a message under way that it stays with the socket it began on, which while its
  generation lasts is the one registered, or none is (`CallFits`). `resume` goes through
  worlds in which the old socket is thrown out and the new one is not yet in: what holds
  there but for one row is `FitsBut`, and each of its helpers has a lemma about worlds.
  `RegistryAssumption` has that the mark of a socket nobody speaks for is no identity.
  `DeployInv` says what a remote shell is about to rely on (`ShellsFit`): nothing is
  alive between the kill and the spawn of a request, and what is alive while a shell has
  yet to write the PID file is what it will write; and that one request is under way at
  a time (`OneUnderway`). All of it is said as long as no request has overlapped another
  and no kill was lost, as `DaemonsKnown` is.

The theorems about a single part are about its own specification, and `MCServices` and
`MCCampaign` check the same formulas.

### What is only model-checked

* The liveness of every part: `EverythingSettles`, `AllAnswered`, `EveryCampaignEnds`,
  `SeenJobsSettle`, `OutboxDrains`, `BlockedSettles`, `RequestsComplete`.
* Induction over data: `ReservationsFit` (sums over the tasks of a machine),
  `ReadingsSound` (sums and extrema over tables), `NamesHold` (folds over the rows of a
  backup), `DeskSound` and `ReportsSound` (sorted pages, trimmed sequences).
* What the proofs have not reached: `LeftForAReason`, `JournalSound`, and the parts of
  `ReportsSound` about subscriptions.
* `SingleAttempt`, as said above.

## 6. What the checks found

* **An experiment stays running** (`stuck_experiment`).
  `docs/experiment-sdk-design.md:423-433` has `onTaskFailed` cancel everything
  downstream and then update the experiment. `handleTaskFailed` looks at the
  experiment first (`stub.ts:1346-1349`) and cascades afterwards; the cascade looks
  at no experiment. A DAG whose first task fails ends with every task ended and a
  stored status of `running`.

* **A failed task runs again** (`reopened`). `DESIGN_PHILOSOPHY.md:131-133` has terminal
  statuses irreversible and a rerun a new task. `handleResume` works on a copy of the
  stub object that shares its array (`stub.ts:836-850`); the first task that `failTask`
  archives is filtered into a new array of the old object (`store/index.ts:1629-1633`),
  a second one is marked and removed there only, and `setStub(stub)` (`stub.ts:1036`)
  brings the first array back. The second task is `running` in it, while its row is
  archived as failed and its retry is queued: the `task.started` of a repeated
  `task.run` writes the row back to `running` (`store/index.ts:1637-1641`), beside the
  retry. Seen from the other side, a retry that this same resume had assigned vanishes
  with the array it was pushed to: its row says `assigned`, no object times out, and it
  waits for a restart of the server. So one attempt at a time (`SingleAttempt`) and an end for
  everything (`EverythingSettles`) are stated where one task is about; that no stub is
  overbooked and no completed task comes back holds all the same, and is proved.

Seen while modelling, in the models where they belong to a modelled part, without a
run of their own.

Tasks and daemons:

* a killed task is retried when its process ends while the link is down
  (`stub.ts:948-957`; SPEC.md:625 promises no retry of a killed task);
* a paused task is retried while it lives: `handleTaskFailed` queues the retry
  whether or not `failTask` was accepted (`stub.ts:1286`; `task-actions.ts:136`
  speaks of a terminal task);
* an automatic retry never resumes: `createRetryTask` clears `run_dir` and takes a
  new id, from which the checkpoint directory is made (ROADMAP_V2.2.md B2.4,
  SPEC.md:250);
* a heartbeat timeout leaves a stub offline with its socket mapped, and running
  tasks are not failed, although the comment says so (`stub.ts:337`); a resume that
  is rejected because its allocation is terminal has cleared the fail timer, and
  the running tasks stay running;
* `POST /stubs/:id/tasks` skips eligibility, saves no row until the task is
  assigned, and persists no idempotency key;
* a blocked task whose dependencies are ready may stay blocked after a rewiring,
  and one whose dependency ends through resume, status.sync or a timer waits for
  ever (`docs/experiment-sdk-design.md:242`);
* tasks put back by a requeue, a resume or a restart share a run_dir with whoever
  has its lock (DESIGN.md:432);
* a stop carries no request id of its own to a retry
  (`docs/operations/icl-control-e2e.md:14`).

Warm pool:

* a killed warm task is never announced (`process_mgr.py:525-530`; SPEC.md:578): the
  server learns of its end at the next `resume` or `status.sync`;
* a worker is used before it is ready (`warm_pool.py:357-364`, against the
  docstring at `:194`), and the first task fails with -1;
* each kill releases the semaphore twice, in `kill_task` and in the job it killed
  (`warm_pool.py:270`); `PermitsAccounted` says by how much it exceeds the pool;
* the list of dead workers tests the variable of the loop before it
  (`warm_pool.py:365`), and may replace a live worker that runs a task;
* `_send_task_sync` is called with "no timeout" and waits for a day
  (`warm_pool.py:102`), after which the task is declared lost while it runs on.

SLURM, walltime, deployment:

* two submissions under one key may make two jobs (`capacity.ts:218`, `800`); a
  cancellation then holds back the stub of one, looks at the other, and cancels the
  first while it works. `CancelSparesWork` excepts a cancellation that looked at two
  stubs; it was found so with two requests, and holds without the exception with one;
* auto-renewal never fires: `daemon.py:976-983` sends `walltime_remaining_s`,
  `stub.ts:449-457` drops it, `autorenew.ts:149` waits for it (SPEC.md:1502);
* the drain sends SIGTERM, and SIGKILL after 60 s, rather than checkpoint and stop
  requests (`daemon.py:1046-1102`; SPEC.md:1093); the stub stays schedulable
  (`daemon.py:521`), and its notice overwrites the memory telemetry
  (`daemon.py:1108`);
* `stub.restart` relies on an outer loop (`api/stubs.ts:144`, SPEC.md:1055) that the
  launch scripts do not have; restarting a SLURM stub submits a second job without
  cancelling the first;
* overlapping deploys, or a kill whose failure is ignored, leave a daemon the PID
  file does not name; two daemons of one identity with different working
  directories evict each other; an exception in `bindStubCapacityOwnership` leaves
  a socket nobody hears (`stub.ts:934-1037`);
* `stop()` of the tunnel never resolves if only `error` is emitted, and a restart
  under way at SIGTERM leaves a cloudflared nobody stops;
* overlapping `POST /policy/reconcile` may exceed the cap and the cooldown (they check
  and then await); a release whose barrier was awaited goes through after
  `/policy/disable`; a crash before the applied event loses the cooldown.

Experiments, SDK, storage, requests:

* `PATCH /experiments/:id` takes any `parent_id`, and experiments whose parents form a
  circle, with what hangs on them, are missing from `GET /experiments/tree`
  (`api/experiments.ts:1304`, `1718`; SDK.md:211 calls it the whole forest): of the
  tree `ReadingsSound` states only that it ends;
* a passed experiment may contain a miss (DESIGN.md:1096); deleting an experiment and
  using its key again is answered with 500 from then on; a retry of an unknown
  outcome from another directory or commit gets 409;
* the SDK installs no SIGTERM handler (`sdk/USAGE.md`; comments at
  `process_mgr.py:516`, `533`); `save_checkpoint` in `context.py` writes one fixed
  temporary name without fsync;
* README.md:36 and SPEC.md:1605 say 48 backups are kept, `BACKUP_KEEP_COUNT` is 12;
  SPEC.md section 14 describes JSON snapshots, the code is SQLite;
* the export shares the arrays of the stubs across an await (`store/backup.ts:50`): a
  dispatch timeout meanwhile takes its task out of the backup, a requeue leaves it there
  without a stub, a move puts it on two arrays, and a restore brings these back; backups
  are written in place, and a cut one counts in `prune`;
* `moveToStubQueue` and the batch requeue delete and write a row in separate
  commits; `addToGlobalQueue` swallows a write error after 201; a restore clears
  each table in a commit of its own before the transaction that may fail, drops
  webhook subscriptions and marks, leaves connected stubs offline until they resume,
  and does not clear the lock table;
* python-socketio acknowledges an event when its handler returns, so a shell command
  of more than ten seconds is sent, and run, again; the dashboard ignores
  `request_id`, so that any `shell.done` ends any running entry, and its periodic
  refetch keeps queue tasks that are gone (`useSocket.ts:195-214`); the timeout of a
  command kills its shell, not its children.

What readers are told:

* a priority that is edited after a task was expedited has no effect, then or later
  (`api/tasks.ts:955`, `priority.ts`): `BaseKept` excepts it (`buried`);
* a task that was marked as read while it ran does not come up as unread when it ends
  (`api/tasks.ts:877`, `445`);
* ROADMAP_V2.2.md:590 has an expedite trigger the scheduler; the handler does not
  (`api/tasks.ts:836-861`), and the task waits for the next pass;
* points that come after the end of a task are kept in memory alone, and the first
  point after a restart hides the longer curve of the row (`metrics.ts:111-139`);
* the overview names statuses that no task has any more (queued, dispatched, killed,
  lost), so that assigned, blocked and cancelled ones are in its total only;
* a repeated delivery records its success and deletes its row in two commits
  (`webhooks.ts:337-346`): a crash between them, or a deletion that throws, has the
  row posted again, with the same delivery id, and a second success recorded.
  `NoPostAfterSuccess` and `RecordTells` except these rows (`outlived`, `again`);
* a webhook that is repeated names the event of the end it was for, and tells of the
  task as it is by then (`webhooks.ts:300-345`);
* of two tasks of a backup whose names collide, the one saved first may take the name
  of the other (`store/index.ts`, `loadFromState`): `NamesHold` excepts it (`clashed`).

## 7. Plan

1. Done: the modules of section 2, with the proofs of section 5.
2. Proofs next: `MessagesTell` and `RecordTells` of `Subscriptions`, `BaseKept` of
   `Desk`, `LeftForAReason` of `Placement`.
3. Modules next: the shutdown of the warm pool with tasks on it; reports of cost; the
   board of the dashboard (`useSocket.ts`), which joins a snapshot with the events.

## 8. Not modelled

* Presentation: the old dashboard (`server/src/dashboard/app.js`,
  `workflow-editor.js`), the pages and components of `web/src` (a demo of 1900 lines
  among them, `ExperimentLineageDemo.tsx`) but for the shell, the client `lib/api.ts`,
  the MCP bridge and the CLI: they render what the API answers.
* Cost, the audit trail and git tracking: reports that nothing reads back. Sampling of
  the host and discovery: parsing of what tools print. Notifications to Discord: texts
  whose delivery nobody waits for.
* Of the store: tokens, pruning of stale stubs. Of the stub handlers: version and token
  checks. Of the task API: a batch as one call (each of its tasks is an action of its
  own), the validation of a submission. Of the daemon: log rotation. Of the pool:
  shutdown, environment and log capture.
* Of task graphs: criteria beyond completion, templates of arguments. Of controls:
  unsolicited exports, the calls of the HTTP fallback itself. Of SLURM: pinning, targets
  and the overview. Of webhooks: signatures, the texts of templates.
* Of experiments: the comparison of configurations, evidence and wording of a
  recommendation. Of submission: parameter grids, recipes, studies, the local ledger
  of the SDK. Of deployment: how a target is configured, the text of the batch script,
  health routes. Of requests to a stub: paths and limits of files, what a command
  prints.

# A verification of claw-trade's report execution, delivery and host operations

claw-trade produces investment research reports: a user (or a schedule) asks for a report on a stock, the request waits
in a queue, a workflow run calls a dozen language-model workers through OpenClaw in seven stages, the result is exported,
saved and sent over WeChat, on a device that updates itself. This directory holds TLA+ modules of the parts of it that
are concurrent, that can fail half way, and that a user may cancel at any moment; TLC configurations that check them on
small instances; and TLAPS proofs for every size.

Paths below are relative to `src/src/claw_trade/` unless they start with `src/`.

## 1. The system

| Component | Where | State it keeps | Operations |
| --- | --- | --- | --- |
| Report task queue | `ui_backend/report_queue.py` | tasks (status, priority, claim, cancel marks, report lock, run id), idempotency caches, set of watchers | enqueue, join, start next, cancel, refresh, finish |
| UI workflow bridge | `ui_backend/workflow_bridge.py`, `web/state.py` | run threads, start attempts | create a run, poll an attempt, cancel, join, "has it exited" |
| Workflow runner | `workflow/runner.py`, `workflow/store.py` | `state.json`, worker results, export result, decisions on disk | boot, run, apply a decision, run a batch in series or in parallel, export |
| Workflow controller | `workflow/controller.py`, `workflow/workers.py` | none: a function of the run's files | the next decision |
| OpenClaw client | `runtime/openclaw_client.py` | active calls, cancelled runs | run a worker, cancel a run, release it |
| OpenClaw local runner | `runtime/openclaw_local_runner.py` | processes, pending calls, cancel requests | spawn, register, kill, abort at the gateway |
| Host locks | `production/host_locks.py`, `data_work_lock.py`, `maintenance_lock.py` | `flock`ed files, a lock file | shared or exclusive, blocking or not |
| Update, factory reset | `production/remote_update.py`, `auto_update.py`, `factory_reset.py`, root helper `src/packaging/production/root-helper/claw-trade-apply-update` | lock files, apply request, releases, the link `current` | check, download, install, apply, roll back, reset |
| Watchdog | `src/packaging/production/root-helper/claw-trade-watchdog` | its retry state under `/run` | look at the health, restart the control service |
| WeChat delivery | `ui_backend/wechat_delivery_store.py`, `report_notification_service.py` | delivery records, recipient binding | wait for the report, attempt, mark sent, failed or unknown, retry, recover |
| WeChat reconnect | `ui_backend/wechat_reconnect.py`, `channel_bridge.py` | the persisted phase of an account replacement | begin, poll, cancel, restore, recover |
| WeChat plugin | patched by `src/patches/openclaw-weixin/2.4.4-single-account-replacement.patch` | operation, candidate and result files, accounts, credentials | begin, login start and wait, cancel, commit, restore |
| Data gateway: execution | `data_gateway/execution/` | single-flight leases, quota windows, cooldowns | acquire, wait, publish; reserve; enter the gate |
| Data gateway: the rest | `data_gateway/{planner,coordination,ingest,warehouse,providers}` | datasets, manifests | plan, fetch, normalise, store |
| Data maintenance | `data_gateway/maintenance/` | jobs with locks and cursors | begin, progress, finish, recover |
| Scheduled work, price alerts | `ui_backend/scheduled_work_*.py`, `scheduler_service.py`, `price_alert_*.py` | scheduled reports, alerts, scan buckets | wake, scan, edit |
| Selection | `selection/` | selection runs, candidate caches, handoffs | dispatch, confirm, hand over to the report queue |
| Materials and guards | `artifacts/`, `guards/` | the approved manifest | approve, refuse |
| Export, repository, cleanup | `reports/`, `ui_backend/report_repository.py`, `report_cleanup.py` | reports on disk | export, save, delete expired ones |
| Web application, chat | `web/`, `ui_backend/chat_controller.py`, ... | sessions, contexts | route requests to all of the above |

How they meet. FastAPI's handlers are synchronous functions, so every request runs in a thread of a pool and two requests
really call the queue at once. The queue starts one *watcher* thread per running task; the bridge starts one *run* thread
per run; the runner starts a thread per frontline worker. Run thread and queue share only the run store (`state.json`) and
the fact that a thread has ended. A cancel is a write to that file from another thread plus a mark in the OpenClaw client.
The report lock is a `flock` that the queue holds shared while a task runs, and that the OpenClaw watchdog, another
process, takes exclusively.

What is hard there, and what each component owes its callers:

* **Queue.** Its methods take the state lock several times and call the bridge, the lock, the writers and the delivery
  store in between. It owes: one start and one end per task; an end that is final, that agrees with what the run did, and
  that gives back the lock, settles the delivery intent and starts the next task, whatever failed on the way; a cancel
  that ends the task.
* **Bridge.** The creation of a run may outlast the wait for it; `cancel_run` loads and then saves. It owes: a late run is
  adopted by one thread, a cancel is not lost.
* **Runner and controller.** Every save follows a look for a cancel but is not atomic with it. They owe: the stages in
  order, with all the material; no call after an acknowledged cancel; a run thread that ends and leaves an end behind.
* **OpenClaw client.** A call must not slip between the mark of a cancelled run and the list of calls to kill.
* **Data gateway.** One fetch at a time per key, answers that belong to the flight waited for, a quota that is never
  exceeded, a crash of an owner that does not block the key.
* **Delivery.** Messages only while no account is being replaced; what may have arrived is sent again only by hand; a
  record that says "sent" tells the truth; nothing waits for ever.
* **Reconnect.** Controller and plugin keep a file each, and every call between them may be lost half way. They owe: the
  same view of how a replacement ended, the old account or the new one at every moment, and a way out of every failure.
* **Host operations.** Installers, the root helper, the watchdog, reports and data work share `flock`s, which a death
  releases, and lock files, which it does not. They owe: a restart disturbs nobody, a bad release is rolled back, an
  update ends.

`PROJECT.json` lists each hazard with its line and with the properties that would show it going wrong.

## 2. The modules

| Module | Models |
| --- | --- |
| `ReportQueue` | the queue, its request and watcher threads, the bridge, and the run threads as the queue sees them |
| `WorkflowRun` | one run: runner, controller, OpenClaw client, worker calls, cancelling threads |
| `RunThread` | what the two have in common: the contract of a run between queue and runner |
| `OpenClawCalls` | the worker calls of a run in client and local runner: threads, processes, sessions, cancels |
| `ExecutionGate` | the data gateway's gate: result cache, single-flight lease, waiters and owners of one key |
| `ReplacementPlugin` | the account replacement in the WeChat plugin, with its files and gateway methods |
| `WechatReconnect` | the controller of a replacement; extends `ReplacementPlugin`, with which it is checked |
| `SendWindow` | what the two sides of the delivery guard have in common: when messages may be sent, and by which account |
| `WechatDelivery` | the outbox of finished reports and the threads that empty it |
| `HostOperations` | updates, factory reset, root helper and watchdog of one host |
| `MCReportQueue`, `MCWorkflowRun`, `MCExecutionGate` | instances for TLC, where a constant is more than a model value |
| `MCWechatReconnect` | `WechatReconnect` for TLC, with the predicate that bounds its run |
| `ReportQueueProofs`, `ReportQueueRunProofs` | the theorems about `ReportQueue` |
| `WorkflowRunProofs` | the theorems about `WorkflowRun` |
| `ExecutionGateProofs`, `OpenClawCallsProofs`, `WechatReconnectProofs`, `WechatDeliveryProofs`, `HostOperationsProofs` | the theorems about these modules |

Two pairs are composed through a contract of their own. `ReportQueue` and `WorkflowRun` both implement `RunThread`;
`WechatReconnect` implements `SendWindow`, on which `WechatDelivery` is built (its `Reconnect` is a step of
`SendWindow`).

### `RunThread`, the contract

Three variables: the status in the run store (`store`, where "running" stands for the sixteen statuses that are not an
end), the run thread (`thread`), and the status the run thread is about to save (`plan`). The run thread looks for a
cancel (`Decide`), and saves later (`Save`); another thread may save CANCELLED at any moment (`Cancel`), which the
pending save overwrites. A run that fails its boot checks is created with the plan to fail it. `ReportQueue` is built on
this view of a run: `RunsAreRunThreads` says that what the queue does to each of its runs is a behaviour of `RunThread`,
and is proved. `WorkflowRun` refines the same module: `ImplementsRunThread`, with `StoreSeen`, `ThreadSeen` and
`PlanSeen` as the refinement mapping, is checked by TLC and proved too. So the properties of the queue rest on a picture
of the run that the runner keeps.

### `ReportQueue`

A step is one critical section of the state lock, or one call that is made outside of it. Each thread has a program
counter `pc`; `cur` is the task its method works on; `seen` is the run status it has loaded; `frame.ret` is what the
caller does after the method. The last makes `start_next_report_task_if_idle` and `refresh_running_task_status`, which
most methods end with, appear once.

| Code | Actions |
| --- | --- |
| `enqueue_report_task` | `EnqueueJoin`, `EnqueueNew` |
| `cancel_report_task` | `Cancel` (with the refresh of a pending start), then one of `CancelRefused`, `CancelAgain`, `CancelQueued`, `CancelRunning`; `Stop`, `StopSave` (the two file operations of `cancel_run`), `CancelConfirm`, `SettleCancel` |
| `start_next_report_task_if_idle` | `Pick`, `Admit` (permission and lock), `Begin`, `Create`, `Await`, `Bind` |
| `_ensure_terminal_watcher` | `EnsureWatcher`, `Watch` |
| `refresh_running_task_status` | `Refresh`, `Poll`, `Adopt`, `Expire`, `Dispatch`, `Send`, `SendSave`, `Load`, `Judge`, `ClaimDone`, `Write`, `Succeed`, `ClaimCancel`, `FinishCancel` |
| `handle_report_failed`, `_finish_claimed_failure` | `Fail`, `Failing`, `SettleEnd`, `Release` |
| `get_report_queue_snapshot_for_user` | `Snapshot` |
| run threads | `RunCreate`, `RunDecide`, `RunSave`, `RunExit`, `RunDie` |
| another process with the report lock | `ExclusiveLock`, `ExclusiveUnlock` |

Abstractions. A task's payload is the kind of its request (`Request`), with its dedupe key, source and notification. Its
run id and start attempt are one field (`run`: none, attempt, taken by a poll, bound). The delivery store is the state of
the task's intent, and the report repository whether a report was saved. A call that may raise does so when `StoreFaults`
is TRUE; the refused admission and the failed creation of a run are always possible. Display data (progress, costs,
positions, texts) and the caches by `request_id`, which repeat an answer, are left out. The bound on the number of tasks
is `MaxTasks`.

### `WorkflowRun`

`at` says where the run thread is; `store` is the status on disk; `state` and `todo` are the state and the decision it
holds; `call` follows each worker call from preparation to its end. `DecideNext` is the controller as a function of the
files, with the helpers under their names' meaning (`UpstreamReady`, `AllApproved`, `TurnsDone`, ...). A batch is prepared
(`Prepare`), submitted (`Submit`), gathered and collected, in parallel for the frontline when the request says so, else
one call at a time; every look for a cancel is a step of its own or guards one (`CancelVisible`). A call is refused, sent,
and answered in three steps (`CallBegin`, `CallSend`, `CallApprove`) because the look at the run store, the look at the
client's mark and the manifest are three places. `CancelLoad`, `CancelSave` and `CancelTell` are `cancel_run` of the
bridge followed by that of the client.

Abstractions. A worker's answer with its evidence, guards and approval is let through, refused, or refused in a way that
stops the batch at once ("fatal", `should_early_stop`). The export passes, fails, or fails in its chart assets, which the
CN_A profile forgives. Requests have no stop point, which is the report command; single-worker requests of the command
line are left out. `Raise` is an exception that leaves `run`: a full disk, or a `state.json` that is read while another
thread is writing it in place.

### `ExecutionGate`

Every remote fetch of the data gateway passes `ExecutionGate.enter`, and what it fetched goes back through
`publish_shared_result`. Calls with the same keys meet in two documents of the database: the row of `single_flight_calls`
(`row`) and the entry of `provider_result_cache` (`cache`). Each database access is a step, because several threads and
several processes work on the documents.

| Code | Actions |
| --- | --- |
| `ProviderResultCache.get`, first part of `enter` | `CacheHit`, `CacheMiss`, `CacheUnusable`, `Evict`, `CooldownOver`, `CooldownSkip` |
| `SingleFlight.acquire` | `Insert`, `ReadShared`, `ReadPending`, `ReadExpired` |
| `cas_takeover_expired_single_flight` | `TakeoverCompare`, `TakeoverLost`, `TakeoverSet` |
| the waiter's branch of `enter`, `SingleFlight.wait` | `NoTimeToWait`, `Wait`, `PollFinds`, `PollTimesOut` |
| the owner's branch of `enter` | `Proceed`, `Refuse` |
| the caller's fetch, retry and ingest (`report_evidence.py`, `coordination/service.py`) | `Fetch` |
| `SingleFlight.publish`, `cas_publish_single_flight_if_owner` | `PublishRead`, `PublishCompare`, `PublishLost`, `PublishSet` |
| the rest of `publish_shared_result` | `CacheResult` |
| a killed process, an exception in the caller | `Stop` |
| the clock | `Tick` |

A `DatasetRepository` locks itself during each method, so a compare-and-set is two steps with `holder` in between, and
every other access of the same repository waits. `repoOf` says which repository a call uses; `Placements` gives the
placements considered. One process uses one repository for the calls of one report, but each report, and each process,
builds another one.

Abstractions. The key is one; calls for other keys do not meet. What a fetch brings is its outcome, told apart as the
code does when it publishes (`PublishedAs`) and caches (`CachedAs`): ready rows, rows with an invalid request, rows with
gaps, no data, a failure. The deadline of a request appears as what it leaves to a waiter (`WaitBudgets`). The verdicts
of the rate limiter and the scheduler (`CooldownSkip`, `Proceed` or `Refuse`) are free; the sleeps they take are the
clock's. A call that does not own the flight changes nothing when it dies, so `Stop` is for owners. The flight a dead
process left behind is in the initial row (`Orphans`).

### `OpenClawCalls`

`WorkflowRun` assumes that a call which is cancelled after it was sent ends. Here the call is taken apart. Its thread is
at `at[c]`; the registries of the client (`cut`, `active`) and of the runner (`marked`, `registered`) are touched under
their locks, one step each; the process (`alive`, `exit`) and the gateway's session (`session`) live on their own.

| Code | Actions |
| --- | --- |
| `OpenClawClient.run_worker` | `Submit`, `Leave` |
| `OpenClawLocalRunner.run_worker`, its `except` and `finally` | `Enter`, `Except`, `OwnMark`, `OwnAbort`, `Finally` |
| `_run_gateway_process`, the second attempt after a scope was approved | `Spawn`, `Register`, `Slay`, `TimeOut`, `Communicate`, `Unregister` |
| `cancel_run`, `cancel_worker` | `CancelRun`, then per call `CancelMark`, `CancelKill`, `CancelAbort` |
| `release_run` | `Release` |
| the process and the gateway | `Arrive`, `ProcessExit` |

Left out: how a command is built and its output parsed, the approval of scopes (the gateway's), and `_pending_calls`,
which nothing reads. That the server may die and leave a process of the command line behind is not modelled; nothing in
the code would find it again.

### `ReplacementPlugin`, `WechatReconnect`, `SendWindow`

A replacement is carried out by two parties that keep a state file each. `ReplacementPlugin` has the plugin's files
(`op`, `cand`, `term`, `index`, `stored`), what it keeps in memory (`running`, `qr`, `task`), and its gateway methods in
pieces: a piece ends where the method awaits a channel or a QR code, and where a file is saved, so that the end of the
gateway can fall between any two saves. `WechatReconnect` has the controller's file (`rec`) and the place of the one
thread that holds its lock (`ctl`).

| Code | Actions |
| --- | --- |
| plugin: `weixin.replacement.begin` | `Begin`, `BeginIndex`, `BeginSave` |
| `login.start`, `login.wait`, `ensureReplacementLoginTask` | `Start`, `StartShown`, `StartFailed`, `Scan`, `LoginOver`, `WaitKnown`, `WaitNew` |
| `weixin.login.cancel` | `Cancel` |
| `replacement.commit`, `replacement.restore` | `Commit...`, `Restore...`, one action per save or start of a channel |
| end and start of the gateway | `GatewayRestarts`, `ScanTorn` |
| controller: `begin` | `StartConflict`, `BeginOperation`, `CallBegin`, `Begun`, `Started`, `StartFails`, `ShowAgain`, `Shown` |
| `poll`, `cancel` | `Poll`, `Polled...`, `CancelOperation`, `CallCancel`, `Cancelled`, `CancelFails` |
| `_ensure_wechat_enabled`, `_restore_locked` | `Enable`, `EnableFails`, `CallRestore`, `RestoreAmbiguous`, `RestoreFails`, `RestoreSettled` |
| `_commit_locked` | `CallCommit`, `CommitUnasked`, `CommitSettled`, `CommitFailed` |
| `recover`, `record_recovery_failure` | `Recover`, `Recover...`, `UnbegunSettled`, `RecordFailure` |
| start of the controller's process | `ProcessRestarts` |

A call is answered, refused, cannot be made, or is given up while the plugin goes on (`GiveUp`). The calls are processes
of the command line that are killed after a time limit; nothing waits for the gateway's method to end, so a call that was
given up may take effect at any later step, one restart of the controller or one operation later included. No assumption
rules this out. What the code cannot stand is recorded instead, in a history variable that no guard reads:

* `overtaken` becomes true when the controller decides by a look at the plugin while, at the gateway, a begin has not
  ended, a login waits for its QR code, or a restore waits for its channels (`Look`); or when a new operation begins with
  any call of before under way (`MayStart`). It stays true. All other late calls, waits, cancels, commits, restores that
  have not begun and starts that have not, are refused or repeat what was done, and the properties say so.

The two snapshots of `_accounts_are_stable` are one look (`Settled`) that may also come out as "not yet". QR images,
texts, the settings view and other channels are left out.

`SendWindow` has two variables, whether messages may be sent and the one account of the device, and says that the account
changes only while the window is closed. `MaySend` (`blocks_delivery`), shut for good once `overtaken` holds, and
`TheAccount` are the refinement mapping.

### `WechatDelivery`

Records are per intent (`state`, `count`, `to`), manual requests per id (`req`). A thread lists records, takes the guard
of the reconnect controller, which nobody waits for, and works the list off under it.

| Code | Actions |
| --- | --- |
| `create_waiting_report`, `mark_report_pending`, `mark_report_failed` | `CreateIntent`, `Notify`, `MarkFailed` |
| `notify_report_completion`, `retry_pending`, the manual retry | `QueueNotifies`, `RetryPending`, `ManualRetry`, then `Check` or `List` |
| `wechat_delivery_account` | `TakeGuard`, `Refused` |
| `begin_attempt`, the send, `mark_sent`, `mark_known_failure`, `mark_unknown` | `BeginAttempt`, `Skip`, `HandOver`, `NotHandedOver`, `Received`, `Rejected`, `Mark`, `GiveUp` |
| `_dispatch_wechat_deliveries_once`, `_restore_wechat_delivery_failures`, `recover_completed_deliveries` | `WatcherRound` |
| gateway and process | `Arrives` (a message that nobody waits for is received, or not), `Raise`, `Crash` |
| the reconnection | `Reconnect` |

Left out: `retry_delivery`, which has no callers; what a binding and a sender consist of (a recipient is the latest chat
of an account); the wording of messages.

### `HostOperations`

One variable per lock, lock file and link: `host`, `reports`, `data` are `flock`s (a death releases them), `updater`,
`maintenance`, `apply`, `request` are files (a death does not), `current`, `previous`, `present`, `verified` are releases.

| Code | Actions |
| --- | --- |
| `install_checked_update` | `Try`, `TakeUpdater`, `TakeHost`, `TakeMaintenance`, `Fetch`, `CreatePending`, `WriteRequest`, `WriteRequestFails`, `StartApplier`, `StartRefused`, `Unmark`, `Unhost`, `FreeUpdater` |
| `FactoryResetService.run` | `AskReset`, `TakeHost`, `TakeMaintenance`, `Erase`, `Unmark`, `Unhost` |
| `run_apply`, `acquire_apply_lock`, `rollback_or_rescue` of the root helper | `LockHost`, `LockData`, `Adopt`, `Barred`, `Refuse`, `Place`, `InstallFiles`, `Switch`, `Restart`, `RestartFails`, `Healthy`, `Unhealthy`, `Rollback`, `StartRescue`, `Raise`, `Unask`, `Unlock`, `EndFails`, `Leave` |
| the watchdog's `run` | `Begin`, `SeesHealthy`, `SeesUnhealthy`, `ReadRetry`, `WatchHost`, `WatchReports`, `WriteRetry`, `RestartControl`, `GiveUp` |
| reports, data work, time | `StartReport`, `EndReport`, `StartData`, `EndData`, `TimePasses` |
| deaths | `UiDies`, `ClientDies`, `ApplierDies`, `WatchdogDies`, `PowerLoss` |

Abstractions. Manifests, archives and signatures are a step that may refuse; `updater-state.json` is for display and
left out; so is the check of a lock file's identity before it is removed. The watchdog's look at the update services is
left out because it sees nothing: a unit of type oneshot is "activating" while it runs, which `is-active` does not
report as active; the lock files and the host lock do that work. Its startup grace is part of `GiveUp`, which is always
possible. The helper may raise in three places that differ in what they leave: before it owns `apply.lock`, where the
checks of the lock files, the installation and the key stand outside the `try` (`Barred`: the locks go with the process,
the request and the pending `apply.lock` stay); inside it (`Refuse`, `Raise`); and in its `finally` (`EndFails`).
`stranded` is a history variable: whoever had to take `apply.lock` away has ended without, by such an exit, by a write
that failed or by dying. A web process dies with all its threads (`InUi`). A helper process is assumed to have exited
before the next installer asks systemd to start one.

## 3. What the runs check

| Run | Instance | Shows |
| --- | --- | --- |
| `ReportQueueSafety` | 2 users (symmetric), 1 task, 2 kinds of requests, faults and dying runs | `OneFinisher`, `LockReleasedAfterEnd`, `CancelledMeansStopped`, `SucceededStaysCompleted`, `IntentSettled`, `TerminalIsFinal` |
| `ReportQueueUnattended` | 1 user, 2 tasks, nobody polls or cancels | `OneStarter`, `RunningHoldsLock`, `QueueDrains` |
| `ReportQueueCancel` | 1 user, 1 task, a scheduled request with a notification and a manual one | `CancelEnds`, `RunsAreRunThreads` |
| `WorkflowRun` | 3 frontline workers in parallel, debates of 2 rounds, 2 sections, 2 cancellers, exceptions | `TypeOK`, `UpstreamApproved`, `CompletedReport`, `EndedIsTerminal`, `CancelStopsCalls`, `CancelEndsRun`, `ImplementsRunThread` |
| `OpenClawCalls` | 1 call with its second attempt, 2 cancellers | `NoProcessLeft`, `CancelledCallEnds`, `SessionEnds` |
| `ExecutionGate` | 2 calls, with one repository or two, no row or an orphan's, a lease of 2 ticks, waits of 1, a fresh entry for 1, a stale one for 2, calls until tick 3 | `OneLiveOwner`, `NoFlightLeft`, `OnlyPublishedIsServed`, `SharedIsRecent`, `LiveFlightKept`, `WaitersEnd` |
| `WechatReconnect` | 2 accounts, 2 calls at a time, 2 operations, 2 logins, 2 failures of any kind, until `overtaken` | `TypeOK`, `OutcomeIsReal`, `NoAccountLost`, `OperationsEnd`, `ImplementsSendWindow` |
| `WechatDelivery` | 2 reports, the watcher and another thread, 1 manual request, 1 account or none, 2 automatic attempts, 1 failure | `SendsInWindow`, `NoUnaskedDuplicate`, `SentIsTrue`, `WaitingEnds` |
| `HostOperations` | an installer of the web process, a reset from the rescue page, a report, a data job, 2 releases, 1 death or failed write | `RestartBudget`, `UnverifiedIsFlagged`, `RestartsAlone`, `UpdateEnds` |
| `ReportQueueLock` | 2 users, 2 tasks | `ExclusiveExcludesRuns` is violated |
| `ExecutionGateApart` | 2 calls with a repository each | `OneOwnerGoesOut` is violated |
| `HostOperationsPowerCut` | as `HostOperations` | `BootsVerified` is violated |

The bounds. A task meets other threads only through its own fields and through the queue's order, so the races over one
task need one task, two request threads and its watcher: with two, one joins a queued task and attaches its intent, or
cancels it, while the other is failing it, which is what `IntentSettled` is about; the hand-over from one task to the
next needs two tasks. The liveness runs use one user because the watcher threads are further actors already. In the run,
two rounds make a debate return to its first worker, three frontline workers leave one prepared, one flying and one
done, and two cancellers make one find the run cancelled by the other. Calls do not meet except in being cancelled
together, so one call is enough in `OpenClawCalls`, and two cancellers that mark, kill and abort in any order around its
own failure. At the gate two calls and the orphaned flight make a take-over, a race for it, a late publication into a
flight that was taken over, and a waiter of either; each time is long enough to be passed by the clock and short enough
that it is, and the clock goes on beyond `MaxNow` while somebody waits. In a replacement, two failures are a lost answer
followed by a restart during the recovery from it, or a call that is given up, runs on beside the next one and is
overtaken by it; the second operation begins on what the first has left. `MCWechatReconnect` bounds the run by
`NotOvertaken`: TLC goes no further once `overtaken` holds. This loses nothing, because it never becomes false again
(lemma `OvertakenStays`) and each property of the run is true of every such state. The same instance was explored
without the bound, 695,000 states, and passes too. In the outbox two records make a list that is worked off while
another thread changes its second half; the second report is also announced while the first is being sent. On the host
the second release is the one that is applied, found bad and rolled back to the first; one failure at any step is a
power cut, a death of any process, or a failed write (the proofs are for any number). Deadlock is not checked where the
system may stop: an empty queue with its tasks used up, a run or a call that has ended, operations, sessions and
attempts used up.

States found: 2.0 million in `ReportQueueSafety`, 1.4 million in `WechatDelivery`, 370,000 in `WechatReconnect`, 320,000
in `HostOperations`, 10,000 in `OpenClawCalls`; every action of every module is taken in them.

What some of the properties are about:

* `NoProcessLeft`, `CancelledCallEnds`: whichever of Popen, registration, mark and kill comes first, a process does not
  outlive its call, and a cancel is not waited out. The second is the assumption `Killed` of `WorkflowRun`.
* `SessionEnds`: killing the process does not end the session at the gateway. Either the gateway is asked to abort it, or
  it was asked in vain (`missed`). That exception is real: see "Early abort" below.
* `IntentSettled`: a delivery intent may be attached to a task that another thread is ending. Whoever settles must still
  see it. The one excuse is a store that refused the very call that settles it (the intent is then `"stuck"`).
* `OutcomeIsReal`: when the controller says "switched" or "restored", the plugin has no operation left, the accounts are
  the ones it says and the plugin committed or did not, however many answers and processes were lost, and although calls
  that were given up come late, when the operation is over as well.
* `NoAccountLost`: at every step, the middle of a commit included, either all old credentials are stored or the
  candidate's are and the commit can only go on.
* `OperationsEnd`: a user who goes on asking to recover or cancel gets an operation to its end. Left out are an operation
  the plugin never had (`Orphaned`) and one it has ended whose accounts or channel went away again (`Undone`): see "What
  else was seen" for both.
* The last three and `ImplementsSendWindow` speak of states that are not `overtaken`.
* `NoUnaskedDuplicate` counts messages received and still under way against what was asked for. It needs that
  `begin_attempt` saves "unknown" before anything is sent and that only a manual retry touches an unknown record.
* `RestartBudget`, `RestartsAlone`: the watchdog's looks are many and early, its count is in a file; what makes it safe
  is that the file is written before the restart and that the host and report locks are held from before the last look.
* `UpdateEnds`: an accepted update ends with `apply.lock` gone, whatever is refused or unhealthy, unless the process that
  had to remove the file ended without doing so (`stranded`). The exits that do so are listed under "What else was seen".
* `UnverifiedIsFlagged`: a release nobody saw healthy is `current` only under an `apply.lock` with an owner or after a
  helper that failed (`botched`). Without a power cut or an exception, it is always rolled back or verified.

### The three violations

Each checks one sentence of the repository that the code does not keep.

1. **A failed task whose run goes on** (`ReportQueueLock`). Two threads pick the same task; the one that is refused the
   lock fails the task which the other has started, and releases the lock under a live run. The watchdog's design says
   that the lock is held until the end of the run has been written.
2. **Two owners of one flight** (`ExecutionGateApart`). The compare-and-set of the single-flight row is a read, a test
   and an unconditional replacement under the lock of one repository object. Two calls with different repositories both
   find the expired row and both replace it; both fetch, each with a lease that has not run out. The architecture
   document wants one owner to go out. (`OneLiveOwner`, which passes, is the same for calls that share a repository. It
   speaks of live leases on purpose: nothing renews a lease, and a fetch that outlasts it has company by design.)
3. **A power cut in an update** (`HostOperationsPowerCut`). The helper switches `current`, then restarts and checks.
   Between the switch and the check it may be cut off; the host starts the new release, the helper's note of the previous
   one is gone, and `apply.lock` with the dead helper's pid is neither taken over nor removed. The deployment design says
   that after a power cut the previous release must be started or the rollback completed.

The passing runs leave nothing of this out: they run the same actions.

### What else was seen

Behaviours the models have, or were found while reading, and that no document rules out (or that the team may know):

* *Two reports at once.* The idle check and the publication of RUNNING are in different critical sections of
  `report_queue.py` (from line 231 on); two threads that picked different heads both start.
* *A run thread that dies.* `web/state.py:187` stores the exception in `created_state`, which is not looked at once the
  run was created: the task stays RUNNING and the report lock held until the server is restarted.
* *An early cancel.* A cancel recorded while a run is being created is sent by the next refresh; the watcher
  (`report_queue.py:404`), the only thread sure to refresh, first joins the run. `CancelEnds` holds because runs end.
* *Early abort.* A cancel between Popen and the registration asks the gateway to abort a session whose request has not
  arrived. The request then arrives; the call's own thread kills its process but, seeing the mark, does not abort again,
  and the session goes on (`missed`). A cancel of a call that has just ended leaves its id in the set of marks.
* *Late gateway calls.* `wechat_reconnect.py` gives up a call after a time limit and then looks at once. A begin that is
  still waiting for the channels to stop will take the accounts out of the index after the look that found them in place;
  a login that still waits for its QR code writes the copy of the operation it started with over what came after; a
  restore that still waits for its channels ends an operation which a look found resumable. And a call of one operation
  may arrive in the next. These are the states with `overtaken`: nothing is promised there, and without the excuse TLC
  finds `OutcomeIsReal` and `NoAccountLost` violated. Nothing in the code waits for such calls or refuses them.
* *Restored, and undone.* Where a begin that was given up ends after the restore, or a channel stops after a second
  restore or commit was asked for, the plugin has ended the operation and answers each further restore from its result
  file without doing anything; the controller never sees stable accounts, and stays in RESTORE_UNSTABLE or
  RECONNECT_UNSTABLE (`Undone`).
* *A replacement that never began.* Where `begin` fails before the plugin has the operation, or the inventory is refused,
  there is nothing to restore: recovery answers RESTORE_FAILED for ever and a new begin is busy (`Orphaned`).
  `record_recovery_failure` overwrites the code a restore failed with. Scanning the old account again may be reported as
  "switched".
* *Who gets the report.* A waiting report goes to the latest chat of the account the device has when it is sent
  (`report_notification_service.py:180`).
* *Left in progress.* A manual delivery request whose thread dies stays in progress for ever, and its id starts nothing;
  a text that cannot be built after `begin_attempt` leaves the record unknown though nothing was sent. Two threads may
  together exceed the number of automatic attempts by one, as the number is looked at before the guard is taken.
* *Files that stay.* An installer that is killed leaves `updater.lock` and `maintenance.lock`; one that cannot write its
  request leaves a pending `apply.lock`. Nothing removes them, and every later update is refused.
* *A helper that raises too early.* The root helper checks its lock files (`claw-trade-apply-update:151-157`), the
  installation (`:78`) and the key (`:80`) before it owns `apply.lock` and outside the `try` whose `finally` removes it. A
  refusal there, nobody dead and no write failed, leaves the installer's pending `apply.lock` and its request for ever:
  every later update is refused, and the watchdog, which gives up while the file is there, no longer restarts control
  (`Barred`). These exits, the deaths and the failed writes are the only ones that strand the file: that is `UpdateEnds`.
* *A helper that raises* after the switch (a state that cannot be written, an `HTTPException` of the health check)
  removes its locks and leaves the new release in place unchecked (`botched`). After a failed apply the release's
  directory stays, and the same version is refused from then on.
* *A second caller* of `install_checked_update` writes `install_failed` over the displayed state of the update that is
  running (`remote_update.py:240-241`).

### Fairness

* `WF(ThreadStep(u))`: a request thread that is inside a method goes on, and a watcher wakes from its sleep of 0.25 s or
  from its join. Nobody has to call a method: `UserCall` is not fair. Threads of the operating system justify this.
* `WF(RunStep(t))`, `SF(RunConclude(t))`: a run thread goes on, and out of infinitely many decisions one ends the run.
  The controller only ever goes forward through seven stages of finitely many calls (`WorkflowRun`), and OpenClaw's calls
  have a timeout. `RunDie` is never fair.
* `WF(ExclusiveUnlock)`: the watchdog gives the report lock back.
* `WorkflowRun`: the run thread and the call threads go on; `LockData` is part of the run thread's fairness, so the data
  work lock is assumed to be free at last *or* a cancel to be seen. OpenClaw's answer is not fair at all; only a call that
  a cancel has killed is sure to end (`Killed`). So `CancelEndsRun` does not lean on an answering OpenClaw.
* `ExecutionGate`: `WF(Step(c))`, a call that is not at the source goes on, and `WF(Tick)`, time passes. Neither `Fetch`
  nor `Enter` nor `Stop` is fair, so `WaitersEnd` holds with owners that die or a provider that never answers. A
  repository's lock is held for two adjacent steps only, which `Step` makes end.
* `OpenClawCalls`: the threads of calls and of cancels go on. A process need not end, its request need not arrive, and
  the timeout is not fair, so `CancelledCallEnds` is about the cancel alone.
* `WechatReconnect`: the thread that holds the lock and the gateway's methods go on, a login expires, and the user asks
  to recover and to cancel again and again (`SF`: an operation need not stay idle for him). What fails is bounded by
  `MaxFaults`, so that the end is reached by asking and not by luck. `Poll` and `Scan` are not fair.
* `WechatDelivery`: only the watcher's thread goes on. Neither the queue's announcements nor the other threads are fair.
* `HostOperations`: each process goes on, and data work ends. The helper's two locks are strongly fair: it waits for
  them in the kernel, for up to 70 minutes, while others take them for moments.

## 4. What is proved

For every value of the constants under each module's assumptions, TLAPS proves of `Spec`:

| Module | Theorems |
| --- | --- |
| `ReportQueueProofs` | `TypeCorrect`, `OneStarterCorrect`, `OneFinisherCorrect`, `RunningHoldsLockCorrect`, `LockReleasedAfterEndCorrect`, `TerminalIsFinalCorrect` |
| `ReportQueueRunProofs` | `RunsAreRunThreadsCorrect`, the refinement of `RunThread`; `CancelledMeansStoppedCorrect`, `SucceededStaysCompletedCorrect`, `IntentSettledCorrect` |
| `WorkflowRunProofs` | `TypeCorrect`, `UpstreamApprovedCorrect`, `CompletedReportCorrect`, `EndedIsTerminalCorrect`, `CancelStopsCallsCorrect`, `ImplementsRunThreadCorrect` |
| `ExecutionGateProofs` | `TypeCorrect`, `OneLiveOwnerCorrect`, `LiveFlightKeptCorrect`, `NoFlightLeftCorrect`, `OnlyPublishedIsServedCorrect`, `SharedIsRecentCorrect` |
| `OpenClawCallsProofs` | `TypeCorrect`, `NoProcessLeftCorrect` |
| `WechatReconnectProofs` | `TypeCorrect`, `NoAccountLostCorrect`, `OutcomeIsRealCorrect`, `ImplementsSendWindowCorrect`, the refinement of `SendWindow` |
| `WechatDeliveryProofs` | `TypeCorrect`, `SendsInWindowCorrect`, `NoUnaskedDuplicateCorrect`, `SentIsTrueCorrect` |
| `HostOperationsProofs` | `TypeCorrect`, `RestartBudgetCorrect`, `UnverifiedIsFlaggedCorrect`, `RestartsAloneCorrect` |

Each theorem is named for the property it proves, `TypeCorrect` for `TypeOK`. Every inductive invariant was checked with
TLC before it was proved.

### The queue

From `QueueAssumption` alone (request threads are not numbers, so that they are not watchers; the flags are Booleans; the
bounds are positive), for any number of request threads, tasks, request kinds, keys and any queue limit, with and without
faults. The argument has four layers.

1. `Typed` is `TypeOK` with the control information it lacks: at which points of a method a thread works on a task
   (`Placed`), so that `status[cur[u]]` is a status. It is preserved step by step; the steps that only move a thread share
   the lemmas on `Step`, `Call`, `Return` and `Abort`.
2. `LifeInv` is the life of a task: what is known of its status, claim and lock at each point a thread may be at
   (`ThreadInv`: a thread that is writing a report works on a running, claimed, locked task), that no two threads are at
   such points for the same task (`Alone`), and that a task which is claimed, ended and locked has a thread that sees to
   it (`TaskInv`). None of the four properties is inductive by itself: that the claim excludes a second finisher needs
   that it is never reset, that a starter is alone needs that RUNNING is published by the thread that goes on to create
   the run, and that a lock is released needs that exactly the finisher of a locked task is on its way to `release`.
   `OneStarter`, `OneFinisher`, `RunningHoldsLock`, `LockReleasedAfterEnd` follow from it, and `TerminalIsFinal` from the
   guard of each step that sets a status.
3. `RunInv` adds what is known of a task's run: a task that was not started has none, a bound task's run has been created,
   a thread that is about to cancel works on a created run. With it each step of the queue is a step of `RunThread` for
   one run and a stutter for the others.
4. The outcome of a task needs three more invariants, each a part on tasks and a part on the threads that are on their
   way to change them. `StopInv`: a report is saved only by the thread that has claimed the task, so a thread that claims
   it for a cancel finds none, and it has seen the run thread end before. `DoneInv`: who is about to cancel a run has
   recorded the cancel in the task before he looks at the run, so a thread that first reads a completed run and then finds
   no cancel recorded knows that the run is `Sealed`: nobody is left who would overwrite it. This order, cancel recorded
   before the run is read, run read before the cancel is looked for, is what `SucceededStaysCompleted` rests on.
   `SettleInv`: an ended task whose intent still waits has a thread on its way to settle it. The proofs go by what a step
   does (`StepTask`, `StepRunMove`, `StepStatus`, `SealStays`) and by what brings a thread to a point (`Arrived`), not
   by the actions one after another. `IntentSettled` is proved with and without faults of the stores: where the call that
   settles an intent is refused, the intent is `"stuck"`, and no longer waiting.

### The workflow run

From `RunAssumption`, for any number of frontline workers, debate rounds, sections
and cancelling threads, in series and in parallel. `RunInv` joins to `TypeOK`:

* `StoreInv`: where the run thread is tells which statuses the run store may have, unless a cancel shows there; and who
  is about to save a status has loaded a run that exists.
* `LadderInv`: the status tells what is approved: a run at stage `s` has all that is upstream of `s`, an exporting or
  completed one has everything. `UpstreamApproved` and `CompletedReport` are read off it.
* `TodoInv`, `DecideInv`: a decision was right when it was taken and is still right when it is carried out (approvals are
  never taken back), and there always is a decision to take: a batch that neither failed nor was cancelled is complete.
* `DebateInv`: the turns of a debate are approved in their order, so that their number tells whose turn it is, which is
  all the controller looks at. The lemmas on the number of approved turns rest on the library's facts on cardinality.
* `ResultInv`, `FlyingInv`, `PreparedInv`, `BatchInv`: no call of a batch is forgotten. Each call the run thread has come
  to is under way, dead or approved with its result; a worker that is running belongs to the batch that is waited for.
  The last is what `UpstreamApproved` needs of the worker calls, as they start on threads of their own.
* `CutInv`: who was told that the cancel is done has told the client, which then refuses each call of the run.

`CancelStopsCalls` follows from `CutInv` and the client's refusal. `ImplementsRunThread` has one step per action: the
save after a decision may overwrite a cancel, as `Save` of `RunThread` may, and `StoreInv` gives that it does not reopen
a run that ended otherwise.

### The gate

For any set of calls, repositories, placements and orphaned leases and any durations, from `CallsAssumption` (`None` is
neither a call nor a time), `PlacementAssumption` and `TimeAssumption`. Each has an inductive invariant of its own
beside `TypeOK`:

* `Handed`: whose result the row or the cache carries has said so itself, and a call on its way to the cache has published.
* `Attended`: a pending row with an owner has that owner at a stage that goes on to publish (or dead). So a call cannot
  end and leave its flight behind.
* `WaitsForRecent`: a call that waits has seen a flight that was live when it asked, or one that was taken over after; so
  whatever it finds published later is recent. For the whole argument clocks only grow.
* `Leased`: for calls of one repository, a call at the source with a live lease is the owner of the pending row, and a
  call between compare and set holds the lock and has the row in its hand as it is. This is where the lock of the
  repository is needed, and why the property fails without it.

### The calls

`OpenClawCalls` needs no assumption. `NoProcessLeft` is inductive together with `TypeOK` and `Attempts`: a second process
is started only after the first has gone, and each way out of `register` and `wait` is through a kill or through the
process's own end.

### The reconnection

From `PluginAssumption` (`None` and the gateway's answers are not accounts, `None` is not a slot, the bounds are numbers),
for any accounts and any number of calls at a time, operations, logins and failures. No theorem has a hypothesis: calls
may outlast their callers as they like. The inductive invariant is `IInv`, that is `overtaken \/ Inv`: once `overtaken`
holds it stays (`OvertakenStays`), and a step that leaves it false looks at the plugin only past calls that do no harm
(`LookIsMild`), or, to begin an operation, past none (`OpensIdle`). The invariant was checked by TLC with two accounts
and two calls at a time before the proof.

`RestInv` says what is under way between operations: the lock is free, the plugin has no operation, and what comes late
(starts, waits, cancels, restores, and commits past their saves) is refused or repeats what was done. From it the
refinement of `SendWindow` follows. The two invariants need what is known of every method that may be under way at each
point of the controller, and of every file it may find. `Inv` joins to them and to `RestInv`:

* `HandlerInv`: a method works for the operation of the state file, a wait and a cancel for its session.
* `StartInv`, `BeginInv`: while an operation is begun nothing but begin and start is under way, and no login can come of
  it before both have ended. A begin that was given up runs on, into the restore that follows and beyond; were it to
  write its `operation.json` over a login, the candidate would be lost.
* `FileInv`, `BackInv`: what phase, code and `recoveryFromPhase` say of the candidate, and of an operation that has no
  account to return to. They are what recovery resumes from.
* `OpInv`, `SessionInv`: the plugin's files are those of the controller's operation, or of none; a login that is waited
  for and a saved candidate are of the session written down. Without it a candidate that was left behind by a login
  before could be taken up by the plugin's clean-up.
* `ChosenInv`: an account that has logged in, wherever it shows (the plugin's operation, an answer, a login, the state
  file), is the same account, and no method is under way that would undo it.
* `RestoreInv`, `CommitInv`: what is rolled back is not committed, nor what is committed rolled back; one commit is under
  way at most, and each of its pieces finds what the pieces before it have saved, after a crash too.

Each part is preserved by the controller's steps, by the methods' and by what happens outside; the lemmas say what a
step does to the controller's file (`RecEffect`: the kinds of write its thirty-odd actions come down to), to the
plugin's files and to a method (`HandlerEffect`, `MemEffect`), and the proofs go by these effects.

### The outbox

`DeliveryAssumption`: the watcher is one of the workers, `None` is none of them, request ids are not names of jobs. The
inductive invariant `IInv` joins to `TypeOK` and `SendsInWindow`:

* `Working`: a record somebody is sending is "unknown". So nobody else's automatic attempt can begin on it.
* `Announced`, `Finished`: only reports that were completed are announced, and only those have been attempted; so the run
  that has failed, whose record is set to "failed", is not one whose message is under way.
* `Answers`: a gateway's answer belongs to a message that was handed out by the account of the guard.
* `Budget`: what `NoUnaskedDuplicate` needs to be inductive: for a record that is not "unknown", "sent" or "failed", and
  for one whose sender has no good answer yet, what was received and is under way is covered by the retries alone, so
  that one more message is allowed.
* `Truth`: what is "sent" was received, by the account named.

`SentIsTrue` is an action property; `SentStays` shows it of every step from `IInv`.

### The host

`HostAssumption`: clients of the web process are clients, installers and resets are different, and the names of the other
holders are not theirs. The inductive invariant `Inv` has eight parts:

* `Typed`, `Flags`, `HostHeld`, `Aimed` are types, mutual exclusion by the host lock, and where a release number comes
  from.
* `Counted`: the restarts asked for are at most the attempts on file, one less while a restart is about to be asked for.
  Time and deaths leave it alone; a boot clears both, as the file is under `/run`.
* `Quiet`: from the last look on no report runs; reports cannot begin because the report lock is held.
* `Marked`: a helper past `Adopt` owns `apply.lock`, and an installer about to write its request has it pending.
* `Guarded`: unless a helper has failed, `current` is verified wherever `apply.lock` is not owned, the helper begins with
  a verified release, keeps it in `previous` while `current` is another, and is back at a verified one before it gives
  `apply.lock` away.

`RestartBudget` follows from `Counted`, `UnverifiedIsFlagged` from `Marked` and `Guarded`, `RestartsAlone` from `HostHeld`
and `Quiet`.

### Model-checked only

All liveness properties (`QueueDrains`, `CancelEnds`, `CancelEndsRun`, `CancelledCallEnds`, `SessionEnds`, `WaitersEnd`,
`OperationsEnd`, `WaitingEnds`, `UpdateEnds`), which are out of TLAPS's reach together with fairness. Every invariant and
every action property that a passing run checks is also proved.

## 5. What is not modelled, and why

* **Rate limiter** (`data_gateway/execution/rate_limiter.py`). `ExecutionGate` takes its verdicts as choices, so the
  gate's properties hold whatever it answers. That more calls than the limit may go out when two threads reserve with
  their clocks read in the other order is in the list of hazards.
* **Planning, ingest, warehouse, providers** (the largest part of the repository's lines): functions over requests and
  rows, adapters of third-party interfaces. They keep no state that two actors meet in, apart from the documents that
  `ExecutionGate` has.
* **Data maintenance jobs, scheduled work, price alerts.** One runner each, against a user who edits; they save whole
  records without comparing, which the hazards list, and meet the rest of the system in the data work lock and in the
  queue, which are modelled.
* **Selection, chat, confirmation.** Sequential pipelines and wording; a confirmed stock reaches the queue as one more
  request of a user.
* **Report repository and cleanup, export.** Files that one thread writes; the export is an outcome in `WorkflowRun`.
* **Guards and materials**: their verdict only. What the rules say of a text is a function of the text.
* **Parts of modelled components**: the caches by `request_id` of the queue, requests with a stop point, the display
  state of updates, the check and download of updates, QR images, two bridges at once; each is named with its module
  above.
* **Configuration, licensing, instruments, browser client, JavaScript tools, packaging scripts** other than the root
  helper, the watchdog and the plugin patch: lookups, pure input and output.

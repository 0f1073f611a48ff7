---------------------------- MODULE ReportQueue ----------------------------
(***************************************************************************)
(* The report task queue of the user interface backend                     *)
(* (ui_backend/report_queue.py, class ReportTaskQueue) with the bridge and *)
(* the background run threads it drives (ui_backend/workflow_bridge.py,    *)
(* web/state.py, class _ControlWorkflowRunner).                            *)
(*                                                                         *)
(* The methods of the queue are called by request threads (User) and by    *)
(* one watcher thread per task; each method takes the state lock several   *)
(* times and calls the bridge, the report lock, the writers and the        *)
(* delivery store between two critical sections.  A step of this module is *)
(* one critical section, or one such call.  pc says where a thread is,     *)
(* cur is the task its current method works on, and frame.ret what the     *)
(* thread does when that method returns, so that start_next and refresh,   *)
(* which many methods call last, are written once.                         *)
(***************************************************************************)
EXTENDS Naturals, FiniteSets

CONSTANTS
  User,        \* request threads
  MaxTasks,    \* bound on the number of tasks created (_sequence)
  Request,     \* kinds of enqueue calls: payload, source, notification
  Key,         \* dedupe key of a request's payload
  Manual,      \* the requests whose source is "manual"
  Notify,      \* the requests that ask for a WeChat notification
  QueueLimit,  \* queue_limit
  StoreFaults, \* TRUE: the delivery store and the run store may fail a call
  RunMayDie    \* TRUE: a run thread may end without a terminal state

Task    == 1..MaxTasks
NoTask  == 0
Watcher == Task        \* the watcher thread of task t is thread t
Thread  == User \cup Watcher

ASSUME QueueAssumption ==
  /\ MaxTasks \in Nat \ {0}
  /\ QueueLimit \in Nat \ {0}
  /\ User \cap Nat = {}
  /\ DOMAIN Key = Request
  /\ Manual \subseteq Request
  /\ Notify \subseteq Request
  /\ StoreFaults \in BOOLEAN
  /\ RunMayDie \in BOOLEAN

VARIABLES
  status,    \* ReportTask.status; "none" before the task is created
  claimed,   \* ReportTask._terminalization_claimed
  locked,    \* ReportTask._report_lock is held
  task,      \* the rest of ReportTask
  run,       \* the workflow run of the task: store state and run thread
  exclusive, \* another process holds the report lock exclusively
  pc, cur, seen, frame

taskVars   == <<status, claimed, locked, task>>
threadVars == <<pc, cur, seen, frame>>
vars       == <<taskVars, run, exclusive, threadVars>>

-----------------------------------------------------------------------------
TaskStatus == {"none", "queued", "running", "succeeded", "failed", "cancelled"}
Terminal   == {"succeeded", "failed", "cancelled"}
Live       == {"queued", "running"}
RunStatus  == {"none", "running", "completed", "failed", "cancelled"}
RunEnd     == {"completed", "failed", "cancelled"}

Priority == {10, 100}
Intent   == {"none", "waiting", "stuck", "pending", "failed"}

\* run: what the task knows of its workflow run.
\*   "none" nothing, "attempt" a start attempt to poll, "taken" an attempt that
\*   a thread has popped from the bridge, "bound" a run id
\* intent: the delivery intent of the task in the delivery store; "stuck" is one
\*   that waits there because the store refused to have it settled
\* cancel: "asked" _cancel_requested, "sent" _cancel_dispatched as well
\* report: what the report repository holds
TaskData ==
  [req      : Request \cup {NoTask},
   priority : Priority,
   intent   : Intent,
   run      : {"none", "attempt", "taken", "bound"},
   cancel   : {"none", "asked", "sent"},
   report   : {"none", "saved"}]

\* store: the status in the run store ("running" is every status that is not an
\* end); thread: the run thread; plan: the status the run thread is about to save
RunData == [store : RunStatus, thread : {"none", "alive", "ended"}, plan : RunStatus]

PC == {"idle", "off", "watch", "cancel", "confirm", "stop", "stopSave", "settleCancel",
       "pick", "admit", "begin", "create", "await", "bind", "watcher",
       "refresh", "poll", "adopt", "expire", "dispatch", "send", "sendSave",
       "load", "judge", "claimDone", "write", "succeed",
       "claimCancel", "finishCancel", "fail", "failing", "settleEnd", "release"}

Ret == {"finish", "watch", "snapshot", "cancel", "confirm", "next"}

\* Where a thread goes when start_next or refresh returns.
Resume == [finish |-> "idle", watch |-> "watch", snapshot |-> "refresh",
           cancel |-> "cancel", confirm |-> "confirm", next |-> "pick"]

\* tgt: the task a cancel is about
Frame == [ret : Ret, tgt : Task \cup {NoTask}]
IdleFrame == [ret |-> "finish", tgt |-> NoTask]
WatchFrame == [ret |-> "watch", tgt |-> NoTask]

RunningTasks == {t \in Task : status[t] = "running"}
QueuedTasks  == {t \in Task : status[t] = "queued"}

\* _running_task: the first RUNNING task in creation order.
IsRunningTask(t) == t \in RunningTasks /\ \A s \in RunningTasks : t <= s

\* The head of the queue: highest priority, then oldest.
IsHead(t) ==
  /\ t \in QueuedTasks
  /\ \A s \in QueuedTasks \ {t} :
       \/ task[t].priority > task[s].priority
       \/ task[t].priority = task[s].priority /\ t < s

\* Holders of the shared report lock: tasks, and threads that have opened it but
\* have not yet put it on a task.
SharedHolders == {t \in Task : locked[t]} \cup {u \in Thread : pc[u] = "begin"}

Unused == [req |-> NoTask, priority |-> 10, intent |-> "none", run |-> "none",
           cancel |-> "none", report |-> "none"]

NewTask(r) ==
  [Unused EXCEPT !.req = r,
                 !.priority = IF r \in Manual THEN 100 ELSE 10,
                 !.intent = IF r \in Notify THEN "waiting" ELSE "none"]

NoRun == [store |-> "none", thread |-> "none", plan |-> "none"]

Init ==
  /\ status = [t \in Task |-> "none"]
  /\ claimed = [t \in Task |-> FALSE]
  /\ locked = [t \in Task |-> FALSE]
  /\ task = [t \in Task |-> Unused]
  /\ run = [t \in Task |-> NoRun]
  /\ exclusive = FALSE
  /\ pc = [u \in Thread |-> IF u \in User THEN "idle" ELSE "off"]
  /\ cur = [u \in Thread |-> NoTask]
  /\ seen = [u \in Thread |-> "none"]
  /\ frame = [u \in Thread |-> IF u \in User THEN IdleFrame ELSE WatchFrame]

-----------------------------------------------------------------------------
(* Control of a thread *)

Goto(u, l) == pc' = [pc EXCEPT ![u] = l]

\* The frame of a thread that has nothing to return to but its own loop.
Bottom(u) == IF u \in User THEN IdleFrame ELSE WatchFrame

\* The method returns normally to what the thread does next.
Return(u) ==
  /\ Goto(u, Resume[frame[u].ret])
  /\ cur' = [cur EXCEPT ![u] = frame[u].tgt]
  /\ seen' = [seen EXCEPT ![u] = "none"]
  /\ frame' = [frame EXCEPT ![u] = Bottom(u)]

\* An exception leaves the method: a request thread answers with the error, the
\* watcher logs it and goes round its loop again.
Abort(u) ==
  /\ Goto(u, Resume[Bottom(u).ret])
  /\ cur' = [cur EXCEPT ![u] = NoTask]
  /\ seen' = [seen EXCEPT ![u] = "none"]
  /\ frame' = [frame EXCEPT ![u] = Bottom(u)]

\* u goes to l, where it works on task t, and then does ret for task tgt.
Call(u, l, t, ret, tgt) ==
  /\ Goto(u, l)
  /\ cur' = [cur EXCEPT ![u] = t]
  /\ frame' = [frame EXCEPT ![u] = [ret |-> ret, tgt |-> tgt]]
  /\ UNCHANGED seen

\* u stays in its method and goes to l.
Step(u, l) == Goto(u, l) /\ UNCHANGED <<cur, seen, frame>>

SettledLater(intent) == {intent}

\* mark_report_failed on the task's intent; a failing store leaves it as it was.
Settled(intent) ==
  {IF intent = "none" THEN "none" ELSE "failed"} \cup
  (IF StoreFaults THEN {IF intent = "waiting" THEN "stuck" ELSE intent} ELSE {})

-----------------------------------------------------------------------------
(* enqueue_report_task *)

\* The queued task that holds the dedupe key of request r.
IsDuplicate(t, r) ==
  /\ t \in QueuedTasks
  /\ Key[task[t].req] = Key[r]
  /\ \A s \in QueuedTasks : Key[task[s].req] = Key[r] => t <= s

\* A request for a stock that is already queued joins the queued task: a manual
\* one lifts a scheduled task's priority, and one that wants a notification
\* attaches its intent when the task has none.
EnqueueJoin(u, r) ==
  /\ u \in User /\ pc[u] = "idle"
  /\ \E t \in Task :
       /\ IsDuplicate(t, r)
       /\ LET lifted == IF r \in Manual /\ task[t].req \notin Manual
                        THEN 100 ELSE task[t].priority
              attach == r \in Notify /\ task[t].intent = "none"
          IN \/ /\ task' = [task EXCEPT ![t].priority = lifted,
                                        ![t].intent = IF attach THEN "waiting" ELSE @]
                /\ Call(u, "refresh", NoTask, "finish", NoTask)
             \/ /\ StoreFaults /\ attach   \* the intent writer raises
                /\ task' = [task EXCEPT ![t].priority = lifted]
                /\ UNCHANGED threadVars
  /\ UNCHANGED <<status, claimed, locked, run, exclusive>>

EnqueueNew(u, r) ==
  /\ u \in User /\ pc[u] = "idle"
  /\ ~ \E t \in Task : IsDuplicate(t, r)
  /\ Cardinality(QueuedTasks) < QueueLimit
  /\ \E t \in Task :
       /\ status[t] = "none" /\ \A s \in 1..(t - 1) : status[s] # "none"
       /\ status' = [status EXCEPT ![t] = "queued"]
       /\ task' = [task EXCEPT ![t] = NewTask(r)]
  /\ Call(u, "pick", NoTask, "snapshot", NoTask)
  /\ UNCHANGED <<claimed, locked, run, exclusive>>

-----------------------------------------------------------------------------
(* cancel_report_task *)

\* A task whose start is still pending is refreshed before it is cancelled.
Cancel(u, t) ==
  /\ u \in User /\ pc[u] = "idle" /\ status[t] # "none"
  /\ LET pending == status[t] = "running" /\ task[t].run \in {"attempt", "taken"}
     IN IF pending THEN Call(u, "refresh", NoTask, "cancel", t)
        ELSE Call(u, "cancel", t, "finish", NoTask)
  /\ UNCHANGED <<taskVars, run, exclusive>>

\* Refused: the task is ending in another thread, or has ended otherwise.
CancelRefused(u) ==
  LET t == cur[u]
  IN /\ pc[u] = "cancel"
     /\ \/ claimed[t] /\ status[t] \in Live
        \/ status[t] \in {"succeeded", "failed"}
     /\ Return(u) /\ UNCHANGED <<taskVars, run, exclusive>>

\* Only a task nobody else is starting to end is cancelled in the queue.
CancellableIgnoringClaim(t) == status[t] = "queued"
CancellableInQueue(t) == status[t] = "queued" /\ ~claimed[t]

CancelQueued(u) ==
  LET t == cur[u]
  IN /\ pc[u] = "cancel" /\ CancellableInQueue(t)
     /\ claimed' = [claimed EXCEPT ![t] = TRUE]
     /\ status' = [status EXCEPT ![t] = "cancelled"]
     /\ Call(u, "settleCancel", t, "next", NoTask)
     /\ UNCHANGED <<locked, task, run, exclusive>>

CancelAgain(u) ==
  /\ pc[u] = "cancel" /\ status[cur[u]] = "cancelled"
  /\ Step(u, "settleCancel")
  /\ UNCHANGED <<taskVars, run, exclusive>>

\* cancel_run needs the run id.
HasAttempt(t) == task[t].run # "none"
HasRunId(t) == task[t].run = "bound"

\* The request is recorded; without a run id only a watcher is left behind.
CancelRunning(u) ==
  LET t == cur[u]
      bound == HasRunId(t)
  IN /\ pc[u] = "cancel" /\ status[t] = "running" /\ ~claimed[t]
     /\ task' = [task EXCEPT ![t].cancel = IF bound THEN "sent" ELSE "asked"]
     /\ Step(u, IF bound THEN "stop" ELSE "watcher")
     /\ UNCHANGED <<status, claimed, locked, run, exclusive>>

\* run_has_exited
ExitedOnceEnded(t) == run[t].store \in RunEnd
Exited(t) == run[t].thread = "ended"

\* cancel_run answers whether the run thread has ended.
AfterStop(u, t) ==
  IF Exited(t) THEN Call(u, "refresh", NoTask, "confirm", t)
  ELSE Step(u, "watcher")

\* cancel_run first loads the state of the run ...
Stop(u) ==
  LET t == cur[u]
  IN /\ pc[u] = "stop"
     /\ \/ StoreFaults /\ Abort(u)
        \/ run[t].store \in RunEnd /\ AfterStop(u, t)
        \/ run[t].store \notin RunEnd /\ Step(u, "stopSave")
     /\ UNCHANGED <<taskVars, run, exclusive>>

\* ... and then saves CANCELLED over whatever is there by now.
StopSave(u) ==
  LET t == cur[u]
  IN /\ pc[u] = "stopSave"
     /\ run' = [run EXCEPT ![t].store = "cancelled"]
     /\ AfterStop(u, t)
     /\ UNCHANGED <<taskVars, exclusive>>

\* The run thread has ended and the task was refreshed: it may have ended by now.
CancelConfirm(u) ==
  /\ pc[u] = "confirm"
  /\ Step(u, IF status[cur[u]] = "running" THEN "watcher" ELSE "settleCancel")
  /\ UNCHANGED <<taskVars, run, exclusive>>

\* The intent of a cancelled task is settled, then a snapshot is taken.
SettleCancel(u) ==
  LET t == cur[u]
  IN /\ pc[u] = "settleCancel"
     /\ \E i \in Settled(task[t].intent) :
          task' = IF status[t] = "cancelled" THEN [task EXCEPT ![t].intent = i] ELSE task
     /\ Call(u, "refresh", NoTask, frame[u].ret, frame[u].tgt)
     /\ UNCHANGED <<status, claimed, locked, run, exclusive>>

\* get_report_queue_snapshot_for_user refreshes the running task first.
Snapshot(u) ==
  /\ u \in User /\ pc[u] = "idle"
  /\ Goto(u, "refresh")
  /\ UNCHANGED <<taskVars, run, exclusive, cur, seen, frame>>

-----------------------------------------------------------------------------
(* start_next_report_task_if_idle *)

Pick(u) ==
  /\ pc[u] = "pick"
  /\ \/ /\ (RunningTasks # {} \/ QueuedTasks = {})
        /\ Return(u)
     \/ /\ RunningTasks = {}
        /\ \E t \in Task : IsHead(t) /\ cur' = [cur EXCEPT ![u] = t]
        /\ Goto(u, "admit") /\ UNCHANGED <<seen, frame>>
  /\ UNCHANGED <<taskVars, run, exclusive>>

\* The permission check and the shared report lock, outside the state lock.
Admit(u) ==
  /\ pc[u] = "admit"
  /\ \/ ~exclusive /\ Step(u, "begin")
     \/ Step(u, "fail")
  /\ UNCHANGED <<taskVars, run, exclusive>>

\* RUNNING only if this task is still queued and nobody has claimed it.
StartableAsPicked(t) == TRUE
Startable(t) == status[t] = "queued" /\ ~claimed[t]

Begin(u) ==
  LET t == cur[u]
  IN /\ pc[u] = "begin"
     /\ IF Startable(t)
        THEN /\ status' = [status EXCEPT ![t] = "running"]
             /\ locked' = [locked EXCEPT ![t] = TRUE]
             /\ Step(u, "create")
        ELSE Return(u) /\ UNCHANGED <<status, locked>>
     /\ UNCHANGED <<claimed, task, run, exclusive>>

\* create_workflow_run builds the request and starts the run thread.
Create(u) ==
  /\ pc[u] = "create"
  /\ \/ Step(u, "fail") /\ UNCHANGED run
     \/ /\ run' = [run EXCEPT ![cur[u]].thread = "alive"]
        /\ Step(u, "await")
  /\ UNCHANGED <<taskVars, exclusive>>

\* It waits a bounded time for the run to be created in the run store.
Await(u) ==
  LET t == cur[u]
      created == run[t].store # "none"
      died == run[t].thread = "ended" /\ run[t].store \notin RunEnd
  IN /\ pc[u] = "await"
     /\ \/ /\ created
           /\ Step(u, "bind") /\ UNCHANGED task
        \/ /\ died                        \* the exception of the run thread is raised
           /\ Step(u, "fail") /\ UNCHANGED task
        \/ /\ ~created /\ ~died      \* WorkflowRunStartPending
           /\ task' = [task EXCEPT ![t].run = "attempt"]
           /\ Step(u, "watcher")
     /\ UNCHANGED <<status, claimed, locked, run, exclusive>>

\* The run id is stored; then the delivery intent is linked to it, which may raise.
Bind(u) ==
  /\ pc[u] = "bind"
  /\ task' = [task EXCEPT ![cur[u]].run = "bound"]
  /\ \/ Step(u, "watcher")
     \/ StoreFaults /\ task[cur[u]].intent # "none" /\ Abort(u)
  /\ UNCHANGED <<status, claimed, locked, run, exclusive>>

\* _ensure_terminal_watcher: one watcher thread per task.
EnsureWatcher(u) ==
  LET t == cur[u]
  IN /\ pc[u] = "watcher"
     /\ pc' = [pc EXCEPT ![u] = Resume[frame[u].ret],
                         ![t] = IF @ = "off" THEN "watch" ELSE @]
     /\ cur' = [cur EXCEPT ![u] = frame[u].tgt]
     /\ frame' = [frame EXCEPT ![u] = Bottom(u)]
     /\ UNCHANGED <<taskVars, run, exclusive, seen>>

-----------------------------------------------------------------------------
(* refresh_running_task_status *)

\* Only the first running task is refreshed; a watcher leaves any other alone.
Refresh(u) ==
  /\ pc[u] = "refresh"
  /\ \/ /\ \/ RunningTasks = {}
           \/ \E t \in Task : /\ IsRunningTask(t)
                             /\ (task[t].run = "none" \/ u \in Watcher \ {t})
        /\ Return(u)
     \/ \E t \in Task :
          /\ IsRunningTask(t) /\ task[t].run # "none" /\ (u \in Watcher => u = t)
          /\ cur' = [cur EXCEPT ![u] = t]
          /\ Goto(u, IF task[t].run = "bound" THEN "dispatch" ELSE "poll")
          /\ UNCHANGED <<seen, frame>>
  /\ UNCHANGED <<taskVars, run, exclusive>>

\* poll_start_attempt pops an attempt that is decided.  A thread that looked it up
\* before another popped it finds it decided too; one that comes later does not.
Poll(u) ==
  LET t == cur[u]
      decided == run[t].store # "none" \/ Exited(t)
  IN /\ pc[u] = "poll"
     /\ \/ /\ task[t].run \in {"attempt", "taken"} /\ decided
           /\ task' = [task EXCEPT ![t].run = "taken"]
           /\ Step(u, IF run[t].store # "none" THEN "adopt" ELSE "expire")
        \/ /\ ~ (task[t].run = "attempt" /\ decided)
           /\ Return(u) /\ UNCHANGED task
     /\ UNCHANGED <<status, claimed, locked, run, exclusive>>

Adopt(u) ==
  LET t == cur[u]
  IN /\ pc[u] = "adopt"
     /\ \/ status[t] # "running" /\ Return(u) /\ UNCHANGED task
        \/ /\ status[t] = "running"
           /\ task' = [task EXCEPT ![t].run = "bound"]
           /\ \/ Step(u, "dispatch")
              \/ StoreFaults /\ task[t].intent # "none" /\ Abort(u)
     /\ UNCHANGED <<status, claimed, locked, run, exclusive>>

Expire(u) ==
  /\ pc[u] = "expire"
  /\ task' = [task EXCEPT ![cur[u]].run = "none"]
  /\ Step(u, "fail")
  /\ UNCHANGED <<status, claimed, locked, run, exclusive>>

\* _dispatch_requested_cancel: a cancel that was recorded before there was a run.
Dispatch(u) ==
  LET t == cur[u]
      due == task[t].cancel = "asked"
  IN /\ pc[u] = "dispatch"
     /\ task' = [task EXCEPT ![t].cancel = IF due THEN "sent" ELSE @]
     /\ Step(u, IF due THEN "send" ELSE "load")
     /\ UNCHANGED <<status, claimed, locked, run, exclusive>>

\* The same two steps of cancel_run as Stop and StopSave; an error withdraws the
\* mark that the cancel was sent.
Send(u) ==
  LET t == cur[u]
  IN /\ pc[u] = "send"
     /\ \/ /\ StoreFaults
           /\ task' = [task EXCEPT ![t].cancel = "asked"] /\ Abort(u)
        \/ /\ Step(u, IF run[t].store \in RunEnd THEN "load" ELSE "sendSave")
           /\ UNCHANGED task
     /\ UNCHANGED <<status, claimed, locked, run, exclusive>>

SendSave(u) ==
  /\ pc[u] = "sendSave"
  /\ run' = [run EXCEPT ![cur[u]].store = "cancelled"]
  /\ Step(u, "load") /\ UNCHANGED <<taskVars, exclusive>>

Load(u) ==
  /\ pc[u] = "load"
  /\ \/ /\ seen' = [seen EXCEPT ![u] = run[cur[u]].store]
        /\ Goto(u, "judge") /\ UNCHANGED <<cur, frame>>
     \/ StoreFaults /\ Return(u)
  /\ UNCHANGED <<taskVars, run, exclusive>>

\* What the loaded state and the cancel request, read later, say of the task.
CancellingIfStored(u) == seen[u] = "cancelled"
Cancelling(u) == task[cur[u]].cancel # "none" \/ seen[u] = "cancelled"

Judge(u) ==
  LET t == cur[u]
      cancelling == Cancelling(u)
  IN /\ pc[u] = "judge"
     /\ \/ /\ ~cancelling /\ seen[u] = "completed"
           /\ Step(u, "claimDone")
        \/ /\ cancelling /\ Exited(t)
           /\ Step(u, "claimCancel")
        \/ /\ ~cancelling /\ seen[u] = "failed"
           /\ Step(u, "fail")
        \/ /\ IF cancelling THEN ~Exited(t) ELSE seen[u] = "running"
           /\ Return(u)
     /\ UNCHANGED <<taskVars, run, exclusive>>

-----------------------------------------------------------------------------
(* The end of a task: one thread claims it, writes, sets the status, settles *)
(* the intent, releases the report lock and starts the next task.            *)

\* _claim_running_terminalization
ClaimableIfRunning(t) == status[t] = "running"
Claimable(t) == status[t] = "running" /\ ~claimed[t]

Claim(u, t, l) ==
  IF Claimable(t)
  THEN claimed' = [claimed EXCEPT ![t] = TRUE] /\ Step(u, l)
  ELSE Return(u) /\ UNCHANGED claimed

ClaimDone(u) ==
  /\ pc[u] = "claimDone" /\ Claim(u, cur[u], "write")
  /\ UNCHANGED <<status, locked, task, run, exclusive>>

\* The completed report writer saves the report, hands the intent to the delivery
\* outbox and appends a chat message; it may raise before or after it saved.
Write(u) ==
  LET t == cur[u]
      sent == IF task[t].intent = "waiting" THEN "pending" ELSE task[t].intent
  IN /\ pc[u] = "write"
     /\ \/ /\ task' = [task EXCEPT ![t].report = "saved", ![t].intent = sent]
           /\ Step(u, "succeed")
        \/ /\ \/ UNCHANGED task
              \/ \E i \in {task[t].intent, sent} :
                   task' = [task EXCEPT ![t].report = "saved", ![t].intent = i]
           /\ Step(u, "failing")
     /\ UNCHANGED <<status, claimed, locked, run, exclusive>>

Succeed(u) ==
  /\ pc[u] = "succeed"
  /\ status' = [status EXCEPT ![cur[u]] = "succeeded"]
  /\ Step(u, "release")
  /\ UNCHANGED <<claimed, locked, task, run, exclusive>>

ClaimCancel(u) ==
  /\ pc[u] = "claimCancel" /\ Claim(u, cur[u], "finishCancel")
  /\ UNCHANGED <<status, locked, task, run, exclusive>>

FinishCancel(u) ==
  /\ pc[u] = "finishCancel"
  /\ status' = [status EXCEPT ![cur[u]] = "cancelled"]
  /\ Step(u, "settleEnd")
  /\ UNCHANGED <<claimed, locked, task, run, exclusive>>

\* handle_report_failed
Fail(u) ==
  LET t == cur[u]
  IN /\ pc[u] = "fail"
     /\ IF status[t] \in Live /\ ~claimed[t]
        THEN claimed' = [claimed EXCEPT ![t] = TRUE] /\ Step(u, "failing")
        ELSE Return(u) /\ UNCHANGED claimed
     /\ UNCHANGED <<status, locked, task, run, exclusive>>

\* _finish_claimed_failure
Failing(u) ==
  /\ pc[u] = "failing"
  /\ status' = [status EXCEPT ![cur[u]] = "failed"]
  /\ Step(u, "settleEnd")
  /\ UNCHANGED <<claimed, locked, task, run, exclusive>>

\* _fail_notification_intent
SettleEnd(u) ==
  LET t == cur[u]
  IN /\ pc[u] = "settleEnd"
     /\ \E i \in Settled(task[t].intent) : task' = [task EXCEPT ![t].intent = i]
     /\ Step(u, "release")
     /\ UNCHANGED <<status, claimed, locked, run, exclusive>>

\* _release_report_lock
UnlockedIfDone(t) == [locked EXCEPT ![t] = status[t] # "succeeded"]
Unlocked(t) == [locked EXCEPT ![t] = FALSE]

\* start_next_report_task_if_idle, as the last call of a method
StartNextForgotten(u) == Return(u)
StartNext(u) == Call(u, "pick", NoTask, frame[u].ret, frame[u].tgt)

\* The report lock is released, then the next task is started.
Release(u) ==
  /\ pc[u] = "release"
  /\ locked' = Unlocked(cur[u])
  /\ StartNext(u)
  /\ UNCHANGED <<status, claimed, task, run, exclusive>>

-----------------------------------------------------------------------------
(* The watcher thread of task t: it refreshes a running task that has no run *)
(* id yet, and joins the run thread of one that has before it refreshes.     *)
AwakeIfUnbound(t) == task[t].run # "bound"
Awake(t) == task[t].run # "bound" \/ Exited(t)

Watch(t) ==
  /\ t \in Watcher /\ pc[t] = "watch"
  /\ \/ status[t] # "running" /\ Step(t, "off")
     \/ /\ status[t] = "running"
        /\ Awake(t) /\ Step(t, "refresh")
  /\ UNCHANGED <<taskVars, run, exclusive>>

-----------------------------------------------------------------------------
(* The run thread, from the queue's side (workflow/runner.py, module RunThread): *)
(* it creates the run, and then looks for a cancel before it saves a status.     *)

Alive(t) == run[t].thread = "alive"

RunCreate(t) ==
  /\ Alive(t) /\ run[t].store = "none"
  /\ \/ run' = [run EXCEPT ![t].store = "running"]
     \/ run' = [run EXCEPT ![t].store = "running", ![t].plan = "failed"]  \* not booted
     \/ run' = [run EXCEPT ![t].thread = "ended"]       \* create_run raises
  /\ UNCHANGED <<taskVars, exclusive, threadVars>>

RunDecide(t) ==
  /\ Alive(t) /\ run[t].store = "running" /\ run[t].plan = "none"
  /\ \E p \in {"running", "completed", "failed"} : run' = [run EXCEPT ![t].plan = p]
  /\ UNCHANGED <<taskVars, exclusive, threadVars>>

\* A cancel that was saved since the check is overwritten.
RunSave(t) ==
  /\ Alive(t) /\ run[t].plan # "none"
  /\ run' = [run EXCEPT ![t].store = run[t].plan, ![t].plan = "none"]
  /\ UNCHANGED <<taskVars, exclusive, threadVars>>

RunExit(t) ==
  /\ Alive(t) /\ run[t].store \in RunEnd /\ run[t].plan = "none"
  /\ run' = [run EXCEPT ![t].thread = "ended"]
  /\ UNCHANGED <<taskVars, exclusive, threadVars>>

\* An exception in the run thread, or a WAIT decision, ends it as it is.
RunDie(t) ==
  /\ RunMayDie /\ Alive(t) /\ run[t].store # "none"
  /\ run' = [run EXCEPT ![t].thread = "ended", ![t].plan = "none"]
  /\ UNCHANGED <<taskVars, exclusive, threadVars>>

\* The run thread comes to a decision that ends the run.
RunConclude(t) == RunDecide(t) /\ run'[t].plan \in RunEnd

\* Another process (the OpenClaw watchdog) takes the report lock exclusively.
ExclusiveLock ==
  /\ ~exclusive /\ SharedHolders = {} /\ exclusive' = TRUE
  /\ UNCHANGED <<taskVars, run, threadVars>>

ExclusiveUnlock ==
  /\ exclusive /\ exclusive' = FALSE
  /\ UNCHANGED <<taskVars, run, threadVars>>

-----------------------------------------------------------------------------
UserCall(u) ==
  \/ \E r \in Request : EnqueueJoin(u, r) \/ EnqueueNew(u, r)
  \/ \E t \in Task : Cancel(u, t)
  \/ Snapshot(u)

CancelStep(u) ==
  \/ CancelRefused(u) \/ CancelQueued(u) \/ CancelAgain(u) \/ CancelRunning(u)
  \/ Stop(u) \/ StopSave(u) \/ CancelConfirm(u) \/ SettleCancel(u)

StartStep(u) ==
  \/ Pick(u) \/ Admit(u) \/ Begin(u) \/ Create(u) \/ Await(u) \/ Bind(u)
  \/ EnsureWatcher(u)

RefreshStep(u) ==
  \/ Refresh(u) \/ Poll(u) \/ Adopt(u) \/ Expire(u)
  \/ Dispatch(u) \/ Send(u) \/ SendSave(u) \/ Load(u) \/ Judge(u)

EndStep(u) ==
  \/ ClaimDone(u) \/ Write(u) \/ Succeed(u)
  \/ ClaimCancel(u) \/ FinishCancel(u)
  \/ Fail(u) \/ Failing(u) \/ SettleEnd(u) \/ Release(u)

\* A step of a method that has been called.
MethodStep(u) ==
  CancelStep(u) \/ StartStep(u) \/ RefreshStep(u) \/ EndStep(u)

ThreadStep(u) == MethodStep(u) \/ Watch(u)

RunStep(t) == RunCreate(t) \/ RunDecide(t) \/ RunSave(t) \/ RunExit(t)

Next ==
  \/ \E u \in User : UserCall(u)
  \/ \E u \in Thread : ThreadStep(u)
  \/ \E t \in Task : RunStep(t) \/ RunDie(t)
  \/ ExclusiveLock \/ ExclusiveUnlock

Spec == Init /\ [][Next]_vars

\* The threads keep running: a method that was called goes on, a watcher wakes up
\* from its sleep or its join, a run thread that is not dead goes on and comes to
\* an end, and another process gives the report lock back.  Nobody has to call a
\* method, and a run need not die.
ThreadFairness == \A u \in Thread : WF_vars(ThreadStep(u))

RunFairness == \A t \in Task : WF_vars(RunStep(t)) /\ SF_vars(RunConclude(t))

FairSpec == Spec /\ ThreadFairness /\ RunFairness /\ WF_vars(ExclusiveUnlock)

-----------------------------------------------------------------------------
(* Properties *)

RunOf(t) ==
  INSTANCE RunThread WITH store <- run[t].store, thread <- run[t].thread, plan <- run[t].plan

TypeOK ==
  /\ status \in [Task -> TaskStatus]
  /\ claimed \in [Task -> BOOLEAN]
  /\ locked \in [Task -> BOOLEAN]
  /\ task \in [Task -> TaskData]
  /\ run \in [Task -> RunData]
  /\ exclusive \in BOOLEAN
  /\ pc \in [Thread -> PC]
  /\ cur \in [Thread -> Task \cup {NoTask}]
  /\ seen \in [Thread -> RunStatus]
  /\ frame \in [Thread -> Frame]

\* The threads that are starting, ending, or letting go of task t, and those that
\* are about to settle its intent.
Starters(t)  == {u \in Thread : cur[u] = t /\ pc[u] \in {"create", "await", "bind"}}
Finishers(t) == {u \in Thread : cur[u] = t /\ pc[u] \in {"write", "succeed", "finishCancel", "failing"}}
Releasers(t) == {u \in Thread : cur[u] = t /\ pc[u] \in {"settleEnd", "release"}}
Settlers(t)  == {u \in Thread : cur[u] = t /\ pc[u] \in {"settleEnd", "settleCancel"}}

\* start_next_report_task_if_idle is called at the end of nearly every method, so
\* many threads pick the same head of the queue; one of them starts its run.
OneStarter == \A t \in Task : \A u, v \in Starters(t) : u = v

\* The terminalization claim: while a live task is claimed exactly one thread is
\* ending it, and nobody ends a task without having claimed it.
OneFinisher ==
  \A t \in Task :
    /\ \A u, v \in Finishers(t) : u = v
    /\ (claimed[t] /\ status[t] \in Live) <=> Finishers(t) # {}

\* A published RUNNING is covered by the shared report lock.
RunningHoldsLock == \A t \in Task : status[t] = "running" => locked[t]

\* A task that has ended holds the report lock only until the thread that ended
\* it lets go.
LockReleasedAfterEnd ==
  \A t \in Task : status[t] \in Terminal /\ locked[t] => Releasers(t) # {}

\* Who holds the report lock exclusively meets no run that may still write: every
\* run thread that is left has saved its end.
ExclusiveExcludesRuns ==
  exclusive => \A t \in Task : Alive(t) => run[t].store \in RunEnd

\* A cancelled task has no run thread that could still write, and has saved no
\* report, whatever the run did while the cancel was on its way.
CancelledMeansStopped ==
  \A t \in Task : status[t] = "cancelled" => ~Alive(t) /\ task[t].report = "none"

\* A task that succeeded has its report saved, and no cancel that was on its way
\* overwrites the completed run afterwards.
SucceededStaysCompleted ==
  \A t \in Task :
    status[t] = "succeeded" => task[t].report = "saved" /\ run[t].store = "completed"

\* The end of a task is final: no late finisher, starter or cancel reopens it.
TerminalIsFinal ==
  [][\A t \in Task : status[t] \in Terminal => status'[t] = status[t]]_vars

\* No delivery intent waits for a report that will not come, whoever attached it
\* and whenever, unless the store refused the very call that settles it.
IntentSettled ==
  \A t \in Task :
    status[t] \in Terminal /\ Settlers(t) = {} => task[t].intent # "waiting"

\* Every queued task ends, with no user polling the queue: when no more tasks are
\* queued, the last one that ends leaves nothing queued or running behind.
QueueDrains ==
  (\E t \in Task : status[t] = "queued") ~> (\A t \in Task : status[t] \notin Live)

\* A task whose cancel was recorded ends, also when the cancel came before the run,
\* or crossed with its end, or was overwritten by a save of the run.
CancelEnds == \A t \in Task : task[t].cancel # "none" ~> status[t] \in Terminal

\* The queue treats the run of each task as module RunThread lets it be treated.
RunsAreRunThreads ==
  /\ \A t \in Task : RunOf(t)!Init
  /\ [][\A t \in Task : [RunOf(t)!Next]_(run[t])]_run

=============================================================================

------------------------ MODULE ReportQueueRunProofs ------------------------
(***************************************************************************)
(* Proof that ReportQueue drives each of its runs as module RunThread says *)
(* a run may be driven; and, from what it then knows of the run, what the  *)
(* end of a task means: a cancelled task has stopped, one that succeeded   *)
(* stays completed, and the delivery intent of a task that ended is        *)
(* settled.                                                                *)
(***************************************************************************)
EXTENDS ReportQueueProofs

\* The pcs of a thread that uses the run of its task.
Sure    == {"bind", "adopt", "dispatch", "send", "sendSave", "stop", "stopSave"}
Knowing == {"create"} \cup Sure

\* A run is started once, after its task has left the queue; who has its id, or is
\* about to store or to use it, knows that the run has been created.
RunTaskInv(t) ==
  /\ status[t] \in {"none", "queued"} => run[t].thread = "none"
  /\ task[t].run = "bound" => run[t].store # "none"
  /\ run[t].store = "none" => run[t].plan = "none"

Knows(u) ==
  /\ pc[u] = "create" => run[cur[u]].thread = "none"
  /\ pc[u] \in Sure => run[cur[u]].store # "none"

RunInv ==
  /\ \A t \in Task : RunTaskInv(t)
  /\ \A u \in Thread : Knows(u)

\* What a step may do to a task that leaves its run alone, and to a thread.
Calm(t) ==
  /\ status'[t] \in {"none", "queued"} => status[t] \in {"none", "queued"}
  /\ task'[t].run = "bound" => task[t].run = "bound"

Unsure(v) == pc'[v] \notin Knowing \/ (pc'[v] = pc[v] /\ cur'[v] = cur[v])

\* The steps after which the queue knows no more of a run than before.
LEMMA CalmRun ==
  ASSUME RunInv, UNCHANGED run, \A t \in Task : Calm(t), \A v \in Thread : Unsure(v)
  PROVE  RunInv'
<1>1. \A t \in Task : RunTaskInv(t)'
  BY DEF RunInv, RunTaskInv, Calm
<1>2. \A v \in Thread : Knows(v)'
  BY DEF RunInv, Knows, Unsure, Knowing
<1> QED
  BY <1>1, <1>2 DEF RunInv

(* Where the four ways to move a thread leave it *)

LEMMA StepUnsure ==
  ASSUME Control, NEW u \in Thread, NEW l, Step(u, l), l \notin Knowing
  PROVE  \A v \in Thread : Unsure(v)
BY DEF Control, Step, Goto, Unsure

LEMMA CallUnsure ==
  ASSUME Control, NEW u \in Thread, NEW l, NEW t, NEW ret, NEW tgt, Call(u, l, t, ret, tgt),
         l \notin Knowing
  PROVE  \A v \in Thread : Unsure(v)
BY DEF Control, Call, Goto, Unsure

LEMMA ResumeUnsure == \A r \in Ret : Resume[r] \notin Knowing
BY DEF Ret, Resume, Knowing, Sure

LEMMA ReturnUnsure ==
  ASSUME Control, NEW u \in Thread, Return(u)
  PROVE  \A v \in Thread : Unsure(v)
<1>1. Resume[frame[u].ret] \notin Knowing
  BY ResumeUnsure DEF Control, Frame
<1> QED
  BY <1>1 DEF Control, Return, Goto, Unsure

LEMMA AbortUnsure ==
  ASSUME Control, NEW u \in Thread, Abort(u)
  PROVE  \A v \in Thread : Unsure(v)
<1>1. Resume[Bottom(u).ret] \notin Knowing
  BY ResumeUnsure, BottomType DEF Frame
<1> QED
  BY <1>1 DEF Control, Abort, Goto, Unsure

-----------------------------------------------------------------------------
(* The steps *)

\* A step that leaves the status and the run of every task alone.
LEMMA SameTasks ==
  ASSUME UNCHANGED status, \A t \in Task : task'[t].run = task[t].run
  PROVE  \A t \in Task : Calm(t)
BY DEF Calm

LEMMA CallRun ==
  ASSUME Typed, RunInv, NEW u \in User, UserCall(u)
  PROVE  RunInv'
<1> USE DEF Typed
<1>0. u \in Thread
  BY DEF Thread
<1>1. \A v \in Thread : Unsure(v)
  <2>1. \/ UNCHANGED threadVars
        \/ \E l \in {"refresh", "pick", "cancel"} :
             \/ \E t, ret, tgt : Call(u, l, t, ret, tgt)
             \/ Goto(u, l) /\ UNCHANGED cur
    BY DEF UserCall, EnqueueJoin, EnqueueNew, Cancel, Snapshot
  <2>2. CASE UNCHANGED threadVars
    BY <2>2 DEF threadVars, Unsure
  <2>3. ASSUME NEW l \in {"refresh", "pick", "cancel"}, NEW t, NEW ret, NEW tgt,
               Call(u, l, t, ret, tgt)
        PROVE  \A v \in Thread : Unsure(v)
    BY <1>0, <2>3, CallUnsure DEF Knowing, Sure
  <2>4. ASSUME NEW l \in {"refresh", "pick", "cancel"}, Goto(u, l), UNCHANGED cur
        PROVE  \A v \in Thread : Unsure(v)
    BY <1>0, <2>4 DEF Goto, Control, Unsure, Knowing, Sure
  <2> QED
    BY <2>1, <2>2, <2>3, <2>4
<1>2. ASSUME NEW t \in Task
      PROVE  Calm(t)
  <2>1. ASSUME NEW r \in Request, EnqueueJoin(u, r)
        PROVE  Calm(t)
    BY <2>1 DEF EnqueueJoin, Calm, Data, TaskData
  <2>2. ASSUME NEW r \in Request, EnqueueNew(u, r)
        PROVE  Calm(t)
    <3>1. PICK x \in Task : /\ status[x] = "none"
                            /\ status' = [status EXCEPT ![x] = "queued"]
                            /\ task' = [task EXCEPT ![x] = NewTask(r)]
      BY <2>2 DEF EnqueueNew
    <3>2. NewTask(r).run = "none"
      BY DEF NewTask, Unused
    <3> QED
      BY <3>1, <3>2 DEF Calm, Data
  <2>3. CASE UNCHANGED taskVars
    BY <2>3 DEF taskVars, Calm
  <2> QED
    BY <2>1, <2>2, <2>3 DEF UserCall, Cancel, Snapshot
<1>3. UNCHANGED run
  BY DEF UserCall, EnqueueJoin, EnqueueNew, Cancel, Snapshot
<1> QED
  BY <1>1, <1>2, <1>3, CalmRun

\* CANCELLED is saved over what there is of the run of task t.
LEMMA SaveRun ==
  ASSUME Typed, RunInv, NEW t \in Task, run[t].store # "none",
         run' = [run EXCEPT ![t].store = "cancelled"],
         UNCHANGED taskVars, \A v \in Thread : Unsure(v)
  PROVE  RunInv'
<1>1. /\ run'[t].store = "cancelled" /\ run'[t].thread = run[t].thread
      /\ \A x \in Task \ {t} : run'[x] = run[x]
  BY DEF Typed, Data, RunData
<1>2. ASSUME NEW x \in Task
      PROVE  RunTaskInv(x)'
  BY <1>1 DEF RunInv, RunTaskInv, taskVars
<1>3. ASSUME NEW v \in Thread
      PROVE  Knows(v)'
  <2>1. pc[v] \in Knowing => cur[v] \in Task
    BY DEF Typed, Control, Placed, Taskless, Knowing, Sure
  <2> QED
    BY <1>1, <2>1 DEF RunInv, Knows, Unsure, Knowing
<1> QED
  BY <1>2, <1>3 DEF RunInv

\* Thread u comes to use the run of its task, which has been created.
LEMMA SureRun ==
  ASSUME Typed, RunInv, NEW u \in Thread, NEW l \in Sure, pc'[u] = l, cur'[u] = cur[u],
         run[cur[u]].store # "none", UNCHANGED run, Others(u), \A t \in Task : Calm(t)
  PROVE  RunInv'
<1>1. \A t \in Task : RunTaskInv(t)'
  BY DEF RunInv, RunTaskInv, Calm
<1>2. ASSUME NEW v \in Thread
      PROVE  Knows(v)'
  BY DEF RunInv, Knows, Others, Sure
<1> QED
  BY <1>1, <1>2 DEF RunInv

LEMMA CancelRun ==
  ASSUME Typed, RunInv, NEW u \in Thread, CancelStep(u)
  PROVE  RunInv'
<1> USE DEF Typed
<1> DEFINE t == cur[u]
<1>0. t \in Task
  BY DEF CancelStep, CancelRefused, CancelQueued, CancelAgain, CancelRunning, Stop, StopSave,
         CancelConfirm, SettleCancel, Control, Placed, Taskless
<1>1. ASSUME AfterStop(u, t)
      PROVE  \A v \in Thread : Unsure(v)
  <2>1. Step(u, "watcher") \/ Call(u, "refresh", NoTask, "confirm", t)
    BY <1>1 DEF AfterStop
  <2> QED
    BY <2>1, StepUnsure, CallUnsure DEF Knowing, Sure
<1>2. CASE CancelRefused(u) \/ CancelAgain(u) \/ CancelConfirm(u)
  <2>1. Return(u) \/ Step(u, "watcher") \/ Step(u, "settleCancel")
    BY <1>2 DEF CancelRefused, CancelAgain, CancelConfirm
  <2>2. \A v \in Thread : Unsure(v)
    BY <2>1, StepUnsure, ReturnUnsure DEF Knowing, Sure
  <2>3. UNCHANGED <<taskVars, run>>
    BY <1>2 DEF CancelRefused, CancelAgain, CancelConfirm
  <2> QED
    BY <2>2, <2>3, SameTasks, CalmRun DEF taskVars
<1>3. CASE CancelQueued(u)
  <2>1. Call(u, "settleCancel", t, "next", NoTask) /\ UNCHANGED <<task, run>>
    BY <1>3 DEF CancelQueued
  <2>2. status' = [status EXCEPT ![t] = "cancelled"]
    BY <1>3 DEF CancelQueued
  <2>3. \A x \in Task : Calm(x)
    BY <2>1, <2>2 DEF Calm, Data
  <2> QED
    BY <2>1, <2>3, CallUnsure, CalmRun DEF Knowing, Sure
<1>4. CASE SettleCancel(u)
  <2>1. Call(u, "refresh", NoTask, frame[u].ret, frame[u].tgt) /\ UNCHANGED <<status, run>>
    BY <1>4 DEF SettleCancel
  <2>2. PICK i : task' = task \/ task' = [task EXCEPT ![t].intent = i]
    BY <1>4 DEF SettleCancel
  <2>3. \A x \in Task : task'[x].run = task[x].run
    <3>1. CASE task' = task
      BY <3>1
    <3>2. CASE task' = [task EXCEPT ![t].intent = i]
      BY <3>2 DEF Data, TaskData
    <3> QED
      BY <2>2, <3>1, <3>2
  <2> QED
    BY <2>1, <2>3, CallUnsure, SameTasks, CalmRun DEF Knowing, Sure
<1>5. CASE CancelRunning(u)
  <2>1. UNCHANGED <<status, run>>
    BY <1>5 DEF CancelRunning
  <2>2. \A x \in Task : task'[x].run = task[x].run
    BY <1>5 DEF CancelRunning, Data, TaskData
  <2>3. CASE HasRunId(t)
    <3>1. run[t].store # "none"
      BY <1>0, <2>3 DEF HasRunId, RunInv, RunTaskInv
    <3>2. pc'[u] = "stop" /\ cur'[u] = t /\ Others(u)
      BY <1>5, <2>3, StepMoves DEF CancelRunning
    <3> QED
      BY <2>1, <2>2, <3>1, <3>2, SameTasks, SureRun DEF Sure
  <2>4. CASE ~ HasRunId(t)
    <3>1. Step(u, "watcher")
      BY <1>5, <2>4 DEF CancelRunning
    <3> QED
      BY <2>1, <2>2, <3>1, StepUnsure, SameTasks, CalmRun DEF Knowing, Sure
  <2> QED
    BY <2>3, <2>4
<1>6. CASE Stop(u)
  <2>1. UNCHANGED <<taskVars, run>> /\ pc[u] = "stop"
    BY <1>6 DEF Stop
  <2>2. \A x \in Task : Calm(x)
    BY <2>1, SameTasks DEF taskVars
  <2>3. CASE Abort(u) \/ AfterStop(u, t)
    BY <1>1, <2>1, <2>2, <2>3, AbortUnsure, CalmRun
  <2>4. CASE Step(u, "stopSave")
    <3>1. run[t].store # "none"
      BY <2>1 DEF RunInv, Knows, Sure
    <3> QED
      BY <2>1, <2>2, <2>4, <3>1, StepMoves, SureRun DEF Sure
  <2> QED
    BY <1>6, <2>3, <2>4 DEF Stop
<1>7. CASE StopSave(u)
  <2>1. run[t].store # "none"
    BY <1>7 DEF StopSave, RunInv, Knows, Sure
  <2> QED
    BY <1>0, <1>1, <1>7, <2>1, SaveRun DEF StopSave
<1> QED
  BY <1>2, <1>3, <1>4, <1>5, <1>6, <1>7 DEF CancelStep

LEMMA StartRun ==
  ASSUME Typed, LifeInv, RunInv, NEW u \in Thread, StartStep(u)
  PROVE  RunInv'
<1> USE DEF Typed
<1> DEFINE t == cur[u]
<1>1. CASE Pick(u)
  <2>1. UNCHANGED <<taskVars, run>>
    BY <1>1 DEF Pick
  <2>2. CASE Return(u)
    BY <2>1, <2>2, ReturnUnsure, SameTasks, CalmRun DEF taskVars
  <2>3. CASE ~ Return(u)
    <3>1. Goto(u, "admit") /\ \A v \in Thread \ {u} : cur'[v] = cur[v]
      BY <1>1, <2>3 DEF Pick, Control
    <3>2. \A v \in Thread : Unsure(v)
      BY <3>1 DEF Goto, Control, Unsure, Knowing, Sure
    <3> QED
      BY <2>1, <3>2, SameTasks, CalmRun DEF taskVars
  <2> QED
    BY <2>2, <2>3
<1>2. CASE Admit(u)
  <2>1. (Step(u, "begin") \/ Step(u, "fail")) /\ UNCHANGED <<taskVars, run>>
    BY <1>2 DEF Admit
  <2> QED
    BY <2>1, StepUnsure, SameTasks, CalmRun DEF Knowing, Sure, taskVars
<1>3. CASE Begin(u)
  <2>0. t \in Task /\ UNCHANGED <<task, run>>
    BY <1>3 DEF Begin, Control, Placed, Taskless
  <2>1. CASE Startable(t)
    <3>1. status[t] = "queued" /\ status' = [status EXCEPT ![t] = "running"]
      BY <1>3, <2>1 DEF Begin, Startable
    <3>2. pc'[u] = "create" /\ cur'[u] = t /\ Others(u)
      BY <1>3, <2>1, StepMoves DEF Begin
    <3>3. run[t].thread = "none"
      BY <2>0, <3>1 DEF RunInv, RunTaskInv
    <3>4. \A x \in Task : RunTaskInv(x)'
      BY <2>0, <3>1 DEF RunInv, RunTaskInv, Data
    <3>5. \A v \in Thread : Knows(v)'
      BY <2>0, <3>2, <3>3 DEF RunInv, Knows, Others, Sure
    <3> QED
      BY <3>4, <3>5 DEF RunInv
  <2>2. CASE ~ Startable(t)
    <3>1. Return(u) /\ UNCHANGED status
      BY <1>3, <2>2 DEF Begin
    <3> QED
      BY <2>0, <3>1, ReturnUnsure, SameTasks, CalmRun
  <2> QED
    BY <2>1, <2>2
<1>4. CASE Create(u)
  <2>0. t \in Task /\ pc[u] = "create" /\ UNCHANGED taskVars
    BY <1>4 DEF Create, Control, Placed, Taskless
  <2>1. CASE Step(u, "fail") /\ UNCHANGED run
    BY <2>0, <2>1, StepUnsure, SameTasks, CalmRun DEF Knowing, Sure, taskVars
  <2>2. CASE ~ (Step(u, "fail") /\ UNCHANGED run)
    <3>1. run' = [run EXCEPT ![t].thread = "alive"] /\ Step(u, "await")
      BY <1>4, <2>2 DEF Create
    <3>2. pc'[u] = "await" /\ Others(u)
      BY <3>1, StepMoves
    <3>3. /\ run'[t].store = run[t].store /\ run'[t].plan = run[t].plan
          /\ \A x \in Task \ {t} : run'[x] = run[x]
      BY <2>0, <3>1 DEF Data, RunData
    <3>4. status[t] \notin {"none", "queued"}
      BY <2>0 DEF LifeInv, ThreadInv, Starting, Terminal
    <3>5. \A v \in Thread \ {u} : pc[v] = "create" => cur[v] # t
      BY <2>0 DEF LifeInv, Alone, Starting
    <3>6. \A v \in Thread : pc[v] \in Knowing => cur[v] \in Task
      BY DEF Control, Placed, Taskless, Knowing, Sure
    <3>7. \A x \in Task : RunTaskInv(x)'
      BY <2>0, <3>3, <3>4 DEF RunInv, RunTaskInv, taskVars
    <3>8. \A v \in Thread : Knows(v)'
      BY <3>2, <3>3, <3>5, <3>6 DEF RunInv, Knows, Others, Knowing, Sure
    <3> QED
      BY <3>7, <3>8 DEF RunInv
  <2> QED
    BY <2>1, <2>2
<1>5. CASE Await(u)
  <2>0. UNCHANGED <<status, run>>
    BY <1>5 DEF Await
  <2>1. CASE run[t].store # "none" /\ Step(u, "bind") /\ UNCHANGED task
    BY <2>0, <2>1, StepMoves, SameTasks, SureRun DEF Sure
  <2>2. CASE Step(u, "fail") /\ UNCHANGED task
    BY <2>0, <2>2, StepUnsure, SameTasks, CalmRun DEF Knowing, Sure
  <2>3. CASE task' = [task EXCEPT ![t].run = "attempt"] /\ Step(u, "watcher")
    <3>1. \A x \in Task : Calm(x)
      BY <2>0, <2>3 DEF Calm, Data, TaskData
    <3> QED
      BY <2>0, <2>3, <3>1, StepUnsure, CalmRun DEF Knowing, Sure
  <2> QED
    BY <1>5, <2>1, <2>2, <2>3 DEF Await
<1>6. CASE Bind(u)
  <2>0. t \in Task /\ pc[u] = "bind" /\ UNCHANGED <<status, run>>
    BY <1>6 DEF Bind, Control, Placed, Taskless
  <2>1. task' = [task EXCEPT ![t].run = "bound"] /\ run[t].store # "none"
    BY <1>6, <2>0 DEF Bind, RunInv, Knows, Sure
  <2>2. \A v \in Thread : Unsure(v)
    <3>1. Step(u, "watcher") \/ Abort(u)
      BY <1>6 DEF Bind
    <3> QED
      BY <3>1, StepUnsure, AbortUnsure DEF Knowing, Sure
  <2>3. \A x \in Task : RunTaskInv(x)'
    BY <2>0, <2>1 DEF RunInv, RunTaskInv, Data, TaskData
  <2>4. \A v \in Thread : Knows(v)'
    BY <2>0, <2>2 DEF RunInv, Knows, Unsure, Knowing
  <2> QED
    BY <2>3, <2>4 DEF RunInv
<1>7. CASE EnsureWatcher(u)
  <2>1. UNCHANGED <<taskVars, run>> /\ frame[u].ret \in Ret
    BY <1>7 DEF EnsureWatcher, Control, Frame
  <2>2. Resume[frame[u].ret] \notin Knowing
    BY <2>1, ResumeUnsure
  <2>3. \A v \in Thread : Unsure(v)
    BY <1>7, <2>2 DEF EnsureWatcher, Control, Unsure, Knowing, Sure
  <2> QED
    BY <2>1, <2>3, SameTasks, CalmRun DEF taskVars
<1> QED
  BY <1>1, <1>2, <1>3, <1>4, <1>5, <1>6, <1>7 DEF StartStep

LEMMA RefreshRun ==
  ASSUME Typed, RunInv, NEW u \in Thread, RefreshStep(u)
  PROVE  RunInv'
<1> USE DEF Typed
<1> DEFINE t == cur[u]
<1>0. pc[u] # "refresh" => t \in Task
  BY DEF RefreshStep, Refresh, Poll, Adopt, Expire, Dispatch, Send, SendSave, Load, Judge,
         Control, Placed, Taskless
<1>1. CASE Refresh(u)
  <2>1. UNCHANGED <<taskVars, run>>
    BY <1>1 DEF Refresh
  <2>2. \A x \in Task : Calm(x)
    BY <2>1, SameTasks DEF taskVars
  <2>3. CASE Return(u)
    BY <2>1, <2>2, <2>3, ReturnUnsure, CalmRun
  <2>4. CASE ~ Return(u)
    <3>1. PICK x \in Task :
            /\ cur' = [cur EXCEPT ![u] = x]
            /\ Goto(u, IF task[x].run = "bound" THEN "dispatch" ELSE "poll")
      BY <1>1, <2>4 DEF Refresh
    <3>2. cur'[u] = x /\ Others(u)
      BY <3>1 DEF Goto, Control, Others
    <3>3. pc'[u] = IF task[x].run = "bound" THEN "dispatch" ELSE "poll"
      BY <3>1 DEF Goto, Control
    <3>4. \A y \in Task : RunTaskInv(y)'
      BY <2>1 DEF RunInv, RunTaskInv, taskVars
    <3>5. \A v \in Thread : Knows(v)'
      BY <2>1, <3>2, <3>3 DEF RunInv, RunTaskInv, Knows, Others, Sure
    <3> QED
      BY <3>4, <3>5 DEF RunInv
  <2> QED
    BY <2>3, <2>4
<1>2. CASE Poll(u)
  <2>0. pc[u] = "poll" /\ UNCHANGED <<status, run>>
    BY <1>2 DEF Poll
  <2>1. CASE Return(u) /\ UNCHANGED task
    BY <2>0, <2>1, ReturnUnsure, SameTasks, CalmRun
  <2>2. CASE ~ (Return(u) /\ UNCHANGED task)
    <3>1. /\ task' = [task EXCEPT ![t].run = "taken"]
          /\ Step(u, IF run[t].store # "none" THEN "adopt" ELSE "expire")
      BY <1>2, <2>2 DEF Poll
    <3>2. \A x \in Task : Calm(x)
      BY <2>0, <3>1 DEF Calm, Data, TaskData
    <3>3. CASE run[t].store # "none"
      BY <2>0, <3>1, <3>2, <3>3, StepMoves, SureRun DEF Sure
    <3>4. CASE run[t].store = "none"
      BY <2>0, <3>1, <3>2, <3>4, StepUnsure, CalmRun DEF Knowing, Sure
    <3> QED
      BY <3>3, <3>4
  <2> QED
    BY <2>1, <2>2
<1>3. CASE Adopt(u)
  <2>0. pc[u] = "adopt" /\ UNCHANGED <<status, run>>
    BY <1>3 DEF Adopt
  <2>a. run[t].store # "none"
    BY <2>0 DEF RunInv, Knows, Sure
  <2>1. CASE Return(u) /\ UNCHANGED task
    BY <2>0, <2>1, ReturnUnsure, SameTasks, CalmRun
  <2>2. CASE ~ (Return(u) /\ UNCHANGED task)
    <3>1. task' = [task EXCEPT ![t].run = "bound"] /\ (Step(u, "dispatch") \/ Abort(u))
      BY <1>3, <2>2 DEF Adopt
    <3>2. \A x \in Task : RunTaskInv(x)'
      BY <1>0, <2>0, <2>a, <3>1 DEF RunInv, RunTaskInv, Data, TaskData
    <3>3. CASE Step(u, "dispatch")
      <4>1. pc'[u] = "dispatch" /\ cur'[u] = t /\ Others(u)
        BY <3>3, StepMoves
      <4> QED
        BY <2>0, <2>a, <3>2, <4>1 DEF RunInv, Knows, Others, Sure
    <3>4. CASE Abort(u)
      <4>1. \A v \in Thread : Unsure(v)
        BY <3>4, AbortUnsure
      <4> QED
        BY <2>0, <3>2, <4>1 DEF RunInv, Knows, Unsure, Knowing
    <3> QED
      BY <3>1, <3>3, <3>4
  <2> QED
    BY <2>1, <2>2
<1>4. CASE Expire(u)
  <2>1. /\ task' = [task EXCEPT ![t].run = "none"]
        /\ Step(u, "fail") /\ UNCHANGED <<status, run>>
    BY <1>4 DEF Expire
  <2>2. \A x \in Task : Calm(x)
    BY <2>1 DEF Calm, Data, TaskData
  <2> QED
    BY <2>1, <2>2, StepUnsure, CalmRun DEF Knowing, Sure
<1>5. CASE Dispatch(u) \/ Send(u)
  <2>0. pc[u] \in {"dispatch", "send"} /\ UNCHANGED <<status, run>>
    BY <1>5 DEF Dispatch, Send
  <2>1. run[t].store # "none"
    BY <2>0 DEF RunInv, Knows, Sure
  <2>2. PICK c : task' = task \/ task' = [task EXCEPT ![t].cancel = c]
    BY <1>5 DEF Dispatch, Send
  <2>3. \A x \in Task : task'[x].run = task[x].run
    <3>1. CASE task' = task
      BY <3>1
    <3>2. CASE task' = [task EXCEPT ![t].cancel = c]
      BY <3>2 DEF Data, TaskData
    <3> QED
      BY <2>2, <3>1, <3>2
  <2>4. \A x \in Task : Calm(x)
    BY <2>0, <2>3, SameTasks
  <2>5. Abort(u) \/ Step(u, "load") \/ Step(u, "send") \/ Step(u, "sendSave")
    BY <1>5 DEF Dispatch, Send
  <2>6. CASE Abort(u) \/ Step(u, "load")
    BY <2>0, <2>4, <2>6, AbortUnsure, StepUnsure, CalmRun DEF Knowing, Sure
  <2>7. CASE Step(u, "send") \/ Step(u, "sendSave")
    BY <2>0, <2>1, <2>4, <2>7, StepMoves, SureRun DEF Sure
  <2> QED
    BY <2>5, <2>6, <2>7
<1>6. CASE SendSave(u)
  <2>1. pc[u] = "sendSave" /\ Step(u, "load") /\ UNCHANGED taskVars
        /\ run' = [run EXCEPT ![t].store = "cancelled"]
    BY <1>6 DEF SendSave
  <2>2. run[t].store # "none" /\ t \in Task
    BY <1>0, <2>1 DEF RunInv, Knows, Sure
  <2> QED
    BY <2>1, <2>2, StepUnsure, SaveRun DEF Knowing, Sure
<1>7. CASE Load(u)
  <2>1. UNCHANGED <<taskVars, run>>
    BY <1>7 DEF Load
  <2>2. Return(u) \/ (Goto(u, "judge") /\ UNCHANGED cur)
    BY <1>7 DEF Load
  <2>3. ASSUME Goto(u, "judge"), UNCHANGED cur
        PROVE  \A v \in Thread : Unsure(v)
    BY <2>3 DEF Goto, Control, Unsure, Knowing, Sure
  <2>4. \A v \in Thread : Unsure(v)
    BY <2>2, <2>3, ReturnUnsure
  <2> QED
    BY <2>1, <2>4, SameTasks, CalmRun DEF taskVars
<1>8. CASE Judge(u)
  <2>1. UNCHANGED <<taskVars, run>>
    BY <1>8 DEF Judge
  <2>2. Return(u) \/ Step(u, "claimDone") \/ Step(u, "claimCancel") \/ Step(u, "fail")
    BY <1>8 DEF Judge
  <2> QED
    BY <2>1, <2>2, ReturnUnsure, StepUnsure, SameTasks, CalmRun DEF Knowing, Sure, taskVars
<1> QED
  BY <1>1, <1>2, <1>3, <1>4, <1>5, <1>6, <1>7, <1>8 DEF RefreshStep

LEMMA EndRun ==
  ASSUME Typed, LifeInv, RunInv, NEW u \in Thread, EndStep(u) \/ Watch(u)
  PROVE  RunInv'
<1> USE DEF Typed
<1> DEFINE t == cur[u]
<1>1. UNCHANGED run
  BY DEF EndStep, ClaimDone, Write, Succeed, ClaimCancel, FinishCancel, Fail, Failing, SettleEnd,
         Release, Watch
<1>2. \A v \in Thread : Unsure(v)
  <2>1. \/ Return(u)
        \/ \E l \in {"write", "succeed", "failing", "release", "finishCancel", "settleEnd",
                      "off", "refresh"} : Step(u, l)
        \/ Call(u, "pick", NoTask, frame[u].ret, frame[u].tgt)
    <3>1. CASE ClaimDone(u) \/ ClaimCancel(u) \/ Fail(u)
      BY <3>1 DEF ClaimDone, ClaimCancel, Fail, Claim
    <3>2. CASE Write(u) \/ Succeed(u) \/ FinishCancel(u) \/ Failing(u) \/ SettleEnd(u) \/ Watch(u)
      BY <3>2 DEF Write, Succeed, FinishCancel, Failing, SettleEnd, Watch
    <3>3. CASE Release(u)
      BY <3>3 DEF Release, StartNext
    <3> QED
      BY <3>1, <3>2, <3>3 DEF EndStep
  <2> QED
    BY <2>1, ReturnUnsure, StepUnsure, CallUnsure DEF Knowing, Sure
<1>3. ASSUME NEW x \in Task
      PROVE  Calm(x)
  <2>1. CASE Write(u) \/ SettleEnd(u)
    <3>1. UNCHANGED status
      BY <2>1 DEF Write, SettleEnd
    <3>2. PICK i : \/ task' = task
                   \/ task' = [task EXCEPT ![t].report = "saved", ![t].intent = i]
                   \/ task' = [task EXCEPT ![t].intent = i]
      BY <2>1 DEF Write, SettleEnd
    <3>3. task'[x].run = task[x].run
      <4>1. CASE task' = task
        BY <4>1
      <4>2. CASE task' = [task EXCEPT ![t].report = "saved", ![t].intent = i]
        BY <4>2 DEF Data, TaskData
      <4>3. CASE task' = [task EXCEPT ![t].intent = i]
        BY <4>3 DEF Data, TaskData
      <4> QED
        BY <3>2, <4>1, <4>2, <4>3
    <3> QED
      BY <3>1, <3>3 DEF Calm
  <2>2. CASE Succeed(u) \/ FinishCancel(u) \/ Failing(u)
    <3>1. UNCHANGED task /\ \E s \in Terminal : status' = [status EXCEPT ![t] = s]
      BY <2>2 DEF Succeed, FinishCancel, Failing, Terminal
    <3> QED
      BY <3>1 DEF Calm, Data, Terminal
  <2>3. CASE ClaimDone(u) \/ ClaimCancel(u) \/ Fail(u) \/ Release(u) \/ Watch(u)
    BY <2>3 DEF ClaimDone, ClaimCancel, Fail, Release, Watch, taskVars, Calm
  <2> QED
    BY <2>1, <2>2, <2>3 DEF EndStep
<1> QED
  BY <1>1, <1>2, <1>3, CalmRun

\* A step of the run thread keeps what is known of the run, and is a step of module
\* RunThread.
LEMMA ThreadRun ==
  ASSUME Typed, RunInv, NEW t \in Task, RunStep(t) \/ RunDie(t)
  PROVE  RunInv' /\ \A x \in Task : [RunOf(x)!Next]_(run[x])
<1> USE DEF Typed
<1>1. UNCHANGED <<taskVars, threadVars>> /\ run[t].thread = "alive"
  BY DEF RunStep, RunCreate, RunDecide, RunSave, RunExit, RunDie, Alive
<1>2. PICK d : run' = [run EXCEPT ![t] = d] /\ d.thread # "none" /\ (d.store = "none" => d.plan = "none")
                /\ (run[t].store # "none" => d.store # "none")
  BY <1>1 DEF RunStep, RunCreate, RunDecide, RunSave, RunExit, RunDie, Data, RunData, RunInv, RunTaskInv
<1>3. \A x \in Task : RunTaskInv(x)'
  BY <1>1, <1>2 DEF RunInv, RunTaskInv, Data, taskVars
<1>4. \A v \in Thread : pc[v] \in Knowing => cur[v] \in Task
  BY DEF Control, Placed, Taskless, Knowing, Sure
<1>5. \A v \in Thread : Knows(v)'
  BY <1>1, <1>2, <1>4 DEF RunInv, Knows, Data, threadVars, Knowing
<1>6. \A x \in Task \ {t} : run'[x] = run[x]
  BY <1>2 DEF Data
<1>7. RunOf(t)!Next
  <2>1. run[t] \in RunData
    BY DEF Data
  <2>2. CASE RunCreate(t)
    BY <1>1, <2>1, <2>2 DEF RunCreate, RunInv, RunTaskInv, Data, RunData, RunOf!Next, RunOf!Create, RunOf!Die
  <2>3. CASE RunDecide(t)
    BY <1>1, <2>1, <2>3 DEF RunDecide, Data, RunData, RunOf!Next, RunOf!Decide
  <2>4. CASE RunSave(t)
    BY <1>1, <2>1, <2>4 DEF RunSave, Data, RunData, RunOf!Next, RunOf!Save
  <2>5. CASE RunExit(t)
    BY <1>1, <2>1, <2>5 DEF RunExit, RunEnd, Data, RunData, RunOf!Next, RunOf!Exit, RunOf!RunEnd
  <2>6. CASE RunDie(t)
    BY <1>1, <2>1, <2>6 DEF RunDie, Data, RunData, RunOf!Next, RunOf!Die
  <2> QED
    BY <2>2, <2>3, <2>4, <2>5, <2>6 DEF RunStep
<1> QED
  BY <1>3, <1>5, <1>6, <1>7 DEF RunInv

LEMMA StepRun == Typed /\ LifeInv /\ RunInv /\ [Next]_vars => RunInv'
<1> SUFFICES ASSUME Typed, LifeInv, RunInv, [Next]_vars
             PROVE  RunInv'
  OBVIOUS
<1>1. CASE \E u \in User : UserCall(u)
  BY <1>1, CallRun
<1>2. ASSUME NEW u \in Thread, ThreadStep(u)
      PROVE  RunInv'
  BY <1>2, CancelRun, StartRun, RefreshRun, EndRun DEF ThreadStep, MethodStep
<1>3. CASE \E t \in Task : RunStep(t) \/ RunDie(t)
  BY <1>3, ThreadRun
<1>4. CASE ExclusiveLock \/ ExclusiveUnlock \/ UNCHANGED vars
  <2>1. UNCHANGED <<run, status, task, pc, cur>>
    BY <1>4 DEF ExclusiveLock, ExclusiveUnlock, vars, taskVars, threadVars
  <2> QED
    BY <2>1, SameTasks, CalmRun DEF Unsure
<1> QED
  BY <1>1, <1>2, <1>3, <1>4 DEF Next

LEMMA InitRun == Init => RunInv /\ \A t \in Task : RunOf(t)!Init
<1> SUFFICES ASSUME Init
             PROVE  RunInv /\ \A t \in Task : RunOf(t)!Init
  OBVIOUS
<1>1. \A t \in Task : RunTaskInv(t) /\ RunOf(t)!Init
  BY DEF Init, NoRun, Unused, RunTaskInv, RunOf!Init
<1>2. \A u \in Thread : Knows(u)
  BY DEF Init, Knows, Sure
<1> QED
  BY <1>1, <1>2 DEF RunInv

LEMMA StartsRun ==
  ASSUME Data, NEW t \in Task, run[t].thread = "none", run' = [run EXCEPT ![t].thread = "alive"]
  PROVE  \A x \in Task : [RunOf(x)!Next]_(run[x])
<1>1. run[t] \in RunData /\ \A x \in Task \ {t} : run'[x] = run[x]
  BY DEF Data
<1>2. RunOf(t)!Next
  BY <1>1 DEF Data, RunData, RunOf!Next, RunOf!Start
<1> QED
  BY <1>1, <1>2

LEMMA CancelsRun ==
  ASSUME Data, NEW t \in Task, run[t].store # "none", run' = [run EXCEPT ![t].store = "cancelled"]
  PROVE  \A x \in Task : [RunOf(x)!Next]_(run[x])
<1>1. run[t] \in RunData /\ \A x \in Task \ {t} : run'[x] = run[x]
  BY DEF Data
<1>2. RunOf(t)!Next
  BY <1>1 DEF Data, RunData, RunOf!Next, RunOf!Cancel
<1> QED
  BY <1>1, <1>2

\* Which steps of a thread touch a run.
LEMMA QueueTouches ==
  ASSUME NEW u \in Thread, ThreadStep(u)
  PROVE  \/ UNCHANGED run
         \/ Create(u) /\ run' = [run EXCEPT ![cur[u]].thread = "alive"]
         \/ (StopSave(u) \/ SendSave(u)) /\ run' = [run EXCEPT ![cur[u]].store = "cancelled"]
<1>1. CASE CancelStep(u)
  BY <1>1 DEF CancelStep, CancelRefused, CancelQueued, CancelAgain, CancelRunning, Stop,
              StopSave, CancelConfirm, SettleCancel
<1>2. CASE StartStep(u)
  BY <1>2 DEF StartStep, Pick, Admit, Begin, Create, Await, Bind, EnsureWatcher
<1>3. CASE RefreshStep(u)
  BY <1>3 DEF RefreshStep, Refresh, Poll, Adopt, Expire, Dispatch, Send, SendSave, Load, Judge
<1>4. CASE EndStep(u) \/ Watch(u)
  BY <1>4 DEF EndStep, ClaimDone, Write, Succeed, ClaimCancel, FinishCancel, Fail, Failing,
              SettleEnd, Release, Watch
<1> QED
  BY <1>1, <1>2, <1>3, <1>4 DEF ThreadStep, MethodStep

\* What the queue does to a run: it starts it, and cancels it once it is created.
LEMMA QueueRun ==
  ASSUME Typed, RunInv, NEW u \in Thread, ThreadStep(u)
  PROVE  \A x \in Task : [RunOf(x)!Next]_(run[x])
<1> USE DEF Typed
<1> DEFINE t == cur[u]
<1>1. CASE UNCHANGED run
  BY <1>1
<1>2. CASE Create(u) /\ run' = [run EXCEPT ![t].thread = "alive"]
  <2>1. t \in Task /\ run[t].thread = "none"
    BY <1>2 DEF Create, Control, Placed, Taskless, RunInv, Knows
  <2> QED
    BY <1>2, <2>1, StartsRun
<1>3. CASE /\ StopSave(u) \/ SendSave(u)
           /\ run' = [run EXCEPT ![t].store = "cancelled"]
  <2>1. t \in Task /\ run[t].store # "none"
    BY <1>3 DEF StopSave, SendSave, Control, Placed, Taskless, RunInv, Knows, Sure
  <2> QED
    BY <1>3, <2>1, CancelsRun
<1> QED
  BY <1>1, <1>2, <1>3, QueueTouches

\* The queue starts a run once and sends a cancel only to a run that was created,
\* however its threads interleave: what is shown of module RunThread holds of its
\* runs, and what is shown of the queue holds with any run that implements it.
THEOREM RunsAreRunThreadsCorrect == Spec => RunsAreRunThreads
<1>1. Init => RunInv /\ \A t \in Task : RunOf(t)!Init
  BY InitRun
<1>2. Typed /\ LifeInv /\ RunInv /\ [Next]_vars => RunInv'
  BY StepRun
<1>3. Typed /\ RunInv /\ [Next]_vars => [\A t \in Task : [RunOf(t)!Next]_(run[t])]_run
  <2> SUFFICES ASSUME Typed, RunInv, [Next]_vars
               PROVE  (\A t \in Task : [RunOf(t)!Next]_(run[t])) \/ UNCHANGED run
    OBVIOUS
  <2>1. CASE \E u \in User : UserCall(u)
    BY <2>1 DEF UserCall, EnqueueJoin, EnqueueNew, Cancel, Snapshot
  <2>2. CASE ExclusiveLock \/ ExclusiveUnlock \/ UNCHANGED vars
    BY <2>2 DEF ExclusiveLock, ExclusiveUnlock, vars
  <2> QED
    BY <2>1, <2>2, QueueRun, ThreadRun DEF Next
<1> QED
  BY <1>1, <1>2, <1>3, LifeCorrect, PTL DEF Spec, RunsAreRunThreads

-----------------------------------------------------------------------------
(* The outcome of a task: a cancelled task has stopped, one that succeeded  *)
(* stays completed, and the delivery intent of one that ended is settled.   *)

Overwriting == {"stopSave", "sendSave"}

\* The run is completed, and no cancel is left that would overwrite that.
Sealed(t) ==
  /\ run[t].store = "completed"
  /\ \A v \in Thread : cur[v] = t => pc[v] \notin Overwriting

\* A task that is cancelled has no run that goes on or may be started yet.  A report
\* is saved by the thread that has claimed the task, so who claims it for a cancel
\* finds none; and that thread has seen the run thread end.
StopTask(t) ==
  /\ status[t] = "cancelled" => run[t].thread # "alive"
  /\ task[t].report = "saved" => claimed[t] /\ status[t] # "cancelled"

StopThread(u) ==
  /\ pc[u] = "create" => status[cur[u]] # "cancelled"
  /\ pc[u] \in {"claimCancel", "finishCancel"} => run[cur[u]].thread = "ended"
  /\ pc[u] = "finishCancel" => task[cur[u]].report = "none"

StopInv ==
  /\ \A t \in Task : StopTask(t)
  /\ \A u \in Thread : StopThread(u)

\* Who is about to cancel a run has recorded the cancel before.  So a thread that has
\* read a completed run and then finds no cancel knows that the run is sealed.
DoneTask(t) ==
  /\ task[t].cancel # "none" => status[t] # "none"
  /\ run[t].store = "completed" => run[t].plan = "none"
  /\ status[t] = "succeeded" => task[t].report = "saved" /\ Sealed(t)

DoneThread(u) ==
  /\ pc[u] \in {"stop", "stopSave", "send", "sendSave"} => task[cur[u]].cancel # "none"
  /\ pc[u] = "judge" /\ seen[u] = "completed" => task[cur[u]].cancel # "none" \/ Sealed(cur[u])
  /\ pc[u] \in {"claimDone", "write", "succeed"} => Sealed(cur[u])
  /\ pc[u] = "succeed" => task[cur[u]].report = "saved"

DoneInv ==
  /\ \A t \in Task : DoneTask(t)
  /\ \A u \in Thread : DoneThread(u)

\* An intent that still waits when its task has ended has a thread on its way to settle
\* it: settleCancel settles that of a cancelled task only.
SettleTask(t) ==
  status[t] \in Terminal /\ task[t].intent = "waiting" =>
    \E u \in Thread : /\ cur[u] = t
                      /\ \/ pc[u] = "settleEnd"
                         \/ pc[u] = "settleCancel" /\ status[t] = "cancelled"

SettleThread(u) ==
  /\ pc[u] \in {"write", "succeed"} => status[cur[u]] = "running"
  /\ pc[u] = "succeed" => task[cur[u]].intent # "waiting"

SettleInv ==
  /\ \A t \in Task : SettleTask(t)
  /\ \A u \in Thread : SettleThread(u)

-----------------------------------------------------------------------------
(* What a step changes *)

Same(v) == pc'[v] = pc[v] /\ cur'[v] = cur[v] /\ seen'[v] = seen[v]

\* The pcs whose threads rely on what they have read or done before, and what brings
\* a thread there.
Relying == {"create", "stop", "stopSave", "send", "sendSave", "judge", "claimDone", "write",
            "succeed", "claimCancel", "finishCancel"}

Arrived(u) ==
  LET t == cur[u]
  IN /\ cur'[u] = t
     /\ pc'[u] = "create" => status'[t] = "running"
     /\ pc'[u] \in {"stop", "send"} => task'[t].cancel # "none"
     /\ pc'[u] \in {"stopSave", "sendSave"} =>
          pc[u] \in {"stop", "send"} /\ run[t].store \notin RunEnd
     /\ pc'[u] = "judge" => seen'[u] = run[t].store
     /\ pc'[u] = "claimDone" => pc[u] = "judge" /\ seen[u] = "completed" /\ task[t].cancel = "none"
     /\ pc'[u] = "write" => pc[u] = "claimDone" /\ status'[t] = "running"
     /\ pc'[u] = "succeed" =>
          /\ pc[u] = "write" /\ status'[t] = status[t]
          /\ task'[t].report = "saved" /\ task'[t].intent # "waiting"
     /\ pc'[u] = "claimCancel" => run[t].thread = "ended"
     /\ pc'[u] = "finishCancel" => pc[u] = "claimCancel" /\ ~claimed[t]

Moved(v) == Same(v) \/ pc'[v] \notin Relying \/ Arrived(v)

LEMMA OthersSame ==
  ASSUME Control, NEW u \in Thread, UserCall(u) \/ ThreadStep(u)
  PROVE  \A v \in Thread \ {u} : Same(v) \/ (pc[v] = "off" /\ pc'[v] = "watch")
<1>1. ASSUME \/ Return(u) \/ Abort(u) \/ UNCHANGED threadVars
             \/ \E l : Step(u, l)
             \/ \E l, t, ret, tgt : Call(u, l, t, ret, tgt)
      PROVE  \A v \in Thread \ {u} : Same(v)
  BY <1>1 DEF Control, Return, Abort, Step, Call, Goto, Same, threadVars
<1>2. CASE UserCall(u)
  <2>1. CASE Snapshot(u)
    BY <2>1 DEF Snapshot, Goto, Control, Same
  <2>2. CASE ~ Snapshot(u)
    BY <1>1, <1>2, <2>2 DEF UserCall, EnqueueJoin, EnqueueNew, Cancel
  <2> QED
    BY <2>1, <2>2
<1>3. CASE CancelStep(u)
  BY <1>1, <1>3 DEF CancelStep, CancelRefused, CancelQueued, CancelAgain, CancelRunning, Stop,
                    StopSave, AfterStop, CancelConfirm, SettleCancel
<1>4. CASE StartStep(u)
  <2>1. CASE Pick(u) /\ ~ Return(u)
    BY <2>1 DEF Pick, Goto, Control, Same
  <2>2. CASE EnsureWatcher(u)
    BY <2>2 DEF EnsureWatcher, Control, Same
  <2>3. CASE Return(u) \/ Admit(u) \/ Begin(u) \/ Create(u) \/ Await(u) \/ Bind(u)
    BY <1>1, <2>3 DEF Admit, Begin, Create, Await, Bind
  <2> QED
    BY <1>4, <2>1, <2>2, <2>3 DEF StartStep
<1>5. CASE RefreshStep(u)
  <2>1. CASE (Refresh(u) \/ Load(u)) /\ ~ Return(u)
    BY <2>1 DEF Refresh, Load, Goto, Control, Same
  <2>2. CASE Return(u) \/ Poll(u) \/ Adopt(u) \/ Expire(u)
    BY <1>1, <2>2 DEF Poll, Adopt, Expire
  <2>3. CASE Dispatch(u) \/ Send(u) \/ SendSave(u) \/ Judge(u)
    BY <1>1, <2>3 DEF Dispatch, Send, SendSave, Judge
  <2> QED
    BY <1>5, <2>1, <2>2, <2>3 DEF RefreshStep
<1>6. CASE EndStep(u) \/ Watch(u)
  BY <1>1, <1>6 DEF EndStep, ClaimDone, ClaimCancel, Claim, Write, Succeed, FinishCancel, Fail,
                    Failing, SettleEnd, Release, StartNext, Watch
<1> QED
  BY <1>2, <1>3, <1>4, <1>5, <1>6 DEF ThreadStep, MethodStep

LEMMA ResumeRelies ==
  ASSUME Control, NEW u \in Thread, Return(u) \/ Abort(u)
  PROVE  pc'[u] \notin Relying
<1>1. pc'[u] = Resume[frame[u].ret] \/ pc'[u] = Resume[Bottom(u).ret]
  BY DEF Control, Return, Abort, Goto
<1>2. frame[u].ret \in Ret /\ Bottom(u).ret \in Ret
  BY BottomType DEF Control, Frame
<1> QED
  BY <1>1, <1>2, ResumeType DEF Relying, Taskless

\* Where a call of a user leaves its thread.
LEMMA CallArrives ==
  ASSUME Typed, NEW u \in User, UserCall(u)
  PROVE  Moved(u)
<1> USE DEF Typed
<1>0. u \in Thread
  BY DEF Thread
<1>1. \/ UNCHANGED threadVars
      \/ \E l \in {"refresh", "pick", "cancel"} : Goto(u, l)
  BY DEF UserCall, EnqueueJoin, EnqueueNew, Cancel, Snapshot, Call
<1> QED
  BY <1>0, <1>1 DEF Goto, Control, Moved, Same, Relying, threadVars

LEMMA CancelArrives ==
  ASSUME Typed, NEW u \in Thread, CancelStep(u)
  PROVE  Moved(u)
<1> USE DEF Typed
<1> DEFINE t == cur[u]
<1>0. t \in Task
  BY DEF CancelStep, CancelRefused, CancelQueued, CancelAgain, CancelRunning, Stop, StopSave,
         CancelConfirm, SettleCancel, Control, Placed, Taskless
<1>1. CASE CancelRefused(u)
  BY <1>1, ResumeRelies DEF CancelRefused, Moved
<1>2. CASE CancelQueued(u) \/ CancelAgain(u) \/ CancelConfirm(u) \/ SettleCancel(u)
  <2>1. \/ Step(u, "settleCancel") \/ Step(u, "watcher")
        \/ \E x, ret, tgt : Call(u, "settleCancel", x, ret, tgt) \/ Call(u, "refresh", x, ret, tgt)
    BY <1>2 DEF CancelQueued, CancelAgain, CancelConfirm, SettleCancel
  <2> QED
    BY <2>1, StepMoves, CallMoves DEF Moved, Relying
<1>3. CASE CancelRunning(u)
  <2>1. \/ Step(u, "watcher")
        \/ Step(u, "stop") /\ task' = [task EXCEPT ![t].cancel = "sent"]
    BY <1>3 DEF CancelRunning
  <2> QED
    BY <1>0, <2>1, StepMoves DEF Moved, Relying, Arrived, Data, TaskData
<1>4. CASE Stop(u) \/ StopSave(u)
  <2>1. \/ Abort(u)
        \/ Step(u, "watcher") \/ Call(u, "refresh", NoTask, "confirm", t)
        \/ Step(u, "stopSave") /\ pc[u] = "stop" /\ run[t].store \notin RunEnd
    BY <1>4 DEF Stop, StopSave, AfterStop
  <2> QED
    BY <2>1, StepMoves, CallMoves, ResumeRelies DEF Moved, Relying, Arrived
<1> QED
  BY <1>1, <1>2, <1>3, <1>4 DEF CancelStep

LEMMA StartArrives ==
  ASSUME Typed, NEW u \in Thread, StartStep(u)
  PROVE  Moved(u)
<1> USE DEF Typed
<1> DEFINE t == cur[u]
<1>1. CASE Return(u) \/ Abort(u)
  BY <1>1, ResumeRelies DEF Moved
<1>2. CASE \E l \in {"begin", "fail", "await", "bind", "watcher"} : Step(u, l)
  BY <1>2, StepMoves DEF Moved, Relying
<1>3. CASE Pick(u)
  <2>1. CASE Goto(u, "admit")
    BY <2>1 DEF Goto, Control, Moved, Relying
  <2> QED
    BY <1>1, <1>3, <2>1 DEF Pick
<1>4. CASE Begin(u) /\ ~ Return(u)
  <2>1. Step(u, "create") /\ status' = [status EXCEPT ![t] = "running"] /\ pc[u] = "begin"
    BY <1>4 DEF Begin
  <2>2. t \in Task
    BY <2>1 DEF Control, Placed, Taskless
  <2> QED
    BY <2>1, <2>2, StepMoves DEF Data, Moved, Arrived
<1>5. CASE EnsureWatcher(u)
  <2>1. frame[u].ret \in Ret
    BY <1>5 DEF EnsureWatcher, Control, Frame
  <2>2. pc'[u] = Resume[frame[u].ret] \/ pc'[u] = "watch"
    BY <1>5 DEF EnsureWatcher, Control
  <2> QED
    BY <2>1, <2>2, ResumeType DEF Moved, Relying, Taskless
<1>6. CASE Admit(u) \/ Create(u) \/ Await(u) \/ Bind(u)
  BY <1>1, <1>2, <1>6 DEF Admit, Create, Await, Bind
<1> QED
  BY <1>1, <1>3, <1>4, <1>5, <1>6 DEF StartStep

LEMMA RefreshArrives ==
  ASSUME Typed, NEW u \in Thread, RefreshStep(u)
  PROVE  Moved(u)
<1> USE DEF Typed
<1> DEFINE t == cur[u]
<1>0. pc[u] # "refresh" => t \in Task
  BY DEF RefreshStep, Refresh, Poll, Adopt, Expire, Dispatch, Send, SendSave, Load, Judge,
         Control, Placed, Taskless
<1>1. CASE Return(u) \/ Abort(u)
  BY <1>1, ResumeRelies DEF Moved
<1>2. CASE \E l \in {"adopt", "expire", "dispatch", "load", "fail"} : Step(u, l)
  BY <1>2, StepMoves DEF Moved, Relying
<1>3. CASE Refresh(u) /\ ~ Return(u)
  <2>1. pc'[u] \in {"dispatch", "poll"}
    BY <1>3 DEF Refresh, Goto, Control
  <2> QED
    BY <2>1 DEF Moved, Relying
<1>4. CASE Dispatch(u)
  <2>1. \/ Step(u, "load")
        \/ Step(u, "send") /\ task' = [task EXCEPT ![t].cancel = "sent"] /\ pc[u] = "dispatch"
    BY <1>4 DEF Dispatch
  <2> QED
    BY <1>0, <1>2, <2>1, StepMoves DEF Moved, Relying, Arrived, Data, TaskData
<1>5. CASE Send(u)
  <2>1. \/ Abort(u) \/ Step(u, "load")
        \/ Step(u, "sendSave") /\ pc[u] = "send" /\ run[t].store \notin RunEnd
    BY <1>5 DEF Send
  <2> QED
    BY <1>1, <1>2, <2>1, StepMoves DEF Moved, Arrived
<1>6. CASE Load(u) /\ ~ Return(u)
  <2>1. Goto(u, "judge") /\ UNCHANGED cur /\ seen' = [seen EXCEPT ![u] = run[t].store]
    BY <1>6 DEF Load
  <2> QED
    BY <2>1 DEF Goto, Control, Moved, Arrived
<1>7. CASE Judge(u)
  <2>1. \/ Return(u) \/ Step(u, "fail")
        \/ /\ Step(u, "claimDone") /\ pc[u] = "judge"
           /\ seen[u] = "completed" /\ task[t].cancel = "none"
        \/ Step(u, "claimCancel") /\ run[t].thread = "ended"
    BY <1>7 DEF Judge, Cancelling, Exited
  <2> QED
    BY <1>1, <1>2, <2>1, StepMoves DEF Moved, Arrived
<1>8. CASE Poll(u) \/ Adopt(u) \/ Expire(u) \/ SendSave(u)
  BY <1>1, <1>2, <1>8 DEF Poll, Adopt, Expire, SendSave
<1> QED
  BY <1>1, <1>3, <1>4, <1>5, <1>6, <1>7, <1>8 DEF RefreshStep

LEMMA EndArrives ==
  ASSUME Typed, NEW u \in Thread, EndStep(u) \/ Watch(u)
  PROVE  Moved(u)
<1> USE DEF Typed
<1> DEFINE t == cur[u]
<1>1. CASE Return(u)
  BY <1>1, ResumeRelies DEF Moved
<1>2. CASE \E l \in {"failing", "settleEnd", "release", "off", "refresh"} : Step(u, l)
  BY <1>2, StepMoves DEF Moved, Relying
<1>3. CASE ClaimDone(u) /\ ~ Return(u)
  <2>1. Step(u, "write") /\ pc[u] = "claimDone" /\ status[t] = "running" /\ UNCHANGED status
    BY <1>3 DEF ClaimDone, Claim, Claimable
  <2> QED
    BY <2>1, StepMoves DEF Moved, Arrived
<1>4. CASE Write(u)
  <2>1. CASE Step(u, "succeed")
    <3>0. pc[u] = "write" /\ t \in Task /\ UNCHANGED status
      BY <1>4 DEF Write, Control, Placed, Taskless
    <3>1. PICK i : /\ task' = [task EXCEPT ![t].report = "saved", ![t].intent = i]
                   /\ i = IF task[t].intent = "waiting" THEN "pending" ELSE task[t].intent
      <4>1. pc'[u] = "succeed"
        BY <2>1, StepMoves
      <4>2. ~ Step(u, "failing")
        BY <4>1, StepMoves
      <4> QED
        BY <1>4, <4>2 DEF Write
    <3>2. task'[t].report = "saved" /\ task'[t].intent = i
      BY <3>0, <3>1 DEF Data, TaskData
    <3> QED
      BY <2>1, <3>0, <3>1, <3>2, StepMoves DEF Moved, Arrived
  <2> QED
    BY <1>2, <1>4, <2>1 DEF Write
<1>5. CASE ClaimCancel(u) /\ ~ Return(u)
  <2>1. Step(u, "finishCancel") /\ pc[u] = "claimCancel" /\ ~claimed[t]
    BY <1>5 DEF ClaimCancel, Claim, Claimable
  <2> QED
    BY <2>1, StepMoves DEF Moved, Arrived
<1>6. CASE Release(u)
  BY <1>6, CallMoves DEF Release, StartNext, Moved, Relying
<1>7. CASE Succeed(u) \/ FinishCancel(u) \/ Fail(u) \/ Failing(u) \/ SettleEnd(u) \/ Watch(u)
  BY <1>1, <1>2, <1>7 DEF Succeed, FinishCancel, Fail, Failing, SettleEnd, Watch
<1> QED
  BY <1>1, <1>3, <1>4, <1>5, <1>6, <1>7 DEF EndStep

LEMMA StepArrives ==
  ASSUME Typed, [Next]_vars
  PROVE  \A v \in Thread : Moved(v)
<1>1. ASSUME NEW u \in Thread, UserCall(u) \/ ThreadStep(u), Moved(u)
      PROVE  \A v \in Thread : Moved(v)
  BY <1>1, OthersSame DEF Typed, Moved, Relying
<1>2. CASE \E u \in User : UserCall(u)
  BY <1>1, <1>2, CallArrives DEF Thread
<1>3. CASE \E u \in Thread : ThreadStep(u)
  BY <1>1, <1>3, CancelArrives, StartArrives, RefreshArrives, EndArrives
     DEF ThreadStep, MethodStep
<1>4. CASE UNCHANGED threadVars
  BY <1>4 DEF threadVars, Moved, Same
<1>5. (\E t \in Task : RunStep(t) \/ RunDie(t)) \/ ExclusiveLock \/ ExclusiveUnlock \/ UNCHANGED vars
      => UNCHANGED threadVars
  BY DEF RunStep, RunCreate, RunDecide, RunSave, RunExit, RunDie, ExclusiveLock, ExclusiveUnlock,
         vars
<1> QED
  BY <1>2, <1>3, <1>4, <1>5 DEF Next

(* What becomes of the status of a task *)

\* The step that ends a queued task, starts it, or ends a running one.
Turns(u, t) ==
  /\ cur[u] = t /\ cur'[u] = t /\ UNCHANGED <<task, run>>
  /\ \/ /\ pc[u] = "cancel" /\ status[t] = "queued" /\ ~claimed[t]
        /\ status'[t] = "cancelled" /\ pc'[u] = "settleCancel"
     \/ pc[u] = "begin" /\ status[t] = "queued" /\ status'[t] = "running"
     \/ pc[u] = "succeed" /\ status'[t] = "succeeded" /\ pc'[u] = "release"
     \/ pc[u] = "finishCancel" /\ status'[t] = "cancelled" /\ pc'[u] = "settleEnd"
     \/ pc[u] = "failing" /\ status'[t] = "failed" /\ pc'[u] = "settleEnd"

StatusMove(t) ==
  \/ status'[t] = status[t]
  \/ status[t] = "none" /\ status'[t] = "queued"
  \/ \E u \in Thread : Turns(u, t)

LEMMA StepStatus ==
  ASSUME Typed, [Next]_vars, NEW t \in Task
  PROVE  StatusMove(t)
<1> USE DEF Typed
<1>1. ASSUME NEW u \in User, UserCall(u)
      PROVE  StatusMove(t)
  <2>1. ASSUME NEW r \in Request, EnqueueNew(u, r)
        PROVE  StatusMove(t)
    <3>1. PICK x \in Task : status[x] = "none" /\ status' = [status EXCEPT ![x] = "queued"]
      BY <2>1 DEF EnqueueNew
    <3> QED
      BY <3>1 DEF Data, StatusMove
  <2> QED
    BY <1>1, <2>1 DEF UserCall, EnqueueJoin, Cancel, Snapshot, taskVars, StatusMove
<1>2. ASSUME NEW u \in Thread, CancelQueued(u) \/ Begin(u) \/ Succeed(u) \/ FinishCancel(u) \/ Failing(u),
             status' # status
      PROVE  StatusMove(t)
  <2>1. cur[u] \in Task
    BY <1>2 DEF CancelQueued, Begin, Succeed, FinishCancel, Failing, Control, Placed, Taskless
  <2>2. PICK s : status' = [status EXCEPT ![cur[u]] = s]
    BY <1>2 DEF CancelQueued, Begin, Succeed, FinishCancel, Failing
  <2>3. status'[cur[u]] = s /\ \A x \in Task \ {cur[u]} : status'[x] = status[x]
    BY <2>1, <2>2 DEF Data
  <2>4. cur'[u] = cur[u] /\ UNCHANGED <<task, run>>
    BY <1>2 DEF CancelQueued, Begin, Succeed, FinishCancel, Failing, Call, Step, Control
  <2>5. Turns(u, cur[u])
    <3>1. CASE CancelQueued(u)
      BY <2>1, <2>4, <3>1, CallMoves DEF CancelQueued, CancellableInQueue, Turns, Data
    <3>2. CASE Begin(u)
      BY <1>2, <2>1, <2>4, <3>2 DEF Begin, Startable, Turns, Data
    <3>3. CASE Succeed(u) \/ FinishCancel(u) \/ Failing(u)
      BY <2>1, <2>4, <3>3, StepMoves DEF Succeed, FinishCancel, Failing, Turns, Data
    <3> QED
      BY <1>2, <3>1, <3>2, <3>3
  <2> QED
    BY <2>3, <2>5 DEF StatusMove
<1>3. CASE UNCHANGED status
  BY <1>3 DEF StatusMove
<1>4. ASSUME NEW u \in Thread, ThreadStep(u)
      PROVE  StatusMove(t)
  <2>1. CASE CancelStep(u)
    BY <1>2, <1>3, <2>1 DEF CancelStep, CancelRefused, CancelAgain, CancelRunning, Stop, StopSave,
               CancelConfirm, SettleCancel, taskVars
  <2>2. CASE StartStep(u)
    BY <1>2, <1>3, <2>2 DEF StartStep, Pick, Admit, Create, Await, Bind, EnsureWatcher, taskVars
  <2>3. CASE RefreshStep(u)
    BY <1>3, <2>3 DEF RefreshStep, Refresh, Poll, Adopt, Expire, Dispatch, Send, SendSave, Load,
               Judge, taskVars
  <2>4. CASE EndStep(u) \/ Watch(u)
    BY <1>2, <1>3, <2>4 DEF EndStep, ClaimDone, Write, ClaimCancel, Fail, SettleEnd, Release,
               Watch, taskVars
  <2> QED
    BY <1>4, <2>1, <2>2, <2>3, <2>4 DEF ThreadStep, MethodStep
<1>5. (\E x \in Task : RunStep(x) \/ RunDie(x)) \/ ExclusiveLock \/ ExclusiveUnlock \/ UNCHANGED vars
      => UNCHANGED status
  BY DEF RunStep, RunCreate, RunDecide, RunSave, RunExit, RunDie, ExclusiveLock, ExclusiveUnlock,
         vars, taskVars
<1> QED
  BY <1>1, <1>3, <1>4, <1>5 DEF Next

\* A claim is never given back.
LEMMA ClaimStays ==
  ASSUME Typed, [Next]_vars, NEW t \in Task, claimed[t]
  PROVE  claimed'[t]
<1> USE DEF Typed
<1>1. ASSUME NEW x, claimed' = claimed \/ claimed' = [claimed EXCEPT ![x] = TRUE]
      PROVE  claimed'[t]
  BY <1>1 DEF Data
<1>2. CASE \E u \in User : UserCall(u)
  BY <1>1, <1>2 DEF UserCall, EnqueueJoin, EnqueueNew, Cancel, Snapshot, taskVars
<1>3. ASSUME NEW u \in Thread, ThreadStep(u)
      PROVE  claimed' = claimed \/ claimed' = [claimed EXCEPT ![cur[u]] = TRUE]
  <2>1. CASE CancelStep(u)
    BY <2>1 DEF CancelStep, CancelRefused, CancelQueued, CancelAgain, CancelRunning, Stop, StopSave,
               CancelConfirm, SettleCancel, taskVars
  <2>2. CASE StartStep(u)
    BY <2>2 DEF StartStep, Pick, Admit, Begin, Create, Await, Bind, EnsureWatcher, taskVars
  <2>3. CASE RefreshStep(u)
    BY <2>3 DEF RefreshStep, Refresh, Poll, Adopt, Expire, Dispatch, Send, SendSave, Load,
               Judge, taskVars
  <2>4. CASE EndStep(u) \/ Watch(u)
    BY <2>4 DEF EndStep, ClaimDone, Write, Succeed, ClaimCancel, Claim, FinishCancel, Fail, Failing,
               SettleEnd, Release, Watch, taskVars
  <2> QED
    BY <1>3, <2>1, <2>2, <2>3, <2>4 DEF ThreadStep, MethodStep
<1>4. (\E x \in Task : RunStep(x) \/ RunDie(x)) \/ ExclusiveLock \/ ExclusiveUnlock \/ UNCHANGED vars
      => UNCHANGED claimed
  BY DEF RunStep, RunCreate, RunDecide, RunSave, RunExit, RunDie, ExclusiveLock, ExclusiveUnlock,
         vars, taskVars
<1> QED
  BY <1>1, <1>2, <1>3, <1>4 DEF Next

(* What becomes of the rest of a task *)

Saves(t)   == \E u \in Thread : cur[u] = t /\ pc[u] = "write"
Settles(t) == \E u \in Thread :
                cur[u] = t /\ (SettleEnd(u) \/ (SettleCancel(u) /\ status[t] = "cancelled"))

TaskMove(t) ==
  \/ /\ status[t] = "none" /\ status'[t] = "queued"
     /\ task'[t].cancel = "none" /\ task'[t].report = "none"
  \/ /\ task'[t].cancel # task[t].cancel =>
          task'[t].cancel # "none" /\ (status[t] # "none" \/ task[t].cancel # "none")
     /\ task'[t].report # task[t].report => task'[t].report = "saved" /\ Saves(t)
     /\ task'[t].intent # task[t].intent =>
          status[t] = "queued" \/ Saves(t) \/ Settles(t)

LEMMA StepTask ==
  ASSUME Typed, DoneInv, [Next]_vars, NEW t \in Task
  PROVE  TaskMove(t)
<1> USE DEF Typed
<1>0. CASE task'[t] = task[t]
  BY <1>0 DEF TaskMove
<1>1. ASSUME NEW u \in User, UserCall(u)
      PROVE  TaskMove(t)
  <2>1. ASSUME NEW r \in Request, EnqueueNew(u, r)
        PROVE  TaskMove(t)
    <3>1. PICK x \in Task : /\ status[x] = "none" /\ status' = [status EXCEPT ![x] = "queued"]
                            /\ task' = [task EXCEPT ![x] = NewTask(r)]
      BY <2>1 DEF EnqueueNew
    <3>2. NewTask(r).cancel = "none" /\ NewTask(r).report = "none"
      BY DEF NewTask, Unused
    <3>3. CASE x = t
      BY <3>1, <3>2, <3>3 DEF Data, TaskMove
    <3>4. CASE x # t
      BY <1>0, <3>1, <3>4 DEF Data
    <3> QED
      BY <3>3, <3>4
  <2>2. ASSUME NEW r \in Request, EnqueueJoin(u, r)
        PROVE  TaskMove(t)
    <3>1. PICK x \in Task :
            /\ status[x] = "queued"
            /\ \E p, i : \/ task' = [task EXCEPT ![x].priority = p, ![x].intent = i]
                        \/ task' = [task EXCEPT ![x].priority = p]
      <4>1. PICK x \in Task :
              /\ IsDuplicate(x, r)
              /\ LET lifted == IF r \in Manual /\ task[x].req \notin Manual THEN 100 ELSE task[x].priority
                     attach == r \in Notify /\ task[x].intent = "none"
                 IN \/ task' = [task EXCEPT ![x].priority = lifted,
                                            ![x].intent = IF attach THEN "waiting" ELSE @]
                    \/ task' = [task EXCEPT ![x].priority = lifted]
        BY <2>2 DEF EnqueueJoin
      <4>2. status[x] = "queued"
        BY <4>1 DEF IsDuplicate, QueuedTasks
      <4> QED
        BY <4>1, <4>2
    <3>2. CASE x = t
      <4>1. task[t] \in TaskData
        BY DEF Data
      <4>2. task'[t].cancel = task[t].cancel /\ task'[t].report = task[t].report
        BY <3>1, <3>2, <4>1 DEF Data, TaskData
      <4> QED
        BY <3>1, <3>2, <4>2 DEF TaskMove
    <3>3. CASE x # t
      BY <1>0, <3>1, <3>3 DEF Data
    <3> QED
      BY <3>2, <3>3
  <2> QED
    BY <1>0, <1>1, <2>1, <2>2 DEF UserCall, Cancel, Snapshot, taskVars
\* The edits of a task that its cancel, its run or its intent takes.
<1>2. ASSUME NEW x \in Task, NEW c, c # "none", task' = [task EXCEPT ![x].cancel = c],
             status[x] # "none" \/ task[x].cancel # "none"
      PROVE  TaskMove(t)
  BY <1>2 DEF Data, TaskData, TaskMove
<1>3. ASSUME NEW x \in Task, NEW b, task' = [task EXCEPT ![x].run = b]
      PROVE  TaskMove(t)
  BY <1>3 DEF Data, TaskData, TaskMove
<1>4. ASSUME NEW x \in Task, NEW i, task' = [task EXCEPT ![x].intent = i], Settles(x)
      PROVE  TaskMove(t)
  BY <1>4 DEF Data, TaskData, TaskMove
<1>5. ASSUME NEW u \in Thread, CancelStep(u)
      PROVE  TaskMove(t)
  <2>1. CASE CancelRunning(u)
    <3>1. cur[u] \in Task
      BY <2>1 DEF CancelRunning, Control, Placed, Taskless
    <3> QED
      BY <1>2, <2>1, <3>1 DEF CancelRunning
  <2>2. CASE SettleCancel(u)
    <3>1. cur[u] \in Task /\ pc[u] = "settleCancel"
      BY <2>2 DEF SettleCancel, Control, Placed, Taskless
    <3>2. CASE status[cur[u]] = "cancelled"
      <4>1. Settles(cur[u])
        BY <2>2, <3>1, <3>2 DEF Settles
      <4> QED
        BY <1>4, <2>2, <3>1, <3>2, <4>1 DEF SettleCancel
    <3>3. CASE status[cur[u]] # "cancelled"
      BY <1>0, <2>2, <3>3 DEF SettleCancel
    <3> QED
      BY <3>2, <3>3
  <2> QED
    BY <1>0, <1>5, <2>1, <2>2 DEF CancelStep, CancelRefused, CancelQueued, CancelAgain, Stop, StopSave,
               CancelConfirm, taskVars
<1>6. ASSUME NEW u \in Thread, StartStep(u)
      PROVE  TaskMove(t)
  <2>1. CASE Await(u) \/ Bind(u)
    <3>1. cur[u] \in Task
      BY <2>1 DEF Await, Bind, Control, Placed, Taskless
    <3> QED
      BY <1>0, <1>3, <2>1, <3>1 DEF Await, Bind
  <2> QED
    BY <1>0, <1>6, <2>1 DEF StartStep, Pick, Admit, Begin, Create, EnsureWatcher, taskVars
<1>7. ASSUME NEW u \in Thread, RefreshStep(u)
      PROVE  TaskMove(t)
  <2>1. CASE Poll(u) \/ Adopt(u) \/ Expire(u)
    <3>1. cur[u] \in Task
      BY <2>1 DEF Poll, Adopt, Expire, Control, Placed, Taskless
    <3> QED
      BY <1>0, <1>3, <2>1, <3>1 DEF Poll, Adopt, Expire
  <2>2. CASE Dispatch(u)
    <3>1. cur[u] \in Task
      BY <2>2 DEF Dispatch, Control, Placed, Taskless
    <3>2. CASE task[cur[u]].cancel = "asked"
      BY <1>2, <2>2, <3>1, <3>2 DEF Dispatch
    <3>3. CASE task[cur[u]].cancel # "asked"
      BY <1>0, <2>2, <3>1, <3>3 DEF Dispatch, Data, TaskData
    <3> QED
      BY <3>2, <3>3
  <2>3. CASE Send(u)
    <3>1. cur[u] \in Task /\ task[cur[u]].cancel # "none"
      BY <2>3 DEF Send, Control, Placed, Taskless, DoneInv, DoneThread
    <3> QED
      BY <1>0, <1>2, <2>3, <3>1 DEF Send
  <2> QED
    BY <1>0, <1>7, <2>1, <2>2, <2>3 DEF RefreshStep, Refresh, SendSave, Load, Judge, taskVars
<1>8. ASSUME NEW u \in Thread, EndStep(u) \/ Watch(u)
      PROVE  TaskMove(t)
  <2>1. CASE Write(u)
    <3>1. cur[u] \in Task /\ Saves(cur[u])
      BY <2>1 DEF Write, Control, Placed, Taskless, Saves
    <3>2. PICK i : task' = task \/ task' = [task EXCEPT ![cur[u]].report = "saved", ![cur[u]].intent = i]
      BY <2>1 DEF Write
    <3>3. CASE task' = [task EXCEPT ![cur[u]].report = "saved", ![cur[u]].intent = i]
      BY <3>1, <3>3 DEF Data, TaskData, TaskMove
    <3> QED
      BY <1>0, <3>2, <3>3
  <2>2. CASE SettleEnd(u)
    <3>1. cur[u] \in Task /\ Settles(cur[u])
      BY <2>2 DEF SettleEnd, Control, Placed, Taskless, Settles
    <3> QED
      BY <1>4, <2>2, <3>1 DEF SettleEnd
  <2> QED
    BY <1>0, <1>8, <2>1, <2>2 DEF EndStep, ClaimDone, Succeed, ClaimCancel, FinishCancel, Fail, Failing,
               Release, Watch, taskVars
<1>9. (\E x \in Task : RunStep(x) \/ RunDie(x)) \/ ExclusiveLock \/ ExclusiveUnlock \/ UNCHANGED vars
      => UNCHANGED task
  BY DEF RunStep, RunCreate, RunDecide, RunSave, RunExit, RunDie, ExclusiveLock, ExclusiveUnlock,
         vars, taskVars
<1> QED
  BY <1>0, <1>1, <1>5, <1>6, <1>7, <1>8, <1>9 DEF Next, ThreadStep, MethodStep

(* What becomes of a run *)

RunMove(t) ==
  /\ run[t].thread = "ended" => run'[t].thread = "ended"
  /\ run'[t].thread = "alive" /\ run[t].thread # "alive" =>
       \E u \in Thread : cur[u] = t /\ pc[u] = "create"
  /\ run[t].store = "completed" /\ run[t].plan = "none" =>
       \/ run'[t].store = "completed" /\ run'[t].plan = "none"
       \/ run'[t].store = "cancelled" /\ \E u \in Thread : cur[u] = t /\ pc[u] \in Overwriting
  /\ run'[t].store = "completed" /\ run[t].store # "completed" => run'[t].plan = "none"

LEMMA StepRunMove ==
  ASSUME Typed, RunInv, [Next]_vars, NEW t \in Task
  PROVE  RunMove(t)
<1> USE DEF Typed
<1>0. CASE run'[t] = run[t]
  BY <1>0 DEF RunMove
<1>1. ASSUME NEW u \in Thread, ThreadStep(u)
      PROVE  RunMove(t)
  <2>1. CASE Create(u) /\ run' = [run EXCEPT ![cur[u]].thread = "alive"]
    <3>1. cur[u] \in Task /\ pc[u] = "create" /\ run[cur[u]].thread = "none"
      BY <2>1 DEF Create, Control, Placed, Taskless, RunInv, Knows
    <3> QED
      BY <2>1, <3>1 DEF Data, RunData, RunMove
  <2>2. CASE (StopSave(u) \/ SendSave(u)) /\ run' = [run EXCEPT ![cur[u]].store = "cancelled"]
    <3>1. cur[u] \in Task /\ pc[u] \in Overwriting
      BY <2>2 DEF StopSave, SendSave, Control, Placed, Taskless, Overwriting
    <3> QED
      BY <2>2, <3>1 DEF Data, RunData, RunMove
  <2> QED
    BY <1>0, <1>1, <2>1, <2>2, QueueTouches
<1>2. ASSUME NEW x \in Task, RunStep(x) \/ RunDie(x)
      PROVE  RunMove(t)
  <2>1. CASE x = t
    <3>1. run[t] \in RunData /\ run[t].thread = "alive"
      BY <1>2, <2>1 DEF Data, RunStep, RunCreate, RunDecide, RunSave, RunExit, RunDie, Alive
    <3>2. CASE RunCreate(t)
      BY <3>1, <3>2 DEF RunCreate, Data, RunData, RunMove
    <3>3. CASE RunDecide(t)
      BY <3>1, <3>3 DEF RunDecide, Data, RunData, RunMove
    <3>4. CASE RunSave(t)
      BY <3>1, <3>4 DEF RunSave, Data, RunData, RunMove
    <3>5. CASE RunExit(t)
      BY <3>1, <3>5 DEF RunExit, Data, RunData, RunMove
    <3>6. CASE RunDie(t)
      BY <3>1, <3>6 DEF RunDie, Data, RunData, RunMove
    <3> QED
      BY <1>2, <2>1, <3>2, <3>3, <3>4, <3>5, <3>6 DEF RunStep
  <2>2. CASE x # t
    BY <1>0, <1>2, <2>2 DEF Data, RunStep, RunCreate, RunDecide, RunSave, RunExit, RunDie
  <2> QED
    BY <2>1, <2>2
<1>3. (\E u \in User : UserCall(u)) \/ ExclusiveLock \/ ExclusiveUnlock \/ UNCHANGED vars
      => UNCHANGED run
  BY DEF UserCall, EnqueueJoin, EnqueueNew, Cancel, Snapshot, ExclusiveLock, ExclusiveUnlock, vars
<1> QED
  BY <1>0, <1>1, <1>2, <1>3 DEF Next

\* The steps of a thread that is about to settle an intent.
LEMMA SettlerSteps ==
  ASSUME Typed, [Next]_vars, NEW u \in Thread, pc[u] \in {"settleEnd", "settleCancel"}
  PROVE  Same(u) \/ SettleEnd(u) \/ SettleCancel(u)
<1> USE DEF Typed
<1>1. ASSUME NEW v \in Thread, UserCall(v) \/ ThreadStep(v), v # u
      PROVE  Same(u)
  BY <1>1, OthersSame
<1>2. ASSUME ThreadStep(u)
      PROVE  SettleEnd(u) \/ SettleCancel(u)
  <2>1. CASE CancelStep(u)
    BY <2>1 DEF CancelStep, CancelRefused, CancelQueued, CancelAgain, CancelRunning, Stop, StopSave,
               CancelConfirm
  <2>2. ~ StartStep(u)
    BY DEF StartStep, Pick, Admit, Begin, Create, Await, Bind, EnsureWatcher
  <2>3. ~ RefreshStep(u)
    BY DEF RefreshStep, Refresh, Poll, Adopt, Expire, Dispatch, Send, SendSave, Load, Judge
  <2>4. CASE EndStep(u) \/ Watch(u)
    BY <2>4 DEF EndStep, ClaimDone, Write, Succeed, ClaimCancel, FinishCancel, Fail, Failing, Release,
               Watch
  <2> QED
    BY <1>2, <2>1, <2>2, <2>3, <2>4 DEF ThreadStep, MethodStep
<1>3. ~ UserCall(u)
  BY DEF UserCall, EnqueueJoin, EnqueueNew, Cancel, Snapshot
<1>4. (\E t \in Task : RunStep(t) \/ RunDie(t)) \/ ExclusiveLock \/ ExclusiveUnlock \/ UNCHANGED vars
      => Same(u)
  BY DEF RunStep, RunCreate, RunDecide, RunSave, RunExit, RunDie, ExclusiveLock, ExclusiveUnlock,
         vars, threadVars, Same
<1> QED
  BY <1>1, <1>2, <1>3, <1>4 DEF Next, Thread

\* Who settles an intent leaves none that waits without the store's refusal.
LEMMA SettlingWorks ==
  ASSUME Typed, NEW u \in Thread,
         SettleEnd(u) \/ (SettleCancel(u) /\ status[cur[u]] = "cancelled")
  PROVE  task'[cur[u]].intent # "waiting"
<1>1. cur[u] \in Task
  BY DEF SettleEnd, SettleCancel, Typed, Control, Placed, Taskless
<1>2. PICK i \in Settled(task[cur[u]].intent) : task' = [task EXCEPT ![cur[u]].intent = i]
  BY DEF SettleEnd, SettleCancel
<1>3. i # "waiting"
  BY <1>2 DEF Settled
<1> QED
  BY <1>1, <1>2, <1>3 DEF Typed, Data, TaskData

(* The invariants are kept *)

\* A thread of a task knows which task.
LEMMA ReliesOnTask ==
  ASSUME Control, NEW u \in Thread, pc[u] \in Relying
  PROVE  cur[u] \in Task
BY DEF Control, Placed, Taskless, Relying

LEMMA StepStop ==
  ASSUME Typed, LifeInv, RunInv, DoneInv, StopInv, [Next]_vars
  PROVE  StopInv'
<1>a. Typed'
  BY StepTyped
<1>1. ASSUME NEW t \in Task, status'[t] = "cancelled", status[t] # "cancelled"
      PROVE  /\ run'[t].thread # "alive" /\ task'[t].report = "none"
             /\ \A u \in Thread : cur[u] = t => pc[u] # "create"
  <2>1. PICK u \in Thread : Turns(u, t)
    BY <1>1, StepStatus DEF StatusMove
  <2>2. CASE pc[u] = "cancel" /\ status[t] = "queued" /\ ~claimed[t]
    <3>1. run[t].thread = "none" /\ task[t].report = "none"
      BY <2>2 DEF RunInv, RunTaskInv, StopInv, StopTask, Typed, Data, TaskData
    <3>2. \A v \in Thread : cur[v] = t => pc[v] # "create"
      BY <2>2 DEF LifeInv, ThreadInv, Starting, Terminal
    <3> QED
      BY <2>1, <3>1, <3>2 DEF Turns
  <2>3. CASE pc[u] = "finishCancel"
    <3>1. run[t].thread = "ended" /\ task[t].report = "none"
      BY <2>1, <2>3 DEF Turns, StopInv, StopThread
    <3>2. \A v \in Thread : cur[v] = t => pc[v] # "create"
      BY <3>1 DEF RunInv, Knows
    <3> QED
      BY <2>1, <3>1, <3>2 DEF Turns
  <2> QED
    BY <1>1, <2>1, <2>2, <2>3 DEF Turns
<1>2. ASSUME NEW t \in Task
      PROVE  StopTask(t)'
  <2>1. ASSUME status'[t] = "cancelled"
        PROVE  run'[t].thread # "alive"
    <3>1. CASE status[t] = "cancelled"
      <4>1. run[t].thread # "alive" /\ \A u \in Thread : cur[u] = t => pc[u] # "create"
        BY <3>1 DEF StopInv, StopTask, StopThread
      <4> QED
        BY <4>1, StepRunMove DEF RunMove
    <3> QED
      BY <1>1, <2>1, <3>1
  <2>2. ASSUME task'[t].report = "saved"
        PROVE  claimed'[t] /\ status'[t] # "cancelled"
    <3>1. CASE task[t].report = "saved"
      <4>1. claimed[t] /\ status[t] # "cancelled"
        BY <3>1 DEF StopInv, StopTask
      <4> QED
        BY <1>1, <2>2, <4>1, ClaimStays
    <3>2. CASE task[t].report # "saved"
      <4>1. PICK u \in Thread : cur[u] = t /\ pc[u] = "write"
        BY <2>2, <3>2, StepTask DEF TaskMove, Saves
      <4>2. claimed[t] /\ status[t] # "cancelled"
        BY <4>1 DEF LifeInv, ThreadInv, Ending, Live
      <4> QED
        BY <1>1, <2>2, <4>2, ClaimStays
    <3> QED
      BY <3>1, <3>2
  <2> QED
    BY <2>1, <2>2 DEF StopTask
<1>3. ASSUME NEW u \in Thread, pc'[u] \in {"create", "claimCancel", "finishCancel"}
      PROVE  StopThread(u)'
  <2>1. CASE Same(u)
    <3>1. PICK t \in Task : t = cur[u]
      BY <1>3, <2>1, ReliesOnTask DEF Same, Typed, Relying
    <3>2. pc'[u] = pc[u] /\ cur'[u] = t
      BY <2>1, <3>1 DEF Same
    <3>3. CASE pc[u] = "create"
      BY <1>1, <3>1, <3>2, <3>3 DEF StopInv, StopThread
    <3>4. CASE pc[u] \in {"claimCancel", "finishCancel"}
      <4>1. run'[t].thread = "ended"
        BY <3>1, <3>4, StepRunMove DEF StopInv, StopThread, RunMove
      <4>2. pc[u] = "finishCancel" => task'[t].report = "none"
        <5> SUFFICES ASSUME pc[u] = "finishCancel"
                     PROVE  task'[t].report = "none"
          OBVIOUS
        <5>1. task[t].report = "none"
          BY <3>1 DEF StopInv, StopThread
        <5>2. \A v \in Thread : cur[v] = t => pc[v] # "write"
          BY <3>1 DEF LifeInv, Alone, Ending
        <5> QED
          BY <5>1, <5>2, StepTask DEF TaskMove, Saves
      <4> QED
        BY <3>2, <3>4, <4>1, <4>2 DEF StopThread
    <3> QED
      BY <1>3, <3>2, <3>3, <3>4
  <2>2. CASE Arrived(u) /\ ~ Same(u)
    <3>1. PICK t : t = cur[u]
      OBVIOUS
    <3>2. cur'[u] = t
      BY <2>2, <3>1 DEF Arrived
    <3>3. t \in Task
      BY <1>3, <1>a, <3>2, ReliesOnTask DEF Typed, Control, Placed, Taskless
    <3>4. CASE pc'[u] = "create"
      BY <2>2, <3>1, <3>2, <3>4 DEF Arrived, StopThread
    <3>5. CASE pc'[u] = "claimCancel"
      BY <2>2, <3>1, <3>2, <3>3, <3>5, StepRunMove DEF Arrived, StopThread, RunMove
    <3>6. CASE pc'[u] = "finishCancel"
      <4>1. pc[u] = "claimCancel" /\ ~claimed[t]
        BY <2>2, <3>1, <3>6 DEF Arrived
      <4>2. run'[t].thread = "ended"
        BY <3>1, <3>3, <4>1, StepRunMove DEF StopInv, StopThread, RunMove
      <4>3. task[t].report = "none"
        BY <3>3, <4>1 DEF StopInv, StopTask, Typed, Data, TaskData
      <4>4. \A v \in Thread : cur[v] = t => pc[v] # "write"
        BY <4>1 DEF LifeInv, ThreadInv, Ending
      <4>5. task'[t].report = "none"
        BY <3>3, <4>3, <4>4, StepTask DEF TaskMove, Saves
      <4> QED
        BY <3>2, <3>6, <4>2, <4>5 DEF StopThread
    <3> QED
      BY <1>3, <3>4, <3>5, <3>6
  <2> QED
    BY <1>3, <2>1, <2>2, StepArrives DEF Moved, Relying
<1>4. \A u \in Thread : StopThread(u)'
  BY <1>3 DEF StopThread
<1> QED
  BY <1>2, <1>4 DEF StopInv

\* A sealed run stays sealed.
LEMMA SealStays ==
  ASSUME Typed, RunInv, DoneInv, [Next]_vars, NEW t \in Task, Sealed(t)
  PROVE  Sealed(t)'
<1>1. run[t].plan = "none"
  BY DEF DoneInv, DoneTask, Sealed
<1>2. run'[t].store = "completed"
  BY <1>1, StepRunMove DEF RunMove, Sealed
<1>3. ASSUME NEW v \in Thread, cur'[v] = t, pc'[v] \in Overwriting
      PROVE  FALSE
  <2>1. CASE Same(v)
    BY <1>3, <2>1 DEF Same, Sealed
  <2>2. CASE Arrived(v)
    BY <1>3, <2>2 DEF Arrived, Overwriting, Sealed, RunEnd
  <2> QED
    BY <1>3, <2>1, <2>2, StepArrives DEF Moved, Overwriting, Relying
<1> QED
  BY <1>2, <1>3 DEF Sealed

\* A cancel that was recorded stays recorded.
LEMMA CancelStays ==
  ASSUME Typed, DoneInv, [Next]_vars, NEW t \in Task, task[t].cancel # "none"
  PROVE  task'[t].cancel # "none"
BY StepTask DEF TaskMove, DoneInv, DoneTask

\* So does a report that was saved.
LEMMA ReportStays ==
  ASSUME Typed, LifeInv, DoneInv, StopInv, [Next]_vars, NEW t \in Task, task[t].report = "saved"
  PROVE  task'[t].report = "saved"
<1>1. status[t] # "none"
  BY DEF StopInv, StopTask, LifeInv, TaskInv
<1> QED
  BY <1>1, StepTask DEF TaskMove

LEMMA StepDone ==
  ASSUME Typed, LifeInv, RunInv, DoneInv, StopInv, [Next]_vars
  PROVE  DoneInv'
<1>a. Typed'
  BY StepTyped
<1>1. ASSUME NEW t \in Task
      PROVE  DoneTask(t)'
  <2>1. task'[t].cancel # "none" => status'[t] # "none"
    <3>1. status[t] # "none" => status'[t] # "none"
      BY StepStatus DEF StatusMove, Turns
    <3> QED
      BY <3>1, StepTask DEF TaskMove, DoneInv, DoneTask
  <2>2. run'[t].store = "completed" => run'[t].plan = "none"
    BY StepRunMove DEF RunMove, DoneInv, DoneTask
  <2>3. ASSUME status'[t] = "succeeded"
        PROVE  task'[t].report = "saved" /\ Sealed(t)'
    <3>1. task[t].report = "saved" /\ Sealed(t)
      <4>1. CASE status[t] = "succeeded"
        BY <4>1 DEF DoneInv, DoneTask
      <4>2. CASE status[t] # "succeeded"
        <5>1. PICK u \in Thread : cur[u] = t /\ pc[u] = "succeed"
          BY <2>3, <4>2, StepStatus DEF StatusMove, Turns
        <5> QED
          BY <5>1 DEF DoneInv, DoneThread
      <4> QED
        BY <4>1, <4>2
    <3> QED
      BY <3>1, SealStays, ReportStays
  <2> QED
    BY <2>1, <2>2, <2>3 DEF DoneTask
<1>2. ASSUME NEW u \in Thread, pc'[u] \in Relying
      PROVE  DoneThread(u)'
  <2>1. CASE Same(u)
    <3>1. PICK t \in Task : t = cur[u]
      BY <1>2, <2>1, ReliesOnTask DEF Same, Typed
    <3>2. pc'[u] = pc[u] /\ cur'[u] = t /\ seen'[u] = seen[u]
      BY <2>1, <3>1 DEF Same
    <3>3. DoneThread(u)
      BY DEF DoneInv
    <3>4. CASE pc[u] \in {"stop", "stopSave", "send", "sendSave"}
      BY <3>1, <3>2, <3>3, <3>4, CancelStays DEF DoneThread
    <3>5. CASE pc[u] = "judge"
      BY <3>1, <3>2, <3>3, <3>5, CancelStays, SealStays DEF DoneThread
    <3>6. CASE pc[u] \in {"claimDone", "write", "succeed"}
      BY <3>1, <3>2, <3>3, <3>6, SealStays, ReportStays DEF DoneThread
    <3> QED
      BY <3>2, <3>4, <3>5, <3>6 DEF DoneThread
  <2>2. CASE Arrived(u)
    <3>1. PICK t : t = cur[u]
      OBVIOUS
    <3>2. cur'[u] = t
      BY <2>2, <3>1 DEF Arrived
    <3>3. t \in Task
      BY <1>2, <1>a, <3>2 DEF Typed, Control, Placed, Taskless, Relying
    <3>4. CASE pc'[u] \in {"stop", "send"}
      BY <2>2, <3>1, <3>2, <3>4 DEF Arrived, DoneThread
    <3>5. CASE pc'[u] \in {"stopSave", "sendSave"}
      <4>1. task[t].cancel # "none"
        BY <2>2, <3>1, <3>5 DEF Arrived, DoneInv, DoneThread
      <4> QED
        BY <3>2, <3>3, <3>5, <4>1, CancelStays DEF DoneThread
    <3>6. CASE pc'[u] = "judge"
      <4> SUFFICES ASSUME seen'[u] = "completed", task'[t].cancel = "none"
                   PROVE  Sealed(t)'
        BY <3>2, <3>6 DEF DoneThread
      <4>1. run[t].store = "completed"
        BY <2>2, <3>1, <3>6 DEF Arrived
      <4>2. task[t].cancel = "none"
        BY <3>3, CancelStays
      <4>3. Sealed(t)
        BY <4>1, <4>2 DEF Sealed, Overwriting, DoneInv, DoneThread
      <4> QED
        BY <3>3, <4>3, SealStays
    <3>7. CASE pc'[u] \in {"claimDone", "write", "succeed"}
      <4>1. Sealed(t)
        BY <2>2, <3>1, <3>7 DEF Arrived, DoneInv, DoneThread
      <4>2. Sealed(t)'
        BY <3>3, <4>1, SealStays
      <4>3. pc'[u] = "succeed" => task'[t].report = "saved"
        BY <2>2, <3>1 DEF Arrived
      <4> QED
        BY <3>2, <3>7, <4>2, <4>3 DEF DoneThread
    <3> QED
      BY <3>4, <3>5, <3>6, <3>7 DEF DoneThread
  <2> QED
    BY <1>2, <2>1, <2>2, StepArrives DEF Moved
<1>3. \A u \in Thread : DoneThread(u)'
  BY <1>2 DEF DoneThread, Relying
<1> QED
  BY <1>1, <1>3 DEF DoneInv

LEMMA StepSettle ==
  ASSUME Typed, LifeInv, DoneInv, SettleInv, [Next]_vars
  PROVE  SettleInv'
<1>1. ASSUME NEW t \in Task, status'[t] \in Terminal, task'[t].intent = "waiting"
      PROVE  SettleTask(t)'
  <2>1. CASE status[t] \in Terminal
    <3>1. status'[t] = status[t]
      BY <2>1, StepKeepsEnd DEF Typed
    <3>2. task[t].intent = "waiting"
      <4> SUFFICES ASSUME task[t].intent # "waiting"
                   PROVE  FALSE
        OBVIOUS
      <4>1. ~ Saves(t)
        BY <2>1 DEF Saves, LifeInv, ThreadInv, Ending, Live, Terminal
      <4>2. status[t] # "queued" /\ status[t] # "none"
        BY <2>1 DEF Terminal
      <4>3. PICK u \in Thread :
              cur[u] = t /\ (SettleEnd(u) \/ (SettleCancel(u) /\ status[t] = "cancelled"))
        BY <1>1, <4>1, <4>2, StepTask DEF TaskMove, Settles
      <4> QED
        BY <1>1, <4>3, SettlingWorks
    <3>3. PICK u \in Thread : /\ cur[u] = t
                              /\ \/ pc[u] = "settleEnd"
                                 \/ pc[u] = "settleCancel" /\ status[t] = "cancelled"
      BY <2>1, <3>2 DEF SettleInv, SettleTask
    <3>4. Same(u)
      <4> SUFFICES ASSUME ~ Same(u)
                   PROVE  FALSE
        OBVIOUS
      <4>1. SettleEnd(u) \/ (SettleCancel(u) /\ status[cur[u]] = "cancelled")
        BY <3>3, SettlerSteps DEF SettleEnd, SettleCancel
      <4> QED
        BY <1>1, <3>3, <4>1, SettlingWorks
    <3> QED
      BY <3>1, <3>3, <3>4 DEF SettleTask, Same
  <2>2. CASE status[t] \notin Terminal
    <3>1. PICK u \in Thread : Turns(u, t)
      BY <1>1, <2>2, StepStatus DEF StatusMove, Terminal
    <3>2. ~ (pc[u] = "succeed" /\ status'[t] = "succeeded")
      BY <1>1, <3>1 DEF Turns, SettleInv, SettleThread
    <3>3. /\ cur'[u] = t
          /\ \/ pc'[u] = "settleEnd"
             \/ pc'[u] = "settleCancel" /\ status'[t] = "cancelled"
      BY <1>1, <3>1, <3>2 DEF Turns, Terminal
    <3> QED
      BY <3>3 DEF SettleTask
  <2> QED
    BY <2>1, <2>2
<1>2. \A t \in Task : SettleTask(t)'
  BY <1>1 DEF SettleTask
<1>3. ASSUME NEW u \in Thread, pc'[u] \in {"write", "succeed"}
      PROVE  SettleThread(u)'
  <2>1. CASE Same(u)
    <3>1. PICK t \in Task : t = cur[u]
      BY <1>3, <2>1, ReliesOnTask DEF Same, Typed, Relying
    <3>2. pc'[u] = pc[u] /\ cur'[u] = t
      BY <2>1, <3>1 DEF Same
    <3>3. status[t] = "running"
      BY <1>3, <3>1, <3>2 DEF SettleInv, SettleThread
    <3>4. \A v \in Thread \ {u} : cur[v] = t => pc[v] \notin Ending
      BY <1>3, <3>1, <3>2 DEF LifeInv, Alone, Ending
    <3>5. status'[t] = "running"
      <4> SUFFICES ASSUME status'[t] # "running"
                   PROVE  FALSE
        BY <3>3
      <4>1. PICK v \in Thread : Turns(v, t)
        BY <3>3, StepStatus DEF StatusMove
      <4>2. v = u
        BY <3>3, <3>4, <4>1 DEF Turns, Ending
      <4> QED
        BY <1>3, <3>2, <3>3, <4>1, <4>2 DEF Turns
    <3>6. pc[u] = "succeed" => task'[t].intent # "waiting"
      <4> SUFFICES ASSUME pc[u] = "succeed", task'[t].intent = "waiting"
                   PROVE  FALSE
        OBVIOUS
      <4>1. task[t].intent # "waiting"
        BY <3>1 DEF SettleInv, SettleThread
      <4>2. ~ Saves(t)
        BY <3>1, <3>4 DEF Saves, Ending
      <4>3. PICK v \in Thread :
              /\ cur[v] = t
              /\ pc[v] = "settleEnd" \/ (pc[v] = "settleCancel" /\ status[t] = "cancelled")
        BY <3>3, <4>1, <4>2, StepTask DEF TaskMove, Settles, SettleEnd, SettleCancel
      <4>4. status[t] \in Terminal
        BY <4>3 DEF LifeInv, ThreadInv, Leaving, Terminal
      <4> QED
        BY <3>3, <4>4 DEF Terminal
    <3> QED
      BY <3>2, <3>5, <3>6 DEF SettleThread
  <2>2. CASE Arrived(u)
    <3>1. PICK t : t = cur[u]
      OBVIOUS
    <3>2. cur'[u] = t
      BY <2>2, <3>1 DEF Arrived
    <3>3. CASE pc'[u] = "write"
      BY <2>2, <3>1, <3>2, <3>3 DEF Arrived, SettleThread
    <3>4. CASE pc'[u] = "succeed"
      BY <2>2, <3>1, <3>2, <3>4 DEF Arrived, SettleInv, SettleThread
    <3> QED
      BY <1>3, <3>3, <3>4
  <2> QED
    BY <1>3, <2>1, <2>2, StepArrives DEF Moved, Relying
<1>4. \A u \in Thread : SettleThread(u)'
  BY <1>3 DEF SettleThread
<1> QED
  BY <1>2, <1>4 DEF SettleInv

-----------------------------------------------------------------------------
(* The theorems *)

LEMMA InitOutcome == Init => StopInv /\ DoneInv /\ SettleInv
<1> SUFFICES ASSUME Init
             PROVE  StopInv /\ DoneInv /\ SettleInv
  OBVIOUS
<1>1. \A u \in Thread : StopThread(u) /\ DoneThread(u) /\ SettleThread(u)
  BY DEF Init, StopThread, DoneThread, SettleThread
<1>2. \A t \in Task : StopTask(t) /\ DoneTask(t) /\ SettleTask(t)
  BY DEF Init, Unused, NoRun, StopTask, DoneTask, SettleTask, Terminal
<1> QED
  BY <1>1, <1>2 DEF StopInv, DoneInv, SettleInv

LEMMA OutcomeCorrect == Spec => [](Typed /\ LifeInv /\ RunInv /\ DoneInv /\ StopInv)
<1>1. Init => RunInv /\ DoneInv /\ StopInv
  BY InitRun, InitOutcome
<1>2. Typed /\ LifeInv /\ RunInv /\ DoneInv /\ StopInv /\ [Next]_vars => (RunInv /\ DoneInv /\ StopInv)'
  BY StepRun, StepDone, StepStop
<1> QED
  BY <1>1, <1>2, LifeCorrect, PTL DEF Spec

\* A cancelled task has no run thread that may still write, and no report: a cancel
\* in the queue excludes the start, and one of a running task waits for the end of the
\* run thread and, by the claim, excludes the thread that would save the report.
THEOREM CancelledMeansStoppedCorrect == Spec => []CancelledMeansStopped
<1>1. Typed /\ StopInv => CancelledMeansStopped
  BY DEF Typed, Data, TaskData, StopInv, StopTask, CancelledMeansStopped, Alive
<1> QED
  BY <1>1, OutcomeCorrect, PTL

\* A task that succeeded has its report, and the run store says completed for good,
\* though cancel_run loads the state of a run and saves over it in two steps.
THEOREM SucceededStaysCompletedCorrect == Spec => []SucceededStaysCompleted
<1>1. DoneInv => SucceededStaysCompleted
  BY DEF DoneInv, DoneTask, Sealed, SucceededStaysCompleted
<1> QED
  BY <1>1, OutcomeCorrect, PTL

\* An intent that waits when its task has ended is about to be settled, or the store
\* refused the call that settles it, though two threads may end a queued task at the
\* same time and a third attach an intent to it.
THEOREM IntentSettledCorrect == Spec => []IntentSettled
<1>1. Init => SettleInv
  BY InitOutcome
<1>2. Typed /\ LifeInv /\ DoneInv /\ SettleInv /\ [Next]_vars => SettleInv'
  BY StepSettle
<1>3. SettleInv => IntentSettled
  BY DEF SettleInv, SettleTask, IntentSettled, Settlers
<1> QED
  BY <1>1, <1>2, <1>3, OutcomeCorrect, PTL DEF Spec

=============================================================================

-------------------------- MODULE ReportQueueProofs --------------------------
(***************************************************************************)
(* Proofs about ReportQueue, for any number of request threads, tasks and  *)
(* kinds of requests.                                                      *)
(***************************************************************************)
EXTENDS ReportQueue, TLAPS

-----------------------------------------------------------------------------
(* Types *)

\* The pcs of a thread that works on no task.
Taskless == {"idle", "off", "watch", "refresh", "pick"}

\* A thread that works on a task knows which, and a cancel that waits for a refresh
\* knows what it is about.
Placed ==
  \A u \in Thread :
    /\ pc[u] \notin Taskless => cur[u] \in Task
    /\ frame[u].ret \in {"cancel", "confirm"} => frame[u].tgt \in Task

Control ==
  /\ pc \in [Thread -> PC]
  /\ cur \in [Thread -> Task \cup {NoTask}]
  /\ seen \in [Thread -> RunStatus]
  /\ frame \in [Thread -> Frame]
  /\ Placed

Data ==
  /\ status \in [Task -> TaskStatus]
  /\ claimed \in [Task -> BOOLEAN]
  /\ locked \in [Task -> BOOLEAN]
  /\ task \in [Task -> TaskData]
  /\ run \in [Task -> RunData]
  /\ exclusive \in BOOLEAN

Typed == Data /\ Control

LEMMA ResumeType ==
  \A r \in Ret : /\ Resume[r] \in PC
                 /\ r \notin {"cancel", "confirm"} => Resume[r] \in Taskless
                 /\ Resume[r] \in Taskless \cup {"cancel", "confirm"}
BY DEF Ret, Resume, PC, Taskless

LEMMA BottomType ==
  \A u \in Thread : /\ Bottom(u) \in Frame
                    /\ Bottom(u).ret \notin {"cancel", "confirm"}
BY DEF Bottom, IdleFrame, WatchFrame, Frame, Ret

LEMMA InitTyped == Init => Typed
<1> SUFFICES ASSUME Init PROVE Typed
  OBVIOUS
<1>1. status \in [Task -> TaskStatus] /\ claimed \in [Task -> BOOLEAN] /\ locked \in [Task -> BOOLEAN]
  BY DEF Init, TaskStatus
<1>2. Unused \in TaskData
  BY DEF Unused, TaskData, Priority, Intent
<1>3. NoRun \in RunData
  BY DEF NoRun, RunData, RunStatus
<1>4. task \in [Task -> TaskData] /\ run \in [Task -> RunData] /\ exclusive \in BOOLEAN
  BY <1>2, <1>3 DEF Init
<1>5. IdleFrame \in Frame /\ WatchFrame \in Frame
  BY DEF IdleFrame, WatchFrame, Frame, Ret
<1>6. pc \in [Thread -> PC] /\ cur \in [Thread -> Task \cup {NoTask}]
      /\ seen \in [Thread -> RunStatus] /\ frame \in [Thread -> Frame]
  BY <1>5 DEF Init, PC, RunStatus
<1>7. Placed
  BY DEF Init, Placed, Taskless, IdleFrame, WatchFrame
<1> QED
  BY <1>1, <1>4, <1>6, <1>7 DEF Typed, Data, Control

(* What the four ways to move a thread do to its types *)

LEMMA StepControl ==
  ASSUME Control, NEW u \in Thread, NEW l \in PC, Step(u, l),
         l \notin Taskless => pc[u] \notin Taskless
  PROVE  Control'
BY DEF Control, Placed, Step, Goto

LEMMA ReturnControl ==
  ASSUME Control, NEW u \in Thread, Return(u)
  PROVE  Control'
<1>1. frame[u].ret \in Ret /\ frame[u].tgt \in Task \cup {NoTask}
  BY DEF Control, Frame
<1>2. pc' \in [Thread -> PC] /\ cur' \in [Thread -> Task \cup {NoTask}]
      /\ seen' \in [Thread -> RunStatus] /\ frame' \in [Thread -> Frame]
  BY <1>1, ResumeType, BottomType DEF Control, Return, Goto, RunStatus
<1>3. Placed'
  BY <1>1, ResumeType, BottomType DEF Control, Placed, Return, Goto
<1> QED
  BY <1>2, <1>3 DEF Control

LEMMA AbortControl ==
  ASSUME Control, NEW u \in Thread, Abort(u)
  PROVE  Control'
<1>1. Bottom(u).ret \in Ret
  BY BottomType DEF Frame
<1>2. pc' \in [Thread -> PC] /\ cur' \in [Thread -> Task \cup {NoTask}]
      /\ seen' \in [Thread -> RunStatus] /\ frame' \in [Thread -> Frame]
  BY <1>1, ResumeType, BottomType DEF Control, Abort, Goto, RunStatus
<1>3. Placed'
  BY <1>1, ResumeType, BottomType DEF Control, Placed, Abort, Goto
<1> QED
  BY <1>2, <1>3 DEF Control

LEMMA CallControl ==
  ASSUME Control, NEW u \in Thread, NEW l \in PC, NEW t \in Task \cup {NoTask},
         NEW ret \in Ret, NEW tgt \in Task \cup {NoTask}, Call(u, l, t, ret, tgt),
         l \notin Taskless => t \in Task,
         ret \in {"cancel", "confirm"} => tgt \in Task
  PROVE  Control'
<1>1. [ret |-> ret, tgt |-> tgt] \in Frame
  BY DEF Frame
<1>2. pc' \in [Thread -> PC] /\ cur' \in [Thread -> Task \cup {NoTask}]
      /\ seen' \in [Thread -> RunStatus] /\ frame' \in [Thread -> Frame]
  BY <1>1 DEF Control, Call, Goto
<1>3. Placed'
  BY DEF Control, Placed, Call, Goto
<1> QED
  BY <1>2, <1>3 DEF Control

(* Every step keeps the types *)

LEMMA RecordEdits ==
  \A d \in TaskData :
    /\ \A r \in {"none", "attempt", "taken", "bound"} : [d EXCEPT !.run = r] \in TaskData
    /\ \A c \in {"none", "asked", "sent"} : [d EXCEPT !.cancel = c] \in TaskData
    /\ \A i \in Intent : [d EXCEPT !.intent = i] \in TaskData
BY DEF TaskData

LEMMA TaskEdits ==
  ASSUME task \in [Task -> TaskData], NEW x
  PROVE  /\ \A r \in {"none", "attempt", "taken", "bound"} :
              [task EXCEPT ![x].run = r] \in [Task -> TaskData]
         /\ \A c \in {"none", "asked", "sent"} :
              [task EXCEPT ![x].cancel = c] \in [Task -> TaskData]
         /\ \A i \in Intent :
              [task EXCEPT ![x].intent = i] \in [Task -> TaskData]
BY RecordEdits

LEMMA SettledType == \A i \in Intent :
                       Settled(i) \subseteq Intent
BY DEF Settled, Intent

LEMMA CallTyped ==
  ASSUME Typed, NEW u \in User, UserCall(u)
  PROVE  Typed'
<1> USE DEF Typed
<1>0. u \in Thread
  BY DEF Thread
<1>1. ASSUME NEW r \in Request, EnqueueJoin(u, r)
      PROVE  Typed'
  <2>1. task' \in [Task -> TaskData]
    <3>1. PICK t \in Task :
            LET lifted == IF r \in Manual /\ task[t].req \notin Manual
                          THEN 100 ELSE task[t].priority
                attach == r \in Notify /\ task[t].intent = "none"
            IN \/ task' = [task EXCEPT ![t].priority = lifted,
                                       ![t].intent = IF attach THEN "waiting" ELSE @]
               \/ task' = [task EXCEPT ![t].priority = lifted]
      BY <1>1 DEF EnqueueJoin
    <3>2. /\ task[t] \in TaskData /\ task[t].priority \in Priority
          /\ task[t].intent \in Intent
      BY DEF Data, TaskData
    <3>4. 100 \in Priority /\ "waiting" \in Intent
      BY DEF Priority, Intent
    <3>3. ASSUME NEW x \in Priority, NEW i \in Intent,
                 \/ task' = [task EXCEPT ![t].priority = x, ![t].intent = i]
                 \/ task' = [task EXCEPT ![t].priority = x]
          PROVE  task' \in [Task -> TaskData]
      BY <3>3 DEF Data, TaskData
    <3> QED
      BY <3>1, <3>2, <3>3, <3>4
  <2>3. Data'
    BY <1>1, <2>1 DEF EnqueueJoin, Data
  <2>2. Control'
    <3>1. CASE UNCHANGED threadVars
      BY <3>1 DEF threadVars, Control, Placed
    <3>2. CASE Call(u, "refresh", NoTask, "finish", NoTask)
      BY <1>0, <3>2, CallControl DEF PC, Taskless, Ret
    <3> QED
      BY <1>1, <3>1, <3>2 DEF EnqueueJoin
  <2> QED
    BY <2>2, <2>3
<1>2. ASSUME NEW r \in Request, EnqueueNew(u, r)
      PROVE  Typed'
  <2>1. NewTask(r) \in TaskData
    BY DEF NewTask, Unused, TaskData, Priority, Intent
  <2>2. Data'
    BY <1>2, <2>1 DEF EnqueueNew, Data, TaskStatus
  <2>3. Control'
    BY <1>0, <1>2, CallControl DEF EnqueueNew, PC, Taskless, Ret
  <2> QED
    BY <2>2, <2>3
<1>3. ASSUME NEW t \in Task, Cancel(u, t)
      PROVE  Typed'
  <2>1. Data'
    BY <1>3 DEF Cancel, Data, taskVars
  <2>2. Call(u, "refresh", NoTask, "cancel", t) \/ Call(u, "cancel", t, "finish", NoTask)
    BY <1>3 DEF Cancel
  <2>3. Control'
    BY <1>0, <2>2, CallControl DEF PC, Taskless, Ret
  <2> QED
    BY <2>1, <2>3
<1>4. CASE Snapshot(u)
  BY <1>0, <1>4 DEF Snapshot, Data, Control, Placed, Goto, PC, Taskless, taskVars
<1> QED
  BY <1>1, <1>2, <1>3, <1>4 DEF UserCall

LEMMA CancelTyped ==
  ASSUME Typed, NEW u \in Thread, CancelStep(u)
  PROVE  Typed'
<1> USE DEF Typed
<1>a. task \in [Task -> TaskData]
  BY DEF Data
<1> DEFINE t == cur[u]
<1>0. pc[u] \notin Taskless /\ t \in Task
  BY DEF CancelStep, CancelRefused, CancelQueued, CancelAgain, CancelRunning, Stop, StopSave,
         CancelConfirm, SettleCancel, Control, Placed, Taskless
<1>1. task[t].intent \in Intent
  BY <1>0 DEF Data, TaskData
<1>2. CASE CancelRefused(u)
  BY <1>2, ReturnControl DEF CancelRefused, Data, taskVars
<1>3. CASE CancelQueued(u)
  <2>1. Data'
    BY <1>3 DEF CancelQueued, Data, TaskStatus
  <2>2. Control'
    BY <1>0, <1>3, CallControl DEF CancelQueued, PC, Taskless, Ret
  <2> QED
    BY <2>1, <2>2
<1>4. CASE CancelAgain(u)
  <2>1. Control'
    BY <1>0, <1>4, StepControl DEF CancelAgain, PC
  <2> QED
    BY <1>4, <2>1 DEF CancelAgain, Data, taskVars
<1>5. CASE CancelRunning(u)
  <2>a. PICK c \in {"asked", "sent"} : task' = [task EXCEPT ![t].cancel = c]
    BY <1>5 DEF CancelRunning
  <2>b. task' \in [Task -> TaskData]
    BY <1>a, <2>a, TaskEdits
  <2>9. UNCHANGED <<status, claimed, locked, run, exclusive>>
    BY <1>5 DEF CancelRunning
  <2>1. Data'
    BY <2>b, <2>9 DEF Data
  <2>2. Step(u, "stop") \/ Step(u, "watcher")
    BY <1>5 DEF CancelRunning
  <2>3. Control'
    BY <1>0, <2>2, StepControl DEF PC
  <2> QED
    BY <2>1, <2>3
<1>6. ASSUME AfterStop(u, t)
      PROVE  Control'
  <2>1. Step(u, "watcher") \/ Call(u, "refresh", NoTask, "confirm", t)
    BY <1>6 DEF AfterStop
  <2> QED
    BY <1>0, <2>1, StepControl, CallControl DEF PC, Taskless, Ret
<1>7. CASE Stop(u)
  <2>1. Abort(u) \/ AfterStop(u, t) \/ Step(u, "stopSave")
    BY <1>7 DEF Stop
  <2>2. Control'
    BY <1>0, <1>6, <2>1, AbortControl, StepControl DEF PC
  <2> QED
    BY <1>7, <2>2 DEF Stop, Data, taskVars
<1>8. CASE StopSave(u)
  <2>1. Data'
    BY <1>0, <1>8 DEF StopSave, Data, RunData, RunStatus, taskVars
  <2> QED
    BY <1>6, <1>8, <2>1 DEF StopSave
<1>9. CASE CancelConfirm(u)
  <2>1. Step(u, "watcher") \/ Step(u, "settleCancel")
    BY <1>9 DEF CancelConfirm
  <2>2. Control'
    BY <1>0, <2>1, StepControl DEF PC
  <2> QED
    BY <1>9, <2>2 DEF CancelConfirm, Data, taskVars
<1>10. CASE SettleCancel(u)
  <2>1. task' = task \/ \E i \in Intent : task' = [task EXCEPT ![t].intent = i]
    BY <1>10, <1>1, SettledType DEF SettleCancel
  <2>2. task' \in [Task -> TaskData]
    <3>1. CASE task' = task
      BY <1>a, <3>1
    <3>2. CASE \E i \in Intent : task' = [task EXCEPT ![t].intent = i]
      <4>1. PICK i \in Intent : task' = [task EXCEPT ![t].intent = i]
        BY <3>2
      <4>2. task[t] \in TaskData
        BY <1>0, <1>a
      <4>3. [task[t] EXCEPT !.intent = i] \in TaskData
        BY <4>2 DEF TaskData
      <4> QED
        BY <1>a, <4>1, <4>3
    <3> QED
      BY <2>1, <3>1, <3>2
  <2>3. frame[u] \in Frame
    BY DEF Control
  <2>4. /\ frame[u].ret \in Ret /\ frame[u].tgt \in Task \cup {NoTask}
        /\ frame[u].ret \in {"cancel", "confirm"} => frame[u].tgt \in Task
    BY <2>3 DEF Frame, Control, Placed
  <2>5. Call(u, "refresh", NoTask, frame[u].ret, frame[u].tgt)
    BY <1>10 DEF SettleCancel
  <2>6. Control'
    BY <2>4, <2>5, CallControl DEF PC, Taskless
  <2> QED
    BY <1>10, <2>2, <2>6 DEF SettleCancel, Data
<1> QED
  BY <1>2, <1>3, <1>4, <1>5, <1>7, <1>8, <1>9, <1>10 DEF CancelStep

LEMMA StartTyped ==
  ASSUME Typed, NEW u \in Thread, StartStep(u)
  PROVE  Typed'
<1> USE DEF Typed
<1>a. task \in [Task -> TaskData]
  BY DEF Data
<1>1. CASE Pick(u)
  <2>1. CASE Return(u)
    BY <1>1, <2>1, ReturnControl DEF Pick, Data, taskVars
  <2>2. CASE ~ Return(u)
    BY <1>1, <2>2 DEF Pick, Data, Control, Placed, Goto, PC, taskVars
  <2> QED
    BY <2>1, <2>2
<1>2. CASE Admit(u)
  <2>1. Step(u, "begin") \/ Step(u, "fail")
    BY <1>2 DEF Admit
  <2>2. Control'
    BY <1>2, <2>1, StepControl DEF Admit, PC, Taskless
  <2> QED
    BY <1>2, <2>2 DEF Admit, Data, taskVars
<1>3. CASE Begin(u)
  <2>1. Step(u, "create") \/ Return(u)
    BY <1>3 DEF Begin
  <2>2. Control'
    BY <1>3, <2>1, StepControl, ReturnControl DEF Begin, PC, Taskless
  <2>3. status' \in [Task -> TaskStatus] /\ locked' \in [Task -> BOOLEAN]
    BY <1>3 DEF Begin, Data, TaskStatus
  <2> QED
    BY <1>3, <2>2, <2>3 DEF Begin, Data
<1>4. CASE Create(u)
  <2>1. Step(u, "fail") \/ Step(u, "await")
    BY <1>4 DEF Create
  <2>2. Control'
    BY <1>4, <2>1, StepControl DEF Create, PC, Taskless
  <2>3. run' \in [Task -> RunData]
    <3>1. run' = run \/ run' = [run EXCEPT ![cur[u]].thread = "alive"]
      BY <1>4 DEF Create
    <3>2. \A d \in RunData : [d EXCEPT !.thread = "alive"] \in RunData
      BY DEF RunData
    <3> QED
      BY <3>1, <3>2 DEF Data
  <2>4. UNCHANGED <<taskVars, exclusive>>
    BY <1>4 DEF Create
  <2> QED
    BY <2>2, <2>3, <2>4 DEF Data, taskVars
<1>5. CASE Await(u)
  <2>1. Step(u, "bind") \/ Step(u, "fail") \/ Step(u, "watcher")
    BY <1>5 DEF Await
  <2>2. Control'
    BY <1>5, <2>1, StepControl DEF Await, PC, Taskless
  <2>3. task' = task \/ task' = [task EXCEPT ![cur[u]].run = "attempt"]
    BY <1>5 DEF Await
  <2>4. task' \in [Task -> TaskData]
    <3>1. CASE task' = task
      BY <1>a, <3>1
    <3>2. CASE task' = [task EXCEPT ![cur[u]].run = "attempt"]
      BY <1>a, <3>2, TaskEdits
    <3> QED
      BY <2>3, <3>1, <3>2
  <2>9. UNCHANGED <<status, claimed, locked, run, exclusive>>
    BY <1>5 DEF Await
  <2> QED
    BY <2>2, <2>4, <2>9 DEF Data
<1>6. CASE Bind(u)
  <2>1. Step(u, "watcher") \/ Abort(u)
    BY <1>6 DEF Bind
  <2>2. Control'
    BY <1>6, <2>1, StepControl, AbortControl DEF Bind, PC, Taskless
  <2>3. task' = [task EXCEPT ![cur[u]].run = "bound"]
    BY <1>6 DEF Bind
  <2>4. task' \in [Task -> TaskData]
    BY <1>a, <2>3, TaskEdits
  <2>9. UNCHANGED <<status, claimed, locked, run, exclusive>>
    BY <1>6 DEF Bind
  <2> QED
    BY <2>2, <2>4, <2>9 DEF Data
<1>7. CASE EnsureWatcher(u)
  <2>1. frame[u].ret \in Ret /\ frame[u].tgt \in Task \cup {NoTask}
    BY DEF Control, Frame
  <2>2. pc' \in [Thread -> PC]
    BY <1>7, <2>1, ResumeType, ZenonT(60) DEF EnsureWatcher, Control, PC
  <2>3. cur' \in [Thread -> Task \cup {NoTask}] /\ frame' \in [Thread -> Frame]
    BY <1>7, <2>1, BottomType DEF EnsureWatcher, Control
  <2>4. Placed'
    <3> SUFFICES ASSUME NEW v \in Thread
                 PROVE  /\ pc'[v] \notin Taskless => cur'[v] \in Task
                        /\ frame'[v].ret \in {"cancel", "confirm"} => frame'[v].tgt \in Task
      BY DEF Placed
    <3>1. CASE v = u
      BY <1>7, <2>1, <3>1, ResumeType, BottomType DEF EnsureWatcher, Control, Placed, Taskless
    <3>2. CASE v # u
      BY <1>7, <3>2 DEF EnsureWatcher, Control, Placed, Taskless
    <3> QED
      BY <3>1, <3>2
  <2> QED
    BY <1>7, <2>2, <2>3, <2>4 DEF EnsureWatcher, Control, Data, taskVars
<1> QED
  BY <1>1, <1>2, <1>3, <1>4, <1>5, <1>6, <1>7 DEF StartStep

LEMMA RefreshTyped ==
  ASSUME Typed, NEW u \in Thread, RefreshStep(u)
  PROVE  Typed'
<1> USE DEF Typed
<1>a. task \in [Task -> TaskData]
  BY DEF Data
<1>1. CASE Refresh(u)
  <2>1. CASE Return(u)
    BY <1>1, <2>1, ReturnControl DEF Refresh, Data, taskVars
  <2>2. CASE ~ Return(u)
    BY <1>1, <2>2 DEF Refresh, Data, Control, Placed, Goto, PC, taskVars
  <2> QED
    BY <2>1, <2>2
<1>2. CASE Poll(u)
  <2>1. Step(u, "adopt") \/ Step(u, "expire") \/ Return(u)
    BY <1>2 DEF Poll
  <2>2. Control'
    BY <1>2, <2>1, StepControl, ReturnControl DEF Poll, PC, Taskless
  <2>3. task' = task \/ task' = [task EXCEPT ![cur[u]].run = "taken"]
    BY <1>2 DEF Poll
  <2>4. task' \in [Task -> TaskData]
    <3>1. CASE task' = task
      BY <1>a, <3>1
    <3>2. CASE task' = [task EXCEPT ![cur[u]].run = "taken"]
      BY <1>a, <3>2, TaskEdits
    <3> QED
      BY <2>3, <3>1, <3>2
  <2>9. UNCHANGED <<status, claimed, locked, run, exclusive>>
    BY <1>2 DEF Poll
  <2> QED
    BY <2>2, <2>4, <2>9 DEF Data
<1>3. CASE Adopt(u)
  <2>1. Return(u) \/ Step(u, "dispatch") \/ Abort(u)
    BY <1>3 DEF Adopt
  <2>2. Control'
    BY <1>3, <2>1, StepControl, ReturnControl, AbortControl DEF Adopt, PC, Taskless
  <2>3. task' = task \/ task' = [task EXCEPT ![cur[u]].run = "bound"]
    BY <1>3 DEF Adopt
  <2>4. task' \in [Task -> TaskData]
    <3>1. CASE task' = task
      BY <1>a, <3>1
    <3>2. CASE task' = [task EXCEPT ![cur[u]].run = "bound"]
      BY <1>a, <3>2, TaskEdits
    <3> QED
      BY <2>3, <3>1, <3>2
  <2>9. UNCHANGED <<status, claimed, locked, run, exclusive>>
    BY <1>3 DEF Adopt
  <2> QED
    BY <2>2, <2>4, <2>9 DEF Data
<1>4. CASE Expire(u)
  <2>1. Control'
    BY <1>4, StepControl DEF Expire, PC, Taskless
  <2>2. task' \in [Task -> TaskData]
    BY <1>a, <1>4, TaskEdits DEF Expire
  <2>9. UNCHANGED <<status, claimed, locked, run, exclusive>>
    BY <1>4 DEF Expire
  <2> QED
    BY <2>1, <2>2, <2>9 DEF Data
<1>5. CASE Dispatch(u)
  <2>1. Step(u, "send") \/ Step(u, "load")
    BY <1>5 DEF Dispatch
  <2>2. Control'
    BY <1>5, <2>1, StepControl DEF Dispatch, PC, Taskless
  <2>3. PICK c \in {task[cur[u]].cancel, "sent"} : task' = [task EXCEPT ![cur[u]].cancel = c]
    BY <1>5 DEF Dispatch
  <2>4. cur[u] \in Task
    BY <1>5 DEF Dispatch, Control, Placed, Taskless
  <2>5. c \in {"none", "asked", "sent"}
    BY <2>3, <2>4 DEF Data, TaskData
  <2>6. task' \in [Task -> TaskData]
    BY <1>a, <2>3, <2>5, TaskEdits
  <2>9. UNCHANGED <<status, claimed, locked, run, exclusive>>
    BY <1>5 DEF Dispatch
  <2> QED
    BY <2>2, <2>6, <2>9 DEF Data
<1>6. CASE Send(u)
  <2>1. Abort(u) \/ Step(u, "load") \/ Step(u, "sendSave")
    BY <1>6 DEF Send
  <2>2. Control'
    BY <1>6, <2>1, StepControl, AbortControl DEF Send, PC, Taskless
  <2>3. task' \in [Task -> TaskData]
    <3>1. task' = task \/ task' = [task EXCEPT ![cur[u]].cancel = "asked"]
      BY <1>6 DEF Send
    <3>2. CASE task' = task
      BY <1>a, <3>2
    <3>3. CASE task' = [task EXCEPT ![cur[u]].cancel = "asked"]
      BY <1>a, <3>3, TaskEdits
    <3> QED
      BY <3>1, <3>2, <3>3
  <2>9. UNCHANGED <<status, claimed, locked, run, exclusive>>
    BY <1>6 DEF Send
  <2> QED
    BY <2>2, <2>3, <2>9 DEF Data
<1>7. CASE SendSave(u)
  <2>1. Control'
    BY <1>7, StepControl DEF SendSave, PC, Taskless
  <2>2. run' \in [Task -> RunData]
    BY <1>7, ZenonT(60) DEF SendSave, Data, RunData, RunStatus
  <2> QED
    BY <1>7, <2>1, <2>2 DEF SendSave, Data, taskVars
<1>8. CASE Load(u)
  <2>1. CASE Return(u)
    BY <1>8, <2>1, ReturnControl DEF Load, Data, taskVars
  <2>2. CASE ~ Return(u)
    <3>1. cur[u] \in Task
      BY <1>8 DEF Load, Control, Placed, Taskless
    <3>2. run[cur[u]].store \in RunStatus
      BY <3>1 DEF Data, RunData
    <3> QED
      BY <1>8, <2>2, <3>1, <3>2 DEF Load, Data, Control, Placed, Goto, PC, taskVars
  <2> QED
    BY <2>1, <2>2
<1>9. CASE Judge(u)
  <2>1. Step(u, "claimDone") \/ Step(u, "claimCancel") \/ Step(u, "fail") \/ Return(u)
    BY <1>9 DEF Judge
  <2>2. Control'
    BY <1>9, <2>1, StepControl, ReturnControl DEF Judge, PC, Taskless
  <2> QED
    BY <1>9, <2>2 DEF Judge, Data, taskVars
<1> QED
  BY <1>1, <1>2, <1>3, <1>4, <1>5, <1>6, <1>7, <1>8, <1>9 DEF RefreshStep

LEMMA EndTyped ==
  ASSUME Typed, NEW u \in Thread, EndStep(u)
  PROVE  Typed'
<1> USE DEF Typed
<1> DEFINE t == cur[u]
<1>a. task \in [Task -> TaskData]
  BY DEF Data
<1>0. pc[u] \notin Taskless /\ t \in Task
  BY DEF EndStep, ClaimDone, Write, Succeed, ClaimCancel, FinishCancel, Fail, Failing,
         SettleEnd, Release, Control, Placed, Taskless
<1>b. task[t].intent \in Intent
  BY <1>0, <1>a DEF TaskData
<1>1. ASSUME NEW l \in {"write", "finishCancel"}, Claim(u, t, l)
      PROVE  claimed' \in [Task -> BOOLEAN] /\ Control'
  <2>1. Step(u, l) \/ Return(u)
    BY <1>1 DEF Claim
  <2>2. Control'
    BY <1>0, <2>1, StepControl, ReturnControl DEF PC
  <2> QED
    BY <1>1, <2>2 DEF Claim, Data
<1>2. CASE ClaimDone(u)
  BY <1>1, <1>2 DEF ClaimDone, Data
<1>3. CASE ClaimCancel(u)
  BY <1>1, <1>3 DEF ClaimCancel, Data
<1>4. CASE Write(u)
  <2>1. "pending" \in Intent
    BY DEF Intent
  <2>2. \/ task' = task
        \/ \E i \in {task[t].intent, "pending"} :
             task' = [task EXCEPT ![t].report = "saved", ![t].intent = i]
    <3> DEFINE sent == IF task[t].intent = "waiting" THEN "pending" ELSE task[t].intent
    <3>1. sent \in {task[t].intent, "pending"}
      OBVIOUS
    <3>2. \/ task' = [task EXCEPT ![t].report = "saved", ![t].intent = sent]
          \/ task' = task
          \/ \E i \in {task[t].intent, sent} :
               task' = [task EXCEPT ![t].report = "saved", ![t].intent = i]
      BY <1>4 DEF Write
    <3> HIDE DEF sent
    <3> QED
      BY <3>1, <3>2
  <2>3. task' \in [Task -> TaskData]
    BY <1>a, <1>b, <2>1, <2>2 DEF TaskData
  <2>4. Step(u, "succeed") \/ Step(u, "failing")
    BY <1>4 DEF Write
  <2>5. Control'
    BY <1>0, <2>4, StepControl DEF PC
  <2>9. UNCHANGED <<status, claimed, locked, run, exclusive>>
    BY <1>4 DEF Write
  <2> QED
    BY <2>3, <2>5, <2>9 DEF Data
<1>5. CASE Succeed(u) \/ FinishCancel(u) \/ Failing(u)
  <2>1. PICK s \in Terminal : status' = [status EXCEPT ![t] = s]
    BY <1>5 DEF Succeed, FinishCancel, Failing, Terminal
  <2>2. /\ Step(u, "release") \/ Step(u, "settleEnd")
        /\ UNCHANGED <<claimed, locked, task, run, exclusive>>
    BY <1>5 DEF Succeed, FinishCancel, Failing
  <2>3. Control'
    BY <1>0, <2>2, StepControl DEF PC
  <2>4. status' \in [Task -> TaskStatus]
    BY <2>1 DEF Data, Terminal, TaskStatus
  <2> QED
    BY <2>2, <2>3, <2>4 DEF Data
<1>6. CASE Fail(u)
  <2>1. Step(u, "failing") \/ Return(u)
    BY <1>6 DEF Fail
  <2>2. Control'
    BY <1>0, <2>1, StepControl, ReturnControl DEF PC
  <2>3. claimed' \in [Task -> BOOLEAN]
    BY <1>6 DEF Fail, Data
  <2> QED
    BY <1>6, <2>2, <2>3 DEF Fail, Data
<1>7. CASE SettleEnd(u)
  <2>1. \E i \in Intent : task' = [task EXCEPT ![t].intent = i]
    BY <1>7, <1>b, SettledType DEF SettleEnd
  <2>2. task' \in [Task -> TaskData]
    <3>1. PICK i \in Intent : task' = [task EXCEPT ![t].intent = i]
      BY <2>1
    <3> QED
      BY <1>a, <3>1, TaskEdits
  <2>3. Control'
    BY <1>0, <1>7, StepControl DEF SettleEnd, PC
  <2>9. UNCHANGED <<status, claimed, locked, run, exclusive>>
    BY <1>7 DEF SettleEnd
  <2> QED
    BY <2>2, <2>3, <2>9 DEF Data
<1>8. CASE Release(u)
  <2>1. locked' \in [Task -> BOOLEAN]
    BY <1>8 DEF Release, Unlocked, Data
  <2>2. frame[u] \in Frame
    BY DEF Control
  <2>3. /\ frame[u].ret \in Ret /\ frame[u].tgt \in Task \cup {NoTask}
        /\ frame[u].ret \in {"cancel", "confirm"} => frame[u].tgt \in Task
    BY <2>2 DEF Frame, Control, Placed
  <2>4. Call(u, "pick", NoTask, frame[u].ret, frame[u].tgt)
    BY <1>8 DEF Release, StartNext
  <2>5. Control'
    BY <2>3, <2>4, CallControl DEF PC, Taskless
  <2> QED
    BY <1>8, <2>1, <2>5 DEF Release, Data
<1> QED
  BY <1>2, <1>3, <1>4, <1>5, <1>6, <1>7, <1>8 DEF EndStep

LEMMA RunTyped ==
  ASSUME Typed, NEW t \in Task, RunStep(t) \/ RunDie(t)
  PROVE  Typed'
<1>1. run[t] \in RunData
  BY DEF Typed, Data
<1>2. run' \in [Task -> RunData]
  BY <1>1 DEF Typed, Data, RunStep, RunCreate, RunDecide, RunSave, RunExit, RunDie, RunData, RunStatus
<1>3. UNCHANGED <<taskVars, exclusive, threadVars>>
  BY DEF RunStep, RunCreate, RunDecide, RunSave, RunExit, RunDie
<1> QED
  BY <1>2, <1>3 DEF Typed, Data, Control, Placed, taskVars, threadVars

LEMMA StepTyped == Typed /\ [Next]_vars => Typed'
<1> SUFFICES ASSUME Typed, [Next]_vars
             PROVE  Typed'
  OBVIOUS
<1>1. CASE \E u \in User : UserCall(u)
  BY <1>1, CallTyped
<1>2. ASSUME NEW u \in Thread, MethodStep(u)
      PROVE  Typed'
  BY <1>2, CancelTyped, StartTyped, RefreshTyped, EndTyped DEF MethodStep
<1>3. ASSUME NEW u \in Thread, Watch(u)
      PROVE  Typed'
  <2>1. Step(u, "off") \/ Step(u, "refresh")
    BY <1>3 DEF Watch
  <2>2. Control'
    BY <2>1, StepControl DEF Typed, PC, Taskless
  <2> QED
    BY <1>3, <2>2 DEF Watch, Typed, Data, taskVars
<1>4. CASE \E t \in Task : RunStep(t) \/ RunDie(t)
  BY <1>4, RunTyped
<1>5. CASE ExclusiveLock \/ ExclusiveUnlock
  BY <1>5 DEF ExclusiveLock, ExclusiveUnlock, Typed, Data, Control, Placed, taskVars, threadVars
<1>6. CASE UNCHANGED vars
  BY <1>6 DEF Typed, Data, Control, Placed, vars, taskVars, threadVars
<1> QED
  BY <1>1, <1>2, <1>3, <1>4, <1>5, <1>6 DEF Next, ThreadStep

\* Every variable keeps its type, for any number of request threads and tasks.
THEOREM TypeCorrect == Spec => []TypeOK
<1>1. Init => Typed
  BY InitTyped
<1>2. Typed /\ [Next]_vars => Typed'
  BY StepTyped
<1>3. Typed => TypeOK
  BY DEF Typed, Data, Control, TypeOK
<1> QED
  BY <1>1, <1>2, <1>3, PTL DEF Spec

-----------------------------------------------------------------------------
(* The life of a task *)

Starting == {"create", "await", "bind"}
Ending   == {"write", "succeed", "finishCancel", "failing"}
Leaving  == {"settleEnd", "release"}

\* What a thread that starts, ends or lets go of a task may rely on.
ThreadInv(u) ==
  /\ pc[u] \in Starting => status[cur[u]] \in {"running"} \cup Terminal
  /\ pc[u] \in Ending   => claimed[cur[u]] /\ status[cur[u]] \in Live
  /\ pc[u] \in Leaving  => status[cur[u]] \in Terminal

\* One thread starts a task, and one ends it.
Alone(u, v) ==
  cur[u] = cur[v] =>
    /\ pc[u] \in Starting /\ pc[v] \in Starting => u = v
    /\ pc[u] \in Ending /\ pc[v] \in Ending => u = v

\* How the status, the claim and the report lock of a task go together, and who
\* will move it on.
TaskInv(t) ==
  /\ status[t] = "none" => ~claimed[t]
  /\ status[t] \in Terminal => claimed[t]
  /\ status[t] = "running" => locked[t]
  /\ locked[t] => status[t] \in {"running"} \cup Terminal
  /\ claimed[t] /\ status[t] \in Live =>
       \E u \in Thread : cur[u] = t /\ pc[u] \in Ending
  /\ status[t] \in Terminal /\ locked[t] =>
       \E u \in Thread : cur[u] = t /\ pc[u] \in Leaving

LifeInv ==
  /\ \A u \in Thread : ThreadInv(u)
  /\ \A u, v \in Thread : Alone(u, v)
  /\ \A t \in Task : TaskInv(t)

Acting == Starting \cup Ending \cup Leaving

\* A step in which thread u does not come to act on a task, nor leaves one it has to
\* move on; and one in which it goes on with what it does.
Rests(u) == pc[u] \notin Ending \cup Leaving /\ pc'[u] \notin Acting
Keeps(u) ==
  /\ cur'[u] = cur[u]
  /\ pc'[u] \in Starting <=> pc[u] \in Starting
  /\ pc'[u] \in Ending <=> pc[u] \in Ending
  /\ pc'[u] \in Leaving <=> pc[u] \in Leaving

Others(u) == \A v \in Thread \ {u} : pc'[v] = pc[v] /\ cur'[v] = cur[v]

\* A task that the step leaves alone, with the threads that act on it.
LEMMA OtherTask ==
  ASSUME LifeInv, NEW t \in Task,
         status'[t] = status[t], claimed'[t] = claimed[t], locked'[t] = locked[t],
         \A v \in Thread : cur[v] = t /\ pc[v] \in Ending \cup Leaving => Keeps(v)
  PROVE  TaskInv(t)'
<1>1. TaskInv(t)
  BY DEF LifeInv
<1>2. \A u \in Thread : cur[u] = t /\ pc[u] \in Ending =>
                         cur'[u] = t /\ pc'[u] \in Ending
  BY DEF Keeps
<1>3. \A u \in Thread : cur[u] = t /\ pc[u] \in Leaving =>
                         cur'[u] = t /\ pc'[u] \in Leaving
  BY DEF Keeps
<1> QED
  BY <1>1, <1>2, <1>3 DEF TaskInv

LEMMA QuietLife ==
  ASSUME LifeInv, UNCHANGED <<status, claimed, locked>>,
         \A v \in Thread : Rests(v) \/ Keeps(v)
  PROVE  LifeInv'
<1>1. \A u \in Thread : ThreadInv(u)'
  BY DEF LifeInv, ThreadInv, Rests, Keeps, Acting
<1>2. \A u, v \in Thread : Alone(u, v)'
  BY DEF LifeInv, Alone, Rests, Keeps, Acting
<1>3. \A t \in Task : TaskInv(t)'
  BY OtherTask DEF Rests
<1> QED
  BY <1>1, <1>2, <1>3 DEF LifeInv

LEMMA RestsLife ==
  ASSUME LifeInv, NEW u \in Thread, UNCHANGED <<status, claimed, locked>>,
         Others(u), Rests(u) \/ Keeps(u)
  PROVE  LifeInv'
<1>1. \A v \in Thread : Rests(v) \/ Keeps(v)
  BY DEF Others, Keeps
<1> QED
  BY <1>1, QuietLife

(* Where the four ways to move a thread leave it *)

LEMMA StepMoves ==
  ASSUME Control, NEW u \in Thread, NEW l, Step(u, l)
  PROVE  pc'[u] = l /\ cur'[u] = cur[u] /\ Others(u)
BY DEF Control, Step, Goto, Others

LEMMA CallMoves ==
  ASSUME Control, NEW u \in Thread, NEW l, NEW t, NEW ret, NEW tgt, Call(u, l, t, ret, tgt)
  PROVE  pc'[u] = l /\ Others(u)
BY DEF Control, Call, Goto, Others

LEMMA ReturnMoves ==
  ASSUME Control, NEW u \in Thread, Return(u)
  PROVE  pc'[u] \notin Acting /\ Others(u)
<1>1. frame[u].ret \in Ret
  BY DEF Control, Frame
<1>2. Resume[frame[u].ret] \notin Acting
  BY <1>1, ResumeType DEF Taskless, Acting, Starting, Ending, Leaving
<1> QED
  BY <1>2 DEF Control, Return, Goto, Others

LEMMA AbortMoves ==
  ASSUME Control, NEW u \in Thread, Abort(u)
  PROVE  pc'[u] \notin Acting /\ Others(u)
<1>1. Bottom(u).ret \in Ret
  BY BottomType DEF Frame
<1>2. Resume[Bottom(u).ret] \notin Acting
  BY <1>1, ResumeType DEF Taskless, Acting, Starting, Ending, Leaving
<1> QED
  BY <1>2 DEF Control, Abort, Goto, Others

(* Every step keeps the life of the tasks *)

LEMMA CallLife ==
  ASSUME Typed, LifeInv, NEW u \in User, UserCall(u)
  PROVE  LifeInv'
<1> USE DEF Typed
<1>0. u \in Thread
  BY DEF Thread
<1>a. pc[u] = "idle"
  BY DEF UserCall, EnqueueJoin, EnqueueNew, Cancel, Snapshot
<1>1. ASSUME NEW r \in Request, EnqueueJoin(u, r)
      PROVE  LifeInv'
  <2>1. CASE UNCHANGED threadVars
    BY <1>0, <1>1, <2>1, RestsLife DEF EnqueueJoin, threadVars, Others, Keeps
  <2>2. CASE Call(u, "refresh", NoTask, "finish", NoTask)
    <3>1. pc'[u] = "refresh" /\ Others(u)
      BY <1>0, <2>2, CallMoves
    <3> QED
      BY <1>0, <1>1, <1>a, <3>1, RestsLife DEF EnqueueJoin, Rests, Acting, Starting, Ending, Leaving
  <2> QED
    BY <1>1, <2>1, <2>2 DEF EnqueueJoin
<1>2. ASSUME NEW r \in Request, EnqueueNew(u, r)
      PROVE  LifeInv'
  <2>1. PICK t \in Task : status[t] = "none" /\ status' = [status EXCEPT ![t] = "queued"]
    BY <1>2 DEF EnqueueNew
  <2>2. pc'[u] = "pick" /\ Others(u)
    BY <1>0, <1>2, CallMoves DEF EnqueueNew
  <2>3. \A v \in Thread : Rests(v) \/ Keeps(v)
    BY <1>a, <2>2 DEF Others, Keeps, Rests, Acting, Starting, Ending, Leaving
  <2>4. UNCHANGED <<claimed, locked>>
    BY <1>2 DEF EnqueueNew
  <2>5. ~claimed[t] /\ ~locked[t]
    BY <2>1 DEF LifeInv, TaskInv, Terminal
  <2>6. status'[t] = "queued" /\ \A x : x # t => status'[x] = status[x]
    BY <2>1 DEF Data
  <2>7. ASSUME NEW v \in Thread
        PROVE  ThreadInv(v)'
    BY <2>1, <2>3, <2>4, <2>6 DEF LifeInv, ThreadInv, Rests, Keeps, Acting, Live, Terminal
  <2>8. \A v, w \in Thread : Alone(v, w)'
    BY <2>3 DEF LifeInv, Alone, Rests, Keeps, Acting
  <2>9. ASSUME NEW x \in Task
        PROVE  TaskInv(x)'
    <3>1. CASE x = t
      BY <2>4, <2>5, <2>6, <3>1 DEF TaskInv, Live, Terminal
    <3>2. CASE x # t
      BY <2>3, <2>4, <2>6, <3>2, OtherTask DEF Rests
    <3> QED
      BY <3>1, <3>2
  <2> QED
    BY <2>7, <2>8, <2>9 DEF LifeInv
<1>3. ASSUME NEW t \in Task, Cancel(u, t)
      PROVE  LifeInv'
  <2>1. Call(u, "refresh", NoTask, "cancel", t) \/ Call(u, "cancel", t, "finish", NoTask)
    BY <1>3 DEF Cancel
  <2>2. pc'[u] \in {"refresh", "cancel"} /\ Others(u)
    BY <1>0, <2>1, CallMoves
  <2> QED
    BY <1>0, <1>3, <1>a, <2>2, RestsLife DEF Cancel, taskVars, Rests, Acting, Starting, Ending, Leaving
<1>4. CASE Snapshot(u)
  <2>1. pc'[u] = "refresh" /\ Others(u)
    BY <1>0, <1>4 DEF Snapshot, Goto, Control, Others
  <2> QED
    BY <1>0, <1>4, <1>a, <2>1, RestsLife DEF Snapshot, taskVars, Rests, Acting, Starting, Ending, Leaving
<1> QED
  BY <1>1, <1>2, <1>3, <1>4 DEF UserCall

LEMMA CancelLife ==
  ASSUME Typed, LifeInv, NEW u \in Thread, CancelStep(u)
  PROVE  LifeInv'
<1> USE DEF Typed
<1> DEFINE t == cur[u]
<1>0. pc[u] \in {"cancel", "stop", "stopSave", "confirm", "settleCancel"} /\ t \in Task
  BY DEF CancelStep, CancelRefused, CancelQueued, CancelAgain, CancelRunning, Stop, StopSave,
         CancelConfirm, SettleCancel, Control, Placed, Taskless
<1>1. CASE CancelQueued(u)
  <2>1. pc'[u] = "settleCancel" /\ Others(u)
    BY <1>1, CallMoves DEF CancelQueued
  <2>2. \A v \in Thread : Rests(v) \/ Keeps(v)
    BY <1>0, <2>1 DEF Others, Keeps, Rests, Acting, Starting, Ending, Leaving
  <2>3. /\ status[t] = "queued" /\ ~claimed[t] /\ ~locked[t]
        /\ UNCHANGED locked
    BY <1>0, <1>1 DEF CancelQueued, CancellableInQueue, LifeInv, TaskInv, Terminal
  <2>4. /\ status'[t] = "cancelled" /\ claimed'[t]
        /\ \A x : x # t => status'[x] = status[x] /\ claimed'[x] = claimed[x]
    BY <1>0, <1>1 DEF CancelQueued, Data
  <2>5. ASSUME NEW v \in Thread
        PROVE  ThreadInv(v)'
    BY <2>2, <2>3, <2>4 DEF LifeInv, ThreadInv, Rests, Keeps, Acting, Live, Terminal
  <2>6. \A v, w \in Thread : Alone(v, w)'
    BY <2>2 DEF LifeInv, Alone, Rests, Keeps, Acting
  <2>7. ASSUME NEW x \in Task
        PROVE  TaskInv(x)'
    <3>1. CASE x = t
      BY <2>3, <2>4, <3>1 DEF TaskInv, Live, Terminal
    <3>2. CASE x # t
      BY <2>2, <2>3, <2>4, <3>2, OtherTask DEF Rests
    <3> QED
      BY <3>1, <3>2
  <2> QED
    BY <2>5, <2>6, <2>7 DEF LifeInv
<1>2. ASSUME AfterStop(u, t)
      PROVE  pc'[u] \in {"refresh", "watcher"} /\ Others(u)
  BY <1>2, StepMoves, CallMoves DEF AfterStop
<1>3. CASE ~ CancelQueued(u)
  <2>1. UNCHANGED <<status, claimed, locked>>
    BY <1>3 DEF CancelStep, CancelRefused, CancelAgain, CancelRunning, Stop, StopSave,
               CancelConfirm, SettleCancel, taskVars
  <2>2. pc'[u] \notin Acting /\ Others(u)
    <3>1. CASE CancelRefused(u)
      BY <3>1, ReturnMoves DEF CancelRefused
    <3>2. CASE CancelAgain(u) \/ CancelConfirm(u) \/ SettleCancel(u)
      <4>1. \/ Call(u, "refresh", NoTask, frame[u].ret, frame[u].tgt)
            \/ Step(u, "watcher") \/ Step(u, "settleCancel")
        BY <3>2 DEF CancelAgain, CancelConfirm, SettleCancel
      <4> QED
        BY <4>1, StepMoves, CallMoves DEF Acting, Starting, Ending, Leaving
    <3>3. CASE CancelRunning(u)
      <4>1. Step(u, "stop") \/ Step(u, "watcher")
        BY <3>3 DEF CancelRunning
      <4> QED
        BY <4>1, StepMoves DEF Acting, Starting, Ending, Leaving
    <3>4. CASE Stop(u) \/ StopSave(u)
      <4>1. Abort(u) \/ AfterStop(u, t) \/ Step(u, "stopSave")
        BY <3>4 DEF Stop, StopSave
      <4> QED
        BY <1>2, <4>1, StepMoves, AbortMoves DEF Acting, Starting, Ending, Leaving
    <3> QED
      BY <1>3, <3>1, <3>2, <3>3, <3>4 DEF CancelStep
  <2> QED
    BY <1>0, <2>1, <2>2, RestsLife DEF Rests, Ending, Leaving
<1> QED
  BY <1>1, <1>3

LEMMA BeginLife ==
  ASSUME Typed, LifeInv, NEW u \in Thread, Begin(u)
  PROVE  LifeInv'
<1> USE DEF Typed
<1> DEFINE t == cur[u]
<1>0. pc[u] = "begin" /\ t \in Task
  BY DEF Begin, Control, Placed, Taskless
<1>1. CASE ~ Startable(t)
  <2>1. Return(u) /\ UNCHANGED <<status, claimed, locked>>
    BY <1>1 DEF Begin
  <2> QED
    BY <1>0, <2>1, ReturnMoves, RestsLife DEF Rests, Ending, Leaving
<1>2. CASE Startable(t)
  <2>1. pc'[u] = "create" /\ cur'[u] = t /\ Others(u)
    BY <1>2, StepMoves DEF Begin
  <2>2. status[t] = "queued" /\ ~claimed[t] /\ UNCHANGED claimed
    BY <1>2 DEF Begin, Startable
  <2>3. /\ status'[t] = "running" /\ locked'[t]
        /\ \A x : x # t => status'[x] = status[x] /\ locked'[x] = locked[x]
    <3>1. status' = [status EXCEPT ![t] = "running"] /\ locked' = [locked EXCEPT ![t] = TRUE]
      BY <1>2 DEF Begin
    <3>2. status \in [Task -> TaskStatus] /\ locked \in [Task -> BOOLEAN]
      BY DEF Data
    <3> QED
      BY <1>0, <3>1, <3>2
  <2>4. \A v \in Thread : cur[v] = t => pc[v] \notin Acting
    BY <2>2 DEF LifeInv, ThreadInv, Acting, Terminal
  <2>5. ASSUME NEW v \in Thread
        PROVE  ThreadInv(v)'
    BY <2>1, <2>2, <2>3, <2>4 DEF Others, LifeInv, ThreadInv, Acting, Starting, Ending, Leaving
  <2>6. \A v, w \in Thread : Alone(v, w)'
    BY <2>1, <2>4 DEF Others, LifeInv, Alone, Acting, Starting, Ending, Leaving
  <2>7. ASSUME NEW x \in Task
        PROVE  TaskInv(x)'
    <3>1. CASE x = t
      BY <2>2, <2>3, <3>1 DEF TaskInv, Terminal
    <3>2. CASE x # t
      BY <1>0, <2>1, <2>2, <2>3, <3>2, OtherTask DEF Others, Keeps, Ending
    <3> QED
      BY <3>1, <3>2
  <2> QED
    BY <2>5, <2>6, <2>7 DEF LifeInv
<1> QED
  BY <1>1, <1>2

LEMMA StartLife ==
  ASSUME Typed, LifeInv, NEW u \in Thread, StartStep(u)
  PROVE  LifeInv'
<1> USE DEF Typed
<1>1. CASE Begin(u)
  BY <1>1, BeginLife
<1>2. CASE ~ Begin(u)
  <2>1. UNCHANGED <<status, claimed, locked>>
    BY <1>2 DEF StartStep, Pick, Admit, Create, Await, Bind, EnsureWatcher, taskVars
  <2>2. CASE Pick(u)
    <3>1. pc'[u] \notin Acting /\ Others(u)
      <4>1. CASE Return(u)
        BY <4>1, ReturnMoves
      <4>2. CASE ~ Return(u)
        BY <2>2, <4>2 DEF Pick, Goto, Control, Others, Acting, Starting, Ending, Leaving
      <4> QED
        BY <4>1, <4>2
    <3> QED
      BY <2>1, <2>2, <3>1, RestsLife DEF Pick, Rests, Ending, Leaving
  <2>3. CASE Admit(u)
    <3>1. Step(u, "begin") \/ Step(u, "fail")
      BY <2>3 DEF Admit
    <3> QED
      BY <2>1, <2>3, <3>1, StepMoves, RestsLife DEF Admit, Rests, Acting, Starting, Ending, Leaving
  <2>4. CASE Create(u)
    <3>1. Step(u, "fail") \/ Step(u, "await")
      BY <2>4 DEF Create
    <3> QED
      BY <2>1, <2>4, <3>1, StepMoves, RestsLife
         DEF Create, Rests, Keeps, Acting, Starting, Ending, Leaving
  <2>5. CASE Await(u)
    <3>1. Step(u, "bind") \/ Step(u, "fail") \/ Step(u, "watcher")
      BY <2>5 DEF Await
    <3> QED
      BY <2>1, <2>5, <3>1, StepMoves, RestsLife
         DEF Await, Rests, Keeps, Acting, Starting, Ending, Leaving
  <2>6. CASE Bind(u)
    <3>1. pc[u] = "bind"
      BY <2>6 DEF Bind
    <3>2. Step(u, "watcher") \/ Abort(u)
      BY <2>6 DEF Bind
    <3>3. pc'[u] \notin Acting /\ Others(u)
      BY <3>2, StepMoves, AbortMoves DEF Acting, Starting, Ending, Leaving
    <3> QED
      BY <2>1, <3>1, <3>3, RestsLife DEF Rests, Ending, Leaving
  <2>7. CASE EnsureWatcher(u)
    <3>1. frame[u].ret \in Ret /\ pc[u] = "watcher"
      BY <2>7 DEF EnsureWatcher, Control, Frame
    <3>2. Resume[frame[u].ret] \notin Acting /\ Resume[frame[u].ret] # "off"
      BY <3>1, ResumeType DEF Taskless, Acting, Starting, Ending, Leaving, Resume, Ret
    <3>3. ASSUME NEW v \in Thread
          PROVE  Rests(v) \/ Keeps(v)
      <4>1. CASE v = u
        BY <2>7, <3>1, <3>2, <4>1 DEF EnsureWatcher, Control, Rests, Acting, Starting, Ending, Leaving
      <4>2. CASE v # u
        BY <2>7, <4>2 DEF EnsureWatcher, Control, Keeps, Starting, Ending, Leaving
      <4> QED
        BY <4>1, <4>2
    <3> QED
      BY <2>1, <3>3, QuietLife
  <2> QED
    BY <1>2, <2>2, <2>3, <2>4, <2>5, <2>6, <2>7 DEF StartStep
<1> QED
  BY <1>1, <1>2

LEMMA RefreshLife ==
  ASSUME Typed, LifeInv, NEW u \in Thread, RefreshStep(u)
  PROVE  LifeInv'
<1> USE DEF Typed
<1>1. UNCHANGED <<status, claimed, locked>>
  BY DEF RefreshStep, Refresh, Poll, Adopt, Expire, Dispatch, Send, SendSave, Load, Judge, taskVars
<1>2. pc[u] \notin Acting
  BY DEF RefreshStep, Refresh, Poll, Adopt, Expire, Dispatch, Send, SendSave, Load, Judge,
         Acting, Starting, Ending, Leaving
<1>3. CASE \/ Return(u) \/ Abort(u)
           \/ \E l \in PC \ Acting : Step(u, l)
  BY <1>1, <1>2, <1>3, ReturnMoves, AbortMoves, StepMoves, RestsLife DEF Rests, Acting
<1>4. CASE Refresh(u) /\ ~ Return(u)
  <2>1. pc'[u] \in {"dispatch", "poll"} /\ Others(u)
    BY <1>4 DEF Refresh, Goto, Control, Others
  <2> QED
    BY <1>1, <1>2, <2>1, RestsLife DEF Rests, Acting, Starting, Ending, Leaving
<1>5. CASE Load(u) /\ ~ Return(u)
  <2>1. pc'[u] = "judge" /\ Others(u)
    BY <1>5 DEF Load, Goto, Control, Others
  <2> QED
    BY <1>1, <1>2, <2>1, RestsLife DEF Rests, Acting, Starting, Ending, Leaving
<1>6. CASE Poll(u) \/ Adopt(u) \/ Expire(u) \/ Dispatch(u) \/ Send(u) \/ SendSave(u) \/ Judge(u)
  <2>1. \/ Return(u) \/ Abort(u)
        \/ Step(u, "adopt") \/ Step(u, "expire") \/ Step(u, "dispatch") \/ Step(u, "fail")
        \/ Step(u, "send") \/ Step(u, "load") \/ Step(u, "sendSave")
        \/ Step(u, "claimDone") \/ Step(u, "claimCancel")
    BY <1>6 DEF Poll, Adopt, Expire, Dispatch, Send, SendSave, Judge
  <2> QED
    BY <1>3, <2>1 DEF PC, Acting, Starting, Ending, Leaving
<1> QED
  BY <1>3, <1>4, <1>5, <1>6 DEF RefreshStep

\* The terminalization claim.
LEMMA ClaimLife ==
  ASSUME Typed, LifeInv, NEW u \in Thread, NEW l \in Ending, pc[u] \notin Acting,
         cur[u] \in Task, status[cur[u]] \in Live, ~claimed[cur[u]],
         claimed' = [claimed EXCEPT ![cur[u]] = TRUE], Step(u, l), UNCHANGED <<status, locked>>
  PROVE  LifeInv'
<1> USE DEF Typed
<1> DEFINE t == cur[u]
<1>1. pc'[u] = l /\ cur'[u] = t /\ Others(u)
  BY StepMoves
<1>2. claimed'[t] = TRUE /\ \A x : x # t => claimed'[x] = claimed[x]
  <2>1. claimed \in [Task -> BOOLEAN]
    BY DEF Data
  <2> QED
    BY <2>1
<1>3. \A v \in Thread : cur[v] = t => pc[v] \notin Ending \cup Leaving
  BY DEF LifeInv, ThreadInv, Live, Terminal
<1>4. l \notin Starting /\ l \notin Leaving
  BY DEF Starting, Ending, Leaving
<1>5. ASSUME NEW v \in Thread
      PROVE  ThreadInv(v)'
  BY <1>1, <1>2, <1>3, <1>4 DEF Others, LifeInv, ThreadInv
<1>6. \A v, w \in Thread : Alone(v, w)'
  BY <1>1, <1>3, <1>4 DEF Others, LifeInv, Alone
<1>7. ASSUME NEW x \in Task
      PROVE  TaskInv(x)'
  <2>1. CASE x = t
    <3>1. TaskInv(t) /\ UNCHANGED <<status, locked>>
      BY DEF LifeInv
    <3>2. \E v \in Thread : cur'[v] = t /\ pc'[v] \in Ending
      BY <1>1
    <3> QED
      BY <1>2, <2>1, <3>1, <3>2 DEF TaskInv, Live, Terminal
  <2>2. CASE x # t
    BY <1>1, <1>2, <2>2, OtherTask DEF Others, Keeps
  <2> QED
    BY <2>1, <2>2
<1> QED
  BY <1>5, <1>6, <1>7 DEF LifeInv

\* The end of a task, by the thread that claimed it.
LEMMA FinishLife ==
  ASSUME Typed, LifeInv, NEW u \in Thread, Succeed(u) \/ FinishCancel(u) \/ Failing(u)
  PROVE  LifeInv'
<1> USE DEF Typed
<1> DEFINE t == cur[u]
<1>0. pc[u] \in Ending /\ t \in Task
  BY DEF Succeed, FinishCancel, Failing, Ending, Control, Placed, Taskless
<1>1. pc'[u] \in Leaving /\ cur'[u] = t /\ Others(u)
  BY StepMoves DEF Succeed, FinishCancel, Failing, Leaving
<1>2. PICK s \in Terminal : status' = [status EXCEPT ![t] = s]
  BY DEF Succeed, FinishCancel, Failing, Terminal
<1>3. status'[t] \in Terminal /\ \A x : x # t => status'[x] = status[x]
  BY <1>0, <1>2 DEF Data
<1>4. UNCHANGED <<claimed, locked>>
  BY DEF Succeed, FinishCancel, Failing
<1>5. claimed[t] /\ status[t] \in Live
  BY <1>0 DEF LifeInv, ThreadInv
<1>6. \A v \in Thread \ {u} : cur[v] = t => pc[v] \notin Ending \cup Leaving
  BY <1>0, <1>5 DEF LifeInv, ThreadInv, Alone, Live, Terminal
<1>7. ASSUME NEW v \in Thread
      PROVE  ThreadInv(v)'
  BY <1>1, <1>3, <1>4, <1>6 DEF Others, LifeInv, ThreadInv, Starting, Ending, Leaving
<1>8. \A v, w \in Thread : Alone(v, w)'
  BY <1>1 DEF Others, LifeInv, Alone, Starting, Ending, Leaving
<1>9. ASSUME NEW x \in Task
      PROVE  TaskInv(x)'
  <2>1. CASE x = t
    BY <1>1, <1>3, <1>4, <1>5, <2>1 DEF TaskInv, Live, Terminal
  <2>2. CASE x # t
    BY <1>1, <1>3, <1>4, <2>2, OtherTask DEF Others, Keeps
  <2> QED
    BY <2>1, <2>2
<1> QED
  BY <1>7, <1>8, <1>9 DEF LifeInv

LEMMA ReleaseLife ==
  ASSUME Typed, LifeInv, NEW u \in Thread, Release(u)
  PROVE  LifeInv'
<1> USE DEF Typed
<1> DEFINE t == cur[u]
<1>0. pc[u] = "release" /\ t \in Task /\ UNCHANGED <<status, claimed>>
  BY DEF Release, Control, Placed, Taskless
<1>1. pc'[u] = "pick" /\ Others(u)
  BY CallMoves DEF Release, StartNext
<1>2. locked'[t] = FALSE /\ \A x : x # t => locked'[x] = locked[x]
  <2>1. locked' = [locked EXCEPT ![t] = FALSE] /\ locked \in [Task -> BOOLEAN]
    BY DEF Release, Unlocked, Data
  <2> QED
    BY <1>0, <2>1
<1>3. status[t] \in Terminal
  BY <1>0 DEF LifeInv, ThreadInv, Leaving
<1>4. ASSUME NEW v \in Thread
      PROVE  ThreadInv(v)'
  BY <1>0, <1>1 DEF Others, LifeInv, ThreadInv, Starting, Ending, Leaving
<1>5. \A v, w \in Thread : Alone(v, w)'
  BY <1>1 DEF Others, LifeInv, Alone, Starting, Ending, Leaving
<1>6. ASSUME NEW x \in Task
      PROVE  TaskInv(x)'
  <2>1. CASE x = t
    <3>1. TaskInv(t)
      BY <1>0 DEF LifeInv
    <3> QED
      BY <1>0, <1>2, <1>3, <2>1, <3>1 DEF TaskInv, Live, Terminal
  <2>2. CASE x # t
    BY <1>0, <1>1, <1>2, <2>2, OtherTask DEF Others, Keeps
  <2> QED
    BY <2>1, <2>2
<1> QED
  BY <1>4, <1>5, <1>6 DEF LifeInv

LEMMA EndLife ==
  ASSUME Typed, LifeInv, NEW u \in Thread, EndStep(u)
  PROVE  LifeInv'
<1> USE DEF Typed
<1> DEFINE t == cur[u]
<1>1. CASE ClaimDone(u) \/ ClaimCancel(u) \/ Fail(u)
  <2>1. pc[u] \notin Acting /\ t \in Task
    BY <1>1 DEF ClaimDone, ClaimCancel, Fail, Control, Placed, Taskless, Acting, Starting, Ending, Leaving
  <2>2. CASE Return(u) /\ UNCHANGED claimed
    <3>1. UNCHANGED <<status, claimed, locked>>
      BY <1>1, <2>2 DEF ClaimDone, ClaimCancel, Fail
    <3> QED
      BY <2>1, <2>2, <3>1, ReturnMoves, RestsLife DEF Rests, Acting
  <2>3. CASE ~ (Return(u) /\ UNCHANGED claimed)
    <3>1. /\ status[t] \in Live /\ ~claimed[t]
          /\ claimed' = [claimed EXCEPT ![t] = TRUE]
          /\ Step(u, "write") \/ Step(u, "finishCancel") \/ Step(u, "failing")
          /\ UNCHANGED <<status, locked>>
      BY <1>1, <2>3 DEF ClaimDone, ClaimCancel, Fail, Claim, Claimable, Live
    <3> QED
      BY <2>1, <3>1, ClaimLife DEF Ending
  <2> QED
    BY <2>2, <2>3
<1>2. CASE Write(u) \/ SettleEnd(u)
  <2>1. \/ pc[u] = "write" /\ (Step(u, "succeed") \/ Step(u, "failing"))
        \/ pc[u] = "settleEnd" /\ Step(u, "release")
    BY <1>2 DEF Write, SettleEnd
  <2>2. UNCHANGED <<status, claimed, locked>>
    BY <1>2 DEF Write, SettleEnd
  <2> QED
    BY <2>1, <2>2, StepMoves, RestsLife DEF Keeps, Starting, Ending, Leaving
<1> QED
  BY <1>1, <1>2, FinishLife, ReleaseLife DEF EndStep

LEMMA StepLife == Typed /\ LifeInv /\ [Next]_vars => LifeInv'
<1> SUFFICES ASSUME Typed, LifeInv, [Next]_vars
             PROVE  LifeInv'
  OBVIOUS
<1>1. CASE \E u \in User : UserCall(u)
  BY <1>1, CallLife
<1>2. ASSUME NEW u \in Thread, MethodStep(u)
      PROVE  LifeInv'
  BY <1>2, CancelLife, StartLife, RefreshLife, EndLife DEF MethodStep
<1>3. ASSUME NEW u \in Thread, Watch(u)
      PROVE  LifeInv'
  <2>1. Step(u, "off") \/ Step(u, "refresh")
    BY <1>3 DEF Watch
  <2> QED
    BY <1>3, <2>1, StepMoves, RestsLife
       DEF Watch, Typed, taskVars, Rests, Acting, Starting, Ending, Leaving
<1>4. CASE \/ \E t \in Task : RunStep(t) \/ RunDie(t)
           \/ ExclusiveLock \/ ExclusiveUnlock \/ UNCHANGED vars
  <2>1. UNCHANGED <<status, claimed, locked, pc, cur>>
    BY <1>4 DEF RunStep, RunCreate, RunDecide, RunSave, RunExit, RunDie, ExclusiveLock,
               ExclusiveUnlock, vars, taskVars, threadVars
  <2> QED
    BY <2>1, QuietLife DEF Keeps
<1> QED
  BY <1>1, <1>2, <1>3, <1>4 DEF Next, ThreadStep

LEMMA InitLife == Init => LifeInv
BY DEF Init, LifeInv, ThreadInv, Alone, TaskInv, Starting, Ending, Leaving, Terminal, Live

LEMMA LifeCorrect == Spec => [](Typed /\ LifeInv)
<1>1. Init => Typed /\ LifeInv
  BY InitTyped, InitLife
<1>2. Typed /\ LifeInv /\ [Next]_vars => (Typed /\ LifeInv)'
  BY StepTyped, StepLife
<1> QED
  BY <1>1, <1>2, PTL DEF Spec

\* However many threads pick the same head of the queue, one of them starts it.
THEOREM OneStarterCorrect == Spec => []OneStarter
<1>1. Typed /\ LifeInv => OneStarter
  BY DEF LifeInv, Alone, OneStarter, Starters, Starting
<1> QED
  BY <1>1, LifeCorrect, PTL

\* A live task is claimed exactly while one thread is ending it.
THEOREM OneFinisherCorrect == Spec => []OneFinisher
<1>1. Typed /\ LifeInv => OneFinisher
  <2> SUFFICES ASSUME LifeInv, NEW t \in Task
               PROVE  /\ \A u, v \in Finishers(t) : u = v
                      /\ (claimed[t] /\ status[t] \in Live) <=> Finishers(t) # {}
    BY DEF OneFinisher
  <2>1. \A u \in Thread : u \in Finishers(t) <=> cur[u] = t /\ pc[u] \in Ending
    BY DEF Finishers, Ending
  <2>2. Finishers(t) \subseteq Thread
    BY DEF Finishers
  <2>3. \A u, v \in Finishers(t) : u = v
    BY <2>1, <2>2 DEF LifeInv, Alone
  <2>4. (claimed[t] /\ status[t] \in Live) => Finishers(t) # {}
    BY <2>1 DEF LifeInv, TaskInv
  <2>5. Finishers(t) # {} => (claimed[t] /\ status[t] \in Live)
    BY <2>1, <2>2 DEF LifeInv, ThreadInv
  <2> QED
    BY <2>3, <2>4, <2>5
<1> QED
  BY <1>1, LifeCorrect, PTL

\* A task that is RUNNING is covered by the shared report lock.
THEOREM RunningHoldsLockCorrect == Spec => []RunningHoldsLock
<1>1. Typed /\ LifeInv => RunningHoldsLock
  BY DEF LifeInv, TaskInv, RunningHoldsLock
<1> QED
  BY <1>1, LifeCorrect, PTL

\* A task that has ended holds the report lock only while a thread is about to let
\* go of it.
THEOREM LockReleasedAfterEndCorrect == Spec => []LockReleasedAfterEnd
<1>1. Typed /\ LifeInv => LockReleasedAfterEnd
  BY DEF LifeInv, TaskInv, LockReleasedAfterEnd, Releasers, Leaving
<1> QED
  BY <1>1, LifeCorrect, PTL

LEMMA StepKeepsEnd ==
  ASSUME Typed, LifeInv, [Next]_vars, NEW t \in Task, status[t] \in Terminal
  PROVE  status'[t] = status[t]
<1>1. CASE UNCHANGED status
  BY <1>1
<1>2. ASSUME NEW u \in User, NEW r \in Request, EnqueueNew(u, r)
      PROVE  status'[t] = status[t]
  <2>1. PICK s \in Task : status[s] = "none" /\ status' = [status EXCEPT ![s] = "queued"]
    BY <1>2 DEF EnqueueNew
  <2> QED
    BY <2>1 DEF Typed, Data, Terminal
<1>3. ASSUME NEW u \in Thread, CancelQueued(u)
      PROVE  status'[t] = status[t]
  BY <1>3 DEF CancelQueued, CancellableInQueue, Typed, Data, Terminal
<1>4. ASSUME NEW u \in Thread, Begin(u)
      PROVE  status'[t] = status[t]
  BY <1>4 DEF Begin, Startable, Typed, Data, Terminal
<1>5. ASSUME NEW u \in Thread, Succeed(u) \/ FinishCancel(u) \/ Failing(u)
      PROVE  status'[t] = status[t]
  <2>1. pc[u] \in Ending /\ \E s \in Terminal : status' = [status EXCEPT ![cur[u]] = s]
    BY <1>5 DEF Succeed, FinishCancel, Failing, Ending, Terminal
  <2>2. status[cur[u]] \in Live
    BY <2>1 DEF LifeInv, ThreadInv
  <2>3. cur[u] # t
    BY <2>2 DEF Live, Terminal
  <2> QED
    BY <2>1, <2>3 DEF Typed, Data
<1>6. \/ UNCHANGED status
      \/ \E u \in User, r \in Request : EnqueueNew(u, r)
      \/ \E u \in Thread : CancelQueued(u) \/ Begin(u) \/ Succeed(u) \/ FinishCancel(u) \/ Failing(u)
  <2>1. CASE \E u \in User : UserCall(u)
    BY <2>1 DEF UserCall, EnqueueJoin, Cancel, Snapshot, taskVars
  <2>2. ASSUME NEW u \in Thread, ThreadStep(u)
        PROVE  UNCHANGED status \/ CancelQueued(u) \/ Begin(u) \/ Succeed(u) \/ FinishCancel(u) \/ Failing(u)
    <3>1. CASE CancelStep(u)
      BY <3>1 DEF CancelStep, CancelRefused, CancelAgain, CancelRunning, Stop, StopSave,
                  CancelConfirm, SettleCancel, taskVars
    <3>2. CASE StartStep(u)
      BY <3>2 DEF StartStep, Pick, Admit, Create, Await, Bind, EnsureWatcher, taskVars
    <3>3. CASE RefreshStep(u)
      BY <3>3 DEF RefreshStep, Refresh, Poll, Adopt, Expire, Dispatch, Send, SendSave, Load,
                  Judge, taskVars
    <3>4. CASE EndStep(u)
      BY <3>4 DEF EndStep, ClaimDone, Write, ClaimCancel, Fail, SettleEnd, Release
    <3>5. CASE Watch(u)
      BY <3>5 DEF Watch, taskVars
    <3> QED
      BY <2>2, <3>1, <3>2, <3>3, <3>4, <3>5 DEF ThreadStep, MethodStep
  <2>3. CASE \/ \E x \in Task : RunStep(x) \/ RunDie(x)
             \/ ExclusiveLock \/ ExclusiveUnlock \/ UNCHANGED vars
    BY <2>3 DEF RunStep, RunCreate, RunDecide, RunSave, RunExit, RunDie, ExclusiveLock,
                ExclusiveUnlock, vars, taskVars
  <2> QED
    BY <2>1, <2>2, <2>3 DEF Next
<1> QED
  BY <1>1, <1>2, <1>3, <1>4, <1>5, <1>6

\* The end of a task is final, whatever starters, finishers and cancels come late.
THEOREM TerminalIsFinalCorrect == Spec => TerminalIsFinal
<1>1. Typed /\ LifeInv /\ [Next]_vars =>
        [\A t \in Task : status[t] \in Terminal => status'[t] = status[t]]_vars
  BY StepKeepsEnd
<1> QED
  BY <1>1, LifeCorrect, PTL DEF Spec, TerminalIsFinal

=============================================================================

---------------------------- MODULE WorkflowRun ----------------------------
(***************************************************************************)
(* One workflow run of the report command (workflow/runner.py, class       *)
(* ControlRunner, with workflow/controller.py): the run thread asks the    *)
(* controller for the next decision, executes it, and looks for a cancel   *)
(* in the run store before and after it does so.  Worker calls go through  *)
(* the OpenClaw client (runtime/openclaw_client.py); the calls of the      *)
(* frontline stage run in parallel.  Other threads cancel the run          *)
(* (web/state.py, cancel_run).                                             *)
(*                                                                         *)
(* The requests are those of the report command: stop_point is NONE.       *)
(***************************************************************************)
EXTENDS Naturals, FiniteSets

CONSTANTS
  Frontline,     \* number of frontline workers: it depends on the market
  DebateRounds,  \* max_debate_rounds
  RiskRounds,    \* max_risk_discuss_rounds
  Sections,      \* number of sections of the final report
  Parallel,      \* frontline_execution_mode is "parallel"
  AssetsMayFail, \* the profile is CN_A: failed chart assets do not stop the run
  Canceller,     \* threads that call cancel_run
  MayRaise       \* TRUE: the run thread may end by an exception

ASSUME RunAssumption ==
  /\ {Frontline, DebateRounds, RiskRounds, Sections} \subseteq Nat \ {0}
  /\ {Parallel, AssetsMayFail, MayRaise} \subseteq BOOLEAN

\* frontline, investment debate, investment decision, trade decision, risk debate,
\* portfolio decision, final report
Stage      == 1..7
FrontStage == 1
Debate     == {2, 5}
LastStage  == 7

Workers == <<Frontline, 2, 1, 1, 3, 1, 1>>

Rounds(s) == IF s = 2 THEN DebateRounds ELSE RiskRounds

\* The calls of a stage: one per worker, one per turn of a debate, one per section
\* of the final report.
Turns(s) ==
  IF s \in Debate THEN Workers[s] * Rounds(s)
  ELSE IF s = LastStage THEN Sections ELSE Workers[s]

Attempt == UNION {{s} \X (1..Turns(s)) : s \in Stage}
Of(s)   == {a \in Attempt : a[1] = s}

WorkerOf(a) == IF a[1] = LastStage THEN 1 ELSE ((a[2] - 1) % Workers[a[1]]) + 1

VARIABLES
  store,     \* the status in state.json
  at,        \* where the run thread is
  state,     \* the status in the state the run thread holds
  todo,      \* its decision
  next,      \* its place in the list of calls of the batch
  call,      \* the worker calls
  result,    \* the saved worker results; a "fatal" one stops its batch at once
  approved,  \* the calls whose material is in the approved manifest
  exported,  \* the saved export result
  cut,       \* the OpenClaw client refuses new calls of the run
  canceller  \* where the cancelling threads are

runVars  == <<at, state, todo, next>>
callVars == <<call, result, approved>>
vars     == <<store, runVars, callVars, exported, cut, canceller>>

At(p, s) == [phase |-> p, stage |-> s]
NoStage  == 0

Status ==
  [phase : {"none", "created", "exporting", "completed", "failed", "cancelled"}, stage : {NoStage}]
    \cup [phase : {"running", "ready"}, stage : Stage]

Decision ==
  [kind : {"wait", "fail", "advance", "wake", "export", "complete"},
   stage : Stage \cup {NoStage},
   turn : Nat]

Do(k, s) == [kind |-> k, stage |-> s, turn |-> 0]

Init ==
  /\ store = At("none", NoStage)
  /\ at = "new"
  /\ state = At("none", NoStage)
  /\ todo = Do("wait", NoStage)
  /\ next = 1
  /\ call = [a \in Attempt |-> "none"]
  /\ result = [a \in Attempt |-> "none"]
  /\ approved = {}
  /\ exported = "none"
  /\ cut = FALSE
  /\ canceller = [c \in Canceller |-> "idle"]

-----------------------------------------------------------------------------
(* The controller: the decision is a function of the state, the worker       *)
(* results, the approved manifest and the export result.                     *)

ResultsOf(s)  == {a \in Of(s) : result[a] # "none"}
\* terminal_failures
FailuresUnseen(s) == {}
Failures(s) == {a \in Of(s) : result[a] \in {"failed", "fatal"}}
Succeeded(s)  == {a \in Of(s) : result[a] = "succeeded"}
ApprovedOf(s) == {a \in Of(s) : a \in approved}
HasWorker(s, w) == \E a \in ApprovedOf(s) : WorkerOf(a) = w

AllHaveResult(s) == \A w \in 1..Workers[s] : \E a \in ResultsOf(s) : WorkerOf(a) = w
AllApproved(s)   == \A w \in 1..Workers[s] : HasWorker(s, w)

\* require_upstream_ready
UpstreamReady(s) == s = FrontStage \/ AllApproved(s - 1)

\* approved_stage_turn_count decides whose turn it is in a debate.
WakeTurn(s) == [kind |-> "wake", stage |-> s, turn |-> Cardinality(ApprovedOf(s)) + 1]
OneRoundDone(s) == Cardinality(ApprovedOf(s)) >= Workers[s]
TurnsDone(s) == Cardinality(ApprovedOf(s)) >= Turns(s)

DecideWake(s) ==
  IF ~UpstreamReady(s) THEN Do("fail", s)
  ELSE IF s \notin Debate THEN Do("wake", s)
  ELSE IF TurnsDone(s) THEN Do("advance", s)
  ELSE WakeTurn(s)

DecideDebate(s) ==
  IF Cardinality(Succeeded(s)) > Cardinality(ApprovedOf(s)) THEN Do("wait", s)
  ELSE IF TurnsDone(s) THEN Do("advance", s)
  ELSE IF ResultsOf(s) = {} /\ ApprovedOf(s) = {} THEN Do("wait", s)
  ELSE WakeTurn(s)

DecideRunning(s) ==
  IF Failures(s) # {} THEN Do("fail", s)
  ELSE IF s \in Debate THEN DecideDebate(s)
  ELSE IF AllHaveResult(s) /\ AllApproved(s) THEN Do("advance", s)
  ELSE Do("wait", s)

DecideReadyUnended(s) == DecideWake(s + 1)
DecideReady(s) ==
  IF s # LastStage
  THEN IF s = LastStage - 1 /\ ~AllApproved(s) THEN Do("fail", s) ELSE DecideWake(s + 1)
  ELSE Do(IF AllApproved(s) THEN "export" ELSE "fail", s)

\* export_result_allows_workflow_completion
AllowsAny(e) == e # "none"
Allows(e) == e = "passed" \/ (AssetsMayFail /\ e = "assets")

DecideExporting ==
  IF exported = "none" THEN Do("wait", NoStage)
  ELSE Do(IF Allows(exported) THEN "complete" ELSE "fail", NoStage)

\* decide_next
DecideNext(st) ==
  CASE st.phase = "created"   -> DecideWake(FrontStage)
    [] st.phase = "running"   -> DecideRunning(st.stage)
    [] st.phase = "ready"     -> DecideReady(st.stage)
    [] st.phase = "exporting" -> DecideExporting
    [] OTHER                  -> Do("wait", NoStage)

-----------------------------------------------------------------------------
(* The run thread *)

Ended == store.phase \in {"completed", "failed", "cancelled"}

Goto(l) == at' = l /\ UNCHANGED <<state, todo, next>>

\* _cancelled_state_if_requested: what the run thread looks for before it goes on.
CancelUnseen  == FALSE
CancelVisible == store.phase = "cancelled"

\* boot and create_run; a run that is not booted is created to be failed.
Create ==
  /\ at = "new"
  /\ store' = At("created", NoStage)
  /\ Goto("created") \/ Goto("reject")
  /\ UNCHANGED <<callVars, exported, cut, canceller>>

\* fail_before_run, outside the block that releases the run
Reject ==
  /\ at = "reject"
  /\ store' = At("failed", NoStage)
  /\ Goto("leave")
  /\ UNCHANGED <<callVars, exported, cut, canceller>>

Leave ==
  /\ at = "leave" /\ Goto("ended")
  /\ UNCHANGED <<store, callVars, exported, cut, canceller>>

\* The run plan and the OpenViking namespace are set up, which may fail.
Bootstrap ==
  /\ at = "created"
  /\ IF CancelVisible THEN Goto("release") ELSE Goto("decide") \/ Goto("fail")
  /\ UNCHANGED <<store, callVars, exported, cut, canceller>>

Decide ==
  /\ at = "decide"
  /\ state' = store /\ todo' = DecideNext(store)
  /\ at' = "apply"
  /\ UNCHANGED <<store, next, callVars, exported, cut, canceller>>

\* apply_decision looks for a cancel ...
Apply ==
  /\ at = "apply"
  /\ Goto(IF CancelVisible THEN "release" ELSE "save")
  /\ UNCHANGED <<store, callVars, exported, cut, canceller>>

\* The calls of the batch that was woken.
Batch == {a \in Of(todo.stage) : todo.turn \in {0, a[2]}}
First == IF todo.turn = 0 THEN 1 ELSE todo.turn
Last  == IF todo.turn = 0 THEN Turns(todo.stage) ELSE todo.turn

\* collect_first of the batch: only the frontline goes on after a failed call.
CollectFirst == todo.stage = FrontStage
InParallel   == Parallel /\ CollectFirst /\ Cardinality(Batch) > 1

\* ... and then executes the decision, from the state it has loaded.
Outcome ==
  CASE todo.kind = "wait"     -> state
    [] todo.kind = "advance"  -> At("ready", todo.stage)
    [] todo.kind = "wake"     -> At("running", todo.stage)
    [] todo.kind = "export"   -> At("exporting", NoStage)
    [] todo.kind = "complete" -> At(IF state.phase = "exporting" /\ ~Allows(exported)
                                    THEN "failed" ELSE "completed", NoStage)
    [] OTHER                  -> At("failed", NoStage)

After ==
  CASE todo.kind = "advance" -> "decide"
    [] todo.kind = "wake"    -> IF todo.stage = FrontStage THEN "lock" ELSE "batch"
    [] todo.kind = "export"  -> "export"
    [] OTHER                 -> "release"

Save ==
  /\ at = "save"
  /\ store' = Outcome /\ state' = Outcome
  /\ at' = After
  /\ next' = IF todo.kind = "wake" THEN First ELSE next
  /\ UNCHANGED <<todo, callVars, exported, cut, canceller>>

\* fail_run
Fail ==
  /\ at = "fail"
  /\ store' = At("failed", NoStage)
  /\ Goto("release")
  /\ UNCHANGED <<callVars, exported, cut, canceller>>

\* The frontline waits for the data work lock, and looks for a cancel while it does.
LockData ==
  /\ at = "lock"
  /\ Goto("batch") \/ (CancelVisible /\ Goto("collect"))
  /\ UNCHANGED <<store, callVars, exported, cut, canceller>>

-----------------------------------------------------------------------------
(* The worker calls of a batch *)

Place == <<todo.stage, next>>
InFlight == {"started", "cleared", "sent", "answered"}
Flying   == {a \in Attempt : call[a] \in InFlight}

\* The next call is prepared: its request and its material may be refused.
Prepare ==
  /\ at = "batch" /\ next <= Last
  /\ \/ CancelVisible /\ Goto(IF InParallel THEN "submit" ELSE "collect") /\ UNCHANGED callVars
     \/ /\ ~CancelVisible
        /\ call' = [call EXCEPT ![Place] = "prepared"]
        /\ IF InParallel
           THEN next' = next + 1 /\ UNCHANGED <<at, state, todo>>
           ELSE Goto("submit")
        /\ UNCHANGED <<result, approved>>
     \/ /\ ~CancelVisible
        /\ \E r \in {"failed", "fatal"} :
             /\ result' = [result EXCEPT ![Place] = r]
             /\ IF r = "failed" /\ CollectFirst
                THEN next' = next + 1 /\ UNCHANGED <<at, state, todo>>
                ELSE Goto(IF InParallel THEN "submit" ELSE "collect")
        /\ UNCHANGED <<call, approved>>
  /\ UNCHANGED <<store, exported, cut, canceller>>

Prepared ==
  /\ at = "batch" /\ next > Last
  /\ Goto(IF InParallel THEN "submit" ELSE "collect")
  /\ UNCHANGED <<store, callVars, exported, cut, canceller>>

\* A prepared call is started, if no cancel shows: in parallel all of them, one
\* after the other, else the one that was just prepared.
Submit ==
  /\ at = "submit"
  /\ IF CancelVisible
     THEN Goto("gather") /\ UNCHANGED call
     ELSE \E a \in Batch :
            /\ call[a] = "prepared"
            /\ call' = [call EXCEPT ![a] = "started"]
            /\ IF \E b \in Batch \ {a} : call[b] = "prepared" THEN UNCHANGED runVars
               ELSE Goto("gather")
  /\ UNCHANGED <<store, result, approved, exported, cut, canceller>>

\* Nothing was left to submit.
SubmitNone ==
  /\ at = "submit" /\ \A a \in Batch : call[a] # "prepared"
  /\ Goto("gather")
  /\ UNCHANGED <<store, callVars, exported, cut, canceller>>

\* The calls that were submitted have ended.  In series the next call follows, unless
\* this one failed or showed a cancel.
Gather ==
  LET a == Place
      goOn == ~InParallel /\ call[a] = "done"
                /\ (result[a] = "succeeded" \/ (result[a] = "failed" /\ CollectFirst))
  IN /\ at = "gather" /\ Flying = {}
     /\ IF goOn THEN at' = "batch" /\ next' = next + 1 /\ UNCHANGED <<state, todo>>
        ELSE Goto("collect")
     /\ UNCHANGED <<store, callVars, exported, cut, canceller>>

\* The batch result is saved; a cancel goes first, then a failure that stops the run.
Collect ==
  LET fatal  == \E a \in Batch : result[a] = "fatal"
      failed == \E a \in Batch : result[a] = "failed"
  IN /\ at = "collect"
     /\ Goto(IF CancelVisible THEN "release"
             ELSE IF fatal \/ (failed /\ ~CollectFirst) THEN "fail"
             ELSE "decide")
     /\ UNCHANGED <<store, callVars, exported, cut, canceller>>

\* run_single_worker, in a thread of its own or in the run thread
CallEnds(a, r) ==
  /\ call' = [call EXCEPT ![a] = "done"]
  /\ result' = [result EXCEPT ![a] = r]

CallBegin(a) ==
  /\ call[a] = "started"
  /\ IF CancelVisible THEN CallEnds(a, "failed")
     ELSE call' = [call EXCEPT ![a] = "cleared"] /\ UNCHANGED result
  /\ UNCHANGED <<store, runVars, approved, exported, cut, canceller>>

CallSendUnchecked(a) ==
  /\ call[a] = "cleared"
  /\ call' = [call EXCEPT ![a] = "sent"]
  /\ UNCHANGED <<store, runVars, result, approved, exported, cut, canceller>>

\* The OpenClaw client refuses the call of a cancelled run, or registers it.
CallSend(a) ==
  /\ call[a] = "cleared"
  /\ IF cut THEN CallEnds(a, "failed")
     ELSE call' = [call EXCEPT ![a] = "sent"] /\ UNCHANGED result
  /\ UNCHANGED <<store, runVars, approved, exported, cut, canceller>>

\* OpenClaw answers, or its process is killed; the evidence, the runtime guards and
\* the material approval refuse the answer or let it pass.
CallFail(a) ==
  /\ call[a] = "sent"
  /\ \E r \in {"failed", "fatal"} : CallEnds(a, r)
  /\ UNCHANGED <<store, runVars, approved, exported, cut, canceller>>

CallPass(a) ==
  /\ call[a] = "sent"
  /\ call' = [call EXCEPT ![a] = "answered"]
  /\ UNCHANGED <<store, runVars, result, approved, exported, cut, canceller>>

\* The material goes into the approved manifest, and the result is saved.
CallApprove(a) ==
  /\ call[a] = "answered"
  /\ approved' = approved \cup {a}
  /\ CallEnds(a, "succeeded")
  /\ UNCHANGED <<store, runVars, exported, cut, canceller>>

-----------------------------------------------------------------------------
(* The export *)

Export ==
  /\ at = "export"
  /\ exported' \in {"passed", "assets", "failed"}
  /\ Goto("exported")
  /\ UNCHANGED <<store, callVars, cut, canceller>>

\* The lineage of a report that passed is linked, which may fail.
Exported ==
  /\ at = "exported"
  /\ IF CancelVisible THEN Goto("release")
     ELSE \/ Allows(exported) /\ Goto("decide")
          \/ (exported = "passed" \/ ~Allows(exported)) /\ Goto("fail")
  /\ UNCHANGED <<store, callVars, exported, cut, canceller>>

\* release_run
Release ==
  /\ at = "release"
  /\ cut' = FALSE
  /\ Goto("ended")
  /\ UNCHANGED <<store, callVars, exported, canceller>>

\* An exception leaves run (a state file that is read while it is written, a full
\* disk); the calls in flight are waited for.
Raise ==
  /\ MayRaise /\ at \notin {"ended", "raised"} /\ Flying = {}
  /\ cut' = IF at \in {"new", "reject", "leave"} THEN cut ELSE FALSE
  /\ Goto("raised")
  /\ UNCHANGED <<store, callVars, exported, canceller>>

-----------------------------------------------------------------------------
(* cancel_run *)

CancelLoad(c) ==
  /\ canceller[c] = "idle" /\ store.phase # "none"
  /\ canceller' = [canceller EXCEPT ![c] = IF Ended THEN "late" ELSE "loaded"]
  /\ UNCHANGED <<store, runVars, callVars, exported, cut>>

CancelSave(c) ==
  /\ canceller[c] = "loaded"
  /\ store' = At("cancelled", NoStage)
  /\ canceller' = [canceller EXCEPT ![c] = "saved"]
  /\ UNCHANGED <<runVars, callVars, exported, cut>>

\* OpenClawClient.cancel_run marks the run, and kills the calls it finds in flight.
MarkIfActive == cut \/ \E a \in Attempt : call[a] = "sent"
Mark == TRUE

CancelTell(c) ==
  /\ canceller[c] = "saved"
  /\ cut' = Mark
  /\ canceller' = [canceller EXCEPT ![c] = "told"]
  /\ UNCHANGED <<store, runVars, callVars, exported>>

-----------------------------------------------------------------------------
BatchStep == LockData \/ Prepare \/ Prepared \/ Submit \/ SubmitNone \/ Gather \/ Collect

RunStep ==
  \/ Create \/ Reject \/ Leave \/ Bootstrap \/ Decide \/ Apply \/ Save \/ Fail
  \/ BatchStep
  \/ Export \/ Exported \/ Release

CallStep(a) == CallBegin(a) \/ CallSend(a) \/ CallApprove(a)
Answer(a)   == CallFail(a) \/ CallPass(a)

CancelStep(c) == CancelLoad(c) \/ CancelSave(c) \/ CancelTell(c)

Next ==
  \/ RunStep
  \/ \E a \in Attempt : CallStep(a) \/ Answer(a)
  \/ \E c \in Canceller : CancelStep(c)
  \/ Raise

Spec == Init /\ [][Next]_vars

\* The run thread and the call threads keep running, and the data work lock is given
\* back by its other holders.  A call that was sent need not be answered, unless a
\* cancel has killed it.
Killed(a) == cut /\ CallFail(a)

FairSpec ==
  /\ Spec
  /\ WF_vars(RunStep)
  /\ \A a \in Attempt : WF_vars(CallStep(a)) /\ WF_vars(Killed(a))

-----------------------------------------------------------------------------
(* Properties *)

TypeOK ==
  /\ store \in Status
  /\ at \in {"new", "created", "reject", "leave", "decide", "apply", "save", "fail", "lock", "batch",
             "submit", "gather", "collect", "export", "exported", "release", "ended", "raised"}
  /\ state \in Status
  /\ todo \in Decision
  /\ next \in Nat
  /\ call \in [Attempt -> {"none", "prepared", "started", "cleared", "sent", "answered", "done"}]
  /\ result \in [Attempt -> {"none", "succeeded", "failed", "fatal"}]
  /\ approved \subseteq Attempt
  /\ exported \in {"none", "passed", "assets", "failed"}
  /\ cut \in BOOLEAN
  /\ canceller \in [Canceller -> {"idle", "late", "loaded", "saved", "told"}]

\* A worker is called only when all that the stages before it have to say is in the
\* approved manifest, every turn of a debate included, whatever failed or was
\* cancelled on the way.
UpstreamApproved ==
  \A a \in Flying :
    /\ \A s \in 1..(a[1] - 1) : Of(s) \subseteq approved
    /\ a[1] \in Debate => \A k \in 1..(a[2] - 1) : <<a[1], k>> \in approved

\* A completed run has a report of every section, made from all the material, and an
\* export that allows it.
CompletedReport ==
  store.phase = "completed" =>
    /\ Attempt \subseteq approved
    /\ exported \in {"passed"} \cup (IF AssetsMayFail THEN {"assets"} ELSE {})

\* Whatever is cancelled when, the run thread that is not stopped by an exception
\* leaves a terminal status behind, so that the queue can end the task.
EndedIsTerminal == at = "ended" => Ended

\* Once a cancel has been acknowledged, no further call of the run gets to OpenClaw,
\* also when the run has overwritten the cancel in the run store.
CancelStopsCalls ==
  [][(\E c \in Canceller : canceller[c] = "told") =>
       \A a \in Attempt : call[a] \in {"none", "prepared", "started", "cleared"} => call'[a] # "sent"]_vars

\* A run that was cancelled ends, though OpenClaw never answers what it was sent.
CancelEndsRun ==
  \A c \in Canceller : canceller[c] = "told" ~> at \in {"ended", "raised"}

-----------------------------------------------------------------------------
(* The run as the report queue sees it *)

StoreSeen ==
  IF store.phase \in {"none", "completed", "failed", "cancelled"} THEN store.phase ELSE "running"

ThreadSeen == IF at \in {"ended", "raised"} THEN "ended" ELSE "alive"

PlanOf(st) == IF st.phase \in {"completed", "failed"} THEN st.phase ELSE "running"

PlanSeen ==
  CASE at \in {"reject", "fail"} -> "failed"
    [] at = "save"               -> PlanOf(Outcome)
    [] OTHER                     -> "none"

Seen == INSTANCE RunThread WITH store <- StoreSeen, thread <- ThreadSeen, plan <- PlanSeen

\* The run does what the report queue expects of a run: above all, every status it
\* saves follows a look for a cancel, so one save at most overwrites a cancel.
ImplementsRunThread == Seen!Spec

=============================================================================

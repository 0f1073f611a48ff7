------------------------- MODULE WorkflowRunProofs -------------------------
(***************************************************************************)
(* Proofs about WorkflowRun, for every number of workers, rounds, sections *)
(* and cancelling threads, in series and in parallel: the inductive        *)
(* invariant RunInv, the safety properties that follow from it, and that   *)
(* the run implements RunThread.                                           *)
(***************************************************************************)
EXTENDS WorkflowRun, TLAPS, FiniteSetTheorems

-----------------------------------------------------------------------------
(* The calls of a stage *)

LEMMA WorkerCount ==
  ASSUME NEW s \in Stage
  PROVE  Workers[s] \in Nat \ {0}
BY RunAssumption DEF Workers, Stage

LEMMA TurnCount ==
  ASSUME NEW s \in Stage
  PROVE  /\ Turns(s) \in Nat \ {0}
         /\ s \notin Debate \cup {LastStage} => Turns(s) = Workers[s]
<1>1. Rounds(s) \in Nat \ {0}
  BY RunAssumption DEF Rounds
<1>2. s \in Debate => Workers[s] \in {2, 3}
  BY DEF Debate, Workers
<1>3. s \in Debate => Workers[s] * Rounds(s) \in Nat \ {0}
  BY <1>1, <1>2
<1> QED
  BY <1>3, WorkerCount, RunAssumption DEF Turns

LEMMA CallPlace ==
  ASSUME NEW s \in Stage
  PROVE  /\ \A a : a \in Of(s) <=> \E k \in 1..Turns(s) : a = <<s, k>>
         /\ \A k : <<s, k>> \in Attempt <=> k \in 1..Turns(s)
<1>1. \A a : a \in Attempt <=> \E r \in Stage : \E k \in 1..Turns(r) : a = <<r, k>>
  BY DEF Attempt
<1> QED
  BY <1>1 DEF Of

LEMMA CallPlaces ==
  ASSUME NEW a \in Attempt
  PROVE  a[1] \in Stage /\ a[2] \in 1..Turns(a[1]) /\ a[2] \in Nat /\ a = <<a[1], a[2]>> /\ a \in Of(a[1])
<1>1. PICK r \in Stage : \E k \in 1..Turns(r) : a = <<r, k>>
  BY DEF Attempt
<1> QED
  BY <1>1, TurnCount DEF Of

LEMMA RowSize ==
  ASSUME NEW s, NEW n \in Nat
  PROVE  IsFiniteSet({s} \X (1..n)) /\ Cardinality({s} \X (1..n)) = n
<1>1. IsFiniteSet({s}) /\ Cardinality({s}) = 1
  BY FS_Singleton
<1>2. IsFiniteSet(1..n) /\ Cardinality(1..n) = n
  BY FS_Interval
<1>3. /\ IsFiniteSet({s} \X (1..n))
      /\ Cardinality({s} \X (1..n)) = Cardinality({s}) * Cardinality(1..n)
  BY <1>1, <1>2, FS_Product, Zenon
<1>4. Cardinality({s}) * Cardinality(1..n) = n
  BY <1>1, <1>2
<1> QED
  BY <1>3, <1>4

LEMMA StageSize ==
  ASSUME NEW s \in Stage
  PROVE  IsFiniteSet(Of(s)) /\ Cardinality(Of(s)) = Turns(s)
<1>1. Of(s) = {s} \X (1..Turns(s))
  BY CallPlace
<1>2. /\ IsFiniteSet({s} \X (1..Turns(s)))
      /\ Cardinality({s} \X (1..Turns(s))) = Turns(s)
  BY RowSize, TurnCount
<1> QED
  BY <1>1, <1>2

\* The calls of a stage that are approved, counted.
LEMMA ApprovedSize ==
  ASSUME NEW s \in Stage
  PROVE  /\ IsFiniteSet(ApprovedOf(s))
         /\ Cardinality(ApprovedOf(s)) \in 0..Turns(s)
         /\ TurnsDone(s) => Of(s) \subseteq approved
         /\ Cardinality(ApprovedOf(s)) = 0 <=> ApprovedOf(s) = {}
<1>1. ApprovedOf(s) \subseteq Of(s)
  BY DEF ApprovedOf
<1>2. IsFiniteSet(ApprovedOf(s)) /\ Cardinality(ApprovedOf(s)) <= Turns(s)
  BY <1>1, StageSize, FS_Subset
<1>3. Cardinality(ApprovedOf(s)) \in Nat
  BY <1>2, FS_CardinalityType
<1>4. TurnsDone(s) => ApprovedOf(s) = Of(s)
  <2>1. TurnsDone(s) => Cardinality(ApprovedOf(s)) = Cardinality(Of(s))
    BY <1>2, <1>3, StageSize, TurnCount DEF TurnsDone
  <2> QED
    BY <1>1, <2>1, StageSize, FS_Subset
<1>5. Cardinality(ApprovedOf(s)) = 0 <=> ApprovedOf(s) = {}
  BY <1>2, FS_EmptySet
<1>6. Cardinality(ApprovedOf(s)) \in 0..Turns(s)
  BY <1>2, <1>3, TurnCount
<1> QED
  BY <1>2, <1>4, <1>5, <1>6 DEF ApprovedOf

-----------------------------------------------------------------------------
(* The invariant *)

Open    == {"created", "running", "ready", "exporting"}
Decided == {"apply", "save"}
InBatch == {"lock", "batch", "submit", "gather", "collect"}

\* All that the stages before stage s, and the turns before turn k of a debate, have
\* to say is approved.
Upstream(s) == \A r \in 1..(s - 1) : Of(r) \subseteq approved
TurnsBefore(s, k) == \A j \in 1..(k - 1) : <<s, j>> \in approved

\* Where the run thread is tells what is in the run store, but for a cancel; who is
\* about to save one has seen a run that was created.
StoreInv ==
  /\ at = "new" => store.phase = "none"
  /\ \A c \in Canceller : canceller[c] = "loaded" => store.phase # "none"
  /\ at \in {"created", "reject"} => store.phase \in {"created", "cancelled"}
  /\ at \in {"decide", "fail"} => store.phase \in Open \cup {"cancelled"}
  /\ at \in Decided => state.phase \in Open \cup {"cancelled"} /\ (CancelVisible \/ store = state)
  /\ at = "save" => state.phase # "cancelled"
  /\ at \in InBatch => CancelVisible \/ store = At("running", todo.stage)
  /\ at \in {"export", "exported"} => store.phase \in {"exporting", "cancelled"}
  /\ at \in {"leave", "release", "ended"} => Ended

\* What the status says of the approved material.
LadderInv ==
  /\ store.phase = "running" => Upstream(store.stage)
  /\ store.phase = "ready" => Upstream(store.stage + 1)
  /\ store.phase \in {"exporting", "completed"} => Upstream(LastStage + 1)
  /\ store.phase = "completed" => Allows(exported) /\ at \in {"release", "ended", "raised"}

\* A stage, or a turn of a debate, is woken after all that comes before it.
WakeInv ==
  /\ todo.stage \in Stage
  /\ Upstream(todo.stage)
  /\ IF todo.stage \in Debate
     THEN todo.turn \in 1..Turns(todo.stage) /\ TurnsBefore(todo.stage, todo.turn)
     ELSE todo.turn = 0

\* What a decision says of the approved material.
DecisionInv ==
  /\ todo.kind = "wake" => WakeInv
  /\ todo.kind = "advance" => todo.stage \in Stage /\ Upstream(todo.stage + 1)
  /\ todo.kind \in {"export", "complete"} => Upstream(LastStage + 1)
  /\ todo.kind = "complete" => Allows(exported)
  /\ todo.kind = "wait" => state.phase = "cancelled"

TodoInv ==
  /\ at \in Decided => DecisionInv
  /\ at \in InBatch => todo.kind = "wake" /\ WakeInv

\* There is always something to decide: a batch that neither failed nor was cancelled
\* is complete, and an export is decided about when it allows the run to complete.
DecideInv ==
  at = "decide" =>
    /\ store.phase = "running" =>
         IF store.stage \in Debate THEN ApprovedOf(store.stage) # {}
         ELSE Failures(store.stage) # {} \/ Of(store.stage) \subseteq approved
    /\ store.phase = "exporting" => Allows(exported)

\* The turns of a debate are approved in their order.
DebateInv == \A a \in approved : a[1] \in Debate => TurnsBefore(a[1], a[2])

ResultInv ==
  /\ \A a \in approved : result[a] # "none"
  /\ \A a \in Attempt : result[a] = "succeeded" => a \in approved

\* Calls are in flight for the batch that was woken, and while it is waited for.
FlyingInv == \A a \in Flying : at \in {"submit", "gather"} /\ a \in Batch

\* A call that is prepared is started, unless a cancel shows or the run is over.
PreparedInv ==
  \A a \in Attempt : call[a] = "prepared" =>
    \/ at = "batch" /\ InParallel /\ a \in Batch /\ a[2] < next
    \/ at = "submit" /\ a \in Batch /\ (InParallel \/ a = Place)
    \/ at = "gather" /\ CancelVisible /\ (InParallel \/ a = Place)
    \/ at = "collect" /\ CancelVisible
    \/ at \in {"release", "ended", "raised"}

Failed(a)  == result[a] \in {"failed", "fatal"}
Pending(a) == call[a] \in {"prepared"} \cup InFlight
Passed(a)  == a \in approved /\ call[a] = "done" /\ result[a] = "succeeded"

\* The calls of the batch the run thread has come to.
Reached(a) == a[2] < next \/ (at \in {"submit", "gather"} /\ ~InParallel /\ a = Place)

Dead(a)   == Failed(a) /\ ~Pending(a)
Ending(a) == Dead(a) \/ Pending(a) \/ Passed(a)

\* No call of the batch is forgotten.
BatchInv ==
  /\ at = "lock" => next = First
  /\ at \in {"batch", "submit", "gather"} =>
       next >= First /\ \A a \in Batch : Reached(a) => Ending(a)
  /\ at \in {"submit", "gather"} =>
       IF InParallel
       THEN CancelVisible \/ (\E a \in Batch : Dead(a)) \/ (\A a \in Batch : a[2] < next)
       ELSE Place \in Batch
  /\ at = "collect" =>
       CancelVisible \/ (\E a \in Batch : Failed(a)) \/ Batch \subseteq approved

CutInv == (\E c \in Canceller : canceller[c] = "told") => cut \/ at \in {"ended", "raised"}

LEMMA TurnOrder ==
  ASSUME NEW s \in Debate, approved \subseteq Attempt, DebateInv
  PROVE  TurnsBefore(s, Cardinality(ApprovedOf(s)) + 1)
<1> DEFINE n == Cardinality(ApprovedOf(s))
<1>0. s \in Stage
  BY DEF Debate, Stage
<1>1. n \in Nat
  BY <1>0, ApprovedSize, TurnCount
<1> SUFFICES ASSUME NEW j \in 1..n, <<s, j>> \notin approved
             PROVE  FALSE
  BY <1>1 DEF TurnsBefore
<1>2. ApprovedOf(s) \subseteq {s} \X (1..(j - 1))
  <2> SUFFICES ASSUME NEW a \in ApprovedOf(s)
               PROVE  a \in {s} \X (1..(j - 1))
    OBVIOUS
  <2>1. PICK k \in 1..Turns(s) : a = <<s, k>>
    BY <1>0, CallPlace DEF ApprovedOf
  <2>2. TurnsBefore(s, k)
    BY <2>1 DEF DebateInv, ApprovedOf
  <2>3. k \in Nat \ {0} /\ j \in Nat \ {0} /\ k # j
    BY <1>0, <1>1, <2>1, TurnCount DEF ApprovedOf
  <2>4. ~ (j < k)
    BY <2>2, <2>3 DEF TurnsBefore
  <2> QED
    BY <2>1, <2>3, <2>4
<1>3. j - 1 \in Nat /\ j \in Nat
  BY <1>1
<1>4. IsFiniteSet({s} \X (1..(j - 1))) /\ Cardinality({s} \X (1..(j - 1))) = j - 1
  BY <1>3, RowSize
<1>5. Cardinality(ApprovedOf(s)) <= Cardinality({s} \X (1..(j - 1)))
  BY <1>2, <1>4, FS_Subset
<1> QED
  BY <1>1, <1>3, <1>4, <1>5

-----------------------------------------------------------------------------
(* Type correctness *)

LEMMA DecisionType ==
  ASSUME TypeOK
  PROVE  DecideNext(store) \in Decision
<1>1. \A s \in Stage : Cardinality(ApprovedOf(s)) + 1 \in Nat
  BY ApprovedSize, TurnCount
<1>2. \A s \in Stage : WakeTurn(s) \in Decision
  BY <1>1 DEF WakeTurn, Decision
<1>3. \A s \in Stage : \A k \in {"fail", "wake", "advance", "wait", "export"} : Do(k, s) \in Decision
  BY DEF Do, Decision
<1>4. \A k \in {"complete", "fail", "wait"} : Do(k, NoStage) \in Decision
  BY DEF Do, Decision
<1>5. \A s \in Stage : DecideWake(s) \in Decision
  BY <1>2, <1>3 DEF DecideWake
<1>6. ASSUME NEW s \in Stage
      PROVE  DecideRunning(s) \in Decision
  BY <1>2, <1>3 DEF DecideRunning, DecideDebate
<1>7. ASSUME NEW s \in Stage
      PROVE  DecideReady(s) \in Decision
  <2>1. CASE s # LastStage
    <3>1. s + 1 \in Stage
      BY <2>1 DEF Stage, LastStage
    <3> QED
      BY <1>3, <1>5, <2>1, <3>1 DEF DecideReady
  <2>2. CASE s = LastStage
    BY <1>3, <2>2 DEF DecideReady
  <2> QED
    BY <2>1, <2>2
<1>8. DecideWake(FrontStage) \in Decision
  BY <1>5 DEF FrontStage, Stage
<1>9. store.phase \in {"running", "ready"} => store.stage \in Stage
  BY DEF TypeOK, Status
<1> QED
  BY <1>4, <1>6, <1>7, <1>8, <1>9 DEF DecideNext, DecideExporting

LEMMA StatusType ==
  /\ \A p \in {"none", "created", "exporting", "completed", "failed", "cancelled"} :
       At(p, NoStage) \in Status
  /\ \A s \in Stage : At("running", s) \in Status /\ At("ready", s) \in Status
BY DEF At, Status

LEMMA OutcomeType ==
  ASSUME TypeOK, TodoInv, at = "save"
  PROVE  Outcome \in Status
<1>1. todo.kind \in {"advance", "wake"} => todo.stage \in Stage
  BY DEF TodoInv, DecisionInv, WakeInv, Decided
<1>2. todo.kind \in {"wait", "fail", "advance", "wake", "export", "complete"} /\ state \in Status
  BY DEF TypeOK, Decision
<1> QED
  BY <1>1, <1>2, StatusType DEF Outcome

LEMMA FirstType ==
  ASSUME TypeOK
  PROVE  First \in Nat
BY DEF TypeOK, Decision, First

LEMMA StepType ==
  ASSUME TypeOK, TodoInv, [Next]_vars
  PROVE  TypeOK'
<1> USE DEF vars, runVars, callVars, Goto
<1>1. CASE Create \/ Reject \/ Fail
  BY <1>1, StatusType DEF Create, Reject, Fail, TypeOK
<1>2. CASE Leave \/ Bootstrap \/ Apply \/ LockData \/ Prepared \/ SubmitNone \/ Collect
  BY <1>2 DEF Leave, Bootstrap, Apply, LockData, Prepared, SubmitNone, Collect, TypeOK
<1>3. CASE Decide
  BY <1>3, DecisionType DEF Decide, TypeOK
<1>4. CASE Save
  <2>1. After \in {"decide", "lock", "batch", "export", "release"}
    BY DEF After
  <2> QED
    BY <1>4, <2>1, OutcomeType, FirstType DEF Save, TypeOK
<1>5. CASE Prepare
  BY <1>5 DEF Prepare, TypeOK
<1>6. CASE Submit \/ Gather
  BY <1>6 DEF Submit, Gather, TypeOK
<1>7. CASE Export \/ Exported \/ Release \/ Raise
  BY <1>7 DEF Export, Exported, Release, Raise, TypeOK
<1>8. CASE \E a \in Attempt : CallStep(a) \/ Answer(a)
  BY <1>8 DEF CallStep, Answer, CallBegin, CallSend, CallFail, CallPass, CallApprove, CallEnds, TypeOK
<1>9. CASE \E c \in Canceller : CancelStep(c)
  <2>1. PICK c \in Canceller : CancelLoad(c) \/ CancelSave(c) \/ CancelTell(c)
    BY <1>9 DEF CancelStep
  <2>2. CASE CancelLoad(c)
    BY <2>2 DEF CancelLoad, TypeOK
  <2>3. CASE CancelSave(c)
    BY <2>3, StatusType DEF CancelSave, TypeOK
  <2>4. CASE CancelTell(c)
    BY <2>4 DEF CancelTell, Mark, TypeOK
  <2> QED
    BY <2>1, <2>2, <2>3, <2>4
<1>10. CASE UNCHANGED vars
  BY <1>10 DEF TypeOK
<1>11. ASSUME RunStep
      PROVE  TypeOK'
  BY <1>11, <1>1, <1>2, <1>3, <1>4, <1>5, <1>6, <1>7 DEF RunStep, BatchStep
<1> QED
  BY <1>7, <1>8, <1>9, <1>10, <1>11 DEF Next

-----------------------------------------------------------------------------
(* The steps keep each part of the invariant *)

\* The steps of the worker calls: the run thread and the run store stay.
LEMMA CallStays ==
  ASSUME NEW a \in Attempt, CallStep(a) \/ Answer(a)
  PROVE  UNCHANGED <<store, at, state, todo, next, exported, cut, canceller>>
BY DEF CallStep, Answer, CallBegin, CallSend, CallFail, CallPass, CallApprove, runVars

LEMMA StepStore ==
  ASSUME TypeOK, StoreInv, TodoInv, [Next]_vars
  PROVE  StoreInv'
<1> USE DEF vars, runVars, callVars, Goto, At, Open, Decided, InBatch, CancelVisible, Ended
<1>1. CASE Create \/ Reject \/ Fail \/ Leave \/ Bootstrap
  BY <1>1 DEF Create, Reject, Fail, Leave, Bootstrap, StoreInv
<1>2. CASE Decide \/ Apply
  BY <1>2 DEF Decide, Apply, StoreInv
<1>4. CASE Save
  <2>1. at = "save" /\ store' = Outcome /\ state' = Outcome /\ at' = After
        /\ UNCHANGED <<todo, canceller>>
    BY <1>4 DEF Save
  <2>2. todo.kind \in {"fail", "advance", "wake", "export", "complete"}
    BY <2>1 DEF StoreInv, TodoInv, DecisionInv, TypeOK, Decision
  <2>3. CASE todo.kind = "advance"
    BY <2>1, <2>3 DEF StoreInv, Outcome, After
  <2>4. CASE todo.kind = "wake"
    BY <2>1, <2>4 DEF StoreInv, Outcome, After
  <2>5. CASE todo.kind = "export"
    BY <2>1, <2>5 DEF StoreInv, Outcome, After
  <2>6. CASE todo.kind \in {"complete", "fail"}
    BY <2>1, <2>6 DEF StoreInv, Outcome, After
  <2> QED
    BY <2>2, <2>3, <2>4, <2>5, <2>6
<1>5. CASE LockData \/ Prepare \/ Prepared \/ Submit \/ SubmitNone \/ Gather
  <2>1. at \in InBatch /\ at' \in InBatch /\ UNCHANGED <<store, state, todo, canceller>>
    BY <1>5 DEF LockData, Prepare, Prepared, Submit, SubmitNone, Gather
  <2> QED
    BY <2>1 DEF StoreInv
<1>6. CASE Collect
  BY <1>6 DEF Collect, StoreInv
<1>7. CASE Export \/ Exported \/ Release \/ Raise
  BY <1>7 DEF Export, Exported, Release, Raise, StoreInv
<1>8. CASE \E a \in Attempt : CallStep(a) \/ Answer(a)
  BY <1>8, CallStays DEF StoreInv
<1>9. CASE \E c \in Canceller : CancelStep(c)
  <2>1. PICK c \in Canceller : CancelLoad(c) \/ CancelSave(c) \/ CancelTell(c)
    BY <1>9 DEF CancelStep
  <2>2. CASE CancelLoad(c)
    BY <2>2 DEF CancelLoad, StoreInv, TypeOK
  <2>3. CASE CancelSave(c)
    BY <2>3 DEF CancelSave, StoreInv, TypeOK
  <2>4. CASE CancelTell(c)
    BY <2>4 DEF CancelTell, StoreInv, TypeOK
  <2> QED
    BY <2>1, <2>2, <2>3, <2>4
<1>10. CASE UNCHANGED vars
  BY <1>10 DEF StoreInv
<1> QED
  BY <1>1, <1>2, <1>4, <1>5, <1>6, <1>7, <1>8, <1>9, <1>10 DEF Next, RunStep, BatchStep

\* Material stays approved, and only an answered call adds to it.
LEMMA Grows ==
  ASSUME [Next]_vars
  PROVE  /\ approved \subseteq approved'
         /\ \/ UNCHANGED approved
            \/ \E a \in Attempt : call[a] = "answered" /\ approved' = approved \cup {a}
<1> USE DEF vars, callVars
<1>1. CASE RunStep
  BY <1>1 DEF RunStep, BatchStep, Create, Reject, Leave, Bootstrap, Decide, Apply, Save, Fail,
              LockData, Prepare, Prepared, Submit, SubmitNone, Gather, Collect, Export, Exported,
              Release
<1>2. CASE \E a \in Attempt : CallStep(a) \/ Answer(a)
  BY <1>2 DEF CallStep, Answer, CallBegin, CallSend, CallFail, CallPass, CallApprove
<1>3. CASE (\E c \in Canceller : CancelStep(c)) \/ Raise \/ UNCHANGED vars
  BY <1>3 DEF CancelStep, CancelLoad, CancelSave, CancelTell, Raise
<1> QED
  BY <1>1, <1>2, <1>3 DEF Next

LEMMA UpstreamGrows ==
  ASSUME [Next]_vars
  PROVE  /\ \A s : Upstream(s) => Upstream(s)'
         /\ \A s, k : TurnsBefore(s, k) => TurnsBefore(s, k)'
BY Grows DEF Upstream, TurnsBefore

LEMMA StepLadder ==
  ASSUME TypeOK, StoreInv, LadderInv, TodoInv, [Next]_vars
  PROVE  LadderInv'
<1> USE DEF At
<1>1. CASE UNCHANGED <<store, exported, at>>
  BY <1>1, UpstreamGrows DEF LadderInv, Allows
<1>2. CASE /\ store' \in {At("created", NoStage), At("failed", NoStage), At("cancelled", NoStage)}
  BY <1>2 DEF LadderInv
<1>3. CASE /\ UNCHANGED <<store, exported>>
           /\ store.phase = "completed" => at' \in {"release", "ended", "raised"}
  BY <1>3, UpstreamGrows DEF LadderInv, Allows
<1>4. CASE Save
  <2>1. at = "save" /\ store' = Outcome /\ at' = After /\ UNCHANGED <<todo, exported>>
    BY <1>4 DEF Save
  <2>2. todo.kind \in {"fail", "advance", "wake", "export", "complete"}
    BY <2>1 DEF StoreInv, TodoInv, DecisionInv, TypeOK, Decision, Decided
  <2>3. CASE todo.kind \in {"advance", "wake"}
    BY <2>1, <2>3, UpstreamGrows DEF LadderInv, TodoInv, DecisionInv, WakeInv, Decided, Outcome
  <2>4. CASE todo.kind = "export"
    BY <2>1, <2>4, UpstreamGrows DEF LadderInv, TodoInv, DecisionInv, Decided, Outcome
  <2>5. CASE todo.kind = "complete"
    BY <2>1, <2>5, UpstreamGrows DEF LadderInv, TodoInv, DecisionInv, Decided, Outcome, After, Allows
  <2>6. CASE todo.kind = "fail"
    BY <2>1, <2>6 DEF LadderInv, Outcome
  <2> QED
    BY <2>2, <2>3, <2>4, <2>5, <2>6
<1>5. CASE Export
  BY <1>5, UpstreamGrows DEF Export, LadderInv, StoreInv
<1>6. CASE RunStep /\ ~Save /\ ~Export
  <2> USE DEF Goto, vars, runVars, callVars
  <2>1. CASE Create \/ Reject \/ Fail
    BY <1>2, <2>1 DEF Create, Reject, Fail
  <2>2. CASE ~(Create \/ Reject \/ Fail)
    <3>1. UNCHANGED <<store, exported>>
      BY <1>6, <2>2 DEF RunStep, BatchStep, Leave, Bootstrap, Decide, Apply, LockData, Prepare,
              Prepared, Submit, SubmitNone, Gather, Collect, Exported, Release
    <3>2. store.phase = "completed" => at = "release"
      BY <1>6, <2>2 DEF RunStep, BatchStep, Leave, Bootstrap, Decide, Apply, LockData, Prepare,
              Prepared, Submit, SubmitNone, Gather, Collect, Exported, Release, LadderInv
    <3>3. at = "release" => at' = "ended"
      BY <1>6, <2>2 DEF RunStep, BatchStep, Leave, Bootstrap, Decide, Apply, LockData, Prepare,
              Prepared, Submit, SubmitNone, Gather, Collect, Exported, Release
    <3> QED
      BY <1>3, <3>1, <3>2, <3>3
  <2> QED
    BY <2>1, <2>2
<1>7. CASE Raise
  BY <1>3, <1>7 DEF Raise, Goto
<1>8. CASE \E a \in Attempt : CallStep(a) \/ Answer(a)
  BY <1>1, <1>8, CallStays
<1>9. CASE \E c \in Canceller : CancelStep(c)
  BY <1>1, <1>2, <1>9 DEF CancelStep, CancelLoad, CancelSave, CancelTell, runVars
<1>10. CASE UNCHANGED vars
  BY <1>1, <1>10 DEF vars, runVars
<1> QED
  BY <1>4, <1>5, <1>6, <1>7, <1>8, <1>9, <1>10 DEF Next

(* What the controller decides *)

\* The next turn of a debate that is not done.
LEMMA TurnDecides ==
  ASSUME TypeOK, DebateInv, NEW s \in Debate, Upstream(s), ~TurnsDone(s), todo' = WakeTurn(s),
         UNCHANGED approved
  PROVE  DecisionInv' /\ todo'.kind = "wake"
<1>0. s \in Stage
  BY DEF Debate, Stage
<1>1. PICK n \in Nat : n = Cardinality(ApprovedOf(s))
  BY <1>0, ApprovedSize, TurnCount
<1>2. n < Turns(s) /\ Turns(s) \in Nat /\ TurnsBefore(s, n + 1)
  BY <1>0, <1>1, TurnOrder, TurnCount DEF TypeOK, TurnsDone
<1>3. todo'.kind = "wake" /\ todo'.stage = s /\ todo'.turn = n + 1
  BY <1>1 DEF WakeTurn
<1>4. n + 1 \in 1..Turns(s)
  BY <1>2
<1>5. Upstream(s)' /\ TurnsBefore(s, n + 1)'
  BY <1>2 DEF Upstream, TurnsBefore
<1>6. WakeInv'
  BY <1>0, <1>3, <1>4, <1>5 DEF WakeInv
<1> QED
  BY <1>3, <1>6 DEF DecisionInv

LEMMA WakeDecides ==
  ASSUME TypeOK, DebateInv, NEW s \in Stage, Upstream(s), todo' = DecideWake(s), UNCHANGED approved
  PROVE  DecisionInv' /\ todo'.kind # "wait"
<1>1. Upstream(s)'
  BY DEF Upstream
<1>2. CASE ~UpstreamReady(s)
  BY <1>2 DEF DecideWake, Do, DecisionInv
<1>3. CASE UpstreamReady(s) /\ s \notin Debate
  BY <1>1, <1>3 DEF DecideWake, Do, DecisionInv, WakeInv
<1>4. CASE UpstreamReady(s) /\ s \in Debate /\ TurnsDone(s)
  <2>1. todo' = Do("advance", s)
    BY <1>4 DEF DecideWake
  <2>2. Of(s) \subseteq approved'
    BY <1>4, ApprovedSize
  <2>3. Upstream(s + 1)'
    BY <1>1, <2>2 DEF Upstream, Stage
  <2> QED
    BY <2>1, <2>3 DEF Do, DecisionInv
<1>5. CASE UpstreamReady(s) /\ s \in Debate /\ ~TurnsDone(s)
  <2>1. todo' = WakeTurn(s)
    BY <1>5 DEF DecideWake
  <2> QED
    BY <1>1, <1>5, <2>1, TurnDecides
<1> QED
  BY <1>2, <1>3, <1>4, <1>5

\* A running stage: it failed, or it goes on, or it is complete.
LEMMA RunningDecides ==
  ASSUME TypeOK, DebateInv, ResultInv, NEW s \in Stage, Upstream(s), todo' = DecideRunning(s),
         IF s \in Debate THEN ApprovedOf(s) # {} ELSE Failures(s) # {} \/ Of(s) \subseteq approved,
         UNCHANGED approved
  PROVE  DecisionInv' /\ todo'.kind # "wait"
<1>1. Upstream(s)'
  BY DEF Upstream
<1>2. Of(s) \subseteq approved => Upstream(s + 1)'
  BY <1>1 DEF Upstream, Stage
<1>3. CASE Failures(s) # {}
  BY <1>3 DEF DecideRunning, Do, DecisionInv
<1>4. CASE Failures(s) = {} /\ s \in Debate
  <2>1. ~ (Cardinality(Succeeded(s)) > Cardinality(ApprovedOf(s)))
    <3>1. Succeeded(s) \subseteq ApprovedOf(s)
      BY DEF Succeeded, ApprovedOf, ResultInv, Of
    <3>2. Cardinality(Succeeded(s)) <= Cardinality(ApprovedOf(s))
      BY <3>1, ApprovedSize, FS_Subset
    <3>3. IsFiniteSet(Succeeded(s)) /\ Cardinality(Succeeded(s)) \in Nat
      BY <3>1, ApprovedSize, FS_Subset, FS_CardinalityType
    <3> QED
      BY <3>2, <3>3, ApprovedSize, TurnCount
  <2>2. CASE TurnsDone(s)
    <3>1. todo' = Do("advance", s)
      BY <1>4, <2>1, <2>2 DEF DecideRunning, DecideDebate
    <3>2. Upstream(s + 1)'
      BY <1>2, <2>2, ApprovedSize
    <3> QED
      BY <3>1, <3>2 DEF Do, DecisionInv
  <2>3. CASE ~TurnsDone(s)
    <3>1. todo' = WakeTurn(s)
      BY <1>4, <2>1, <2>3 DEF DecideRunning, DecideDebate
    <3> QED
      BY <1>4, <2>3, <3>1, TurnDecides
  <2> QED
    BY <2>2, <2>3
<1>5. CASE Failures(s) = {} /\ s \notin Debate
  <2>1. Of(s) \subseteq approved
    BY <1>5
  <2>2. ASSUME NEW w \in 1..Workers[s]
        PROVE  <<s, w>> \in Of(s) /\ WorkerOf(<<s, w>>) = w
    <3>1. Workers[s] \in Nat \ {0} /\ Workers[s] <= Turns(s) /\ Turns(s) \in Nat
      BY <1>5, TurnCount, WorkerCount DEF Workers, LastStage
    <3>2. <<s, w>> \in Of(s)
      BY <3>1, CallPlace
    <3>3. CASE s = LastStage
      BY <3>2, <3>3 DEF WorkerOf, LastStage, Workers
    <3>4. CASE s # LastStage
      <4>1. w \in Int /\ 0 <= w - 1 /\ w - 1 < Workers[s]
        BY <3>1
      <4>2. (w - 1) % Workers[s] = w - 1
        BY <3>1, <4>1
      <4> QED
        BY <3>2, <3>4, <4>1, <4>2 DEF WorkerOf
    <3> QED
      BY <3>2, <3>3, <3>4
  <2>3. AllHaveResult(s) /\ AllApproved(s)
    <3> SUFFICES ASSUME NEW w \in 1..Workers[s]
                 PROVE  (\E a \in ResultsOf(s) : WorkerOf(a) = w) /\ HasWorker(s, w)
      BY DEF AllHaveResult, AllApproved
    <3>1. <<s, w>> \in Of(s) /\ <<s, w>> \in approved /\ result[<<s, w>>] # "none"
      BY <2>1, <2>2 DEF ResultInv
    <3>2. <<s, w>> \in ResultsOf(s) /\ <<s, w>> \in ApprovedOf(s)
      BY <3>1 DEF ResultsOf, ApprovedOf
    <3> QED
      BY <2>2, <3>2 DEF HasWorker
  <2>4. todo' = Do("advance", s)
    BY <1>5, <2>3 DEF DecideRunning
  <2> QED
    BY <1>2, <2>1, <2>4 DEF Do, DecisionInv
<1> QED
  BY <1>3, <1>4, <1>5

LEMMA ReadyDecides ==
  ASSUME TypeOK, DebateInv, NEW s \in Stage, Upstream(s + 1), todo' = DecideReady(s),
         UNCHANGED approved
  PROVE  DecisionInv' /\ todo'.kind # "wait"
<1>1. CASE s = LastStage
  <2>1. Upstream(LastStage + 1)'
    BY <1>1 DEF Upstream
  <2> QED
    BY <1>1, <2>1 DEF DecideReady, Do, DecisionInv
<1>2. CASE s # LastStage
  <2>1. s + 1 \in Stage
    BY <1>2 DEF Stage, LastStage
  <2>2. CASE todo' = Do("fail", s)
    BY <2>2 DEF Do, DecisionInv
  <2>3. CASE todo' = DecideWake(s + 1)
    BY <2>1, <2>3, WakeDecides
  <2> QED
    BY <1>2, <2>2, <2>3 DEF DecideReady
<1> QED
  BY <1>1, <1>2

LEMMA Decides ==
  ASSUME TypeOK, StoreInv, LadderInv, DecideInv, DebateInv, ResultInv, Decide
  PROVE  DecisionInv'
<1>1. /\ at = "decide" /\ state' = store /\ todo' = DecideNext(store)
      /\ UNCHANGED <<approved, exported>>
  BY DEF Decide, callVars
<1>2. store.phase \in {"created", "running", "ready", "exporting", "cancelled"} /\ store \in Status
  BY <1>1 DEF StoreInv, Open, TypeOK
<1>3. CASE store.phase = "created"
  <2>1. todo' = DecideWake(FrontStage)
    BY <1>1, <1>3 DEF DecideNext
  <2>2. FrontStage \in Stage /\ Upstream(FrontStage)
    BY DEF Upstream, FrontStage, Stage
  <2> QED
    BY <1>1, <2>1, <2>2, WakeDecides
<1>4. CASE store.phase = "running"
  <2>1. todo' = DecideRunning(store.stage) /\ store.stage \in Stage
    BY <1>1, <1>2, <1>4 DEF DecideNext, Status
  <2> QED
    BY <1>1, <1>4, <2>1, RunningDecides DEF LadderInv, DecideInv
<1>5. CASE store.phase = "ready"
  <2>1. todo' = DecideReady(store.stage) /\ store.stage \in Stage
    BY <1>1, <1>2, <1>5 DEF DecideNext, Status
  <2> QED
    BY <1>1, <1>5, <2>1, ReadyDecides DEF LadderInv
<1>6. CASE store.phase = "exporting"
  <2>1. Allows(exported)
    BY <1>1, <1>6 DEF DecideInv
  <2>2. todo' = Do("complete", NoStage)
    BY <1>1, <1>6, <2>1 DEF DecideNext, DecideExporting, Allows
  <2>3. Upstream(LastStage + 1)' /\ Allows(exported)'
    BY <1>1, <1>6, <2>1 DEF LadderInv, Upstream, Allows
  <2> QED
    BY <2>2, <2>3 DEF Do, DecisionInv
<1>7. CASE store.phase = "cancelled"
  BY <1>1, <1>7 DEF DecideNext, Do, DecisionInv
<1> QED
  BY <1>2, <1>3, <1>4, <1>5, <1>6, <1>7

\* What was decided stays true while it is carried out.
LEMMA DecisionStays ==
  ASSUME [Next]_vars, UNCHANGED <<todo, state, exported>>
  PROVE  (DecisionInv => DecisionInv') /\ (WakeInv => WakeInv')
<1>1. WakeInv => WakeInv'
  BY UpstreamGrows DEF WakeInv
<1> QED
  BY <1>1, UpstreamGrows DEF DecisionInv, Allows

LEMMA StepTodo ==
  ASSUME TypeOK, StoreInv, LadderInv, TodoInv, DecideInv, DebateInv, ResultInv, [Next]_vars
  PROVE  TodoInv'
<1> USE DEF Decided, InBatch
<1>1. CASE Decide
  <2>1. at' = "apply"
    BY <1>1 DEF Decide
  <2> QED
    BY <1>1, <2>1, Decides DEF TodoInv
<1>2. CASE Save
  <2>1. at = "save" /\ at' = After /\ UNCHANGED todo
    BY <1>2 DEF Save
  <2>2. at' \in InBatch => todo.kind = "wake"
    BY <2>1 DEF After
  <2>3. at' \notin Decided
    BY <2>1 DEF After
  <2>4. todo.kind = "wake" => WakeInv'
    BY <2>1, UpstreamGrows DEF TodoInv, DecisionInv, WakeInv
  <2> QED
    BY <2>1, <2>2, <2>3, <2>4 DEF TodoInv
<1>3. CASE Export
  BY <1>3 DEF Export, Goto, TodoInv
<1>4. CASE /\ UNCHANGED <<todo, state, exported>>
           /\ at' \in Decided => at \in Decided
           /\ at' \in InBatch => at \in InBatch
  BY <1>4, DecisionStays DEF TodoInv
<1>5. CASE RunStep /\ ~Decide /\ ~Save /\ ~Export
  BY <1>4, <1>5 DEF RunStep, BatchStep, Create, Reject, Leave, Bootstrap, Apply, Fail, LockData,
        Prepare, Prepared, Submit, SubmitNone, Gather, Collect, Exported, Release, Goto, runVars
<1>6. CASE \E a \in Attempt : CallStep(a) \/ Answer(a)
  BY <1>4, <1>6, CallStays
<1>7. CASE (\E c \in Canceller : CancelStep(c)) \/ Raise \/ UNCHANGED vars
  BY <1>4, <1>7 DEF CancelStep, CancelLoad, CancelSave, CancelTell, Raise, Goto, vars, runVars
<1> QED
  BY <1>1, <1>2, <1>3, <1>5, <1>6, <1>7 DEF Next

LEMMA CollectDecides ==
  ASSUME TypeOK, StoreInv, TodoInv, BatchInv, Collect, at' = "decide"
  PROVE  DecideInv'
<1>1. /\ at = "collect" /\ ~CancelVisible /\ UNCHANGED <<store, todo, approved, result, exported>>
      /\ ~ \E a \in Batch : result[a] = "fatal"
      /\ (\E a \in Batch : result[a] = "failed") => CollectFirst
  BY DEF Collect, Goto, callVars
<1>2. store = At("running", todo.stage) /\ WakeInv
  BY <1>1 DEF StoreInv, TodoInv, InBatch
<1>. PICK s \in Stage : s = todo.stage
  BY <1>2 DEF WakeInv
<1>3. store'.phase = "running" /\ store'.stage = s
  BY <1>1, <1>2 DEF At
<1>4. (\E a \in Batch : Failed(a)) \/ Batch \subseteq approved
  BY <1>1 DEF BatchInv
<1>5. CASE s \in Debate
  <2>1. todo.turn \in 1..Turns(s)
    BY <1>2, <1>5 DEF WakeInv
  <2>2. <<s, todo.turn>> \in Batch
    BY <2>1, CallPlace DEF Batch
  <2>3. ~CollectFirst
    BY <1>5 DEF CollectFirst, Debate, FrontStage
  <2>4. <<s, todo.turn>> \in ApprovedOf(s)'
    BY <1>1, <1>4, <2>2, <2>3 DEF Failed, ApprovedOf, Batch
  <2> QED
    BY <1>3, <1>5, <2>4 DEF DecideInv
<1>6. CASE s \notin Debate
  <2>1. Batch = Of(s)
    BY <1>2, <1>6 DEF WakeInv, Batch
  <2>2. Failures(s)' # {} \/ Of(s) \subseteq approved'
    BY <1>1, <1>4, <2>1 DEF Failed, Failures
  <2> QED
    BY <1>3, <1>6, <2>2 DEF DecideInv
<1> QED
  BY <1>5, <1>6

LEMMA StepDecide ==
  ASSUME TypeOK, StoreInv, TodoInv, DecideInv, FlyingInv, BatchInv, [Next]_vars
  PROVE  DecideInv'
<1> USE DEF Goto, At
<1>1. CASE Collect
  BY <1>1, CollectDecides DEF DecideInv
<1>2. CASE Save
  BY <1>2 DEF Save, After, Outcome, DecideInv
<1>3. CASE Bootstrap
  BY <1>3 DEF Bootstrap, StoreInv, DecideInv
<1>4. CASE Exported
  BY <1>4 DEF Exported, StoreInv, DecideInv, Allows
<1>5. CASE at' # "decide"
  BY <1>5 DEF DecideInv
<1>6. CASE UNCHANGED <<at, store, exported, approved, result>>
  BY <1>6 DEF DecideInv, ApprovedOf, Failures, Allows
<1>7. CASE RunStep /\ ~Collect /\ ~Save /\ ~Bootstrap /\ ~Exported
  BY <1>5, <1>7 DEF RunStep, BatchStep, Create, Reject, Leave, Decide, Apply, Fail, LockData,
        Prepare, Prepared, Submit, SubmitNone, Gather, Export, Release, runVars
<1>8. CASE \E a \in Attempt : CallStep(a) \/ Answer(a)
  <2>1. Flying # {}
    BY <1>8 DEF CallStep, Answer, CallBegin, CallSend, CallFail, CallPass, CallApprove, Flying, InFlight
  <2>2. at # "decide" /\ at' = at
    BY <1>8, <2>1, CallStays DEF FlyingInv
  <2> QED
    BY <1>5, <2>2
<1>9. CASE \E c \in Canceller : CancelStep(c)
  <2>1. UNCHANGED <<at, exported, approved, result>> /\ (store' = store \/ store'.phase = "cancelled")
    BY <1>9 DEF CancelStep, CancelLoad, CancelSave, CancelTell, callVars, runVars
  <2> QED
    BY <1>6, <2>1 DEF DecideInv
<1>10. CASE Raise \/ UNCHANGED vars
  BY <1>5, <1>6, <1>10 DEF Raise, vars, runVars, callVars
<1> QED
  BY <1>1, <1>2, <1>3, <1>4, <1>7, <1>8, <1>9, <1>10 DEF Next

LEMMA StepDebate ==
  ASSUME TypeOK, TodoInv, FlyingInv, DebateInv, [Next]_vars
  PROVE  DebateInv'
<1>1. CASE UNCHANGED approved
  BY <1>1 DEF DebateInv, TurnsBefore
<1>2. ASSUME NEW a \in Attempt, call[a] = "answered", approved' = approved \cup {a}
      PROVE  DebateInv'
  <2>1. a \in Flying
    BY <1>2 DEF Flying, InFlight
  <2>2. a \in Batch /\ WakeInv
    BY <2>1 DEF FlyingInv, TodoInv, InBatch
  <2>3. a[1] \in Debate => TurnsBefore(a[1], a[2])
    BY <2>2 DEF Batch, Of, WakeInv
  <2>4. \A b \in approved' : b[1] \in Debate => TurnsBefore(b[1], b[2])
    BY <1>2, <2>3 DEF DebateInv
  <2> QED
    BY <2>4, UpstreamGrows DEF DebateInv
<1> QED
  BY <1>1, <1>2, Grows

LEMMA StepResult ==
  ASSUME TypeOK, ResultInv, [Next]_vars
  PROVE  ResultInv'
<1> USE DEF callVars, vars
<1>1. CASE UNCHANGED <<approved, result>>
  BY <1>1 DEF ResultInv
<1>2. CASE Prepare
  BY <1>1, <1>2 DEF Prepare, ResultInv, TypeOK
<1>3. CASE RunStep /\ ~Prepare
  BY <1>1, <1>3 DEF RunStep, BatchStep, Create, Reject, Leave, Bootstrap, Decide, Apply, Save, Fail,
        LockData, Prepared, Submit, SubmitNone, Gather, Collect, Export, Exported, Release
<1>4. ASSUME NEW a \in Attempt, CallStep(a) \/ Answer(a)
      PROVE  ResultInv'
  BY <1>1, <1>4 DEF CallStep, Answer, CallBegin, CallSend, CallFail, CallPass, CallApprove, CallEnds,
        ResultInv, TypeOK
<1>5. CASE (\E c \in Canceller : CancelStep(c)) \/ Raise \/ UNCHANGED vars
  BY <1>1, <1>5 DEF CancelStep, CancelLoad, CancelSave, CancelTell, Raise
<1> QED
  BY <1>2, <1>3, <1>4, <1>5 DEF Next

LEMMA StepFlying ==
  ASSUME TypeOK, FlyingInv, [Next]_vars
  PROVE  FlyingInv'
<1> USE DEF Goto, callVars, runVars, vars, Flying, InFlight
<1>1. CASE Flying' = {}
  BY <1>1 DEF FlyingInv
<1>2. CASE Submit
  BY <1>2 DEF Submit, FlyingInv, TypeOK, Batch
<1>3. CASE SubmitNone
  BY <1>3 DEF SubmitNone, FlyingInv, Batch
<1>4. CASE RunStep /\ ~Submit /\ ~SubmitNone
  <2>1. Flying = {}
    BY <1>4 DEF RunStep, BatchStep, Create, Reject, Leave, Bootstrap, Decide, Apply, Save, Fail,
          LockData, Prepare, Prepared, Gather, Collect, Export, Exported, Release, FlyingInv
  <2>2. UNCHANGED call \/ call' = [call EXCEPT ![Place] = "prepared"]
    BY <1>4 DEF RunStep, BatchStep, Create, Reject, Leave, Bootstrap, Decide, Apply, Save, Fail,
          LockData, Prepare, Prepared, Gather, Collect, Export, Exported, Release
  <2> QED
    BY <1>1, <2>1, <2>2 DEF TypeOK
<1>5. ASSUME NEW a \in Attempt, CallStep(a) \/ Answer(a)
      PROVE  FlyingInv'
  <2>1. a \in Flying /\ Flying' \subseteq Flying
    BY <1>5 DEF CallStep, Answer, CallBegin, CallSend, CallFail, CallPass, CallApprove, CallEnds, TypeOK
  <2> QED
    BY <1>5, <2>1, CallStays DEF FlyingInv, Batch
<1>6. CASE Raise
  BY <1>6 DEF Raise, FlyingInv
<1>7. CASE (\E c \in Canceller : CancelStep(c)) \/ UNCHANGED vars
  BY <1>7 DEF CancelStep, CancelLoad, CancelSave, CancelTell, FlyingInv, Batch
<1> QED
  BY <1>2, <1>3, <1>4, <1>5, <1>6, <1>7 DEF Next

LEMMA BatchStays ==
  ASSUME UNCHANGED todo
  PROVE  Batch' = Batch /\ InParallel' = InParallel /\ CollectFirst' = CollectFirst /\ First' = First
BY DEF Batch, InParallel, CollectFirst, First

\* What the calls of the batch are.
LEMMA BatchPlaces ==
  ASSUME TypeOK, WakeInv
  PROVE  /\ First \in Nat /\ Last \in Nat
         /\ \A a \in Batch : /\ a \in Attempt /\ a = <<todo.stage, a[2]>> /\ a[2] \in Nat
                             /\ First <= a[2] /\ a[2] <= Last
         /\ next >= First /\ next <= Last => Place \in Batch
<1>1. todo.stage \in Stage /\ Turns(todo.stage) \in Nat \ {0} /\ next \in Nat
  BY TurnCount DEF WakeInv, TypeOK
<1>2. todo.turn = 0 \/ todo.turn \in 1..Turns(todo.stage)
  BY DEF WakeInv
<1>3. First \in Nat /\ Last \in Nat
  BY <1>1, <1>2 DEF First, Last
<1>4. ASSUME NEW a \in Batch
      PROVE  /\ a \in Attempt /\ a = <<todo.stage, a[2]>> /\ a[2] \in Nat
             /\ First <= a[2] /\ a[2] <= Last
  <2>1. a \in Attempt /\ a[1] = todo.stage
    BY DEF Batch, Of
  <2>2. a[2] \in 1..Turns(todo.stage) /\ a = <<todo.stage, a[2]>>
    BY <2>1, CallPlaces
  <2>3. todo.turn \in {0, a[2]}
    BY DEF Batch
  <2> QED
    BY <1>1, <1>2, <2>1, <2>2, <2>3 DEF First, Last
<1>5. ASSUME next >= First, next <= Last
      PROVE  Place \in Batch
  <2>1. next \in 1..Turns(todo.stage) /\ todo.turn \in {0, next}
    BY <1>1, <1>2, <1>5 DEF First, Last
  <2> QED
    BY <1>1, <2>1, CallPlace DEF Batch, Place
<1> QED
  BY <1>3, <1>4, <1>5

\* The three ways a call is prepared: a cancel shows, it is prepared, it is refused.
LEMMA PrepareMoves ==
  ASSUME TypeOK, TodoInv, BatchInv, Prepare
  PROVE  /\ at = "batch" /\ next \in Nat /\ Place \in Batch /\ Place[2] = next
         /\ UNCHANGED <<store, todo, approved>>
         /\ \/ /\ CancelVisible /\ UNCHANGED <<call, result>>
               /\ at' = (IF InParallel THEN "submit" ELSE "collect") /\ next' = next
            \/ /\ ~CancelVisible /\ call' = [call EXCEPT ![Place] = "prepared"] /\ UNCHANGED result
               /\ IF InParallel THEN at' = "batch" /\ next' = next + 1
                  ELSE at' = "submit" /\ next' = next
            \/ /\ ~CancelVisible /\ UNCHANGED call
               /\ \E r \in {"failed", "fatal"} : result' = [result EXCEPT ![Place] = r]
               /\ \/ at' = "batch" /\ next' = next + 1
                  \/ at' = (IF InParallel THEN "submit" ELSE "collect") /\ next' = next
<1>1. at = "batch" /\ next <= Last /\ next \in Nat /\ UNCHANGED <<store, todo, approved>>
  BY DEF Prepare, TypeOK, Goto, callVars
<1>2. Place \in Batch /\ Place[2] = next
  BY <1>1, BatchPlaces DEF TodoInv, InBatch, BatchInv, Place
<1>3. CASE CancelVisible
  BY <1>1, <1>2, <1>3 DEF Prepare, Goto, callVars
<1>4. CASE ~CancelVisible
  BY <1>1, <1>2, <1>4 DEF Prepare, Goto, callVars
<1> QED
  BY <1>3, <1>4

LEMMA StepPrepared ==
  ASSUME TypeOK, TodoInv, FlyingInv, PreparedInv, BatchInv, [Next]_vars
  PROVE  PreparedInv'
<1> USE DEF Goto, callVars, runVars, vars
<1>1. CASE Prepare
  <2>1. at = "batch" /\ next \in Nat /\ Place \in Batch /\ Place[2] = next /\ UNCHANGED <<store, todo>>
    BY <1>1, PrepareMoves
  <2>2. \A a \in Attempt : call[a] = "prepared" => InParallel /\ a \in Batch /\ a[2] < next
    BY <2>1 DEF PreparedInv
  <2>3. \A a \in Batch : a[2] \in Nat
    BY <2>1, BatchPlaces DEF TodoInv, InBatch
  <2>4. CASE UNCHANGED call /\ at' \in {"batch", IF InParallel THEN "submit" ELSE "collect"}
                            /\ next' \in {next, next + 1}
    BY <2>1, <2>2, <2>3, <2>4, BatchStays DEF PreparedInv
  <2>5. CASE call' = [call EXCEPT ![Place] = "prepared"]
    <3>1. \A a \in Attempt : call'[a] = "prepared" => a = Place \/ call[a] = "prepared"
      BY <2>5 DEF TypeOK
    <3>2. CASE InParallel /\ at' = "batch" /\ next' = next + 1
      <4>1. \A a \in Attempt : call'[a] = "prepared" => a \in Batch /\ a[2] < next'
        BY <2>1, <2>2, <2>3, <3>1, <3>2
      <4> QED
        BY <2>1, <3>2, <4>1, BatchStays DEF PreparedInv
    <3>3. CASE ~InParallel /\ at' = "submit" /\ next' = next
      <4>1. \A a \in Attempt : call'[a] = "prepared" => a = Place
        BY <2>2, <3>1, <3>3
      <4> QED
        BY <2>1, <3>3, <4>1, BatchStays DEF PreparedInv, Place
    <3> QED
      BY <1>1, <2>4, <2>5, <3>2, <3>3, PrepareMoves
  <2> QED
    BY <1>1, <2>4, <2>5, PrepareMoves
<1>2. CASE Prepared
  BY <1>2, BatchStays DEF Prepared, PreparedInv
<1>3. CASE Submit
  <2>1. at = "submit" /\ UNCHANGED <<store, todo, next>>
    BY <1>3 DEF Submit
  <2>2. CASE CancelVisible
    BY <1>3, <2>1, <2>2, BatchStays DEF Submit, PreparedInv, CancelVisible, Place
  <2>3. ASSUME NEW a \in Batch, call[a] = "prepared", call' = [call EXCEPT ![a] = "started"],
               IF \E b \in Batch \ {a} : call[b] = "prepared" THEN UNCHANGED runVars ELSE Goto("gather")
        PROVE  PreparedInv'
    <3>1. \A b \in Attempt : call'[b] = "prepared" =>
             call[b] = "prepared" /\ b \in Batch \ {a} /\ (InParallel \/ b = Place)
      BY <2>1, <2>3 DEF PreparedInv, TypeOK
    <3>2. CASE at' = "submit"
      BY <2>1, <3>1, <3>2, BatchStays DEF PreparedInv, Place
    <3>3. CASE at' # "submit"
      <4>1. \A b \in Attempt : call'[b] # "prepared"
        BY <2>1, <2>3, <3>1, <3>3
      <4> QED
        BY <4>1 DEF PreparedInv
    <3> QED
      BY <3>2, <3>3
  <2> QED
    BY <1>3, <2>2, <2>3 DEF Submit
<1>4. CASE SubmitNone
  BY <1>4 DEF SubmitNone, PreparedInv
<1>5. CASE Gather
  <2>1. at = "gather" /\ UNCHANGED <<call, todo, store>>
    BY <1>5 DEF Gather
  <2>2. CASE at' = "collect"
    BY <2>1, <2>2 DEF PreparedInv, CancelVisible
  <2>3. CASE at' # "collect"
    <3>1. ~InParallel /\ call[Place] = "done"
      BY <1>5, <2>3 DEF Gather
    <3>2. \A a \in Attempt : call[a] # "prepared"
      BY <2>1, <3>1 DEF PreparedInv
    <3> QED
      BY <2>1, <3>2 DEF PreparedInv
  <2> QED
    BY <2>2, <2>3
<1>6. CASE Collect
  BY <1>6 DEF Collect, PreparedInv
<1>7. CASE RunStep /\ ~Prepare /\ ~Prepared /\ ~Submit /\ ~SubmitNone /\ ~Gather /\ ~Collect
  <2>1. UNCHANGED call /\ at \notin {"batch", "submit", "gather", "collect", "ended", "raised"}
    BY <1>7 DEF RunStep, BatchStep, Create, Reject, Leave, Bootstrap, Decide, Apply, Save, Fail,
          LockData, Export, Exported, Release
  <2>2. at = "release" => at' = "ended"
    BY <1>7 DEF RunStep, BatchStep, Create, Reject, Leave, Bootstrap, Decide, Apply, Save, Fail,
          LockData, Export, Exported, Release
  <2> QED
    BY <2>1, <2>2 DEF PreparedInv
<1>8. ASSUME NEW a \in Attempt, CallStep(a) \/ Answer(a)
      PROVE  PreparedInv'
  <2>1. \A b \in Attempt : call'[b] = "prepared" => call[b] = "prepared"
    BY <1>8 DEF CallStep, Answer, CallBegin, CallSend, CallFail, CallPass, CallApprove, CallEnds, TypeOK
  <2>2. UNCHANGED <<store, at, todo, next>>
    BY <1>8, CallStays
  <2> QED
    BY <2>1, <2>2, BatchStays DEF PreparedInv, CancelVisible, Place
<1>9. CASE (\E c \in Canceller : CancelStep(c)) \/ UNCHANGED vars
  <2>1. UNCHANGED <<call, at, todo, next>> /\ (CancelVisible => CancelVisible')
    BY <1>9 DEF CancelStep, CancelLoad, CancelSave, CancelTell, CancelVisible, At
  <2> QED
    BY <2>1, BatchStays DEF PreparedInv, Place
<1>10. CASE Raise
  BY <1>10 DEF Raise, PreparedInv
<1> QED
  BY <1>1, <1>2, <1>3, <1>4, <1>5, <1>6, <1>7, <1>8, <1>9, <1>10 DEF Next

\* A step of the calls ends none of them without a result.
LEMMA CallsEnd ==
  ASSUME TypeOK, NEW a \in Attempt, CallStep(a) \/ Answer(a), NEW b \in Attempt
  PROVE  /\ Dead(b) => Dead(b)'
         /\ Ending(b) => Ending(b)'
<1> USE DEF TypeOK, Dead, Ending, Failed, Pending, Passed, InFlight, callVars
<1>1. call[a] \in InFlight /\ approved \subseteq approved'
      /\ (b # a => call'[b] = call[b] /\ result'[b] = result[b])
  BY DEF CallStep, Answer, CallBegin, CallSend, CallFail, CallPass, CallApprove, CallEnds
<1>2. CASE b # a
  BY <1>1, <1>2
<1>3. CASE b = a
  <2>1. \/ call'[a] \in InFlight
        \/ call'[a] = "done" /\ result'[a] \in {"failed", "fatal"}
        \/ call'[a] = "done" /\ result'[a] = "succeeded" /\ a \in approved'
    BY DEF CallStep, Answer, CallBegin, CallSend, CallFail, CallPass, CallApprove, CallEnds
  <2> QED
    BY <1>1, <1>3, <2>1
<1> QED
  BY <1>2, <1>3

LEMMA PrepareBatch ==
  ASSUME TypeOK, TodoInv, FlyingInv, PreparedInv, BatchInv, Prepare
  PROVE  BatchInv'
<1>1. /\ at = "batch" /\ next \in Nat /\ UNCHANGED <<store, todo, approved>>
      /\ Place \in Batch /\ Place[2] = next
  BY PrepareMoves
<1>. PICK p \in Batch : p = Place
  BY <1>1
<1>2. /\ next >= First /\ First \in Nat
      /\ \A a \in Batch : /\ a \in Attempt /\ a[2] \in Nat
                          /\ a[2] = next <=> a = p
                          /\ a[2] < next => Ending(a)
  <2>1. \A a \in Batch : a \in Attempt /\ a = <<todo.stage, a[2]>> /\ a[2] \in Nat
    BY <1>1, BatchPlaces DEF TodoInv, InBatch
  <2>2. First \in Nat
    BY <1>1, BatchPlaces DEF TodoInv, InBatch
  <2>3. next >= First /\ \A a \in Batch : a[2] < next => Ending(a)
    BY <1>1 DEF BatchInv, Reached
  <2> QED
    BY <1>1, <2>1, <2>2, <2>3 DEF Place
<1>3. Batch' = Batch /\ First' = First /\ InParallel' = InParallel
  BY <1>1, BatchStays
<1>4. CASE /\ CancelVisible /\ UNCHANGED <<call, result>>
           /\ at' = (IF InParallel THEN "submit" ELSE "collect") /\ next' = next
  <2>1. CancelVisible'
    BY <1>1, <1>4 DEF CancelVisible
  <2>2. \A a \in Batch : Ending(a) => Ending(a)'
    BY <1>1, <1>4 DEF Ending, Dead, Failed, Pending, Passed
  <2> QED
    BY <1>1, <1>2, <1>3, <1>4, <2>1, <2>2 DEF BatchInv, Reached
<1>5. CASE /\ call' = [call EXCEPT ![p] = "prepared"] /\ UNCHANGED result
           /\ IF InParallel THEN at' = "batch" /\ next' = next + 1
              ELSE at' = "submit" /\ next' = next
  <2>1. \A a \in Attempt : a # p => (Ending(a) => Ending(a)')
    BY <1>1, <1>5 DEF TypeOK, Ending, Dead, Failed, Pending, Passed
  <2>2. Ending(p)'
    <3>1. call'[p] = "prepared"
      BY <1>2, <1>5 DEF TypeOK
    <3> QED
      BY <3>1 DEF Ending, Pending
  <2>3. \A a \in Batch : a[2] <= next => Ending(a)'
    BY <1>1, <1>2, <2>1, <2>2
  <2>4. CASE InParallel
    BY <1>1, <1>2, <1>3, <1>5, <2>3, <2>4 DEF BatchInv, Reached
  <2>5. CASE ~InParallel
    <3>1. Place' = p
      BY <1>1, <1>5, <2>5 DEF Place
    <3> QED
      BY <1>1, <1>2, <1>3, <1>5, <2>3, <2>5, <3>1 DEF BatchInv, Reached
  <2> QED
    BY <2>4, <2>5
<1>6. ASSUME NEW r \in {"failed", "fatal"}, result' = [result EXCEPT ![p] = r], UNCHANGED call,
             \/ at' = "batch" /\ next' = next + 1
             \/ at' = (IF InParallel THEN "submit" ELSE "collect") /\ next' = next
      PROVE  BatchInv'
  <2>1. \A a \in Attempt : a # p => (Ending(a) => Ending(a)')
    BY <1>1, <1>6 DEF TypeOK, Ending, Dead, Failed, Pending, Passed
  <2>2. ~Pending(p)
    <3>1. p \notin Flying
      BY <1>1 DEF FlyingInv
    <3>2. call[p] # "prepared"
      BY <1>1, <1>2 DEF PreparedInv
    <3> QED
      BY <1>2, <3>1, <3>2 DEF Flying, Pending
  <2>3. Dead(p)' /\ Failed(p)'
    <3>1. result'[p] = r
      BY <1>2, <1>6 DEF TypeOK
    <3> QED
      BY <1>6, <2>2, <3>1 DEF Dead, Failed, Pending
  <2>4. \A a \in Batch : a[2] <= next => Ending(a)'
    BY <1>1, <1>2, <2>1, <2>3 DEF Ending
  <2>5. CASE at' = "batch" /\ next' = next + 1
    BY <1>1, <1>2, <1>3, <2>4, <2>5 DEF BatchInv, Reached
  <2>6. CASE InParallel /\ at' = "submit" /\ next' = next
    BY <1>1, <1>2, <1>3, <2>3, <2>4, <2>6 DEF BatchInv, Reached
  <2>7. CASE at' = "collect"
    BY <1>3, <2>3, <2>7 DEF BatchInv
  <2> QED
    BY <1>6, <2>5, <2>6, <2>7
<1> QED
  BY <1>4, <1>5, <1>6, PrepareMoves

\* All calls of the batch have ended.
LEMMA BatchEnds ==
  ASSUME TypeOK, PreparedInv, BatchInv, at \in {"batch", "gather"}, at = "batch" => ~InParallel,
         Flying = {}, \A a \in Batch : Reached(a)
  PROVE  CancelVisible \/ (\E a \in Batch : Failed(a)) \/ (\A a \in Batch : Passed(a))
<1> SUFFICES ASSUME NEW a \in Batch, ~CancelVisible, ~Failed(a)
             PROVE  Passed(a)
  OBVIOUS
<1>1. Ending(a) /\ a \in Attempt
  BY DEF BatchInv, Batch, Of
<1>2. call[a] \notin {"prepared"} \cup InFlight
  BY <1>1 DEF PreparedInv, Flying
<1> QED
  BY <1>1, <1>2 DEF Ending, Dead, Pending

LEMMA StepBatch ==
  ASSUME TypeOK, TodoInv, FlyingInv, PreparedInv, BatchInv, [Next]_vars
  PROVE  BatchInv'
<1> USE DEF Goto, callVars, runVars, vars
<1>1. CASE Prepare
  BY <1>1, PrepareBatch
<1>2. CASE Prepared
  <2>1. at = "batch" /\ next > Last /\ UNCHANGED <<store, todo, next, call, result, approved>>
        /\ at' = IF InParallel THEN "submit" ELSE "collect"
    BY <1>2 DEF Prepared
  <2>2. Last \in Nat /\ next \in Nat /\ \A a \in Batch : a[2] \in Nat /\ a[2] <= Last
    BY <2>1, BatchPlaces DEF TodoInv, InBatch, TypeOK
  <2>3. next >= First /\ \A a \in Batch : a[2] < next /\ Reached(a) /\ Ending(a)
    BY <2>1, <2>2 DEF BatchInv, Reached
  <2>4. \A a \in Batch : Ending(a)'
    BY <2>1, <2>3 DEF Ending, Dead, Failed, Pending, Passed
  <2>5. CASE InParallel
    BY <2>1, <2>3, <2>4, <2>5, BatchStays DEF BatchInv
  <2>6. CASE ~InParallel
    <3>1. Flying = {}
      BY <2>1 DEF FlyingInv
    <3>2. CancelVisible \/ (\E a \in Batch : Failed(a)) \/ Batch \subseteq approved
      BY <2>1, <2>3, <2>6, <3>1, BatchEnds DEF Passed
    <3> QED
      BY <2>1, <2>6, <3>2, BatchStays DEF BatchInv, CancelVisible, Failed
  <2> QED
    BY <2>5, <2>6
<1>3. CASE Submit \/ SubmitNone
  <2>1. /\ at = "submit" /\ at' \in {"submit", "gather"} /\ UNCHANGED <<store, todo, next, result, approved>>
        /\ \/ UNCHANGED call
           \/ \E a \in Batch : call[a] = "prepared" /\ call' = [call EXCEPT ![a] = "started"]
    BY <1>3 DEF Submit, SubmitNone
  <2>2. \A b \in Attempt : call'[b] = call[b] \/ (call[b] = "prepared" /\ call'[b] = "started")
    BY <2>1 DEF TypeOK
  <2>3. \A b \in Attempt : (Dead(b) => Dead(b)') /\ (Ending(b) => Ending(b)')
    BY <2>1, <2>2 DEF Ending, Dead, Failed, Pending, Passed, InFlight
  <2>4. \A b \in Batch : b \in Attempt
    BY DEF Batch, Of
  <2> QED
    BY <2>1, <2>3, <2>4, BatchStays DEF BatchInv, Reached, Place, CancelVisible
<1>4. CASE Gather
  <2>1. at = "gather" /\ Flying = {} /\ UNCHANGED <<store, todo, call, result, approved>>
    BY <1>4 DEF Gather
  <2>2. /\ next \in Nat /\ First \in Nat /\ next >= First
        /\ \A a \in Batch : a = <<todo.stage, a[2]>> /\ a[2] \in Nat
    BY <2>1, BatchPlaces DEF TodoInv, InBatch, TypeOK, BatchInv
  <2>3. CASE at' = "batch" /\ next' = next + 1 /\ ~InParallel
    <3>1. \A a \in Batch : a[2] < next' => Reached(a)
      BY <2>1, <2>2, <2>3 DEF Reached, Place
    <3>2. \A a \in Batch : a[2] < next' => Ending(a)'
      BY <2>1, <3>1 DEF BatchInv, Ending, Dead, Failed, Pending, Passed
    <3> QED
      BY <2>1, <2>2, <2>3, <3>2, BatchStays DEF BatchInv, Reached
  <2>4. CASE at' = "collect"
    <3>1. CancelVisible \/ (\E a \in Batch : Failed(a)) \/ Batch \subseteq approved
      <4>1. CASE InParallel
        <5>1. CancelVisible \/ (\E a \in Batch : Dead(a)) \/ (\A a \in Batch : Reached(a))
          BY <2>1, <4>1 DEF BatchInv, Reached
        <5> QED
          BY <2>1, <5>1, BatchEnds DEF Dead, Passed
      <4>2. CASE ~InParallel
        <5>1. Place \in Batch /\ Reached(Place)
          BY <2>1, <4>2 DEF BatchInv, Reached
        <5>2. Ending(Place) /\ Place \in Attempt
          BY <2>1, <5>1 DEF BatchInv, Batch, Of
        <5>3. CASE Failed(Place)
          BY <5>1, <5>3
        <5>4. CASE Pending(Place)
          BY <2>1, <5>2, <5>4 DEF Pending, Flying, PreparedInv
        <5>5. CASE Passed(Place)
          BY <1>4, <2>4, <4>2, <5>5 DEF Gather, Passed
        <5> QED
          BY <5>2, <5>3, <5>4, <5>5 DEF Ending, Dead
      <4> QED
        BY <4>1, <4>2
    <3> QED
      BY <2>1, <2>4, <3>1, BatchStays DEF BatchInv, CancelVisible, Failed
  <2> QED
    BY <1>4, <2>3, <2>4 DEF Gather
<1>5. CASE LockData
  <2>1. at = "lock" /\ UNCHANGED <<store, todo, next>> /\ next = First
        /\ (at' = "batch" \/ (at' = "collect" /\ CancelVisible))
    BY <1>5 DEF LockData, BatchInv
  <2>2. First \in Nat /\ \A a \in Batch : a[2] \in Nat /\ First <= a[2]
    BY <2>1, BatchPlaces DEF TodoInv, InBatch
  <2> QED
    BY <2>1, <2>2, BatchStays DEF BatchInv, Reached, CancelVisible
<1>6. CASE Save
  <2>1. at = "save" /\ at' = After /\ UNCHANGED todo /\ (todo.kind = "wake" => next' = First)
    BY <1>6 DEF Save
  <2>2. CASE at' \in {"lock", "batch"}
    <3>1. todo.kind = "wake" /\ next' = First
      BY <2>1, <2>2 DEF After
    <3>2. First \in Nat /\ \A a \in Batch : a[2] \in Nat /\ First <= a[2]
      BY <2>1, <3>1, BatchPlaces DEF TodoInv, DecisionInv, Decided
    <3> QED
      BY <2>1, <2>2, <3>1, <3>2, BatchStays DEF BatchInv, Reached
  <2>3. CASE at' \notin {"lock", "batch"}
    BY <2>1, <2>3 DEF After, BatchInv
  <2> QED
    BY <2>2, <2>3
<1>7. CASE RunStep /\ ~LockData /\ ~Prepare /\ ~Prepared /\ ~Submit /\ ~SubmitNone /\ ~Gather /\ ~Save
  <2>1. at' \notin {"lock", "batch", "submit", "gather", "collect"}
    BY <1>7 DEF RunStep, BatchStep, Create, Reject, Leave, Bootstrap, Decide, Apply, Fail, Collect,
          Export, Exported, Release
  <2> QED
    BY <2>1 DEF BatchInv
<1>8. ASSUME NEW a \in Attempt, CallStep(a) \/ Answer(a)
      PROVE  BatchInv'
  <2>1. UNCHANGED <<store, at, todo, next>>
    BY <1>8, CallStays
  <2>2. a \in Flying
    BY <1>8 DEF CallStep, Answer, CallBegin, CallSend, CallFail, CallPass, CallApprove, Flying, InFlight
  <2>3. at \in {"submit", "gather"}
    BY <2>2 DEF FlyingInv
  <2>4. \A b \in Batch : (Dead(b) => Dead(b)') /\ (Ending(b) => Ending(b)')
    BY <1>8, CallsEnd DEF Batch, Of
  <2> QED
    BY <2>1, <2>3, <2>4, BatchStays DEF BatchInv, Reached, Place, CancelVisible
<1>9. CASE (\E c \in Canceller : CancelStep(c)) \/ UNCHANGED vars
  <2>1. UNCHANGED <<call, result, approved, at, todo, next>> /\ (CancelVisible => CancelVisible')
    BY <1>9 DEF CancelStep, CancelLoad, CancelSave, CancelTell, CancelVisible, At
  <2>2. \A b : (Dead(b) => Dead(b)') /\ (Ending(b) => Ending(b)') /\ (Failed(b) => Failed(b)')
    BY <2>1 DEF Ending, Dead, Failed, Pending, Passed
  <2> QED
    BY <2>1, <2>2, BatchStays DEF BatchInv, Reached, Place
<1>10. CASE Raise
  BY <1>10 DEF Raise, BatchInv
<1> QED
  BY <1>1, <1>2, <1>3, <1>4, <1>5, <1>6, <1>7, <1>8, <1>9, <1>10 DEF Next

\* The client refuses the calls of a cancelled run until the run thread is over.
LEMMA StepCut ==
  ASSUME TypeOK, CutInv, [Next]_vars
  PROVE  CutInv'
<1> USE DEF Goto, runVars, vars
<1>1. CASE RunStep
  <2>1. UNCHANGED canceller /\ (UNCHANGED cut \/ at' = "ended") /\ at \notin {"ended", "raised"}
    BY <1>1 DEF RunStep, BatchStep, Create, Reject, Leave, Bootstrap, Decide, Apply, Save, Fail,
          LockData, Prepare, Prepared, Submit, SubmitNone, Gather, Collect, Export, Exported, Release
  <2> QED
    BY <2>1 DEF CutInv
<1>2. CASE \E a \in Attempt : CallStep(a) \/ Answer(a)
  BY <1>2, CallStays DEF CutInv
<1>3. ASSUME NEW c \in Canceller, CancelStep(c)
      PROVE  CutInv'
  BY <1>3 DEF CancelStep, CancelLoad, CancelSave, CancelTell, Mark, CutInv, TypeOK
<1>4. CASE Raise \/ UNCHANGED vars
  BY <1>4 DEF Raise, CutInv
<1> QED
  BY <1>1, <1>2, <1>3, <1>4 DEF Next

-----------------------------------------------------------------------------
(* The theorems *)

RunInv ==
  /\ TypeOK
  /\ StoreInv /\ LadderInv /\ TodoInv /\ DecideInv
  /\ DebateInv /\ ResultInv
  /\ FlyingInv /\ PreparedInv /\ BatchInv
  /\ CutInv

LEMMA InitInv == Init => RunInv
<1> SUFFICES ASSUME Init
             PROVE  RunInv
  OBVIOUS
<1>1. TypeOK
  <2>1. Do("wait", NoStage) \in Decision
    BY DEF Do, Decision
  <2> QED
    BY <2>1, StatusType DEF Init, TypeOK
<1>2. StoreInv /\ LadderInv /\ TodoInv /\ DecideInv
  BY DEF Init, At, StoreInv, LadderInv, TodoInv, DecideInv, Decided, InBatch
<1>3. DebateInv /\ ResultInv
  BY DEF Init, DebateInv, ResultInv
<1>4. FlyingInv /\ PreparedInv /\ BatchInv /\ CutInv
  BY DEF Init, Flying, InFlight, FlyingInv, PreparedInv, BatchInv, CutInv
<1> QED
  BY <1>1, <1>2, <1>3, <1>4 DEF RunInv

LEMMA StepInv == RunInv /\ [Next]_vars => RunInv'
BY StepType, StepStore, StepLadder, StepTodo, StepDecide, StepDebate, StepResult, StepFlying,
   StepPrepared, StepBatch, StepCut DEF RunInv

LEMMA RunCorrect == Spec => []RunInv
BY InitInv, StepInv, PTL DEF Spec

\* The types of the run: in particular every decision of the controller names a stage
\* there is, and every status that is saved is one.
THEOREM TypeCorrect == Spec => []TypeOK
BY RunCorrect, PTL DEF RunInv

\* For every market, number of rounds and number of sections, in series and in
\* parallel: a worker is called only when all that the stages and the turns before it
\* have to say is approved.
THEOREM UpstreamApprovedCorrect == Spec => []UpstreamApproved
<1>1. RunInv => UpstreamApproved
  <2> SUFFICES ASSUME RunInv, NEW a \in Flying
               PROVE  /\ \A s \in 1..(a[1] - 1) : Of(s) \subseteq approved
                      /\ a[1] \in Debate => \A k \in 1..(a[2] - 1) : <<a[1], k>> \in approved
    BY DEF UpstreamApproved
  <2>1. a \in Batch /\ WakeInv
    BY DEF RunInv, FlyingInv, TodoInv, InBatch
  <2>2. a[1] = todo.stage /\ todo.turn \in {0, a[2]}
    BY <2>1 DEF Batch, Of
  <2>3. todo.stage \in Debate => TurnsBefore(todo.stage, a[2])
    BY <2>1, <2>2 DEF WakeInv
  <2> QED
    BY <2>1, <2>2, <2>3 DEF WakeInv, Upstream, TurnsBefore
<1> QED
  BY <1>1, RunCorrect, PTL

\* A run is saved as completed only with every call of every stage approved and an
\* export that allows it, whatever is cancelled meanwhile.
THEOREM CompletedReportCorrect == Spec => []CompletedReport
<1>1. RunInv => CompletedReport
  <2> SUFFICES ASSUME RunInv, store.phase = "completed"
               PROVE  /\ Attempt \subseteq approved
                      /\ exported \in {"passed"} \cup (IF AssetsMayFail THEN {"assets"} ELSE {})
    BY DEF CompletedReport
  <2>1. Upstream(LastStage + 1) /\ Allows(exported)
    BY DEF RunInv, LadderInv
  <2>2. \A s \in Stage : Of(s) \subseteq approved
    BY <2>1 DEF Upstream, Stage, LastStage
  <2>3. Attempt \subseteq approved
    BY <2>2, CallPlaces
  <2> QED
    BY <2>1, <2>3 DEF Allows
<1> QED
  BY <1>1, RunCorrect, PTL

\* The controller never waits and every way out of the run thread but an exception is
\* taken with a terminal status in the run store.
THEOREM EndedIsTerminalCorrect == Spec => []EndedIsTerminal
<1>1. RunInv => EndedIsTerminal
  BY DEF RunInv, StoreInv, EndedIsTerminal
<1> QED
  BY <1>1, RunCorrect, PTL

\* No call is sent once a cancel has been acknowledged.
THEOREM CancelStopsCallsCorrect == Spec => CancelStopsCalls
<1>1. RunInv /\ [Next]_vars =>
        [(\E c \in Canceller : canceller[c] = "told") =>
           \A a \in Attempt : call[a] \in {"none", "prepared", "started", "cleared"} => call'[a] # "sent"]_vars
  <2> SUFFICES ASSUME RunInv, [Next]_vars, \E c \in Canceller : canceller[c] = "told",
                      NEW a \in Attempt, call[a] \in {"none", "prepared", "started", "cleared"},
                      call'[a] = "sent"
               PROVE  FALSE
    OBVIOUS
  <2>1. CASE RunStep
    BY <2>1 DEF RunStep, BatchStep, Create, Reject, Leave, Bootstrap, Decide, Apply, Save, Fail,
          LockData, Prepare, Prepared, Submit, SubmitNone, Gather, Collect, Export, Exported, Release,
          callVars, RunInv, TypeOK
  <2>2. ASSUME NEW b \in Attempt, CallStep(b) \/ Answer(b)
        PROVE  FALSE
    <3>1. call[a] = "cleared" /\ ~cut
      BY <2>2 DEF CallStep, Answer, CallBegin, CallSend, CallFail, CallPass, CallApprove, CallEnds,
                  RunInv, TypeOK
    <3>2. at \in {"submit", "gather"}
      BY <3>1 DEF RunInv, FlyingInv, Flying, InFlight
    <3> QED
      BY <3>1, <3>2 DEF RunInv, CutInv
  <2>3. CASE (\E c \in Canceller : CancelStep(c)) \/ Raise \/ UNCHANGED vars
    BY <2>3 DEF CancelStep, CancelLoad, CancelSave, CancelTell, Raise, callVars, vars
  <2> QED
    BY <2>1, <2>2, <2>3 DEF Next
<1> QED
  BY <1>1, RunCorrect, PTL DEF Spec, CancelStopsCalls

-----------------------------------------------------------------------------
(* The run implements RunThread *)

\* The status of an open run is seen as "running".
LEMMA OpenSeen ==
  ASSUME store.phase \in Open
  PROVE  StoreSeen = "running"
BY DEF Open, StoreSeen

\* What is planned is a status that RunThread knows, and what is saved is what was
\* planned.
LEMMA PlanType ==
  ASSUME TypeOK, DecisionInv, state.phase # "cancelled"
  PROVE  PlanOf(Outcome) \in {"running", "completed", "failed"} /\ Outcome.phase \notin {"none", "cancelled"}
<1>1. todo.kind \in {"fail", "advance", "wake", "export", "complete"}
  BY DEF DecisionInv, TypeOK, Decision
<1>2. Outcome.phase \notin {"none", "cancelled"}
  BY <1>1 DEF Outcome, At
<1> QED
  BY <1>2 DEF PlanOf

LEMMA SaveSeen ==
  ASSUME TypeOK, StoreInv, TodoInv, Save
  PROVE  Seen!Save
<1>1. at = "save" /\ at' = After /\ store' = Outcome
  BY DEF Save
<1>2. ThreadSeen = "alive" /\ ThreadSeen' = "alive" /\ PlanSeen' = "none"
  BY <1>1 DEF After, ThreadSeen, PlanSeen
<1>3. PlanSeen = PlanOf(Outcome)
  BY <1>1 DEF PlanSeen
<1>4. DecisionInv /\ state.phase # "cancelled"
  BY <1>1 DEF StoreInv, TodoInv, Decided
<1>5. StoreSeen' = PlanOf(Outcome) /\ PlanSeen # "none"
  BY <1>1, <1>3, <1>4, PlanType DEF StoreSeen, PlanOf
<1> QED
  BY <1>2, <1>3, <1>5 DEF Seen!Save

\* The look for a cancel that found none: a status is decided.
LEMMA ApplySeen ==
  ASSUME TypeOK, StoreInv, TodoInv, Apply
  PROVE  Seen!Decide \/ UNCHANGED Seen!runVars
<1>1. at = "apply" /\ UNCHANGED <<store, state, todo, exported>>
  BY DEF Apply, Goto
<1>2. ThreadSeen = "alive" /\ ThreadSeen' = "alive" /\ PlanSeen = "none" /\ StoreSeen' = StoreSeen
  BY <1>1 DEF Apply, Goto, ThreadSeen, PlanSeen, StoreSeen
<1>3. CASE at' = "release"
  BY <1>2, <1>3 DEF PlanSeen, Seen!runVars
<1>4. CASE at' = "save" /\ ~CancelVisible
  <2>1. store = state /\ state.phase \in Open /\ DecisionInv
    BY <1>1, <1>4 DEF StoreInv, TodoInv, Decided, CancelVisible
  <2>2. PlanSeen' = PlanOf(Outcome)
    BY <1>1, <1>4 DEF PlanSeen, Outcome, PlanOf, Allows
  <2>3. PlanSeen' \in {"running", "completed", "failed"} /\ StoreSeen = "running"
    BY <2>1, <2>2, PlanType, OpenSeen DEF Open
  <2> QED
    BY <1>2, <2>3 DEF Seen!Decide
<1> QED
  BY <1>3, <1>4 DEF Apply, Goto

\* The way from a look for a cancel that found none to the save of a failure.
LEMMA FailSeen ==
  ASSUME StoreInv, Bootstrap \/ Collect \/ Exported
  PROVE  Seen!Decide \/ UNCHANGED Seen!runVars
<1>1. /\ at \in {"created", "collect", "exported"} /\ store' = store
      /\ at' \in {"release", "decide", "fail"} /\ (at' = "fail" => ~CancelVisible)
  BY DEF Bootstrap, Collect, Exported, Goto
<1>2. ThreadSeen = "alive" /\ ThreadSeen' = "alive" /\ PlanSeen = "none" /\ StoreSeen' = StoreSeen
  BY <1>1 DEF ThreadSeen, PlanSeen, StoreSeen
<1>3. CASE at' \in {"release", "decide"}
  BY <1>2, <1>3 DEF PlanSeen, Seen!runVars
<1>4. CASE at' = "fail"
  <2>1. store.phase \in Open
    BY <1>1, <1>4 DEF StoreInv, CancelVisible, Open, InBatch, At
  <2>2. PlanSeen' = "failed"
    BY <1>4 DEF PlanSeen
  <2> QED
    BY <1>2, <2>1, <2>2, OpenSeen DEF Seen!Decide
<1> QED
  BY <1>1, <1>3, <1>4

LEMMA RunSeen ==
  ASSUME TypeOK, StoreInv, TodoInv, RunStep
  PROVE  Seen!Next \/ UNCHANGED Seen!runVars
<1> USE DEF Goto, At, vars, runVars
<1>1. CASE Create
  <2>1. StoreSeen = "none" /\ StoreSeen' = "running"
    BY <1>1 DEF Create, StoreInv, StoreSeen
  <2>2. ThreadSeen = "alive" /\ ThreadSeen' = "alive" /\ PlanSeen' \in {"none", "failed"}
    BY <1>1 DEF Create, ThreadSeen, PlanSeen
  <2> QED
    BY <2>1, <2>2 DEF Seen!Create, Seen!Next
<1>2. CASE Reject \/ Fail
  <2>1. StoreSeen' = "failed" /\ PlanSeen = "failed" /\ PlanSeen' = "none"
    BY <1>2 DEF Reject, Fail, StoreSeen, PlanSeen
  <2>2. ThreadSeen = "alive" /\ ThreadSeen' = "alive"
    BY <1>2 DEF Reject, Fail, ThreadSeen
  <2> QED
    BY <2>1, <2>2 DEF Seen!Save, Seen!Next
<1>3. CASE Leave \/ Release
  <2>1. at \in {"leave", "release"} /\ at' = "ended" /\ store' = store
    BY <1>3 DEF Leave, Release
  <2>2. StoreSeen' = StoreSeen /\ StoreSeen \in Seen!RunEnd
    BY <2>1 DEF StoreInv, Ended, StoreSeen, Seen!RunEnd
  <2>3. ThreadSeen = "alive" /\ ThreadSeen' = "ended" /\ PlanSeen = "none" /\ PlanSeen' = "none"
    BY <2>1 DEF ThreadSeen, PlanSeen
  <2> QED
    BY <2>2, <2>3 DEF Seen!Exit, Seen!Next
<1>4. CASE Bootstrap \/ Collect \/ Exported
  BY <1>4, FailSeen DEF Seen!Next
<1>5. CASE Apply
  BY <1>5, ApplySeen DEF Seen!Next
<1>6. CASE Save
  BY <1>6, SaveSeen DEF Seen!Next
<1>7. CASE Decide \/ LockData \/ Prepare \/ Prepared \/ Submit \/ SubmitNone \/ Gather \/ Export
  <2>1. /\ at \in {"decide", "lock", "batch", "submit", "gather", "export"} /\ store' = store
        /\ at' \in {"apply", "batch", "collect", "submit", "gather", "exported"}
    BY <1>7 DEF Decide, LockData, Prepare, Prepared, Submit, SubmitNone, Gather, Export
  <2> QED
    BY <2>1 DEF StoreSeen, ThreadSeen, PlanSeen, Seen!runVars
<1> QED
  BY <1>1, <1>2, <1>3, <1>4, <1>5, <1>6, <1>7 DEF RunStep, BatchStep

\* The run is a run thread as the report queue expects it: each status it saves follows
\* a look for a cancel, it leaves with the run ended or by an exception, and a cancel
\* comes at any time after the run was created.
THEOREM ImplementsRunThreadCorrect == Spec => ImplementsRunThread
<1>1. Init => Seen!Init
  BY DEF Init, At, Seen!Init, StoreSeen, ThreadSeen, PlanSeen
<1>2. RunInv /\ [Next]_vars => [Seen!Next]_(Seen!runVars)
  <2> SUFFICES ASSUME RunInv, [Next]_vars
               PROVE  Seen!Next \/ UNCHANGED Seen!runVars
    OBVIOUS
  <2>0. TypeOK /\ StoreInv /\ TodoInv
    BY DEF RunInv
  <2>1. CASE RunStep
    BY <2>0, <2>1, RunSeen
  <2>2. CASE UNCHANGED <<store, at, state, todo, exported>>
    BY <2>2 DEF StoreSeen, ThreadSeen, PlanSeen, PlanOf, Outcome, Allows, Seen!runVars
  <2>3. CASE \E a \in Attempt : CallStep(a) \/ Answer(a)
    BY <2>2, <2>3, CallStays
  <2>4. ASSUME NEW c \in Canceller, CancelStep(c)
        PROVE  Seen!Next \/ UNCHANGED Seen!runVars
    <3>1. CASE CancelSave(c)
      <4>1. store.phase # "none" /\ store' = At("cancelled", NoStage)
            /\ UNCHANGED <<at, state, todo, exported>>
        BY <2>0, <3>1 DEF CancelSave, StoreInv, runVars
      <4>2. StoreSeen # "none" /\ StoreSeen' = "cancelled"
        BY <4>1 DEF StoreSeen, At
      <4>3. UNCHANGED <<ThreadSeen, PlanSeen>>
        BY <4>1 DEF ThreadSeen, PlanSeen, PlanOf, Outcome, Allows
      <4> QED
        BY <4>2, <4>3 DEF Seen!Cancel, Seen!Next
    <3>2. CASE CancelLoad(c) \/ CancelTell(c)
      BY <2>2, <3>2 DEF CancelLoad, CancelTell, runVars
    <3> QED
      BY <2>4, <3>1, <3>2 DEF CancelStep
  <2>5. CASE Raise
    <3>1. at \notin {"ended", "raised"} /\ at' = "raised" /\ store' = store
      BY <2>5 DEF Raise, Goto
    <3>2. ThreadSeen = "alive" /\ ThreadSeen' = "ended" /\ PlanSeen' = "none" /\ StoreSeen' = StoreSeen
      BY <3>1 DEF ThreadSeen, PlanSeen, StoreSeen
    <3> QED
      BY <3>2 DEF Seen!Die, Seen!Next
  <2>6. CASE UNCHANGED vars
    BY <2>2, <2>6 DEF vars, runVars
  <2> QED
    BY <2>1, <2>3, <2>4, <2>5, <2>6 DEF Next
<1> QED
  BY <1>1, <1>2, RunCorrect, PTL DEF Spec, ImplementsRunThread, Seen!Spec

=============================================================================

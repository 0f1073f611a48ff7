----------------------- MODULE WechatReconnectProofs -----------------------
(***************************************************************************)
(* Proofs about WechatReconnect, for any accounts and any number of        *)
(* handlers, operations, sessions and failures.  The inductive invariant   *)
(* says which calls may still be under way after their callers gave them   *)
(* up, and how old the copies are they work on, up to the look the         *)
(* controller has decided by although it may be undone (overtaken).        *)
(***************************************************************************)
EXTENDS WechatReconnect, TLAPS

-----------------------------------------------------------------------------
(* Types, and where the handler is the controller waits for. *)

AtBegin   == {"begin", "begin_stop", "begin_save"}
AtStart   == {"start", "start_qr"}
AtCommit  == {"commit", "commit_store", "commit_index", "commit_start", "commit_result",
              "commit_candidate", "commit_end"}
AtRestore == {"restore", "restore_index", "restore_start", "restore_end"}
Piece     == {"idle", "wait", "cancel"} \cup AtBegin \cup AtStart \cup AtCommit \cup AtRestore
Stage     == {"idle", "begin", "begun", "started", "shown", "polled", "cancel", "cancelled",
              "restore", "restored", "commit", "committed", "recover", "unbegun", "raised"}
Answer    == {"none", "ok", "error", "pending", "ended"} \cup Accounts

Candidate == [id : 0 .. MaxOps, sess : 0 .. MaxSessions, account : Accounts \cup {None}]
Result    == [id : 0 .. MaxOps, outcome : {"none", "committed", "restored"}]
Login     == [sess : 0 .. MaxSessions, state : {"none", "waiting", "connected", "ended"},
              account : Accounts \cup {None}]
Record    == [id : 0 .. MaxOps, phase : Phases, code : Codes,
              old : SUBSET Accounts, back : SUBSET Accounts,
              sess : 0 .. MaxSessions, cand : Accounts \cup {None}, off : BOOLEAN,
              from : Phases, outcome : {"none", "switched", "restored"}]

Typed ==
  /\ op \in Operation /\ (op.phase \in {"candidate_ready", "committing"} => op.account \in Accounts)
  /\ cand \in Candidate /\ (cand.sess # 0 => cand.account \in Accounts) /\ term \in Result
  /\ index \in SUBSET Accounts /\ stored \in SUBSET Accounts /\ running \in SUBSET Accounts
  /\ enabled \in BOOLEAN /\ qr \in 0 .. MaxSessions /\ sessions \in 0 .. MaxSessions
  /\ task \in Login /\ (task.state = "connected" => task.account \in Accounts)
  /\ at \in [Slots -> Piece] /\ mem \in [Slots -> Operation]
  /\ \A s \in Slots : at[s] \in AtCommit \ {"commit"} => mem[s].account \in Accounts
  /\ caller \in Slots \cup {None} /\ reply \in Answer
  /\ rec \in Record /\ ctl \in Stage /\ boot \in BOOLEAN /\ overtaken \in BOOLEAN
  /\ faults \in 0 .. MaxFaults

\* The handler that is waited for runs the method that was called last.
WaitsFor(s) ==
  \/ ctl = "begun" /\ at[s] \in AtBegin
  \/ ctl \in {"started", "shown"} /\ at[s] \in AtStart
  \/ ctl = "polled" /\ at[s] = "wait"
  \/ ctl = "cancelled" /\ at[s] = "cancel"
  \/ ctl = "restored" /\ at[s] \in AtRestore
  \/ ctl = "committed" /\ at[s] \in AtCommit

CallerInv ==
  /\ caller # None => WaitsFor(caller)
  /\ reply \in Accounts => ctl = "polled"
  /\ boot => ctl # "idle"

LEMMA InspectTyped ==
  ASSUME Typed
  PROVE  /\ \A o \in {NoOp, CleanOp, RecoveredOp} :
              o \in Operation /\ (o.phase \in {"candidate_ready", "committing"} => o.account \in Accounts)
         /\ \A c \in {NoCand, CleanCand} : c \in Candidate /\ (c.sess # 0 => c.account \in Accounts)
<1>1. NoOp \in Operation /\ NoOp.phase = "none" /\ NoCand \in Candidate /\ NoCand.sess = 0
  BY PluginAssumption DEF NoOp, NoCand, Operation, Candidate
<1>2. /\ CleanOp \in Operation
      /\ CleanOp.phase \in {"candidate_ready", "committing"} => CleanOp.account \in Accounts
      /\ CleanCand \in Candidate /\ (CleanCand.sess # 0 => CleanCand.account \in Accounts)
  BY <1>1 DEF Typed, CleanOp, CleanCand
<1>3. /\ RecoveredOp \in Operation
      /\ RecoveredOp.phase \in {"candidate_ready", "committing"} => RecoveredOp.account \in Accounts
  BY <1>2 DEF RecoveredOp, WithCandidate, IsCandidateOf, Operation, Candidate
<1> QED
  BY <1>1, <1>2, <1>3

\* Nothing is under way; nothing that undoes what is decided meanwhile.
Idle == \A s \in Slots : at[s] = "idle"
Mild == \A s \in Slots :
          at[s] \in {"idle", "start", "wait", "cancel", "commit", "commit_start", "restore"}

LEMMA LookMild ==
  ASSUME overtaken \in BOOLEAN
  PROVE  /\ Look => /\ Inspect /\ overtaken' \in BOOLEAN /\ (overtaken => overtaken')
                    /\ overtaken' \/ Mild
         /\ MayStart => /\ Inspect /\ overtaken' \in BOOLEAN /\ (overtaken => overtaken')
                        /\ overtaken' \/ (Idle /\ Mild)
<1>1. ASSUME NEW pieces, LookPast(pieces)
      PROVE  /\ Inspect /\ overtaken' = (overtaken \/ \E s \in Slots : at[s] \in pieces)
             /\ \A s \in Slots : at[s] \in Yielding
  BY <1>1 DEF LookPast
<1>2. ASSUME NEW pieces, LookPast(pieces)
      PROVE  /\ Inspect /\ overtaken' \in BOOLEAN /\ (overtaken => overtaken')
             /\ overtaken' \/ \A s \in Slots : at[s] \in Yielding \ pieces
  BY <1>1, <1>2
<1>3. Look => LookPast({"begin", "begin_stop", "start_qr", "restore_start"})
  BY DEF Look
<1>4. MayStart => LookPast(Yielding \ {"idle"})
  BY DEF MayStart
<1> QED
  BY <1>2, <1>3, <1>4 DEF Yielding, Idle, Mild

Control == Continue \/ Request \/ ProcessRestarts

\* A new call of a method, and the handler it is given.
NewCall(s) ==
  /\ at[s] = "idle"
  /\ at' = [at EXCEPT ![s] = at'[s]] /\ mem' = [mem EXCEPT ![s] = mem'[s]]
  /\ mem'[s] \in Operation /\ mem'[s].id = rec.id /\ mem'[s].sess = rec.sess
  /\ caller' = s /\ reply' = "none"
  /\ UNCHANGED <<lookVars, rec, boot>>
  /\ \/ ctl = "begin" /\ ctl' = "begun" /\ at'[s] = "begin"
     \/ ctl = "begun" /\ caller = None /\ reply = "ok" /\ ctl' = "started" /\ at'[s] = "start"
     \/ ctl = "idle" /\ rec.phase = "awaiting_scan" /\ ctl' = "shown" /\ at'[s] = "start"
     \/ ctl = "idle" /\ rec.phase = "awaiting_scan" /\ ctl' = "polled" /\ at'[s] = "wait"
     \/ ctl = "cancel" /\ ctl' = "cancelled" /\ at'[s] = "cancel"
     \/ ctl = "restore" /\ ctl' = "restored" /\ at'[s] = "restore"
     \/ ctl = "commit" /\ ctl' = "committed" /\ at'[s] = "commit"

Waiting == {"begun", "started", "shown", "polled", "cancelled", "restored", "committed"}

\* A step of the controller that calls nothing, or cannot reach the plugin.
NoCall ==
  /\ UNCHANGED <<at, mem>>
  /\ caller' = None
  /\ reply' \in {"none", "error"} \/ (reply' = reply /\ ctl \notin Waiting)
  /\ ctl' \in Waiting => reply' = "error"
  /\ \/ UNCHANGED lookVars
     \/ /\ Inspect /\ (overtaken' \/ Mild)
        /\ overtaken' \in BOOLEAN /\ (overtaken => overtaken')

LEMMA CallNew ==
  ASSUME Typed, CallerInv, NEW m, NEW w, CallWith(m, w)
  PROVE  \/ \E s \in Slots : /\ at[s] = "idle"
                             /\ at' = [at EXCEPT ![s] = m] /\ mem' = [mem EXCEPT ![s] = w]
                             /\ at'[s] = m /\ mem'[s] = w
                             /\ caller' = s /\ reply' = "none"
         \/ UNCHANGED <<at, mem, caller>> /\ reply' = "error"
<1>1. CASE \E s \in Slots : at[s] = "idle"
  <2>1. Free \in Slots /\ at[Free] = "idle"
    BY <1>1 DEF Free
  <2> QED
    BY <2>1 DEF CallWith, Typed
<1>2. CASE ~\E s \in Slots : at[s] = "idle"
  BY <1>2 DEF CallWith
<1> QED
  BY <1>1, <1>2

LEMMA ControlEffect ==
  ASSUME Typed, CallerInv, Control
  PROVE  /\ UNCHANGED <<term, index, stored, loginVars>>
         /\ NoCall \/ \E s \in Slots : NewCall(s)
<1> USE DEF NoCall, Waiting, lookVars
<1>l. overtaken \in BOOLEAN
  BY DEF Typed
<1>c. ctl \notin Waiting => caller = None
  BY DEF CallerInv, WaitsFor
<1>a. About \in Operation /\ About.id = rec.id /\ About.sess = rec.sess
  BY DEF About, Typed, Operation, Record
<1>1. CASE CallBegin
  <2> DEFINE w == [About EXCEPT !.old = rec.old]
  <2>1. w \in Operation /\ w.id = rec.id /\ w.sess = rec.sess
    BY DEF About, Typed, Operation, Record
  <2>2. CallWith("begin", w)
    BY <1>1 DEF CallBegin
  <2> HIDE DEF w
  <2> QED
    BY <1>1, <2>1, <2>2, <1>c, CallNew DEF CallBegin, NewCall, Goto, runtimeVars
<1>2. CASE Begun
  BY <1>2, <1>a, <1>c, CallNew DEF Begun, NewCall, Goto, Call, runtimeVars, Answered
<1>3. CASE ShowAgain
  BY <1>3, <1>a, <1>c, CallNew DEF ShowAgain, NewCall, Goto, Call, runtimeVars
<1>4. CASE Poll
  BY <1>4, <1>a, <1>c, CallNew DEF Poll, NewCall, Goto, Call, runtimeVars
<1>5. CASE CallCancel
  BY <1>5, <1>a, <1>c, CallNew DEF CallCancel, NewCall, Goto, Call, runtimeVars
<1>6. CASE CallRestore
  BY <1>6, <1>a, <1>c, CallNew DEF CallRestore, NewCall, Goto, Call, runtimeVars
<1>7. CASE CallCommit
  BY <1>7, <1>a, <1>c, CallNew DEF CallCommit, NewCall, Goto, Call, runtimeVars
<1> USE DEF Answered, Consume, Release, Goto, Raise, runtimeVars, callVars, fileVars, loginVars
<1>11. CASE StartFails \/ Started \/ Shown
  BY <1>11 DEF StartFails, Started, Shown
<1>12. CASE PollSteps
  BY <1>12 DEF PollSteps, PolledNothing, PolledLogin, PolledEnd
<1>13. CASE CancelFails \/ Cancelled
  BY <1>13 DEF CancelFails, Cancelled
<1>14. CASE Enable \/ RestoreAmbiguous \/ EnableFails \/ RestoreFails \/ RestoreSettled \/ SnapshotFails
  BY <1>14, <1>c, LookMild, <1>l DEF Enable, RestoreAmbiguous, EnableFails, RestoreFails, RestoreSettled, SnapshotFails
<1>15. CASE CommitUnasked \/ CommitSettled \/ CommitFailed
  BY <1>15, <1>c, LookMild, <1>l DEF CommitUnasked, CommitSettled, CommitFailed
<1>16. CASE RecoverSteps
  BY <1>16, <1>c, LookMild, <1>l DEF RecoverSteps, RecoverCandidate, RecoverRestore, RecoverScan, RecoverPreparing,
       RecoverUnbegun, EnableUnbegunFails, UnbegunSettled, RecoverNothing, RecoverFails, RecordFailure,
       pluginVars
<1>17. CASE GiveUp \/ CancelOperation \/ Recover \/ ProcessRestarts
  BY <1>17, <1>c DEF GiveUp, CancelOperation, Recover, ProcessRestarts, pluginVars, ctlVars
<1>18. CASE StartConflict \/ BeginOperation
  <2>1. MayStart /\ ctl = "idle"
    BY <1>18 DEF StartConflict, BeginOperation, MayStart
  <2> QED
    BY <1>18, <2>1, <1>c, <1>l, LookMild DEF StartConflict, BeginOperation
<1> QED
  BY <1>1, <1>2, <1>3, <1>4, <1>5, <1>6, <1>7, <1>11, <1>12, <1>13, <1>14, <1>15, <1>16, <1>17, <1>18
  DEF Control, Continue, Request, BeginSteps, CancelSteps, RestoreSteps, CommitSteps

LEMMA ResumedTyped ==
  ASSUME Typed
  PROVE  Resumed \in Record
<1>1. CASE rec.phase = "needs_attention" /\ rec.code = "RECOVERY_CHECK_FAILED" /\ rec.from \in ActivePhases
  <2>1. rec \in Record /\ rec.from \in Phases /\ "none" \in Phases /\ "none" \in Codes
    BY <1>1 DEF Typed, Phases, Codes
  <2>2. Resumed = [rec EXCEPT !.phase = rec.from, !.from = "none", !.code = "none"]
    BY <1>1 DEF Resumed
  <2> QED
    BY <2>1, <2>2 DEF Record
<1>2. CASE ~(rec.phase = "needs_attention" /\ rec.code = "RECOVERY_CHECK_FAILED" /\ rec.from \in ActivePhases)
  BY <1>2 DEF Typed, Resumed
<1> QED
  BY <1>1, <1>2

\* The plain writes of the state file.
LEMMA PlainTyped ==
  ASSUME rec \in Record
  PROVE  /\ \A p \in Phases : Phase(p) => rec' \in Record
         /\ \A c \in Codes : Attention(c) => rec' \in Record
         /\ \A o \in {"switched", "restored"} : Completed(o) => rec' \in Record
<1>1. {"needs_attention", "completed"} \subseteq Phases /\ "none" \in Codes
  BY DEF Phases, Codes
<1>2. ASSUME NEW p \in Phases, Phase(p)
      PROVE  rec' \in Record
  BY <1>2 DEF Phase, Record
<1>3. ASSUME NEW c \in Codes, Attention(c)
      PROVE  rec' \in Record
  BY <1>1, <1>3 DEF Attention, Record
<1>4. ASSUME NEW o \in {"switched", "restored"}, Completed(o)
      PROVE  rec' \in Record
  BY <1>1, <1>4 DEF Completed, Record
<1> QED
  BY <1>2, <1>3, <1>4

LEMMA ControlMoves ==
  ASSUME Control
  PROVE  \/ Release \/ Raise \/ UNCHANGED <<ctl, boot>>
         \/ ctl' = "recover" /\ boot' = TRUE
         \/ \E l \in Stage \ {"idle"} : Goto(l)
<1> USE DEF Stage
<1>2. CASE BeginSteps
  BY <1>2 DEF BeginSteps, CallBegin, StartFails, Begun, Started, Shown
<1>3. CASE PollSteps
  BY <1>3 DEF PollSteps, PolledNothing, PolledLogin, PolledEnd
<1>4. CASE CancelSteps
  BY <1>4 DEF CancelSteps, CallCancel, CancelFails, Cancelled
<1>5. CASE RestoreSteps
  BY <1>5 DEF RestoreSteps, Enable, RestoreAmbiguous, CallRestore, EnableFails, RestoreFails,
       RestoreSettled, SnapshotFails
<1>6. CASE CommitSteps
  BY <1>6 DEF CommitSteps, CallCommit, CommitUnasked, CommitSettled, CommitFailed
<1>7. CASE RecoverSteps
  BY <1>7 DEF RecoverSteps, RecoverCandidate, RecoverRestore, RecoverScan, RecoverPreparing,
       RecoverUnbegun, EnableUnbegunFails, UnbegunSettled, RecoverNothing, RecoverFails,
       RecordFailure
<1>8. CASE Request
  BY <1>8 DEF Request, StartConflict, BeginOperation, ShowAgain, Poll, CancelOperation, Recover
<1>9. CASE GiveUp
  BY <1>9 DEF GiveUp, ctlVars
<1>10. CASE ProcessRestarts
  BY <1>10 DEF ProcessRestarts, Release
<1> QED
  BY <1>2, <1>3, <1>4, <1>5, <1>6, <1>7, <1>8, <1>9, <1>10 DEF Control, Continue

LEMMA ControlRuns ==
  ASSUME Control
  PROVE  /\ UNCHANGED <<enabled, running>> \/ EnableChannel
         /\ UNCHANGED faults \/ (faults < MaxFaults /\ faults' = faults + 1)
<1> USE DEF runtimeVars, callVars, pluginVars, ReadFails, Unsettled, CandidatePassed, Call, CallWith
<1>2. CASE BeginSteps
  BY <1>2 DEF BeginSteps, CallBegin, StartFails, Begun, Started, Shown
<1>3. CASE PollSteps
  BY <1>3 DEF PollSteps, PolledNothing, PolledLogin, PolledEnd
<1>4. CASE CancelSteps
  BY <1>4 DEF CancelSteps, CallCancel, CancelFails, Cancelled
<1>5. CASE RestoreSteps
  BY <1>5 DEF RestoreSteps, Enable, RestoreAmbiguous, CallRestore, EnableFails, RestoreFails,
       RestoreSettled, SnapshotFails
<1>6. CASE CommitSteps
  BY <1>6 DEF CommitSteps, CallCommit, CommitUnasked, CommitSettled, CommitFailed
<1>7. CASE RecoverSteps
  BY <1>7 DEF RecoverSteps, RecoverCandidate, RecoverRestore, RecoverScan, RecoverPreparing,
       RecoverUnbegun, EnableUnbegunFails, UnbegunSettled, RecoverNothing, RecoverFails,
       RecordFailure
<1>8. CASE Request
  BY <1>8 DEF Request, StartConflict, BeginOperation, ShowAgain, Poll, CancelOperation, Recover
<1>9. CASE GiveUp \/ ProcessRestarts
  BY <1>9 DEF GiveUp, ProcessRestarts
<1> QED
  BY <1>2, <1>3, <1>4, <1>5, <1>6, <1>7, <1>8, <1>9 DEF Control, Continue

LEMMA ControlTyped ==
  ASSUME Typed, CallerInv, Control
  PROVE  Typed' /\ CallerInv'
<1>1. rec' \in Record
  <2>1. rec \in Record /\ Resumed \in Record /\ RecoveredOp.account \in Accounts \cup {None}
    BY ResumedTyped, InspectTyped DEF Typed, Operation
  <2> {"preparing", "awaiting_scan", "committing", "restoring", "none", "needs_attention", "completed"}
        \subseteq Phases
    BY DEF Phases, ActivePhases
  <2> {"none", "INVENTORY_CONFLICT", "START_FAILED", "RESTORE_OPERATION_MISSING", "COMMIT_INCOMPLETE",
       "RECONNECT_UNSTABLE", "RECOVERY_CHECK_FAILED", "RESTORE_AMBIGUOUS", "RESTORE_FAILED",
       "RESTORE_UNSTABLE"} \subseteq Codes
    BY DEF Codes, RestoreCodes
  <2>2. CASE StartFails
    BY <2>2, <2>1 DEF StartFails, Record
  <2>3. CASE Started
    BY <2>3, <2>1 DEF Started, Typed, Operation, Record
  <2>4. CASE PolledLogin
    BY <2>4, <2>1 DEF PolledLogin, Answered, Record
  <2>5. CASE PolledEnd \/ CancelOperation
    BY <2>5, <2>1, PlainTyped DEF PolledEnd, CancelOperation
  <2>6. CASE Enable
    BY <2>6, <2>1 DEF Enable, Record
  <2>7. CASE RestoreAmbiguous \/ EnableFails \/ RestoreFails
    BY <2>7, <2>1, PlainTyped DEF RestoreAmbiguous, EnableFails, RestoreFails
  <2>8. CASE RestoreSettled
    BY <2>8, <2>1, PlainTyped DEF RestoreSettled
  <2>9. CASE CommitSettled
    BY <2>9, <2>1, PlainTyped DEF CommitSettled
  <2>10. CASE CommitFailed
    <3>1. Completed("switched") \/ Attention("COMMIT_INCOMPLETE") \/ Phase("restoring")
      BY <2>10 DEF CommitFailed
    <3> QED
      BY <3>1, <2>1, PlainTyped
  <2>11. CASE RecoverCandidate
    <3>1. \/ rec' = [Resumed EXCEPT !.phase = "completed", !.outcome = "switched", !.code = "none"]
          \/ rec' = [Resumed EXCEPT !.phase = "committing"]
      BY <2>11 DEF RecoverCandidate
    <3>2. CASE rec' = [Resumed EXCEPT !.phase = "completed", !.outcome = "switched", !.code = "none"]
      BY <3>2, <2>1 DEF Record
    <3>3. CASE rec' = [Resumed EXCEPT !.phase = "committing"]
      BY <3>3, <2>1 DEF Record
    <3> QED
      BY <3>1, <3>2, <3>3
  <2>12. CASE RecoverRestore \/ RecoverPreparing
    BY <2>12, <2>1 DEF RecoverRestore, RecoverPreparing, Record
  <2>13. CASE RecoverScan
    <3>1. \/ rec' = [Resumed EXCEPT !.phase = "committing", !.cand = RecoveredOp.account]
          \/ rec' = Resumed
          \/ rec' = [Resumed EXCEPT !.phase = "restoring"]
      BY <2>13 DEF RecoverScan
    <3>2. CASE rec' = [Resumed EXCEPT !.phase = "committing", !.cand = RecoveredOp.account]
      BY <3>2, <2>1 DEF Record
    <3>3. CASE rec' = [Resumed EXCEPT !.phase = "restoring"]
      BY <3>3, <2>1 DEF Record
    <3> QED
      BY <3>1, <3>2, <3>3, <2>1
  <2>14. CASE RecoverUnbegun \/ EnableUnbegunFails
    <3>1. \/ rec' = [Resumed EXCEPT !.phase = "preparing", !.off = FALSE]
          \/ rec' = [Resumed EXCEPT !.phase = "needs_attention", !.code = "RESTORE_FAILED"]
      BY <2>14 DEF RecoverUnbegun, EnableUnbegunFails
    <3>2. CASE rec' = [Resumed EXCEPT !.phase = "preparing", !.off = FALSE]
      BY <3>2, <2>1 DEF Record
    <3>3. CASE rec' = [Resumed EXCEPT !.phase = "needs_attention", !.code = "RESTORE_FAILED"]
      BY <3>3, <2>1 DEF Record
    <3> QED
      BY <3>1, <3>2, <3>3
  <2>15. CASE UnbegunSettled
    BY <2>15, <2>1, PlainTyped DEF UnbegunSettled
  <2>16. CASE RecoverFails
    BY <2>16, <2>1 DEF RecoverFails
  <2>17. CASE RecordFailure
    BY <2>17, <2>1 DEF RecordFailure, Record
  <2>18. CASE StartConflict \/ BeginOperation
    <3>1. rec.id + 1 \in 0 .. MaxOps /\ index \in SUBSET Accounts /\ stored \in SUBSET Accounts
          /\ (~enabled) \in BOOLEAN /\ (~enabled \/ stored = {}) \in BOOLEAN
      BY <2>18, <2>1, PluginAssumption DEF StartConflict, BeginOperation, MayStart, Typed, Record
    <3>2. NoRec \in Record
      BY PluginAssumption DEF NoRec, Record
    <3>3. CASE StartConflict
      BY <3>1, <3>2, <3>3 DEF StartConflict, Record
    <3>4. CASE BeginOperation
      BY <3>1, <3>2, <3>4 DEF BeginOperation, Record
    <3> QED
      BY <2>18, <3>3, <3>4
  <2>19. CASE UNCHANGED rec
    BY <2>19, <2>1
  <2> QED
    BY <2>2, <2>3, <2>4, <2>5, <2>6, <2>7, <2>8, <2>9, <2>10, <2>11, <2>12, <2>13, <2>14, <2>15, <2>16, <2>17, <2>18, <2>19
    DEF Control, Continue, Request, BeginSteps, PollSteps, CancelSteps, RestoreSteps, CommitSteps,
        RecoverSteps, CallBegin, Begun, Shown, PolledNothing, CallCancel, CancelFails, Cancelled,
        CallRestore, SnapshotFails, CallCommit, CommitUnasked, RecoverNothing, GiveUp, ctlVars, ShowAgain,
        Poll, Recover, ProcessRestarts
<1>2. ctl' \in Stage /\ boot' \in BOOLEAN /\ (boot' => ctl' # "idle")
  <2>1. boot \in BOOLEAN /\ ctl \in Stage /\ (boot => ctl # "idle")
    BY DEF Typed, CallerInv
  <2>2. CASE Release \/ Raise
    BY <2>1, <2>2 DEF Release, Raise, Stage
  <2>3. CASE UNCHANGED <<ctl, boot>>
    BY <2>1, <2>3
  <2>4. CASE ctl' = "recover" /\ boot' = TRUE
    BY <2>4 DEF Stage
  <2>5. ASSUME NEW l \in Stage \ {"idle"}, Goto(l)
        PROVE  ctl' \in Stage /\ boot' \in BOOLEAN /\ (boot' => ctl' # "idle")
    BY <2>1, <2>5 DEF Goto
  <2> QED
    BY <2>2, <2>3, <2>4, <2>5, ControlMoves
<1>3. enabled' \in BOOLEAN /\ running' \in SUBSET Accounts /\ faults' \in 0 .. MaxFaults
  <2>1. enabled' \in BOOLEAN /\ running' \in SUBSET Accounts
    BY ControlRuns DEF Typed, EnableChannel
  <2>2. faults' \in 0 .. MaxFaults
    BY ControlRuns, PluginAssumption DEF Typed
  <2> QED
    BY <2>1, <2>2
<1>o. overtaken' \in BOOLEAN
  BY ControlEffect DEF Typed, NoCall, NewCall, lookVars
<1>4. /\ op' \in Operation /\ cand' \in Candidate
      /\ op'.phase \in {"candidate_ready", "committing"} => op'.account \in Accounts
      /\ cand'.sess # 0 => cand'.account \in Accounts
  BY ControlEffect, InspectTyped DEF Typed, NoCall, NewCall, Inspect, lookVars
<1>5. CASE NoCall
  <2>1. /\ at' \in [Slots -> Piece] /\ mem' \in [Slots -> Operation]
        /\ caller' \in Slots \cup {None} /\ reply' \in Answer
    BY <1>5 DEF Typed, NoCall, Answer
  <2>3. \A s \in Slots : at'[s] \in AtCommit \ {"commit"} => mem'[s].account \in Accounts
    BY <1>5 DEF Typed, NoCall
  <2>2. caller' = None /\ (reply' \in Accounts => ctl' = "polled")
    BY <1>5, PluginAssumption DEF NoCall, CallerInv, Waiting
  <2> QED
    BY <1>1, <1>2, <1>3, <1>o, <1>4, <2>1, <2>2, <2>3, ControlEffect DEF Typed, CallerInv, loginVars
<1>6. ASSUME NEW s \in Slots, NewCall(s)
      PROVE  Typed' /\ CallerInv'
  <2>1. at'[s] \in Piece
    BY <1>6 DEF NewCall, Piece, AtBegin, AtStart, AtCommit, AtRestore
  <2>2. /\ at' \in [Slots -> Piece] /\ mem' \in [Slots -> Operation]
        /\ caller' \in Slots \cup {None} /\ reply' \in Answer
    BY <1>6, <2>1 DEF Typed, NewCall, Answer
  <2>4. \A t \in Slots : at'[t] \in AtCommit \ {"commit"} => mem'[t].account \in Accounts
    BY <1>6 DEF Typed, NewCall, AtCommit
  <2>3. WaitsFor(caller)' /\ reply' \notin Accounts
    BY <1>6, PluginAssumption DEF NewCall, WaitsFor, AtBegin, AtStart, AtCommit, AtRestore
  <2> QED
    BY <1>1, <1>2, <1>3, <1>o, <1>4, <2>2, <2>3, <2>4, ControlEffect DEF Typed, CallerInv, loginVars
<1> QED
  BY <1>5, <1>6, ControlEffect

-----------------------------------------------------------------------------
(* A step of a handler. *)

\* From piece to piece; a method that is over is told to its caller.
Path(s) ==
  \/ at'[s] = "idle"
  \/ <<at[s], at'[s]>> \in
       {<<"begin", "begin_stop">>, <<"begin_stop", "begin_save">>, <<"start", "start_qr">>,
        <<"commit", "commit_store">>, <<"commit_store", "commit_index">>,
        <<"commit_index", "commit_start">>, <<"commit_start", "commit_result">>,
        <<"commit_result", "commit_candidate">>, <<"commit_candidate", "commit_end">>,
        <<"restore", "restore_index">>, <<"restore_index", "restore_start">>,
        <<"restore_start", "restore_end">>}

HandlerMove(s) ==
  /\ at[s] # "idle"
  /\ at' = [at EXCEPT ![s] = at'[s]] /\ Path(s)
  /\ mem' = [mem EXCEPT ![s] = mem'[s]]
  /\ IF caller = s /\ at'[s] = "idle" THEN caller' = None ELSE UNCHANGED <<caller, reply>>
  /\ reply' \in {reply, "ok", "error"} \/ (caller = s /\ at[s] = "wait")

LEMMA HandlerEffect ==
  ASSUME Typed, NEW s \in Slots, Handle(s)
  PROVE  HandlerMove(s)
<1>a. /\ \A p : Next2(s, p) => /\ at' = [at EXCEPT ![s] = p] /\ at'[s] = p
                               /\ UNCHANGED <<caller, reply>>
      /\ \A a : Respond(s, a) => /\ at' = [at EXCEPT ![s] = "idle"] /\ at'[s] = "idle"
                                 /\ IF caller = s THEN caller' = None /\ reply' = a
                                    ELSE UNCHANGED <<caller, reply>>
      /\ \A p : Runs(s, p) => at[s] = p
  BY DEF Typed, Next2, Respond, Runs
<1>b. UNCHANGED mem => mem' = [mem EXCEPT ![s] = mem'[s]]
  BY DEF Typed
<1>c. \A x : mem' = [mem EXCEPT ![s] = x] => mem' = [mem EXCEPT ![s] = mem'[s]]
  BY DEF Typed
<1> USE DEF Error, HandlerMove, Path
<1>1. CASE BeginStep(s)
  BY <1>1, <1>a, <1>b, <1>c DEF BeginStep, Begin, BeginIndex, BeginSave
<1>2. CASE StartStep(s)
  BY <1>2, <1>a, <1>b, <1>c DEF StartStep, StartKnown, StartActive, Start, StartShown, StartFailed
<1>3. CASE LoginStep(s)
  BY <1>3, <1>a, <1>b, <1>c DEF LoginStep, WaitKnown, WaitNew, Cancel
<1>4. CASE CommitStep(s)
  BY <1>4, <1>a, <1>b, <1>c DEF CommitStep, CommitKnown, CommitRefused, Commit, CommitStore, CommitIndex,
       CommitClear, CommitResult, CommitCandidate, CommitEnd
<1>5. CASE RestoreStep(s)
  BY <1>5, <1>a, <1>b, <1>c DEF RestoreStep, RestoreKnown, RestoreRefused, Restore, RestoreIndex, RestoreResult,
       RestoreEnd
<1>6. CASE ChannelFails(s)
  BY <1>6, <1>a, <1>b, <1>c DEF ChannelFails
<1> QED
  BY <1>1, <1>2, <1>3, <1>4, <1>5, <1>6 DEF Handle

LEMMA HandlerKind ==
  ASSUME Typed, NEW s \in Slots, Handle(s)
  PROVE  \/ at[s] \in AtBegin /\ BeginStep(s)
         \/ at[s] \in AtStart /\ StartStep(s)
         \/ at[s] = "wait" /\ (WaitKnown(s) \/ WaitNew(s))
         \/ at[s] = "cancel" /\ Cancel(s)
         \/ at[s] \in AtCommit /\ CommitStep(s)
         \/ at[s] \in AtRestore /\ RestoreStep(s)
         \/ at[s] # "wait" /\ at'[s] = "idle" /\ ChannelFails(s)
<1> USE DEF Runs
<1>1. BeginStep(s) => at[s] \in AtBegin
  BY DEF BeginStep, Begin, BeginIndex, BeginSave, AtBegin
<1>2. StartStep(s) => at[s] \in AtStart
  BY DEF StartStep, StartKnown, StartActive, Start, StartShown, StartFailed, AtStart
<1>3. (WaitKnown(s) \/ WaitNew(s) => at[s] = "wait") /\ (Cancel(s) => at[s] = "cancel")
  BY DEF WaitKnown, WaitNew, Cancel
<1>4. CommitStep(s) => at[s] \in AtCommit
  BY DEF CommitStep, CommitKnown, CommitRefused, Commit, CommitStore, CommitIndex, CommitClear,
     CommitResult, CommitCandidate, CommitEnd, AtCommit
<1>5. RestoreStep(s) => at[s] \in AtRestore
  BY DEF RestoreStep, RestoreKnown, RestoreRefused, Restore, RestoreIndex, RestoreResult, RestoreEnd,
     AtRestore
<1>6. ChannelFails(s) => at[s] # "wait" /\ at'[s] = "idle"
  BY DEF ChannelFails, Error, Respond, Typed
<1> QED
  BY <1>1, <1>2, <1>3, <1>4, <1>5, <1>6 DEF Handle, LoginStep

LEMMA HandlerTyped ==
  ASSUME Typed, CallerInv, NEW s \in Slots, Handle(s), UNCHANGED ctlVars
  PROVE  Typed' /\ CallerInv'
<1>0. HandlerMove(s)
  BY HandlerEffect
<1>1. /\ op' \in Operation /\ mem' \in [Slots -> Operation]
      /\ op'.phase \in {"candidate_ready", "committing"} => op'.account \in Accounts
  <2>0. 0 \in 0 .. MaxSessions
    BY PluginAssumption
  <2> USE InspectTyped DEF Typed
  <2>1. CASE BeginStep(s)
    BY <2>1 DEF BeginStep, Begin, BeginIndex, BeginSave, Operation
  <2>2. CASE StartStep(s)
    <3>1. CASE StartKnown(s) \/ StartActive(s) \/ StartShown(s)
      BY <3>1 DEF StartKnown, StartActive, StartShown, Operation, fileVars
    <3>2. CASE Start(s)
      <4>1. op.sess = 0 => sessions + 1 \in 0 .. MaxSessions
        BY <3>2, PluginAssumption DEF Start, MayLogin
      <4> QED
        BY <3>2, <4>1 DEF Start, Operation
    <3>3. CASE StartFailed(s)
      BY <3>3, <2>0 DEF StartFailed, Operation
    <3> QED
      BY <2>2, <3>1, <3>2, <3>3 DEF StartStep
  <2>3. CASE LoginStep(s)
    <3>1. CASE WaitKnown(s) \/ WaitNew(s)
      BY <3>1 DEF WaitKnown, WaitNew, fileVars
    <3>2. CASE Cancel(s)
      BY <3>2, <2>0 DEF Cancel, Operation
    <3> QED
      BY <2>3, <3>1, <3>2 DEF LoginStep
  <2>4. CASE CommitStep(s)
    BY <2>4 DEF CommitStep, CommitKnown, CommitRefused, Commit, CommitStore, CommitIndex,
       CommitClear, CommitResult, CommitCandidate, CommitEnd, MayCommit, Operation, fileVars
  <2>5. CASE RestoreStep(s)
    BY <2>5 DEF RestoreStep, RestoreKnown, RestoreRefused, Restore, RestoreIndex, RestoreResult,
       RestoreEnd, Operation, fileVars
  <2>6. CASE ChannelFails(s)
    BY <2>6 DEF ChannelFails, fileVars
  <2> QED
    BY <2>1, <2>2, <2>3, <2>4, <2>5, <2>6 DEF Handle
<1>2. /\ cand' \in Candidate /\ term' \in Result
      /\ cand'.sess # 0 => cand'.account \in Accounts
  <2> USE InspectTyped DEF Typed
  <2>1. CASE BeginStep(s)
    BY <2>1 DEF BeginStep, Begin, BeginIndex, BeginSave
  <2>2. CASE StartStep(s)
    BY <2>2 DEF StartStep, StartKnown, StartActive, Start, StartShown, StartFailed, fileVars
  <2>3. CASE LoginStep(s)
    BY <2>3 DEF LoginStep, WaitKnown, WaitNew, Cancel, fileVars
  <2>4. CASE CommitStep(s)
    BY <2>4 DEF CommitStep, CommitKnown, CommitRefused, Commit, CommitStore, CommitIndex,
       CommitClear, CommitResult, CommitCandidate, CommitEnd, Operation, Result, fileVars
  <2>5. CASE RestoreStep(s)
    BY <2>5 DEF RestoreStep, RestoreKnown, RestoreRefused, Restore, RestoreIndex, RestoreResult,
       RestoreEnd, Operation, Result, fileVars
  <2>6. CASE ChannelFails(s)
    BY <2>6 DEF ChannelFails, fileVars
  <2> QED
    BY <2>1, <2>2, <2>3, <2>4, <2>5, <2>6 DEF Handle
<1>3. /\ index' \in SUBSET Accounts /\ stored' \in SUBSET Accounts /\ running' \in SUBSET Accounts
      /\ UNCHANGED enabled
  <2> USE DEF Typed
  <2>1. CASE BeginStep(s)
    BY <2>1 DEF BeginStep, Begin, BeginIndex, BeginSave
  <2>2. CASE StartStep(s)
    BY <2>2 DEF StartStep, StartKnown, StartActive, Start, StartShown, StartFailed, fileVars
  <2>3. CASE LoginStep(s)
    BY <2>3 DEF LoginStep, WaitKnown, WaitNew, Cancel, fileVars
  <2>4. CASE CommitStep(s)
    BY <2>4 DEF CommitStep, CommitKnown, CommitRefused, Commit, CommitStore, CommitIndex,
       CommitClear, CommitResult, CommitCandidate, CommitEnd, AtCommit, Runs, fileVars
  <2>5. CASE RestoreStep(s)
    BY <2>5 DEF RestoreStep, RestoreKnown, RestoreRefused, Restore, RestoreIndex, RestoreResult,
       RestoreEnd, fileVars
  <2>6. CASE ChannelFails(s)
    BY <2>6 DEF ChannelFails, fileVars
  <2> QED
    BY <2>1, <2>2, <2>3, <2>4, <2>5, <2>6 DEF Handle
<1>4. /\ qr' \in 0 .. MaxSessions /\ sessions' \in 0 .. MaxSessions /\ faults' \in 0 .. MaxFaults
      /\ task' \in Login /\ (task'.state = "connected" => task'.account \in Accounts)
  <2> USE PluginAssumption DEF Typed, loginVars, Operation
  <2>1. CASE BeginStep(s)
    BY <2>1 DEF BeginStep, Begin, BeginIndex, BeginSave
  <2>2. CASE StartStep(s)
    <3>1. CASE StartKnown(s) \/ StartActive(s) \/ StartShown(s)
      BY <3>1 DEF StartKnown, StartActive, StartShown
    <3>2. CASE Start(s)
      BY <3>2 DEF Start, MayLogin
    <3>3. CASE StartFailed(s)
      BY <3>3 DEF StartFailed
    <3> QED
      BY <2>2, <3>1, <3>2, <3>3 DEF StartStep
  <2>3. CASE LoginStep(s)
    <3>1. qr' \in 0 .. MaxSessions /\ UNCHANGED <<sessions, faults>>
      BY <2>3 DEF LoginStep, WaitKnown, WaitNew, Cancel
    <3>2. ASSUME NEW x \in 0 .. MaxSessions, NEW y \in {"waiting", "ended"},
                 task' = [NoTask EXCEPT !.sess = x, !.state = y]
          PROVE  task' \in Login /\ task'.state # "connected"
      BY <3>2 DEF NoTask, Login
    <3>3. UNCHANGED task \/ \E x \in 0 .. MaxSessions, y \in {"waiting", "ended"} :
                              task' = [NoTask EXCEPT !.sess = x, !.state = y]
      <4>1. op.sess \in 0 .. MaxSessions /\ mem[s].sess \in 0 .. MaxSessions
        OBVIOUS
      <4>2. CASE WaitKnown(s)
        BY <4>2 DEF WaitKnown
      <4>3. CASE WaitNew(s)
        BY <4>3, <4>1 DEF WaitNew
      <4>4. CASE Cancel(s)
        BY <4>4, <4>1 DEF Cancel
      <4> QED
        BY <2>3, <4>2, <4>3, <4>4 DEF LoginStep
    <3>4. CASE UNCHANGED task
      BY <3>1, <3>4
    <3> QED
      BY <3>1, <3>2, <3>3, <3>4
  <2>4. CASE CommitStep(s)
    BY <2>4 DEF CommitStep, CommitKnown, CommitRefused, Commit, CommitStore, CommitIndex,
       CommitClear, CommitResult, CommitCandidate, CommitEnd
  <2>5. CASE RestoreStep(s)
    BY <2>5 DEF RestoreStep, RestoreKnown, RestoreRefused, Restore, RestoreIndex, RestoreResult,
       RestoreEnd
  <2>6. CASE ChannelFails(s)
    BY <2>6 DEF ChannelFails
  <2> QED
    BY <2>1, <2>2, <2>3, <2>4, <2>5, <2>6 DEF Handle
<1>5. at' \in [Slots -> Piece] /\ caller' \in Slots \cup {None}
  BY <1>0 DEF HandlerMove, Path, Typed, Piece, AtBegin, AtStart, AtCommit, AtRestore
<1>6. reply' \in Answer /\ (reply' \in Accounts => ctl = "polled")
  <2>1. CASE reply' \in {reply, "ok", "error"}
    BY <2>1, PluginAssumption DEF Typed, CallerInv, Answer
  <2>2. CASE caller = s /\ at[s] = "wait"
    <3>1. ctl = "polled"
      BY <2>2, PluginAssumption DEF CallerInv, WaitsFor, AtBegin, AtStart, AtCommit, AtRestore
    <3>2. WaitKnown(s) \/ WaitNew(s) => reply' \in Answer
      BY <2>2, PluginAssumption DEF WaitKnown, WaitNew, Respond, Error, LoginAnswer, Typed, Answer, NoTask
    <3>3. WaitKnown(s) \/ WaitNew(s)
      BY <2>2, HandlerKind DEF AtBegin, AtStart, AtCommit, AtRestore
    <3> QED
      BY <3>1, <3>2, <3>3
  <2> QED
    BY <1>0, <2>1, <2>2 DEF HandlerMove
<1>7. \A t \in Slots : at'[t] \in AtCommit \ {"commit"} => mem'[t].account \in Accounts
  <2>1. at'[s] \in AtCommit \ {"commit"} => mem'[s].account \in Accounts
    <3> SUFFICES ASSUME at'[s] \in AtCommit \ {"commit"}
                 PROVE  mem'[s].account \in Accounts
      OBVIOUS
    <3>1. CommitStep(s)
      BY <1>0, HandlerKind DEF HandlerMove, Path, AtBegin, AtStart, AtCommit, AtRestore
    <3>2. CASE Commit(s)
      BY <3>2 DEF Commit, MayCommit, Typed, Operation
    <3>3. at[s] # "commit" \/ Commit(s)
      BY <3>1 DEF CommitStep, CommitKnown, CommitRefused, CommitStore, CommitIndex, CommitClear,
         CommitResult, CommitCandidate, CommitEnd, Runs, Respond, Error, Typed, AtCommit
    <3>4. CASE at[s] # "commit"
      BY <3>1, <3>4 DEF CommitStep, CommitKnown, CommitRefused, Commit, CommitStore, CommitIndex,
         CommitClear, CommitResult, CommitCandidate, CommitEnd, Runs, Respond, Error, Typed, AtCommit
    <3> QED
      BY <3>2, <3>3, <3>4
  <2> QED
    BY <1>0, <2>1 DEF HandlerMove, Typed
<1>8. caller' # None => WaitsFor(caller)'
  BY <1>0 DEF HandlerMove, Path, Typed, CallerInv, WaitsFor, ctlVars, AtBegin, AtStart, AtCommit,
     AtRestore
<1> QED
  BY <1>1, <1>2, <1>3, <1>4, <1>5, <1>6, <1>7, <1>8 DEF Typed, CallerInv, ctlVars

-----------------------------------------------------------------------------
(* Type correctness. *)

\* The user, and the end of the gateway.
Outside == User \/ GatewayFault

LEMMA OutsideTyped ==
  ASSUME Typed, CallerInv, Outside
  PROVE  Typed' /\ CallerInv'
<1>a. NoOp \in Operation /\ NoTask \in Login /\ NoTask.state = "none" /\ 0 \in 0 .. MaxSessions
  BY InspectTyped, PluginAssumption DEF NoTask, Login
<1>b. \A a \in Accounts :
        LET c == [id |-> op.id, sess |-> op.sess, account |-> a]
            o == WithCandidate(op, c)
        IN  /\ c \in Candidate /\ c.account = a
            /\ o \in Operation /\ o.account = a
  BY DEF Typed, Operation, Candidate, WithCandidate
<1>1. CASE User
  <2>1. ASSUME task' \in Login, task'.state = "connected" => task'.account \in Accounts, qr' = 0,
               op' \in Operation,
               op'.phase \in {"candidate_ready", "committing"} => op'.account \in Accounts,
               cand' \in Candidate, cand'.sess # 0 => cand'.account \in Accounts,
               UNCHANGED <<term, index, stored, running, enabled, sessions, callVars, faults>>
        PROVE  Typed' /\ CallerInv'
    BY <1>1, <2>1, <1>a DEF User, Typed, CallerInv, WaitsFor, callVars, ctlVars
  <2>2. CASE LoginOver
    <3>1. task' \in Login /\ (task'.state = "connected" => task'.account \in Accounts)
      BY <2>2 DEF LoginOver, Typed, Login
    <3> QED
      BY <2>1, <2>2, <3>1 DEF LoginOver, Typed, fileVars
  <2>3. ASSUME NEW a \in Accounts, Scan(a)
        PROVE  Typed' /\ CallerInv'
    <3>1. task' \in Login /\ (task'.state = "connected" => task'.account \in Accounts)
      BY <2>3 DEF Scan, Typed, Login
    <3>2. /\ op' \in Operation /\ cand' \in Candidate
          /\ op'.phase \in {"candidate_ready", "committing"} => op'.account \in Accounts
          /\ cand'.sess # 0 => cand'.account \in Accounts
      BY <2>3, <1>b DEF Scan, Typed
    <3> QED
      BY <2>1, <2>3, <3>1, <3>2 DEF Scan
  <2> QED
    BY <1>1, <2>2, <2>3 DEF User
<1>2. CASE GatewayFault
  <2>1. /\ UNCHANGED <<op, term, index, stored, enabled, sessions, rec, ctl, boot, overtaken>>
        /\ cand' = cand \/ \E a \in Accounts : cand' = [id |-> op.id, sess |-> op.sess, account |-> a]
        /\ faults < MaxFaults /\ faults' = faults + 1
        /\ qr' = 0 /\ task' = NoTask
        /\ running' = IF enabled THEN index \cap stored ELSE {}
        /\ at' = [s \in Slots |-> "idle"] /\ mem' = [s \in Slots |-> NoOp]
        /\ caller' = None /\ reply' \in {reply, "error"}
    BY <1>2 DEF GatewayFault, GatewayRestarts, ScanTorn, fileVars, ctlVars
  <2>2. cand' \in Candidate /\ (cand'.sess # 0 => cand'.account \in Accounts)
    BY <2>1, <1>b DEF Typed
  <2>3. faults' \in 0 .. MaxFaults
    BY <2>1, PluginAssumption DEF Typed
  <2>4. reply' \in Answer /\ (reply' \in Accounts => ctl = "polled")
    BY <2>1, PluginAssumption DEF Typed, CallerInv, Answer
  <2>5. running' \in SUBSET Accounts
    BY <2>1 DEF Typed
  <2>6. /\ at' \in [Slots -> Piece] /\ mem' \in [Slots -> Operation]
        /\ \A s \in Slots : at'[s] \in AtCommit \ {"commit"} => mem'[s].account \in Accounts
    BY <2>1, <1>a DEF Piece, AtCommit
  <2> QED
    BY <2>1, <2>2, <2>3, <2>4, <2>5, <2>6, <1>a DEF Typed, CallerInv
<1> QED
  BY <1>1, <1>2 DEF Outside

LEMMA InitTyped == Init => Typed /\ CallerInv
<1> SUFFICES ASSUME Init
             PROVE  Typed /\ CallerInv
  OBVIOUS
<1> USE PluginAssumption DEF Init, PluginInit
<1>1. NoOp \in Operation /\ NoOp.phase = "none" /\ NoCand \in Candidate /\ NoCand.sess = 0
  BY DEF NoOp, NoCand, Operation, Candidate
<1>2. NoTerm \in Result /\ NoTask \in Login /\ NoTask.state = "none"
  BY DEF NoTerm, NoTask, Result, Login
<1>3. NoRec \in Record
  BY DEF NoRec, Record, Phases, Codes
<1>4. /\ index \in SUBSET Accounts /\ stored \in SUBSET Accounts /\ running \in SUBSET Accounts
      /\ enabled \in BOOLEAN
  OBVIOUS
<1>5. at \in [Slots -> Piece] /\ \A s \in Slots : at[s] \notin AtCommit
  BY DEF Piece, AtCommit
<1>6. caller = None /\ reply = "none" /\ reply \in Answer /\ reply \notin Accounts
  BY DEF Answer
<1>7. ctl \in Stage /\ boot = FALSE /\ boot \in BOOLEAN
  BY DEF Stage
<1>8. qr \in 0 .. MaxSessions /\ sessions \in 0 .. MaxSessions /\ faults \in 0 .. MaxFaults
  OBVIOUS
<1>9. mem \in [Slots -> Operation]
  BY <1>1
<1>10. Typed
  BY <1>1, <1>2, <1>3, <1>4, <1>5, <1>6, <1>7, <1>8, <1>9 DEF Typed
<1> QED
  BY <1>6, <1>7, <1>10 DEF CallerInv

LEMMA NextCases ==
  ASSUME [Next]_vars
  PROVE  \/ Control
         \/ \E s \in Slots : Handle(s) /\ UNCHANGED ctlVars
         \/ Outside
         \/ UNCHANGED vars
BY DEF Next, Control, Gateway, Outside

LEMMA TypedCorrect == Spec => [](Typed /\ CallerInv)
<1>1. Typed /\ CallerInv /\ [Next]_vars => (Typed /\ CallerInv)'
  <2> SUFFICES ASSUME Typed, CallerInv, [Next]_vars
               PROVE  Typed' /\ CallerInv'
    OBVIOUS
  <2>1. CASE UNCHANGED vars
    BY <2>1 DEF vars, ctlVars, pluginVars, fileVars, loginVars, callVars, Typed, CallerInv, WaitsFor
  <2> QED
    BY <2>1, NextCases, ControlTyped, HandlerTyped, OutsideTyped
<1> QED
  BY <1>1, InitTyped, PTL DEF Spec

\* Controller, state file, plugin files, handlers and login are well typed, the handler
\* that is waited for is running, and the recovery of a process that starts comes to
\* its end before the lock is given back.
THEOREM TypeCorrect == Spec => []TypeOK
<1>1. Typed /\ CallerInv => TypeOK
  BY PluginAssumption DEF Typed, CallerInv, WaitsFor, TypeOK, Candidate, Result, Record, Answer,
     AtBegin, AtStart, AtCommit, AtRestore
<1> QED
  BY <1>1, TypedCorrect, PTL

-----------------------------------------------------------------------------
(* What a step of the controller does to its state file. *)

\* A new operation is written down.
Opens ==
  /\ MayStart /\ Inspect /\ UNCHANGED callVars
  /\ rec'.id = rec.id + 1 /\ rec'.sess = 0 /\ rec'.cand = None
  /\ rec'.back = stored /\ rec'.from = "none"
  /\ \/ rec'.phase = "needs_attention" /\ rec'.code = "INVENTORY_CONFLICT" /\ ctl' = "idle"
     \/ rec'.phase = "preparing" /\ rec'.code = "none" /\ ctl' = "begin" /\ stored # {}

SameOperation ==
  rec'.id = rec.id /\ rec'.sess = rec.sess /\ rec'.cand = rec.cand /\ rec'.back = rec.back

LEMMA ResumedSame ==
  ASSUME Typed
  PROVE  /\ Resumed.id = rec.id /\ Resumed.sess = rec.sess
         /\ Resumed.cand = rec.cand /\ Resumed.back = rec.back /\ Resumed.off = rec.off
         /\ \/ Resumed = rec
            \/ /\ rec.phase = "needs_attention" /\ rec.code = "RECOVERY_CHECK_FAILED"
               /\ Resumed.phase = rec.from /\ Resumed.from = "none" /\ Resumed.code = "none"
               /\ rec.from \in ActivePhases
BY DEF Typed, Record, Resumed

\* Writes of the state file, as what becomes of phase, code and recoveryFromPhase.
Notes(r, phases, codes) ==
  /\ rec'.id = r.id /\ rec'.sess = r.sess /\ rec'.cand = r.cand /\ rec'.back = r.back
  /\ rec'.from = r.from /\ rec'.phase \in phases /\ rec'.code \in codes

LEMMA PlainNotes ==
  ASSUME Typed
  PROVE  /\ \A p : Phase(p) => Notes(rec, {p}, {rec.code})
         /\ \A c : Attention(c) => Notes(rec, {"needs_attention"}, {c})
         /\ \A o : Completed(o) => Notes(rec, {"completed"}, {"none"})
<1>1. rec \in Record
  BY DEF Typed
<1>2. ASSUME NEW p, Phase(p)
      PROVE  Notes(rec, {p}, {rec.code})
  BY <1>1, <1>2 DEF Phase, Notes, Record
<1>3. ASSUME NEW c, Attention(c)
      PROVE  Notes(rec, {"needs_attention"}, {c})
  BY <1>1, <1>3 DEF Attention, Notes, Record
<1>4. ASSUME NEW o, Completed(o)
      PROVE  Notes(rec, {"completed"}, {"none"})
  BY <1>1, <1>4 DEF Completed, Notes, Record
<1> QED
  BY <1>2, <1>3, <1>4

\* The operation is over.
Completes ==
  RestoreSettled \/ CommitSettled \/ CommitFailed \/ RecoverCandidate \/ UnbegunSettled

RecMoves ==
  \/ UNCHANGED rec
  \/ Opens
  \/ /\ Started /\ rec'.phase = "awaiting_scan" /\ rec'.code = rec.code /\ rec'.from = rec.from
     /\ rec'.id = rec.id /\ rec'.sess = op.sess /\ rec'.cand = rec.cand /\ rec'.back = rec.back
  \/ /\ PolledLogin /\ rec'.phase = "committing" /\ rec'.code = rec.code /\ rec'.from = rec.from
     /\ rec'.id = rec.id /\ rec'.sess = rec.sess /\ rec'.cand = reply /\ rec'.back = rec.back
  \/ /\ RecoverScan /\ rec'.code = Resumed.code /\ rec'.from = Resumed.from
     /\ rec'.id = rec.id /\ rec'.sess = rec.sess /\ rec'.back = rec.back
     /\ \/ rec'.phase = "committing" /\ RecoveredOp.phase = "candidate_ready" /\ rec'.cand = RecoveredOp.account
        \/ rec'.phase \in {"awaiting_scan", "restoring"} /\ rec'.cand = rec.cand
  \/ rec' = Resumed
  \/ Notes(rec, {rec.phase}, {rec.code})
  \/ Notes(rec, {"restoring"}, {rec.code, "START_FAILED"})
  \/ Notes(rec, {"needs_attention"}, Codes \ {"RESTORE_OPERATION_MISSING"})
  \/ Completes /\ (Notes(rec, {"completed"}, {"none"}) \/ Notes(Resumed, {"completed"}, {"none"}))
  \/ Notes(Resumed, {"committing", "restoring"}, {Resumed.code})
  \/ RecoverUnbegun /\ Notes(Resumed, {"preparing"}, {Resumed.code})
  \/ EnableUnbegunFails /\ Notes(Resumed, {"needs_attention"}, {"RESTORE_FAILED"})
  \/ UnbegunSettled /\ Notes(rec, {"needs_attention"}, {"RESTORE_OPERATION_MISSING"})
  \/ /\ RecordFailure /\ SameOperation /\ rec'.phase = "needs_attention"
     /\ rec'.code = "RECOVERY_CHECK_FAILED" /\ rec'.from \in {rec.from, rec.phase}

LEMMA RecEffect ==
  ASSUME Typed, Control
  PROVE  RecMoves
<1>a. rec \in Record /\ Resumed \in Record
  BY ResumedTyped DEF Typed
<1>b. {"INVENTORY_CONFLICT", "RESTORE_AMBIGUOUS", "RESTORE_FAILED", "RESTORE_UNSTABLE", "COMMIT_INCOMPLETE",
       "RECONNECT_UNSTABLE"} \subseteq Codes \ {"RESTORE_OPERATION_MISSING"}
  BY DEF Codes, RestoreCodes
<1>1. CASE StartFails
  <2>1. Notes(rec, {"restoring"}, {rec.code, "START_FAILED"})
    BY <1>1, <1>a DEF StartFails, Notes, Record
  <2> QED
    BY <2>1 DEF RecMoves
<1>2. CASE Started
  BY <1>2, <1>a DEF Started, RecMoves, Record
<1>3. CASE PolledLogin
  BY <1>3, <1>a DEF PolledLogin, RecMoves, Record
<1>4. CASE PolledEnd \/ CancelOperation
  BY <1>4, PlainNotes DEF PolledEnd, CancelOperation, RecMoves, Notes
<1>5. CASE Enable
  <2>1. Notes(rec, {rec.phase}, {rec.code})
    BY <1>5, <1>a DEF Enable, Notes, Record
  <2> QED
    BY <2>1 DEF RecMoves
<1>6. CASE RestoreAmbiguous \/ EnableFails \/ RestoreFails
  BY <1>6, <1>b, PlainNotes DEF RestoreAmbiguous, EnableFails, RestoreFails, RecMoves, Notes
<1>7. CASE RestoreSettled
  BY <1>7, <1>b, PlainNotes DEF RestoreSettled, RecMoves, Notes, Completes
<1>8. CASE CommitSettled
  BY <1>8, <1>b, PlainNotes DEF CommitSettled, RecMoves, Notes, Completes
<1>9. CASE CommitFailed
  <2>1. Completed("switched") \/ Attention("COMMIT_INCOMPLETE") \/ Phase("restoring")
    BY <1>9 DEF CommitFailed
  <2> QED
    BY <1>9, <2>1, <1>b, PlainNotes DEF RecMoves, Notes, Completes
<1>10. CASE RecoverCandidate
  <2>1. \/ Notes(Resumed, {"completed"}, {"none"})
        \/ Notes(Resumed, {"committing", "restoring"}, {Resumed.code})
    <3>1. \/ rec' = [Resumed EXCEPT !.phase = "completed", !.outcome = "switched", !.code = "none"]
          \/ rec' = [Resumed EXCEPT !.phase = "committing"]
      BY <1>10 DEF RecoverCandidate
    <3>2. CASE rec' = [Resumed EXCEPT !.phase = "completed", !.outcome = "switched", !.code = "none"]
      BY <3>2, <1>a DEF Notes, Record
    <3>3. CASE rec' = [Resumed EXCEPT !.phase = "committing"]
      BY <3>3, <1>a DEF Notes, Record
    <3> QED
      BY <3>1, <3>2, <3>3
  <2> QED
    BY <1>10, <2>1 DEF RecMoves, Completes
<1>11. CASE RecoverRestore \/ RecoverPreparing
  <2>1. rec' = [Resumed EXCEPT !.phase = "restoring"]
    BY <1>11 DEF RecoverRestore, RecoverPreparing
  <2>2. Notes(Resumed, {"committing", "restoring"}, {Resumed.code})
    BY <2>1, <1>a DEF Notes, Record
  <2> QED
    BY <2>2 DEF RecMoves
<1>12. CASE RecoverScan
  <2>1. \/ /\ rec' = [Resumed EXCEPT !.phase = "committing", !.cand = RecoveredOp.account]
           /\ RecoveredOp.phase = "candidate_ready"
        \/ rec' = Resumed /\ Resumed.phase = "awaiting_scan"
        \/ rec' = [Resumed EXCEPT !.phase = "restoring"]
    BY <1>12 DEF RecoverScan
  <2>2. /\ rec'.code = Resumed.code /\ rec'.from = Resumed.from
        /\ rec'.id = Resumed.id /\ rec'.sess = Resumed.sess /\ rec'.back = Resumed.back
        /\ \/ rec'.phase = "committing" /\ RecoveredOp.phase = "candidate_ready" /\ rec'.cand = RecoveredOp.account
           \/ rec'.phase \in {"awaiting_scan", "restoring"} /\ rec'.cand = Resumed.cand
    <3>1. CASE /\ rec' = [Resumed EXCEPT !.phase = "committing", !.cand = RecoveredOp.account]
               /\ RecoveredOp.phase = "candidate_ready"
      BY <3>1, <1>a DEF Record
    <3>2. CASE rec' = Resumed /\ Resumed.phase = "awaiting_scan"
      BY <3>2
    <3>3. CASE rec' = [Resumed EXCEPT !.phase = "restoring"]
      BY <3>3, <1>a DEF Record
    <3> QED
      BY <2>1, <3>1, <3>2, <3>3
  <2> QED
    BY <1>12, <2>2, ResumedSame DEF RecMoves
<1>13. CASE RecoverUnbegun
  <2>1. Notes(Resumed, {"preparing"}, {Resumed.code})
    BY <1>13, <1>a DEF RecoverUnbegun, Notes, Record
  <2> QED
    BY <1>13, <2>1 DEF RecMoves
<1>14. CASE EnableUnbegunFails
  <2>1. Notes(Resumed, {"needs_attention"}, {"RESTORE_FAILED"})
    BY <1>14, <1>a DEF EnableUnbegunFails, Notes, Record
  <2> QED
    BY <1>14, <2>1 DEF RecMoves
<1>15. CASE UnbegunSettled
  BY <1>15, PlainNotes DEF UnbegunSettled, RecMoves, Completes
<1>16. CASE RecoverFails
  BY <1>16 DEF RecoverFails, RecMoves
<1>17. CASE RecordFailure
  BY <1>17, <1>a DEF RecordFailure, RecMoves, SameOperation, Record
<1>18. CASE StartConflict \/ BeginOperation
  <2>1. MayStart /\ Inspect
    BY <1>18, LookMild DEF StartConflict, BeginOperation, Typed
  <2>2. Opens
    BY <1>18, <2>1 DEF StartConflict, BeginOperation, Opens, NoRec, Goto, Replaceable, MayStart
  <2> QED
    BY <2>2 DEF RecMoves
<1>19. CASE UNCHANGED rec
  BY <1>19 DEF RecMoves
<1> QED
  BY <1>1, <1>2, <1>3, <1>4, <1>5, <1>6, <1>7, <1>8, <1>9, <1>10, <1>11, <1>12, <1>13, <1>14, <1>15,
     <1>16, <1>17, <1>18, <1>19
  DEF Control, Continue, Request, BeginSteps, PollSteps, CancelSteps, RestoreSteps, CommitSteps,
      RecoverSteps, CallBegin, Begun, Shown, PolledNothing, CallCancel, CancelFails, Cancelled,
      CallRestore, SnapshotFails, CallCommit, CommitUnasked, RecoverNothing, GiveUp, ctlVars, ShowAgain,
      Poll, Recover, ProcessRestarts

LEMMA SameMoves ==
  ASSUME Typed, Control
  PROVE  Opens \/ Started \/ PolledLogin \/ RecoverScan \/ SameOperation
BY RecEffect, ResumedSame DEF RecMoves, Notes, SameOperation

-----------------------------------------------------------------------------
(* A step after no look that may be undone, and without one. *)

Timely == ~overtaken /\ ~overtaken'

LEMMA LookIsMild ==
  ASSUME Timely, Typed
  PROVE  /\ Look => Mild /\ Inspect
         /\ MayStart => Idle /\ Inspect
         /\ NoCall => UNCHANGED <<op, cand>> \/ (Mild /\ Inspect)
         /\ \A s : NewCall(s) => UNCHANGED <<op, cand>>
BY LookMild DEF Timely, Typed, NoCall, NewCall, lookVars

LEMMA OpensIdle ==
  ASSUME Timely, Typed, Opens
  PROVE  Idle /\ Inspect
BY LookIsMild DEF Opens

\* What has been decided by a look that may be undone stays so.
LEMMA OvertakenStays ==
  ASSUME Typed, CallerInv, [Next]_vars, overtaken
  PROVE  overtaken'
<1>1. CASE Control
  BY <1>1, ControlEffect DEF NoCall, NewCall, lookVars
<1>2. ~Control => UNCHANGED overtaken
  BY DEF Next, Control, Gateway, User, GatewayFault, ctlVars, vars
<1> QED
  BY <1>1, <1>2

-----------------------------------------------------------------------------
(* Between operations the plugin is at rest. *)

\* What is still under way is refused, or repeats what has been done.
Rest == \A s \in Slots :
          at[s] \in {"idle", "start", "wait", "cancel", "restore"}
                     \cup (AtCommit \ {"commit_store", "commit_index"})

RestInv ==
  /\ MaySend => ctl = "idle" /\ Rest /\ op = NoOp
  /\ rec.phase = "completed" => rec.outcome \in {"switched", "restored"}

LEMMA CompleteEffect ==
  ASSUME Typed, Control, rec'.phase \in {"none", "completed"}, rec'.phase # rec.phase
  PROVE  Completes /\ rec'.phase = "completed"
<1>1. Resumed.phase \in {"none", "completed"} => Resumed = rec
  BY ResumedSame DEF ActivePhases
<1> QED
  BY <1>1, RecEffect DEF RecMoves, Notes, Opens

\* Between operations only a new one disturbs the rest.
LEMMA RestStep ==
  ASSUME Typed, CallerInv, RestInv, MaySend, Control
  PROVE  \/ Opens
         \/ UNCHANGED <<rec, ctl, at, op, index, stored>>
<1>1. ctl = "idle" /\ caller = None /\ rec.phase \in {"none", "completed"}
  BY DEF RestInv, MaySend, CallerInv, WaitsFor
<1>2. ~Continue
  BY <1>1 DEF Continue, BeginSteps, PollSteps, CancelSteps, RestoreSteps, CommitSteps, RecoverSteps,
     CallBegin, StartFails, Begun, Started, Shown, PolledNothing, PolledLogin, PolledEnd,
     CallCancel, CancelFails, Cancelled, Enable, RestoreAmbiguous, CallRestore, EnableFails,
     RestoreFails, RestoreSettled, SnapshotFails, CallCommit, CommitUnasked, CommitSettled,
     CommitFailed, RecoverCandidate, RecoverRestore, RecoverScan, RecoverPreparing, RecoverUnbegun,
     EnableUnbegunFails, UnbegunSettled, RecoverNothing, RecoverFails, RecordFailure, GiveUp, Answered
<1>3. CASE Request
  <2>1. StartConflict \/ BeginOperation
    BY <1>1, <1>3 DEF Request, ShowAgain, Poll, CancelOperation, Recover, Unfinished
  <2> QED
    BY <2>1, LookMild DEF StartConflict, BeginOperation, Opens, NoRec, Goto, Replaceable, MayStart, Typed
<1>4. CASE ProcessRestarts
  BY <1>1, <1>4 DEF ProcessRestarts, Unfinished, Release, fileVars
<1> QED
  BY <1>2, <1>3, <1>4 DEF Control

LEMMA RestInit == Init => RestInv
BY DEF Init, PluginInit, RestInv, Rest, NoRec


-----------------------------------------------------------------------------
(* The inductive invariant.  A handler outlives its caller's patience, so   *)
(* most of it says which handlers may still be under way, and how old the   *)
(* copies are they work on.                                                 *)

\* A handler works for the operation of the state file: a begin knows no session, and a
\* login is waited for or cancelled in the session that is written down.
HandlerInv ==
  /\ \A s \in Slots : at[s] # "idle" =>
       /\ rec.id # 0 /\ mem[s].id = rec.id
       /\ at[s] \in AtBegin => mem[s].sess = 0
       /\ at[s] \in {"wait", "cancel"} => mem[s].sess = rec.sess
  /\ caller # None => reply = "none"

\* While an operation is begun nothing else is under way.
StartInv ==
  /\ ctl \in {"begin", "begun", "started"} =>
       /\ rec.phase = "preparing" /\ rec.code = "none" /\ rec.from = "none" /\ rec.sess = 0
       /\ rec.id # 0 /\ term.id # rec.id
       /\ \A s \in Slots : /\ at[s] \in {"idle"} \cup AtBegin \cup AtStart
                           /\ reply # "error" /\ s # caller => at[s] = "idle"
  /\ ctl = "begin" => Idle /\ op = NoOp
  /\ ctl = "unbegun" => Mild /\ op.id = 0 /\ rec.cand = None /\ rec.phase = "preparing"

\* When a candidate is known.
FileInv ==
  /\ rec.phase \in {"none", "preparing", "awaiting_scan"} => rec.cand = None
  /\ rec.from \in {"preparing", "awaiting_scan"} => rec.cand = None
  /\ rec.code = "RESTORE_OPERATION_MISSING" => rec.cand = None
  /\ rec.phase = "awaiting_scan" => rec.code = "none" /\ rec.from = "none"
  /\ ctl \in {"commit", "committed"} => rec.cand # None
  /\ ctl = "polled" => rec.phase = "awaiting_scan"
  /\ rec.id = 0 => rec = NoRec
  /\ rec.phase = "none" => rec.id = 0

\* Without an account to return to an operation does not get far.
BackInv ==
  rec.back = {} =>
    /\ rec.cand = None /\ rec.code # "RESTORE_OPERATION_MISSING"
    /\ {rec.phase, rec.from} \cap {"preparing", "awaiting_scan"} = {}

\* The files of the plugin are those of the operation of the state file.
OpInv ==
  /\ op.id \in {0, rec.id} /\ (op.id = 0 => op = NoOp)
  /\ op.phase \in {"beginning", "suspended"} => op.sess = 0
  /\ op.phase \in {"login_started", "candidate_ready", "committing"} => op.sess # 0
  /\ term.id <= rec.id /\ (term.id # 0 => term.outcome # "none")

\* A login that is waited for, and a candidate that was saved, belong to the session
\* that is written down, or to none the plugin's operation can have.
SessionInv ==
  /\ op.sess <= sessions /\ rec.sess <= sessions
  /\ task.sess <= sessions /\ cand.sess <= sessions
  /\ task.state \in {"waiting", "connected"} => task.sess # 0
  /\ op.sess \in {task.sess, cand.sess} => op.sess \in {0, rec.sess}

\* A begin that goes on without its caller meets no login.
BeginInv ==
  \A s \in Slots : at[s] \in AtBegin =>
    /\ ctl # "started" /\ rec.phase # "awaiting_scan" /\ rec.from # "awaiting_scan"
    /\ op.phase \notin {"login_started", "candidate_ready", "committing"}
    /\ \A t \in Slots : at[t] \notin AtStart

\* Account a has logged in, and nothing is under way that would undo it.
Chosen(a) ==
  /\ \A s \in Slots : at[s] \notin AtBegin \cup {"start_qr"}
  /\ op.id # 0 => op.phase \in {"candidate_ready", "committing", "restoring"}
  /\ op.phase \in {"candidate_ready", "committing"} => op.account = a

ChosenInv ==
  /\ op.phase \in {"candidate_ready", "committing"} => Chosen(op.account)
  /\ reply \in Accounts => Chosen(reply)
  /\ task.state = "connected" /\ task.sess = rec.sess => Chosen(task.account)
  /\ rec.cand # None => Chosen(rec.cand)

RestoredOp(id) == id # 0 /\ term = [id |-> id, outcome |-> "restored"]
Restoring == \E s \in Slots : at[s] \in AtRestore \ {"restore"}

\* What is rolled back is not committed, nor what is committed rolled back.
RestoreInv ==
  /\ Restoring \/ RestoredOp(rec.id) =>
       /\ op.phase \notin {"candidate_ready", "committing"}
       /\ op.phase = "login_started" => op.sess # rec.sess
  /\ CommittedOp(rec.id) =>
       /\ rec.cand # None /\ ~Restoring
       /\ op.id # 0 => op.phase = "committing"
  /\ \A s \in Slots : at[s] = "restore_end" => RestoredOp(rec.id)
  /\ ctl = "restored" /\ reply = "ok" => RestoredOp(rec.id)

\* A commit has got where its piece says, or another has carried it out.
CommitInv ==
  /\ \A s \in Slots : at[s] \in AtCommit =>
       /\ rec.cand # None
       /\ at[s] # "commit" =>
            /\ (op.phase = "committing" /\ mem[s] = op) \/ CommittedOp(rec.id)
            /\ mem[s].account = rec.cand
       /\ at[s] \in {"commit_store", "commit_index"} => ~CommittedOp(rec.id)
       /\ at[s] \notin {"commit", "commit_store"} => rec.cand \in stored
       /\ at[s] \in {"commit_candidate", "commit_end"} => CommittedOp(rec.id)
  /\ ctl = "committed" /\ reply = "ok" => CommittedOp(rec.id)

-----------------------------------------------------------------------------
(* What steps do to the files and to handlers. *)

LEMMA InspectEffect ==
  ASSUME Typed, Inspect
  PROVE  /\ \/ op' = NoOp /\ Residue(op.id)
            \/ op' = op /\ ~Residue(op.id)
            \/ /\ op.phase = "login_started" /\ IsCandidateOf(cand, op) /\ ~Residue(op.id)
               /\ op' = [op EXCEPT !.phase = "candidate_ready", !.account = cand.account]
               /\ op'.id = op.id /\ op'.sess = op.sess /\ op'.old = op.old
               /\ op'.phase = "candidate_ready" /\ op'.account = cand.account
         /\ op' = RecoveredOp
         /\ cand' = cand \/ cand' = NoCand
<1>1. NoOp.phase = "none"
  BY DEF NoOp
<1>2. CASE Residue(op.id)
  BY <1>1, <1>2 DEF Inspect, RecoveredOp, CleanOp, CleanCand
<1>3. CASE ~Residue(op.id)
  <2>1. CleanOp = op
    BY <1>3 DEF CleanOp
  <2>2. CleanCand = cand \/ CleanCand = NoCand
    BY DEF CleanCand
  <2>3. CASE RecoveredOp = op
    BY <1>3, <2>2, <2>3 DEF Inspect
  <2>4. CASE RecoveredOp # op
    <3>1. op.phase = "login_started" /\ IsCandidateOf(CleanCand, op) /\ RecoveredOp = WithCandidate(op, CleanCand)
      BY <2>1, <2>4 DEF RecoveredOp
    <3>2. CleanCand = cand
      BY <2>2, <3>1 DEF IsCandidateOf, NoCand
    <3>3. op' = [op EXCEPT !.phase = "candidate_ready", !.account = cand.account]
      BY <3>1, <3>2 DEF Inspect, WithCandidate
    <3> QED
      BY <1>3, <3>1, <3>2, <3>3 DEF Inspect, Typed, Operation
  <2> QED
    BY <2>3, <2>4
<1> QED
  BY <1>2, <1>3

LEMMA NewOthers ==
  ASSUME Typed, NEW s \in Slots, NewCall(s)
  PROVE  \A t \in Slots : t # s => at'[t] = at[t] /\ mem'[t] = mem[t]
BY DEF Typed, NewCall

LEMMA MoveOthers ==
  ASSUME Typed, NEW s \in Slots, HandlerMove(s)
  PROVE  \A t \in Slots : t # s => at'[t] = at[t] /\ mem'[t] = mem[t]
BY DEF Typed, HandlerMove

\* A handler keeps to the operation it began with.
LEMMA MemEffect ==
  ASSUME Typed, NEW s \in Slots, Handle(s), at'[s] # "idle"
  PROVE  /\ mem'[s].id = mem[s].id
         /\ at[s] \in AtBegin => mem'[s].sess = mem[s].sess
<1> USE DEF Typed, Operation, Runs
<1>r. \A a : ~Respond(s, a) /\ ~Error(s)
  BY DEF Respond, Error
<1>1. CASE BeginStep(s)
  BY <1>1, <1>r DEF BeginStep, Begin, BeginIndex, BeginSave
<1>2. CASE StartStep(s)
  <2>1. CASE StartKnown(s) \/ StartActive(s) \/ StartFailed(s)
    BY <2>1, <1>r DEF StartKnown, StartActive, StartFailed
  <2>2. CASE Start(s)
    BY <2>2, <1>r DEF Start, MayLogin, AtBegin
  <2>3. CASE StartShown(s)
    BY <2>3, <1>r DEF StartShown, AtBegin
  <2> QED
    BY <1>2, <2>1, <2>2, <2>3 DEF StartStep
<1>3. CASE LoginStep(s)
  BY <1>3, <1>r DEF LoginStep, WaitKnown, WaitNew, Cancel
<1>4. CASE CommitStep(s)
  BY <1>4, <1>r DEF CommitStep, CommitKnown, CommitRefused, Commit, CommitStore, CommitIndex,
     CommitClear, CommitResult, CommitCandidate, CommitEnd, MayCommit, AtBegin
<1>5. CASE RestoreStep(s)
  BY <1>5, <1>r DEF RestoreStep, RestoreKnown, RestoreRefused, Restore, RestoreIndex, RestoreResult,
     RestoreEnd, MayRestore, AtBegin
<1>6. CASE ChannelFails(s)
  BY <1>6, <1>r DEF ChannelFails
<1> QED
  BY <1>1, <1>2, <1>3, <1>4, <1>5, <1>6 DEF Handle

\* The operation of the state file, its session and its candidate.
LEMMA RecSteps ==
  ASSUME Timely, Typed, CallerInv, StartInv, Control
  PROVE  \/ Opens
         \/ /\ rec'.id = rec.id /\ rec'.back = rec.back
            /\ \/ rec'.sess = rec.sess
               \/ Idle /\ ctl = "started" /\ rec'.sess = op.sess /\ rec'.cand = rec.cand /\ UNCHANGED op
            /\ \/ rec'.cand = rec.cand
               \/ PolledLogin
               \/ Mild /\ RecoverScan
<1>1. CASE Started
  <2>1. ctl = "started" /\ caller = None /\ reply = "ok"
    BY <1>1 DEF Started, Answered
  <2>2. Idle
    BY <2>1, PluginAssumption DEF StartInv, Idle
  <2> QED
    BY <1>1, <2>1, <2>2 DEF Started, Typed, Record, lookVars
<1>2. CASE PolledLogin
  BY <1>2 DEF PolledLogin, Typed, Record
<1>3. CASE RecoverScan
  <2>1. Mild
    BY <1>3, LookIsMild DEF RecoverScan
  <2> QED
    BY <1>3, <2>1, ResumedSame, ResumedTyped DEF RecoverScan, Record
<1>4. CASE SameOperation
  BY <1>4 DEF SameOperation
<1> QED
  BY <1>1, <1>2, <1>3, <1>4, SameMoves

-----------------------------------------------------------------------------
(* HandlerInv *)

LEMMA HandlerControl ==
  ASSUME Timely, Typed, CallerInv, RestInv, HandlerInv, StartInv, FileInv, Control
  PROVE  HandlerInv'
<1>1. caller' # None => reply' = "none"
  BY ControlEffect DEF NoCall, NewCall
<1>2. CASE NoCall
  <2>1. Opens => Idle
    BY OpensIdle
  <2> QED
    BY <1>1, <1>2, <2>1, RecSteps DEF NoCall, HandlerInv, Idle, PolledLogin, RecoverScan
<1>3. ASSUME NEW s \in Slots, NewCall(s)
      PROVE  HandlerInv'
  <2>1. rec.id # 0
    BY <1>3 DEF NewCall, FileInv, RestInv, MaySend, NoRec
  <2>2. /\ mem'[s].id = rec.id
        /\ at'[s] \in AtBegin => mem'[s].sess = 0
        /\ mem'[s].sess = rec.sess
    BY <1>3 DEF NewCall, StartInv, AtBegin
  <2> QED
    BY <1>1, <1>3, <2>1, <2>2, NewOthers DEF HandlerInv, NewCall
<1> QED
  BY <1>2, <1>3, ControlEffect

LEMMA HandlerHandler ==
  ASSUME Typed, HandlerInv, NEW s \in Slots, Handle(s), UNCHANGED <<rec, ctl, boot>>
  PROVE  HandlerInv'
<1>1. HandlerMove(s)
  BY HandlerEffect
<1>2. at'[s] # "idle" =>
        /\ rec.id # 0 /\ mem'[s].id = rec.id /\ at'[s] \notin {"wait", "cancel"}
        /\ at'[s] \in AtBegin => mem'[s].sess = 0
  BY <1>1, MemEffect DEF HandlerInv, HandlerMove, Path, AtBegin
<1>3. caller' # None => reply' = "none"
  BY <1>1 DEF HandlerMove, HandlerInv
<1> QED
  BY <1>1, <1>2, <1>3, MoveOthers DEF HandlerInv

LEMMA OutsideEffect ==
  ASSUME Outside
  PROVE  /\ UNCHANGED <<ctlVars, rec, ctl, boot, term, index, stored, enabled, sessions>>
         /\ \/ UNCHANGED callVars
            \/ /\ Idle' /\ caller' = None
               /\ reply' = reply \/ reply' = "error"
BY DEF Outside, User, GatewayFault, LoginOver, Scan, GatewayRestarts, ScanTorn, Idle, fileVars, ctlVars

LEMMA HandlerOutside ==
  ASSUME HandlerInv, Outside
  PROVE  HandlerInv'
BY OutsideEffect DEF HandlerInv, Idle, callVars

-----------------------------------------------------------------------------
(* StartInv *)

\* A new operation finds nothing under way, and nothing of the one before.
LEMMA OpensClean ==
  ASSUME Timely, Typed, FileInv, OpInv, OutcomeIsReal, Opens
  PROVE  Idle /\ op' = NoOp
<1>1. Idle
  BY OpensIdle
<1>2. RecoveredOp.id \in {0, op.id}
  BY InspectEffect DEF Opens, NoOp
<1>3. op.id = 0 \/ Residue(op.id) \/ RecoveredOp.id # rec.id
  BY DEF Opens, MayStart, MaySend, FileInv, OpInv, OutcomeIsReal, Timely
<1>4. op.id = 0 \/ Residue(op.id)
  <2>1. SUFFICES ASSUME RecoveredOp.id # rec.id, op.id # 0, ~Residue(op.id)
                 PROVE  FALSE
    BY <1>3
  <2>2. RecoveredOp.id = op.id
    BY <2>1, InspectEffect DEF Opens
  <2> QED
    BY <2>1, <2>2 DEF OpInv
<1>5. op' = NoOp
  BY <1>4, InspectEffect DEF Opens, OpInv, NoOp
<1> QED
  BY <1>1, <1>5

LEMMA StartMoves ==
  ASSUME Typed, Control, ctl' \in {"begin", "begun", "started"}
  PROVE  \/ Opens /\ ctl' = "begin" /\ rec'.phase = "preparing" /\ rec'.code = "none"
         \/ CallBegin /\ ctl' = "begun" /\ UNCHANGED rec
         \/ Begun /\ ctl' = "started" /\ UNCHANGED rec
         \/ GiveUp
<1> USE DEF Release, Raise, Goto
<1>1. CASE BeginSteps
  BY <1>1 DEF BeginSteps, CallBegin, StartFails, Begun, Started, Shown
<1>2. ~PollSteps /\ ~CancelSteps
  BY DEF PollSteps, PolledNothing, PolledLogin, PolledEnd, CancelSteps, CallCancel, CancelFails, Cancelled
<1>3. ~RestoreSteps
  BY DEF RestoreSteps, Enable, RestoreAmbiguous, CallRestore, EnableFails,
     RestoreFails, RestoreSettled, SnapshotFails
<1>4. ~CommitSteps
  BY DEF CommitSteps, CallCommit, CommitUnasked, CommitSettled, CommitFailed
<1>5. ~RecoverSteps
  BY DEF RecoverSteps, RecoverCandidate, RecoverRestore, RecoverScan, RecoverPreparing,
     RecoverUnbegun, EnableUnbegunFails, UnbegunSettled, RecoverNothing, RecoverFails,
     RecordFailure
<1>7. ~StartConflict
  BY DEF StartConflict, MayStart
<1>8. BeginOperation => Opens /\ ctl' = "begin" /\ rec'.phase = "preparing" /\ rec'.code = "none"
  BY LookMild DEF BeginOperation, Opens, NoRec, Replaceable, Typed
<1>9. ~ShowAgain /\ ~Poll /\ ~CancelOperation /\ ~Recover /\ ~ProcessRestarts
  BY DEF ShowAgain, Poll, CancelOperation, Recover, ProcessRestarts
<1> QED
  BY <1>1, <1>2, <1>3, <1>4, <1>5, <1>7, <1>8, <1>9 DEF Control, Continue, Request

LEMMA UnbegunMoves ==
  ASSUME Control, CallerInv, ctl' = "unbegun"
  PROVE  RecoverUnbegun
<1> USE DEF Release, Raise, Goto
<1>1. ~BeginSteps /\ ~PollSteps /\ ~CancelSteps
  BY DEF BeginSteps, CallBegin, StartFails, Begun, Started, Shown,
     PollSteps, PolledNothing, PolledLogin, PolledEnd, CancelSteps, CallCancel, CancelFails, Cancelled
<1>2. ~RestoreSteps
  BY DEF RestoreSteps, Enable, RestoreAmbiguous, CallRestore, EnableFails,
     RestoreFails, RestoreSettled, SnapshotFails
<1>3. ~CommitSteps
  BY DEF CommitSteps, CallCommit, CommitUnasked, CommitSettled, CommitFailed
<1>4. RecoverSteps => RecoverUnbegun
  BY DEF RecoverSteps, RecoverCandidate, RecoverRestore, RecoverScan, RecoverPreparing,
     EnableUnbegunFails, UnbegunSettled, RecoverNothing, RecoverFails, RecordFailure
<1>5. ~Request
  BY DEF Request, StartConflict, BeginOperation, ShowAgain, Poll, CancelOperation, Recover, MayStart
<1>6. ~GiveUp /\ ~ProcessRestarts
  BY DEF GiveUp, ctlVars, ProcessRestarts, CallerInv, WaitsFor
<1> QED
  BY <1>1, <1>2, <1>3, <1>4, <1>5, <1>6 DEF Control, Continue

\* An operation that was never begun at the plugin, or has been rolled back there.
LEMMA NotKnown ==
  ASSUME Typed, OpInv, RecoveredOp.id # rec.id, Inspect
  PROVE  op'.id = 0
BY InspectEffect DEF OpInv, NoOp

LEMMA UnbegunCandidate ==
  ASSUME Typed, FileInv, Preparing
  PROVE  rec.cand = None
BY ResumedSame DEF Preparing, FileInv

LEMMA StartControl ==
  ASSUME Timely, Typed, CallerInv, StartInv, FileInv, OpInv, OutcomeIsReal, Control
  PROVE  StartInv'
<1>1. ASSUME ctl' \in {"begin", "begun", "started"}
      PROVE  /\ rec'.phase = "preparing" /\ rec'.code = "none" /\ rec'.from = "none" /\ rec'.sess = 0
             /\ rec'.id # 0 /\ term'.id # rec'.id
             /\ \A s \in Slots : /\ at'[s] \in {"idle"} \cup AtBegin \cup AtStart
                                 /\ reply' # "error" /\ s # caller' => at'[s] = "idle"
             /\ ctl' = "begin" => Idle' /\ op' = NoOp
  <2>1. CASE Opens /\ ctl' = "begin" /\ rec'.phase = "preparing" /\ rec'.code = "none"
    <3>1. Idle /\ op' = NoOp
      BY <2>1, OpensClean
    <3>2. rec'.id # 0 /\ term'.id # rec'.id
      BY <2>1, ControlEffect DEF Opens, OpInv, Typed, Record, Result
    <3> QED
      BY <2>1, <3>1, <3>2 DEF Opens, callVars, Idle
  <2>2. CASE CallBegin /\ UNCHANGED rec
    <3>1. Idle /\ ctl' = "begun" /\ ctl = "begin" /\ term' = term
      BY <2>2, ControlEffect DEF CallBegin, Goto, StartInv
    <3>2. /\ \A s \in Slots : at'[s] \in {"idle"} \cup AtBegin
          /\ reply' # "error" => \A s \in Slots : s # caller' => at'[s] = "idle"
      BY <3>1, <2>2, ControlEffect, NewOthers DEF NoCall, NewCall, Idle, AtBegin, Waiting
    <3> QED
      BY <2>2, <3>1, <3>2 DEF StartInv
  <2>3. CASE Begun /\ UNCHANGED rec
    <3>1. ctl' = "started" /\ ctl = "begun" /\ term' = term /\ caller = None /\ reply = "ok"
      BY <2>3, ControlEffect DEF Begun, Goto, Answered
    <3>2. Idle
      BY <3>1, PluginAssumption DEF StartInv, Idle
    <3>3. /\ \A s \in Slots : at'[s] \in {"idle"} \cup AtStart
          /\ reply' # "error" => \A s \in Slots : s # caller' => at'[s] = "idle"
      BY <3>1, <3>2, <2>3, ControlEffect, NewOthers DEF NoCall, NewCall, Idle, AtStart, Waiting
    <3> QED
      BY <2>3, <3>1, <3>3 DEF StartInv
  <2>4. CASE GiveUp
    BY <1>1, <2>4 DEF GiveUp, ctlVars, StartInv, CallerInv, WaitsFor, fileVars
  <2> QED
    BY <1>1, <2>1, <2>2, <2>3, <2>4, StartMoves
<1>2. ASSUME ctl' = "unbegun"
      PROVE  Mild' /\ op'.id = 0 /\ rec'.cand = None /\ rec'.phase = "preparing"
  <2>1. RecoverUnbegun
    BY <1>2, UnbegunMoves
  <2>2. Mild /\ Inspect /\ RecoveredOp.id # rec.id /\ UNCHANGED at
    BY <2>1, LookIsMild DEF RecoverUnbegun, OperationExists, callVars
  <2>3. rec'.cand = None /\ rec'.phase = "preparing"
    BY <2>1, UnbegunCandidate, ResumedSame, ResumedTyped DEF RecoverUnbegun, Record
  <2> QED
    BY <2>2, <2>3, NotKnown DEF Mild
<1> QED
  BY <1>1, <1>2 DEF StartInv

\* What comes late to a plugin that has no operation is refused, or repeats what has
\* been done.
LEMMA NothingDone ==
  ASSUME Typed, HandlerInv, op = NoOp, NEW s \in Slots, Handle(s),
         at[s] \in {"start", "wait", "cancel", "commit", "restore"}
  PROVE  at'[s] = "idle" /\ op' = NoOp /\ UNCHANGED <<term, index, stored>>
<1>1. mem[s].id # 0 /\ op.id = 0 /\ op.phase = "none"
  BY DEF HandlerInv, NoOp
<1>2. CleanOp = NoOp
  BY DEF CleanOp
<1>3. \A a : Respond(s, a) => at'[s] = "idle"
  BY DEF Respond, Typed
<1> USE DEF Error, Runs, fileVars
<1>4. CASE StartStep(s)
  BY <1>1, <1>3, <1>4 DEF StartStep, StartKnown, StartActive, Start, StartShown, StartFailed, MayLogin
<1>5. CASE WaitKnown(s) \/ WaitNew(s) \/ Cancel(s)
  BY <1>1, <1>3, <1>5 DEF WaitKnown, WaitNew, Cancel
<1>6. CASE CommitStep(s)
  BY <1>1, <1>2, <1>3, <1>6 DEF CommitStep, CommitKnown, CommitRefused, Commit, CommitStore, CommitIndex,
     CommitClear, CommitResult, CommitCandidate, CommitEnd, MayCommit
<1>7. CASE RestoreStep(s)
  BY <1>1, <1>2, <1>3, <1>7 DEF RestoreStep, RestoreKnown, RestoreRefused, Restore, RestoreIndex,
     RestoreResult, RestoreEnd, MayRestore
<1>8. ~ChannelFails(s)
  BY DEF ChannelFails
<1> QED
  BY <1>4, <1>5, <1>6, <1>7, <1>8, HandlerKind DEF AtBegin

LEMMA StartHandler ==
  ASSUME Typed, CallerInv, HandlerInv, StartInv, OpInv, CommitInv, NEW s \in Slots, Handle(s), UNCHANGED <<rec, ctl, boot>>
  PROVE  StartInv'
<1>1. HandlerMove(s)
  BY HandlerEffect
<1>2. ctl # "begin"
  BY <1>1 DEF HandlerMove, StartInv, Idle
<1>4. ASSUME ctl = "unbegun"
      PROVE  Mild' /\ op'.id = 0
  <2>1. op = NoOp /\ rec.cand = None /\ Mild
    BY <1>4 DEF StartInv, OpInv
  <2>2. at[s] \in {"start", "wait", "cancel", "restore"}
    BY <1>1, <2>1 DEF Mild, HandlerMove, CommitInv, AtCommit
  <2>3. at'[s] = "idle" /\ op' = NoOp
    BY <2>1, <2>2, NothingDone
  <2> QED
    BY <1>1, <2>1, <2>3, MoveOthers DEF Mild, NoOp
<1>3. ASSUME ctl \in {"begun", "started"}
      PROVE  /\ UNCHANGED term
             /\ \A t \in Slots : /\ at'[t] \in {"idle"} \cup AtBegin \cup AtStart
                                 /\ reply' # "error" /\ t # caller' => at'[t] = "idle"
  <2>1. at[s] \in AtBegin \cup AtStart
    BY <1>1, <1>3 DEF HandlerMove, StartInv
  <2>2. UNCHANGED term
    BY <2>1, HandlerKind DEF AtBegin, AtStart, AtCommit, AtRestore, BeginStep, Begin, BeginIndex,
       BeginSave, StartStep, StartKnown, StartActive, Start, StartShown, StartFailed, ChannelFails,
       fileVars
  <2>3. at'[s] \in {"idle"} \cup AtBegin \cup AtStart
    BY <1>1, <2>1 DEF HandlerMove, Path, AtBegin, AtStart
  <2>4. reply' # "error" => reply # "error" /\ (caller' = caller \/ (caller = s /\ at'[s] = "idle"))
    BY <1>1, PluginAssumption DEF HandlerMove, HandlerInv
  <2> QED
    BY <1>1, <1>3, <2>2, <2>3, <2>4, MoveOthers DEF HandlerMove, StartInv
<1> QED
  BY <1>2, <1>3, <1>4 DEF StartInv

\* A login is waited for, and its session is the plugin's.
Scanned(a) ==
  /\ op.phase = "login_started" /\ op.sess = task.sess /\ task.state = "waiting"
  /\ \A s \in Slots : at[s] \in Yielding \ {"start_qr"}
  /\ op'.id = op.id /\ op'.sess = op.sess /\ op'.old = op.old
  /\ op'.phase = "candidate_ready" /\ op'.account = a
  /\ cand'.sess = op.sess
  /\ task'.sess = task.sess /\ task'.state = "connected" /\ task'.account = a
  /\ UNCHANGED callVars

LEMMA OutsideFiles ==
  ASSUME Typed, Outside
  PROVE  \/ \E a \in Accounts : Scanned(a)
         \/ /\ UNCHANGED op
            /\ \/ UNCHANGED cand
               \/ op.sess = task.sess /\ cand'.sess = op.sess
            /\ \/ task'.sess = task.sess /\ (task' = task \/ task'.state = "ended")
               \/ task' = NoTask
<1>1. CASE LoginOver
  BY <1>1 DEF LoginOver, fileVars, Typed, Login
<1>2. ASSUME NEW a \in Accounts, Scan(a)
      PROVE  \/ Scanned(a)
             \/ UNCHANGED <<op, cand>> /\ task'.sess = task.sess /\ task'.state = "ended"
  <2>1. CASE Awaited /\ op' = WithCandidate(op, cand')
    <3>1. cand'.account = a /\ cand'.sess = op.sess
      BY <1>2, <2>1, PluginAssumption DEF Scan, Typed, Login
    <3>2. /\ op'.id = op.id /\ op'.sess = op.sess /\ op'.old = op.old
          /\ op'.phase = "candidate_ready" /\ op'.account = a
      BY <2>1, <3>1 DEF WithCandidate, Typed, Operation
    <3>3. task'.sess = task.sess /\ task'.state = "connected" /\ task'.account = a
      BY <1>2, <2>1 DEF Scan, Typed, Login
    <3> QED
      BY <1>2, <2>1, <3>1, <3>2, <3>3 DEF Scan, Scanned, Awaited, Scannable
  <2> QED
    BY <1>2, <2>1 DEF Scan, Typed, Login
<1>3. CASE GatewayFault
  BY <1>3 DEF GatewayFault, GatewayRestarts, ScanTorn, Awaited, fileVars
<1> QED
  BY <1>1, <1>2, <1>3 DEF Outside, User

LEMMA StartOutside ==
  ASSUME Typed, StartInv, CallerInv, Outside
  PROVE  StartInv'
<1>1. (op.id = 0 => op'.id = 0) /\ (op = NoOp => op' = NoOp)
  BY OutsideFiles DEF Scanned, NoOp
<1> QED
  BY <1>1, OutsideEffect DEF StartInv, Idle, Mild, callVars

-----------------------------------------------------------------------------
(* FileInv and BackInv *)

\* Resumed takes up a phase that the candidate is right for.
LEMMA ResumedFile ==
  ASSUME Typed, FileInv
  PROVE  /\ Resumed.phase \in {"none", "preparing", "awaiting_scan"} => rec.cand = None
         /\ Resumed.from \in {"preparing", "awaiting_scan"} => rec.cand = None
         /\ Resumed.code = "RESTORE_OPERATION_MISSING" => rec.cand = None
         /\ Resumed.phase = "awaiting_scan" => Resumed.code = "none" /\ Resumed.from = "none"
         /\ Resumed.phase = "none" => rec.phase = "none"
BY ResumedSame DEF FileInv, ActivePhases

\* What the state file says of the candidate, without the id of the operation.
Fit(r) ==
  /\ r.phase \in {"preparing", "awaiting_scan"} => r.cand = None
  /\ r.from \in {"preparing", "awaiting_scan"} => r.cand = None
  /\ r.code = "RESTORE_OPERATION_MISSING" => r.cand = None
  /\ r.phase = "awaiting_scan" => r.code = "none" /\ r.from = "none"
  /\ r.phase # "none"

LEMMA FileFit ==
  ASSUME Typed, StartInv, FileInv, ~MaySend, Control
  PROVE  Fit(rec')
<1>a. Fit(rec) /\ Fit(Resumed)
  BY ResumedFile, ResumedSame DEF Fit, FileInv, MaySend, ActivePhases
<1>b. rec \in Record /\ Resumed \in Record
  BY ResumedTyped DEF Typed
<1>1. CASE Opens
  BY <1>1 DEF Opens, Fit
<1>2. CASE Started
  <2>1. rec.code = "none" /\ rec.from = "none"
    BY <1>2 DEF Started, Answered, StartInv
  <2>2. rec'.phase = "awaiting_scan" /\ rec'.code = rec.code /\ rec'.from = rec.from /\ rec'.cand = rec.cand
    BY <1>2, <1>b DEF Started, Record
  <2>3. rec.cand = None
    BY <1>2 DEF Started, Answered, StartInv, FileInv
  <2> QED
    BY <2>1, <2>2, <2>3 DEF Fit
<1>3. CASE PolledLogin
  <2>1. rec'.phase = "committing" /\ rec'.code = rec.code /\ rec'.from = rec.from
    BY <1>3, <1>b DEF PolledLogin, Record
  <2>2. rec.phase = "awaiting_scan"
    BY <1>3 DEF PolledLogin, Answered, FileInv
  <2> QED
    BY <1>a, <2>1, <2>2 DEF Fit
<1>4. CASE RecoverScan
  <2>1. Resumed.phase = "awaiting_scan"
    BY <1>4 DEF RecoverScan
  <2>2. rec'.phase # "preparing" /\ rec'.phase # "none" /\ rec'.code = Resumed.code /\ rec'.from = Resumed.from
    BY <1>4, <1>b, <2>1 DEF RecoverScan, Record
  <2>3. rec'.phase = "awaiting_scan" => rec'.cand = rec.cand
    BY <1>4, <1>b, ResumedSame DEF RecoverScan, Record
  <2> QED
    BY <1>a, <2>1, <2>2, <2>3, ResumedSame DEF Fit
<1>5. CASE RecoverUnbegun
  <2>1. rec' = [Resumed EXCEPT !.phase = "preparing", !.off = FALSE] /\ Resumed.cand = None
    BY <1>5, ResumedSame, UnbegunCandidate DEF RecoverUnbegun
  <2>2. rec'.phase = "preparing" /\ rec'.cand = None /\ rec'.code = Resumed.code /\ rec'.from = Resumed.from
    BY <1>b, <2>1 DEF Record
  <2> QED
    BY <1>a, <2>2 DEF Fit
<1>6. CASE UnbegunSettled
  <2>1. rec.cand = None
    BY <1>6 DEF UnbegunSettled, StartInv
  <2> QED
    BY <1>a, <1>6, <2>1, PlainNotes DEF UnbegunSettled, Notes, Fit
<1>7. CASE RecordFailure
  <2>1. /\ rec'.cand = rec.cand /\ rec'.phase = "needs_attention"
        /\ rec'.code = "RECOVERY_CHECK_FAILED" /\ rec'.from \in {rec.from, rec.phase}
    BY <1>7, <1>b DEF RecordFailure, Record
  <2> QED
    BY <1>a, <2>1 DEF Fit
<1>8. CASE ~(Opens \/ Started \/ PolledLogin \/ RecoverScan \/ RecoverUnbegun \/ UnbegunSettled \/ RecordFailure)
  <2>1. \/ rec' = rec \/ rec' = Resumed
        \/ Notes(rec, {rec.phase}, {rec.code})
        \/ Notes(rec, {"restoring"}, {rec.code, "START_FAILED"})
        \/ Notes(rec, {"needs_attention"}, Codes \ {"RESTORE_OPERATION_MISSING"})
        \/ Notes(rec, {"completed"}, {"none"}) \/ Notes(Resumed, {"completed"}, {"none"})
        \/ Notes(Resumed, {"committing", "restoring"}, {Resumed.code})
        \/ Notes(Resumed, {"needs_attention"}, {"RESTORE_FAILED"})
    BY <1>8, RecEffect DEF RecMoves
  <2> QED
    BY <1>a, <2>1 DEF Notes, Fit
<1> QED
  BY <1>1, <1>2, <1>3, <1>4, <1>5, <1>6, <1>7, <1>8

\* Only a login that has been read, and recovery, go on to commit.
LEMMA CommitMoves ==
  ASSUME Typed, Control, ctl' \in {"commit", "committed"}
  PROVE  \/ PolledLogin
         \/ RecoverCandidate /\ AskedForCandidate
         \/ RecoverScan /\ OperationExists /\ RecoveredOp.phase = "candidate_ready"
              /\ rec' = [Resumed EXCEPT !.phase = "committing", !.cand = RecoveredOp.account]
         \/ ctl = "commit" /\ SameOperation
         \/ ctl = "committed" /\ ctl' = "committed" /\ GiveUp
<1> USE DEF Release, Raise, Goto
<1>1. ~BeginSteps /\ ~CancelSteps
  BY DEF BeginSteps, CallBegin, StartFails, Begun, Started, Shown,
     CancelSteps, CallCancel, CancelFails, Cancelled
<1>2. PollSteps => PolledLogin
  BY DEF PollSteps, PolledNothing, PolledLogin, PolledEnd
<1>3. RestoreSteps => ctl = "commit" /\ SameOperation
  <2>1. RestoreSteps => Enable /\ ctl = "commit"
    BY DEF RestoreSteps, Enable, RestoreAmbiguous, CallRestore, EnableFails,
       RestoreFails, RestoreSettled, SnapshotFails
  <2> QED
    BY <2>1 DEF Enable, SameOperation, Typed, Record
<1>4. CommitSteps => ctl = "commit" /\ SameOperation
  BY DEF CommitSteps, CallCommit, CommitUnasked, CommitSettled, CommitFailed, SameOperation
<1>5. RecoverSteps => \/ RecoverCandidate /\ AskedForCandidate
                      \/ RecoverScan /\ OperationExists /\ RecoveredOp.phase = "candidate_ready"
                           /\ rec' = [Resumed EXCEPT !.phase = "committing", !.cand = RecoveredOp.account]
  BY DEF RecoverSteps, RecoverCandidate, RecoverRestore, RecoverScan, RecoverPreparing,
     RecoverUnbegun, EnableUnbegunFails, UnbegunSettled, RecoverNothing, RecoverFails,
     RecordFailure
<1>6. ~Request
  BY DEF Request, StartConflict, BeginOperation, ShowAgain, Poll, CancelOperation, Recover, MayStart
<1>7. GiveUp => ctl = ctl' /\ UNCHANGED rec
  BY DEF GiveUp, ctlVars
<1>8. ~ProcessRestarts
  BY DEF ProcessRestarts
<1> QED
  BY <1>1, <1>2, <1>3, <1>4, <1>5, <1>6, <1>7, <1>8 DEF Control, Continue, SameOperation

LEMMA PollMoves ==
  ASSUME Control, ctl' = "polled"
  PROVE  (Poll \/ GiveUp) /\ UNCHANGED rec
<1> USE DEF Release, Raise, Goto
<1>1. ~BeginSteps /\ ~CancelSteps /\ ~PollSteps
  BY DEF BeginSteps, CallBegin, StartFails, Begun, Started, Shown, PollSteps, PolledNothing,
     PolledLogin, PolledEnd, CancelSteps, CallCancel, CancelFails, Cancelled
<1>2. ~RestoreSteps /\ ~CommitSteps
  BY DEF RestoreSteps, Enable, RestoreAmbiguous, CallRestore, EnableFails, RestoreFails,
     RestoreSettled, SnapshotFails, CommitSteps, CallCommit, CommitUnasked, CommitSettled, CommitFailed
<1>3. ~RecoverSteps
  BY DEF RecoverSteps, RecoverCandidate, RecoverRestore, RecoverScan, RecoverPreparing,
     RecoverUnbegun, EnableUnbegunFails, UnbegunSettled, RecoverNothing, RecoverFails,
     RecordFailure
<1>4. Request => Poll
  BY DEF Request, StartConflict, BeginOperation, ShowAgain, CancelOperation, Recover, MayStart
<1>5. ~ProcessRestarts
  BY DEF ProcessRestarts
<1> QED
  BY <1>1, <1>2, <1>3, <1>4, <1>5 DEF Control, Continue, Poll, GiveUp, ctlVars

LEMMA FileControl ==
  ASSUME Timely, Typed, CallerInv, RestInv, StartInv, FileInv, OpInv, Control
  PROVE  FileInv'
<1>1. CASE MaySend
  <2>1. Opens \/ UNCHANGED <<rec, ctl>>
    BY <1>1, RestStep
  <2>2. rec'.id # 0 \/ UNCHANGED <<rec, ctl>>
    BY <2>1 DEF Opens, Typed, Record
  <2> QED
    BY <2>1, <2>2 DEF Opens, FileInv
<1>2. CASE ~MaySend
  <2>1. Fit(rec')
    BY <1>2, FileFit
  <2>2. rec.id # 0 /\ rec'.id # 0
    <3>1. rec.id # 0
      BY <1>2 DEF FileInv, NoRec, MaySend
    <3> QED
      BY <3>1, RecSteps DEF Opens, Typed, Record
  <2>3. ctl' \in {"commit", "committed"} => rec'.cand # None
    <3>1. CASE PolledLogin
      BY <3>1, PluginAssumption DEF PolledLogin, Answered, Typed, Record
    <3>2. CASE RecoverCandidate /\ AskedForCandidate
      BY <3>2, ResumedSame, ResumedTyped DEF RecoverCandidate, AskedForCandidate, Record
    <3>3. CASE /\ RecoveredOp.phase = "candidate_ready"
               /\ rec' = [Resumed EXCEPT !.phase = "committing", !.cand = RecoveredOp.account]
      BY <3>3, InspectTyped, ResumedTyped, PluginAssumption DEF Record
    <3>4. CASE SameOperation /\ ctl = "commit"
      BY <3>4 DEF SameOperation, FileInv
    <3>5. CASE GiveUp /\ ctl = "committed"
      BY <3>5 DEF GiveUp, ctlVars, FileInv
    <3> QED
      BY <3>1, <3>2, <3>3, <3>4, <3>5, CommitMoves
  <2>4. ctl' = "polled" => rec'.phase = "awaiting_scan"
    BY PollMoves DEF Poll, GiveUp, ctlVars, FileInv
  <2> QED
    BY <2>1, <2>2, <2>3, <2>4 DEF FileInv, Fit
<1> QED
  BY <1>1, <1>2

\* An account to return to is known.
Grounded(r) ==
  /\ r.cand = None /\ r.code # "RESTORE_OPERATION_MISSING"
  /\ {r.phase, r.from} \cap {"preparing", "awaiting_scan"} = {}

LEMMA BackControl ==
  ASSUME Typed, StartInv, FileInv, BackInv, Control
  PROVE  BackInv'
<1> SUFFICES ASSUME rec'.back = {}
             PROVE  Grounded(rec')
  BY DEF BackInv, Grounded
<1>1. CASE Opens
  BY <1>1 DEF Opens, Grounded
<1>2. CASE ~Opens
  <2>1. rec.back = {}
    BY <1>2, SameMoves, ResumedSame, ResumedTyped
    DEF SameOperation, Started, PolledLogin, RecoverScan, Typed, Record
  <2>2. Grounded(rec) /\ Grounded(Resumed)
    BY <2>1, ResumedSame DEF BackInv, Grounded, ActivePhases
  <2>3. ~Started /\ ~PolledLogin /\ ~RecoverScan
    BY <2>2 DEF Started, PolledLogin, RecoverScan, Answered, StartInv, FileInv, Grounded
  <2>4. ~RecoverUnbegun /\ ~UnbegunSettled
    BY <2>2 DEF RecoverUnbegun, Preparing, UnbegunSettled, StartInv, Grounded
  <2>5. CASE RecordFailure
    <3>1. /\ rec'.cand = rec.cand /\ rec'.phase = "needs_attention"
          /\ rec'.code = "RECOVERY_CHECK_FAILED" /\ rec'.from \in {rec.from, rec.phase}
      BY <2>5 DEF RecordFailure, Typed, Record
    <3> QED
      BY <2>2, <3>1 DEF Grounded
  <2>6. CASE ~RecordFailure
    <3>1. \/ rec' = rec \/ rec' = Resumed
          \/ Notes(rec, {rec.phase}, {rec.code})
          \/ Notes(rec, {"restoring"}, {rec.code, "START_FAILED"})
          \/ Notes(rec, {"needs_attention"}, Codes \ {"RESTORE_OPERATION_MISSING"})
          \/ Notes(rec, {"completed"}, {"none"}) \/ Notes(Resumed, {"completed"}, {"none"})
          \/ Notes(Resumed, {"committing", "restoring"}, {Resumed.code})
          \/ Notes(Resumed, {"needs_attention"}, {"RESTORE_FAILED"})
      BY <1>2, <2>3, <2>4, <2>6, RecEffect DEF RecMoves
    <3> QED
      BY <2>2, <3>1 DEF Notes, Grounded
  <2> QED
    BY <2>5, <2>6
<1> QED
  BY <1>1, <1>2

-----------------------------------------------------------------------------
(* What a handler does to the files and to the login. *)

OpMoves(s) ==
  \/ UNCHANGED op
  \/ /\ op' = NoOp
     /\ \/ at[s] \in {"begin", "commit"} /\ Residue(op.id)
        \/ at[s] = "restore" /\ term = [id |-> mem[s].id, outcome |-> "restored"]
        \/ at[s] \in {"commit_end", "restore_end"}
  \/ /\ at[s] \in AtBegin /\ op'.phase \in {"beginning", "suspended"}
     /\ op'.id = mem[s].id /\ op'.sess = mem[s].sess
  \/ /\ at[s] = "start_qr" /\ op'.phase = "suspended"
     /\ op'.id = mem[s].id /\ op'.sess = 0
  \/ /\ at[s] = "start" /\ op.id = mem[s].id /\ op.phase \in {"suspended", "login_started"}
     /\ op'.id = op.id /\ op'.phase = "login_started"
     /\ \/ op.sess # 0 /\ op'.sess = op.sess
        \/ op.sess = 0 /\ op'.sess = sessions + 1 /\ sessions' = sessions + 1
  \/ /\ at[s] = "cancel" /\ op.phase = "login_started" /\ op.sess = mem[s].sess
     /\ op'.id = op.id /\ op'.phase = "suspended" /\ op'.sess = 0
  \/ /\ at[s] = "commit" /\ op.id = mem[s].id /\ op.phase \in {"candidate_ready", "committing"}
     /\ term # [id |-> mem[s].id, outcome |-> "committed"]
     /\ op'.id = op.id /\ op'.sess = op.sess /\ op'.account = op.account
     /\ op'.phase = "committing"
  \/ /\ at[s] = "restore" /\ op.id = mem[s].id /\ op.phase # "committing"
     /\ op'.id = op.id /\ op'.sess = op.sess /\ op'.phase = "restoring"

LEMMA CleanEffect ==
  ASSUME op' = CleanOp
  PROVE  UNCHANGED op \/ (op' = NoOp /\ Residue(op.id))
BY DEF CleanOp

LEMMA HandlerOp ==
  ASSUME Typed, NEW s \in Slots, Handle(s)
  PROVE  OpMoves(s)
<1> USE DEF Runs
<1>a. op \in Operation /\ mem[s] \in Operation
  BY DEF Typed
<1>1. CASE Begin(s)
  <2>1. CASE MayBegin(s)
    BY <1>1, <2>1, <1>a DEF Begin, Operation, OpMoves, AtBegin
  <2>2. CASE ~MayBegin(s)
    BY <1>1, <2>2, CleanEffect DEF Begin, OpMoves
  <2> QED
    BY <2>1, <2>2
<1>2. CASE BeginSave(s)
  BY <1>2, <1>a DEF BeginSave, Operation, OpMoves, AtBegin
<1>3. CASE StartActive(s)
  BY <1>3, <1>a DEF StartActive, MayLogin, ActiveLogin, Operation, OpMoves
<1>4. CASE Start(s)
  BY <1>4, <1>a DEF Start, MayLogin, Operation, OpMoves
<1>5. CASE StartFailed(s)
  BY <1>5, <1>a DEF StartFailed, Operation, OpMoves
<1>6. CASE Cancel(s)
  BY <1>6, <1>a DEF Cancel, Operation, OpMoves
<1>7. CASE CommitKnown(s) \/ RestoreKnown(s)
  BY <1>7, CleanEffect DEF CommitKnown, RestoreKnown, OpMoves
<1>8. CASE Commit(s)
  BY <1>8, <1>a DEF Commit, MayCommit, Operation, OpMoves
<1>9. CASE Restore(s)
  BY <1>9, <1>a DEF Restore, MayRestore, Operation, OpMoves
<1>10. CASE CommitEnd(s) \/ RestoreEnd(s)
  BY <1>10 DEF CommitEnd, RestoreEnd, OpMoves
<1>11. CASE UNCHANGED op
  BY <1>11 DEF OpMoves
<1> QED
  BY <1>1, <1>2, <1>3, <1>4, <1>5, <1>6, <1>7, <1>8, <1>9, <1>10, <1>11
  DEF Handle, BeginStep, BeginIndex, StartStep, StartKnown, StartShown, LoginStep, WaitKnown, WaitNew,
      CommitStep, CommitRefused, CommitStore, CommitIndex, CommitClear, CommitResult, CommitCandidate,
      RestoreStep, RestoreRefused, RestoreIndex, RestoreResult, ChannelFails, fileVars

\* A result is written by the last piece but one or two.
TermMoves(s) ==
  \/ UNCHANGED term
  \/ /\ at[s] = "commit_result" /\ UNCHANGED op
     /\ term' = [id |-> mem[s].id, outcome |-> "committed"]
  \/ /\ at[s] = "restore_start" /\ at'[s] = "restore_end" /\ UNCHANGED op
     /\ term' = [id |-> mem[s].id, outcome |-> "restored"]

\* A login is waited for, or known to have ended, in the session of the call.
TaskMoves(s) ==
  \/ UNCHANGED task
  \/ /\ at[s] \in {"wait", "cancel"} /\ task'.sess = mem[s].sess /\ task'.state \in {"waiting", "ended"}
     /\ \/ op.phase = "login_started" /\ op.sess = mem[s].sess /\ UNCHANGED op
        \/ task'.state = "ended"

LEMMA HandlerFiles ==
  ASSUME Typed, NEW s \in Slots, Handle(s)
  PROVE  /\ TermMoves(s) /\ TaskMoves(s)
         /\ cand' = cand \/ cand' = NoCand
         /\ sessions' \in {sessions, sessions + 1}
<1> USE DEF Runs, Typed
<1>1. TermMoves(s)
  <2>1. CASE CommitResult(s)
    BY <2>1 DEF CommitResult, TermMoves
  <2>2. CASE RestoreResult(s)
    BY <2>2 DEF RestoreResult, TermMoves, Next2
  <2>3. CASE UNCHANGED term
    BY <2>3 DEF TermMoves
  <2> QED
    BY <2>1, <2>2, <2>3
    DEF Handle, BeginStep, Begin, BeginIndex, BeginSave, StartStep, StartKnown, StartActive, Start,
        StartShown, StartFailed, LoginStep, WaitKnown, WaitNew, Cancel, CommitStep, CommitKnown,
        CommitRefused, Commit, CommitStore, CommitIndex, CommitClear, CommitCandidate, CommitEnd,
        RestoreStep, RestoreKnown, RestoreRefused, Restore, RestoreIndex, RestoreEnd, ChannelFails, fileVars
<1>2. TaskMoves(s)
  <2>1. CASE WaitNew(s)
    BY <2>1 DEF WaitNew, TaskMoves, NoTask, fileVars
  <2>2. CASE Cancel(s)
    BY <2>2 DEF Cancel, TaskMoves, NoTask
  <2>3. CASE UNCHANGED task
    BY <2>3 DEF TaskMoves
  <2> QED
    BY <2>1, <2>2, <2>3
    DEF Handle, BeginStep, Begin, BeginIndex, BeginSave, StartStep, StartKnown, StartActive, Start,
        StartShown, StartFailed, LoginStep, WaitKnown, CommitStep, CommitKnown,
        CommitRefused, Commit, CommitStore, CommitIndex, CommitClear, CommitResult, CommitCandidate,
        CommitEnd, RestoreStep, RestoreKnown, RestoreRefused, Restore, RestoreIndex, RestoreResult,
        RestoreEnd, ChannelFails, loginVars
<1>3. (cand' = cand \/ cand' = NoCand) /\ sessions' \in {sessions, sessions + 1}
  <2>1. CASE BeginStep(s)
    BY <2>1 DEF BeginStep, Begin, BeginIndex, BeginSave, CleanCand, loginVars
  <2>2. CASE StartStep(s)
    BY <2>2 DEF StartStep, StartKnown, StartActive, Start, StartShown, StartFailed, fileVars, loginVars
  <2>3. CASE LoginStep(s)
    BY <2>3 DEF LoginStep, WaitKnown, WaitNew, Cancel, fileVars, loginVars
  <2>4. CASE CommitStep(s)
    BY <2>4 DEF CommitStep, CommitKnown, CommitRefused, Commit, CommitStore, CommitIndex, CommitClear,
       CommitResult, CommitCandidate, CommitEnd, fileVars, loginVars
  <2>5. CASE RestoreStep(s)
    BY <2>5 DEF RestoreStep, RestoreKnown, RestoreRefused, Restore, RestoreIndex, RestoreResult,
       RestoreEnd, fileVars, loginVars
  <2>6. CASE ChannelFails(s)
    BY <2>6 DEF ChannelFails, fileVars, loginVars
  <2> QED
    BY <2>1, <2>2, <2>3, <2>4, <2>5, <2>6 DEF Handle
<1> QED
  BY <1>1, <1>2, <1>3

-----------------------------------------------------------------------------
(* OpInv and SessionInv *)

LEMMA NoFiles ==
  /\ NoOp.id = 0 /\ NoOp.phase = "none" /\ NoOp.sess = 0 /\ NoCand.sess = 0
  /\ NoTask.sess = 0 /\ NoTask.state = "none"
BY DEF NoOp, NoCand, NoTask

LEMMA OpControl ==
  ASSUME Timely, Typed, CallerInv, StartInv, FileInv, OpInv, OutcomeIsReal, Control
  PROVE  OpInv'
<1>1. UNCHANGED term
  BY ControlEffect
<1>2. CASE Opens
  <2>1. op' = NoOp /\ rec'.id = rec.id + 1
    BY <1>2, OpensClean DEF Opens
  <2> QED
    BY <1>1, <2>1, NoFiles DEF OpInv, Typed, Record, Result
<1>3. CASE rec'.id = rec.id
  <2>1. UNCHANGED op \/ Inspect
    BY ControlEffect, LookIsMild
  <2> QED
    BY <1>1, <1>3, <2>1, InspectEffect, NoFiles DEF OpInv, IsCandidateOf
<1> QED
  BY <1>2, <1>3, RecSteps

LEMMA OpHandler ==
  ASSUME Typed, HandlerInv, OpInv, NEW s \in Slots, Handle(s), UNCHANGED <<rec, ctl, boot>>
  PROVE  OpInv'
<1>1. mem[s].id = rec.id /\ rec.id # 0 /\ (at[s] \in AtBegin => mem[s].sess = 0)
  BY HandlerEffect DEF HandlerMove, HandlerInv
<1>2. /\ op'.id \in {0, rec.id} /\ (op'.id = 0 => op' = NoOp)
      /\ op'.phase \in {"beginning", "suspended"} => op'.sess = 0
      /\ op'.phase \in {"login_started", "candidate_ready", "committing"} => op'.sess # 0
  BY <1>1, HandlerOp, NoFiles DEF OpMoves, OpInv, Typed
<1>3. term'.id <= rec.id /\ (term'.id # 0 => term'.outcome # "none")
  BY <1>1, HandlerFiles DEF TermMoves, OpInv, Typed, Record
<1> QED
  BY <1>2, <1>3 DEF OpInv

LEMMA OpOutside ==
  ASSUME Typed, OpInv, Outside
  PROVE  OpInv'
BY OutsideEffect, OutsideFiles, NoFiles DEF Scanned, OpInv

LEMMA SessionControl ==
  ASSUME Timely, Typed, CallerInv, StartInv, FileInv, OpInv, SessionInv, OutcomeIsReal, Control
  PROVE  SessionInv'
<1>1. UNCHANGED <<task, sessions>>
  BY ControlEffect DEF loginVars
<1>2. UNCHANGED <<op, cand>> \/ Inspect
  BY ControlEffect, LookIsMild
<1>3. op'.sess \in {0, op.sess} /\ cand'.sess \in {0, cand.sess}
  BY <1>2, InspectEffect, NoFiles
<1>4. CASE Opens
  <2>1. op' = NoOp /\ rec'.sess = 0
    BY <1>4, OpensClean DEF Opens
  <2> QED
    BY <1>1, <1>3, <2>1, NoFiles DEF SessionInv, Typed
<1>5. CASE rec'.sess = rec.sess
  BY <1>1, <1>3, <1>5 DEF SessionInv, Typed
<1>6. CASE rec'.sess = op.sess /\ UNCHANGED op
  BY <1>1, <1>3, <1>6 DEF SessionInv, Typed
<1> QED
  BY <1>4, <1>5, <1>6, RecSteps

LEMMA SessionHandler ==
  ASSUME Typed, HandlerInv, OpInv, SessionInv, NEW s \in Slots, Handle(s), UNCHANGED <<rec, ctl, boot>>
  PROVE  SessionInv'
<1>a. /\ op.sess \in Nat /\ rec.sess \in Nat /\ task.sess \in Nat /\ cand.sess \in Nat
      /\ sessions \in Nat
  BY PluginAssumption DEF Typed, Operation, Record, Login, Candidate
<1>1. /\ at[s] \in AtBegin => mem[s].sess = 0
      /\ at[s] \in {"wait", "cancel"} => mem[s].sess = rec.sess
  BY HandlerEffect DEF HandlerMove, HandlerInv
<1>2. sessions' \in {sessions, sessions + 1} /\ cand'.sess \in {0, cand.sess}
  BY HandlerFiles, NoFiles
<1>3. /\ task'.sess \in {task.sess, rec.sess}
      /\ task'.state \in {"waiting", "connected"} => task'.sess # 0
  BY <1>1, HandlerFiles DEF TaskMoves, OpInv, SessionInv
<1>4. op'.sess \in {0, op.sess} \/ (op'.sess = sessions + 1 /\ sessions' = sessions + 1)
  BY <1>1, HandlerOp, NoFiles DEF OpMoves
<1> QED
  BY <1>a, <1>2, <1>3, <1>4 DEF SessionInv

LEMMA SessionOutside ==
  ASSUME Typed, SessionInv, Outside
  PROVE  SessionInv'
<1>a. /\ op.sess \in Nat /\ rec.sess \in Nat /\ task.sess \in Nat /\ cand.sess \in Nat
      /\ sessions \in Nat
  BY PluginAssumption DEF Typed, Operation, Record, Login, Candidate
<1> QED
  BY <1>a, OutsideEffect, OutsideFiles, NoFiles DEF Scanned, SessionInv

-----------------------------------------------------------------------------
(* BeginInv *)

Unscanned(r) == r.phase # "awaiting_scan" /\ r.from # "awaiting_scan"

\* A scan is awaited only after the login has started.
LEMMA AwaitMoves ==
  ASSUME Typed, Control, Unscanned(rec), ~Started
  PROVE  Unscanned(rec')
<1>a. rec \in Record /\ Resumed \in Record
  BY ResumedTyped DEF Typed
<1>b. Unscanned(Resumed)
  BY ResumedSame DEF Unscanned
<1>1. CASE StartFails
  BY <1>1, <1>a DEF StartFails, Record, Unscanned
<1>2. CASE PolledLogin \/ PolledEnd \/ CancelOperation
  BY <1>2, <1>a DEF PolledLogin, PolledEnd, CancelOperation, Phase, Record, Unscanned
<1>3. CASE Enable \/ RestoreAmbiguous \/ EnableFails \/ RestoreFails \/ RestoreSettled
  BY <1>3, <1>a DEF Enable, RestoreAmbiguous, EnableFails, RestoreFails, RestoreSettled, Attention,
     Completed, Record, Unscanned
<1>4. CASE CommitSettled \/ CommitFailed
  BY <1>4, <1>a DEF CommitSettled, CommitFailed, Attention, Completed, Phase, Record, Unscanned
<1>5. CASE RecoverCandidate \/ RecoverRestore \/ RecoverPreparing
  BY <1>5, <1>a, <1>b DEF RecoverCandidate, RecoverRestore, RecoverPreparing, Record, Unscanned
<1>6. ~RecoverScan
  BY <1>b DEF RecoverScan, Unscanned
<1>7. CASE RecoverUnbegun \/ EnableUnbegunFails
  BY <1>7, <1>a, <1>b DEF RecoverUnbegun, EnableUnbegunFails, Record, Unscanned
<1>8. CASE RecoverFails
  <2>1. rec' = Resumed \/ rec' = rec
    BY <1>8 DEF RecoverFails
  <2> QED
    BY <2>1, <1>b
<1>9. CASE UnbegunSettled
  BY <1>9, <1>a DEF UnbegunSettled, Attention, Completed, Record, Unscanned
<1>10. CASE RecordFailure
  BY <1>10, <1>a DEF RecordFailure, Record, Unscanned
<1>11. CASE StartConflict \/ BeginOperation
  BY <1>11 DEF StartConflict, BeginOperation, NoRec, Unscanned
<1>12. CASE UNCHANGED rec
  BY <1>12
<1> QED
  BY <1>1, <1>2, <1>3, <1>4, <1>5, <1>6, <1>7, <1>8, <1>9, <1>10, <1>11, <1>12
  DEF Control, Continue, Request, BeginSteps, PollSteps, CancelSteps, RestoreSteps, CommitSteps,
      RecoverSteps, CallBegin, Begun, Shown, PolledNothing, CallCancel, CancelFails, Cancelled,
      CallRestore, SnapshotFails, CallCommit, CommitUnasked, RecoverNothing, GiveUp, ctlVars, ShowAgain,
      Poll, Recover, ProcessRestarts

\* No login, as the plugin keeps it.
LoginPhases == {"login_started", "candidate_ready", "committing"}

LEMMA BeginControl ==
  ASSUME Timely, Typed, CallerInv, StartInv, BeginInv, Control
  PROVE  BeginInv'
<1>1. CASE NoCall
  <2> SUFFICES ASSUME NEW s \in Slots, at[s] \in AtBegin, UNCHANGED <<at, mem>>
               PROVE  /\ ctl' # "started" /\ Unscanned(rec')
                      /\ op'.phase \notin LoginPhases
                      /\ \A t \in Slots : at[t] \notin AtStart
    BY <1>1 DEF NoCall, BeginInv, Unscanned, LoginPhases
  <2>a. ~Idle /\ ~Mild
    BY DEF Idle, Mild, AtBegin
  <2>1. UNCHANGED op
    BY <1>1, <2>a, LookIsMild
  <2>2. ~Started
    BY DEF BeginInv, Started, Answered
  <2>3. Unscanned(rec')
    BY <2>2, AwaitMoves DEF BeginInv, Unscanned
  <2>4. ctl' # "started"
    <3>1. ~Begun
      BY <2>a, PluginAssumption DEF Begun, Answered, StartInv, Idle
    <3> QED
      BY <3>1, StartMoves DEF GiveUp, ctlVars, BeginInv
  <2> QED
    BY <2>1, <2>3, <2>4 DEF BeginInv, LoginPhases
<1>2. ASSUME NEW s \in Slots, NewCall(s)
      PROVE  BeginInv'
  <2>1. CASE at'[s] = "begin"
    <3>1. ctl' = "begun" /\ Idle /\ op = NoOp /\ Unscanned(rec)
      BY <1>2, <2>1 DEF NewCall, StartInv, Unscanned
    <3>2. \A t \in Slots : at'[t] \notin AtStart
      BY <1>2, <2>1, <3>1, NewOthers DEF Idle, AtStart
    <3> QED
      BY <1>2, <3>1, <3>2, NoFiles DEF BeginInv, NewCall, Unscanned, lookVars
  <2>2. CASE at'[s] # "begin"
    <3> SUFFICES ASSUME NEW t \in Slots, at'[t] \in AtBegin
                 PROVE  /\ ctl' # "started" /\ Unscanned(rec')
                        /\ op'.phase \notin LoginPhases
                        /\ \A u \in Slots : at'[u] \notin AtStart
      BY DEF BeginInv, Unscanned, LoginPhases
    <3>1. t # s /\ at[t] \in AtBegin
      BY <1>2, <2>2, NewOthers DEF NewCall, AtBegin
    <3>2. at'[s] \in {"cancel", "restore", "commit"} /\ ctl' # "started"
      BY <1>2, <2>2, <3>1, PluginAssumption DEF NewCall, StartInv, BeginInv, AtBegin
    <3> QED
      BY <1>2, <3>1, <3>2, NewOthers DEF BeginInv, NewCall, Unscanned, LoginPhases, AtStart, lookVars
  <2> QED
    BY <2>1, <2>2
<1> QED
  BY <1>1, <1>2, ControlEffect

LEMMA BeginHandler ==
  ASSUME Typed, BeginInv, NEW s \in Slots, Handle(s), UNCHANGED <<rec, ctl, boot>>
  PROVE  BeginInv'
<1>1. HandlerMove(s)
  BY HandlerEffect
<1> SUFFICES ASSUME NEW t \in Slots, at'[t] \in AtBegin
             PROVE  /\ op'.phase \notin LoginPhases
                    /\ \A u \in Slots : at'[u] \notin AtStart
                    /\ ctl # "started" /\ Unscanned(rec)
  BY DEF BeginInv, Unscanned, LoginPhases
<1>2. at[t] \in AtBegin /\ \A u \in Slots : at'[u] \in AtStart => at[u] \in AtStart
  BY <1>1, MoveOthers DEF HandlerMove, Path, AtBegin, AtStart
<1>3. op'.phase \notin LoginPhases
  BY <1>2, HandlerOp, NoFiles DEF OpMoves, BeginInv, LoginPhases, AtStart
<1> QED
  BY <1>2, <1>3 DEF BeginInv, Unscanned

LEMMA BeginOutside ==
  ASSUME Typed, BeginInv, Outside
  PROVE  BeginInv'
BY OutsideEffect, OutsideFiles DEF Scanned, BeginInv, Idle, callVars, AtBegin

-----------------------------------------------------------------------------
(* ChosenInv *)

\* Once an account has logged in, only a new operation undoes it.
LEMMA ChosenControl ==
  ASSUME Timely, Typed, CallerInv, OpInv, Control, ctl # "begin", NEW a, Chosen(a)
  PROVE  Chosen(a)'
<1>1. UNCHANGED op \/ Inspect
  BY ControlEffect, LookIsMild
<1>2. /\ op'.id # 0 => op'.phase \in {"candidate_ready", "committing", "restoring"}
      /\ op'.phase \in {"candidate_ready", "committing"} => op'.account = a
  BY <1>1, InspectEffect, NoFiles DEF Chosen, OpInv
<1>3. \A s \in Slots : at'[s] \notin AtBegin \cup {"start_qr"}
  BY ControlEffect, NewOthers DEF NoCall, NewCall, Chosen, AtBegin
<1> QED
  BY <1>2, <1>3 DEF Chosen

LEMMA ChosenHandler ==
  ASSUME Typed, HandlerInv, OpInv, NEW s \in Slots, Handle(s), NEW a, Chosen(a)
  PROVE  Chosen(a)'
<1>1. HandlerMove(s) /\ mem[s].id = rec.id /\ rec.id # 0
  BY HandlerEffect DEF HandlerMove, HandlerInv
<1>2. /\ op'.id # 0 => op'.phase \in {"candidate_ready", "committing", "restoring"}
      /\ op'.phase \in {"candidate_ready", "committing"} => op'.account = a
  BY <1>1, HandlerOp, NoFiles DEF OpMoves, Chosen, OpInv
<1>3. at'[s] \notin AtBegin \cup {"start_qr"}
  <2>1. CASE at'[s] = "start_qr"
    <3>1. Start(s)
      BY <1>1, <2>1, HandlerKind DEF HandlerMove, Path, StartStep, StartKnown, StartActive, StartShown,
         StartFailed, Error, Respond, Typed, AtBegin, AtStart, AtCommit, AtRestore
    <3> QED
      BY <1>1, <3>1, NoFiles DEF Start, MayLogin, Chosen, OpInv
  <2> QED
    BY <1>1, <2>1 DEF HandlerMove, Path, Chosen, AtBegin
<1> QED
  BY <1>1, <1>2, <1>3, MoveOthers DEF Chosen

LEMMA ChosenOutside ==
  ASSUME Typed, OpInv, Outside, NEW a, Chosen(a)
  PROVE  Chosen(a)'
BY OutsideEffect, OutsideFiles, NoFiles DEF Scanned, Chosen, OpInv, Idle, callVars, AtBegin

LEMMA ScannedChosen ==
  ASSUME Typed, BeginInv, NEW a, Scanned(a)
  PROVE  Chosen(a)'
<1>1. \A s \in Slots : at'[s] \notin AtBegin \cup {"start_qr"}
  BY DEF Scanned, BeginInv, callVars
<1> QED
  BY <1>1 DEF Scanned, Chosen

\* Recovery reads the candidate of a login that has ended well.
LEMMA ScanCandidate ==
  ASSUME Typed, RecoverScan
  PROVE  \/ rec'.cand = rec.cand
         \/ rec'.cand = op'.account /\ op'.phase = "candidate_ready" /\ op'.account \in Accounts
<1>1. \/ rec'.cand = rec.cand
      \/ rec'.cand = RecoveredOp.account /\ RecoveredOp.phase = "candidate_ready" /\ op' = RecoveredOp
  BY ResumedSame, ResumedTyped DEF RecoverScan, Look, LookPast, Inspect, Record
<1> QED
  BY <1>1, InspectTyped

LEMMA ChosenInvControl ==
  ASSUME Timely, Typed, CallerInv, StartInv, FileInv, OpInv, SessionInv, ChosenInv, OutcomeIsReal,
         Control
  PROVE  ChosenInv'
<1>a. UNCHANGED <<task, sessions>>
  BY ControlEffect DEF loginVars
<1>b. reply' \in Accounts => reply \in Accounts /\ reply' = reply
  BY ControlEffect, PluginAssumption DEF NoCall, NewCall
<1>1. CASE Opens
  <2>1. Idle' /\ op' = NoOp /\ rec'.sess = 0 /\ rec'.cand = None /\ ctl # "polled"
    BY <1>1, OpensClean DEF Opens, Idle, callVars, MayStart
  <2> QED
    BY <1>a, <1>b, <2>1, NoFiles DEF ChosenInv, SessionInv, CallerInv
<1>2. CASE ctl = "begin"
  <2>1. rec'.cand = rec.cand /\ rec.cand = None /\ rec'.sess = rec.sess /\ rec.sess = 0 /\ ctl # "polled"
    BY <1>2, RecSteps DEF StartInv, FileInv, Opens, MayStart, PolledLogin, RecoverScan, Answered
  <2>2. op' = NoOp
    BY <1>2, ControlEffect, LookIsMild, InspectEffect, NoFiles DEF StartInv
  <2> QED
    BY <1>a, <1>b, <2>1, <2>2, NoFiles DEF ChosenInv, SessionInv, CallerInv
<1>3. CASE ~Opens /\ ctl # "begin"
  <2>a. \A a : Chosen(a) => Chosen(a)'
    BY <1>3, ChosenControl
  <2>1. op'.phase \in {"candidate_ready", "committing"} => Chosen(op.account)'
    <3>1. CASE UNCHANGED op
      BY <2>a, <3>1 DEF ChosenInv, Chosen
    <3>2. CASE NoCall /\ Mild /\ Inspect
      BY <2>a, <3>2, InspectEffect, NoFiles DEF ChosenInv, Chosen, NoCall, Mild, AtBegin
    <3> QED
      BY <3>1, <3>2, ControlEffect, LookIsMild
  <2>2. reply' \in Accounts => Chosen(reply)'
    BY <2>a, <1>b DEF ChosenInv, Chosen
  <2>3. task'.state = "connected" /\ task'.sess = rec'.sess => Chosen(task.account)'
    <3>1. task'.state = "connected" /\ task'.sess = rec'.sess => task.sess = rec.sess
      BY <1>3, <1>a, RecSteps DEF SessionInv
    <3> QED
      BY <2>a, <3>1, <1>a DEF ChosenInv, Chosen
  <2>4. rec'.cand # None => Chosen(rec.cand)'
    <3>1. CASE rec'.cand = rec.cand
      BY <2>a, <3>1 DEF ChosenInv, Chosen
    <3>2. CASE PolledLogin
      <4>1. reply \in Accounts /\ rec'.cand = reply
        BY <3>2 DEF PolledLogin, Answered, Typed, Record
      <4> QED
        BY <2>a, <4>1 DEF ChosenInv, Chosen
    <3>3. CASE RecoverScan
      BY <2>1, <3>1, <3>3, ScanCandidate DEF Chosen
    <3> QED
      BY <1>3, <3>1, <3>2, <3>3, RecSteps
  <2> QED
    BY <2>1, <2>2, <2>3, <2>4 DEF ChosenInv
<1> QED
  BY <1>1, <1>2, <1>3

\* What a login is answered with.
LEMMA WaitAnswer ==
  ASSUME Typed, NEW s \in Slots, WaitKnown(s) \/ WaitNew(s), reply' # reply, reply' \in Accounts
  PROVE  /\ UNCHANGED op
         /\ \/ task.sess = mem[s].sess /\ task.state = "connected" /\ reply' = task.account
            \/ op.phase = "candidate_ready" /\ reply' = op.account
<1> USE PluginAssumption DEF Respond, Error, LoginAnswer, fileVars
<1>1. CASE WaitKnown(s)
  BY <1>1 DEF WaitKnown
<1>2. CASE WaitNew(s)
  BY <1>2 DEF WaitNew, NoTask
<1> QED
  BY <1>1, <1>2

LEMMA ChosenInvHandler ==
  ASSUME Typed, HandlerInv, OpInv, SessionInv, ChosenInv, NEW s \in Slots, Handle(s),
         UNCHANGED <<rec, ctl, boot>>
  PROVE  ChosenInv'
<1>a. \A a : Chosen(a) => Chosen(a)'
  BY ChosenHandler
<1>b. HandlerMove(s) /\ mem[s].id = rec.id /\ (at[s] \in {"wait", "cancel"} => mem[s].sess = rec.sess)
  BY HandlerEffect DEF HandlerMove, HandlerInv
<1>1. op'.phase \in {"candidate_ready", "committing"} => Chosen(op.account)'
  <2>1. op'.phase \in {"candidate_ready", "committing"} =>
          op.phase \in {"candidate_ready", "committing"} /\ op'.account = op.account
    BY HandlerOp, NoFiles DEF OpMoves
  <2> QED
    BY <2>1, <1>a DEF ChosenInv, Chosen
<1>2. reply' \in Accounts => Chosen(reply)'
  <2>1. CASE reply' = reply
    BY <2>1, <1>a DEF ChosenInv, Chosen
  <2>2. CASE reply' # reply /\ reply' \in Accounts
    <3>1. WaitKnown(s) \/ WaitNew(s)
      BY <2>2, <1>b, HandlerKind, PluginAssumption DEF HandlerMove, AtBegin, AtStart, AtCommit, AtRestore
    <3>2. at[s] = "wait"
      BY <3>1 DEF WaitKnown, WaitNew, Runs
    <3>3. Chosen(reply')
      BY <2>2, <3>1, <3>2, <1>b, WaitAnswer DEF ChosenInv
    <3> QED
      BY <3>3, <1>a DEF Chosen
  <2> QED
    BY <2>1, <2>2
<1>3. task'.state = "connected" /\ task'.sess = rec'.sess => Chosen(task.account)'
  <2>1. task'.state = "connected" => UNCHANGED task
    BY HandlerFiles DEF TaskMoves
  <2> QED
    BY <2>1, <1>a DEF ChosenInv, Chosen
<1>4. rec'.cand # None => Chosen(rec.cand)'
  BY <1>a DEF ChosenInv, Chosen
<1> QED
  BY <1>1, <1>2, <1>3, <1>4 DEF ChosenInv

LEMMA ChosenInvOutside ==
  ASSUME Typed, CallerInv, OpInv, BeginInv, ChosenInv, Outside
  PROVE  ChosenInv'
<1>a. \A a : Chosen(a) => Chosen(a)'
  BY ChosenOutside
<1>b. UNCHANGED rec /\ (reply' = reply \/ reply' = "error")
  BY OutsideEffect DEF callVars
<1>c. reply' \in Accounts => Chosen(reply)'
  BY <1>a, <1>b, PluginAssumption DEF ChosenInv, Chosen
<1>d. rec'.cand # None => Chosen(rec.cand)'
  BY <1>a, <1>b DEF ChosenInv, Chosen
<1>1. ASSUME NEW a \in Accounts, Scanned(a)
      PROVE  ChosenInv'
  BY <1>1, <1>c, <1>d, ScannedChosen DEF ChosenInv, Scanned, Chosen
<1>2. CASE UNCHANGED op /\ (task' = task \/ task'.state # "connected")
  BY <1>2, <1>a, <1>b, <1>c, <1>d DEF ChosenInv, Chosen
<1> QED
  BY <1>1, <1>2, OutsideFiles, NoFiles

-----------------------------------------------------------------------------
(* RestoreInv and CommitInv *)

LEMMA RestorePieces ==
  ASSUME Typed, NEW s \in Slots, Handle(s)
  PROVE  /\ at'[s] = "restore_index" => op'.phase = "restoring"
         /\ at'[s] = "restore_end" => term' = [id |-> mem[s].id, outcome |-> "restored"]
         /\ at[s] \in AtRestore /\ reply # "ok" /\ reply' = "ok" =>
              UNCHANGED term /\ (at[s] = "restore_end" \/ term = [id |-> mem[s].id, outcome |-> "restored"])
<1> USE DEF Runs, Error, Respond, Next2
<1>a. at \in [Slots -> Piece] /\ op \in Operation
  BY DEF Typed
<1>1. CASE RestoreStep(s)
  BY <1>1, <1>a DEF RestoreStep, RestoreKnown, RestoreRefused, Restore, RestoreIndex, RestoreResult,
     RestoreEnd, Operation
<1>2. CASE ChannelFails(s)
  BY <1>2, <1>a DEF ChannelFails
<1>3. CASE at[s] \notin AtRestore
  BY <1>3, HandlerEffect DEF HandlerMove, Path, AtRestore
<1> QED
  BY <1>1, <1>2, <1>3, HandlerKind DEF AtBegin, AtStart, AtCommit, AtRestore

LEMMA CommitPieces ==
  ASSUME Typed, NEW s \in Slots, Handle(s), at[s] \in AtCommit
  PROVE  /\ at'[s] = "commit_store" =>
              /\ at[s] = "commit" /\ op'.phase = "committing" /\ mem'[s] = op'
              /\ op'.account = op.account /\ op.phase \in {"candidate_ready", "committing"}
              /\ term # [id |-> mem[s].id, outcome |-> "committed"]
         /\ at[s] = "commit" /\ op.phase = "committing" /\ ~Residue(op.id) => UNCHANGED op
         /\ at'[s] \in AtCommit /\ at'[s] # "commit_store" => UNCHANGED <<op, mem>>
         /\ at[s] = "commit_store" => stored' = stored \cup {mem[s].account}
         /\ at[s] # "commit_store" =>
              UNCHANGED stored \/ (at[s] = "commit_start" /\ stored' = stored \ (mem[s].old \ {mem[s].account}))
         /\ at'[s] = "commit_candidate" => term' = [id |-> mem[s].id, outcome |-> "committed"]
         /\ reply # "ok" /\ reply' = "ok" =>
              UNCHANGED term /\ (at[s] = "commit_end" \/ term = [id |-> mem[s].id, outcome |-> "committed"])
<1> USE DEF Runs, Error, Respond, Next2, AtCommit, fileVars
<1>a. at \in [Slots -> Piece] /\ op \in Operation /\ mem \in [Slots -> Operation]
  BY DEF Typed
<1>1. CASE CommitKnown(s) \/ CommitRefused(s)
  BY <1>1, <1>a DEF CommitKnown, CommitRefused, CleanOp
<1>2. CASE Commit(s)
  BY <1>2, <1>a DEF Commit, MayCommit, Operation
<1>3. CASE CommitStore(s) \/ CommitIndex(s)
  BY <1>3, <1>a DEF CommitStore, CommitIndex
<1>4. CASE CommitClear(s)
  BY <1>4, <1>a DEF CommitClear
<1>5. CASE CommitResult(s)
  BY <1>5, <1>a DEF CommitResult
<1>6. CASE CommitCandidate(s) \/ CommitEnd(s)
  BY <1>6, <1>a DEF CommitCandidate, CommitEnd
<1>7. CASE ChannelFails(s)
  BY <1>7, <1>a DEF ChannelFails
<1> QED
  BY <1>1, <1>2, <1>3, <1>4, <1>5, <1>6, <1>7, HandlerKind DEF CommitStep, AtBegin, AtStart, AtRestore

\* Only a commit touches the credentials.
LEMMA StoredSteps ==
  ASSUME Typed, NEW s \in Slots, Handle(s), at[s] \notin AtCommit
  PROVE  UNCHANGED stored
<1> USE DEF fileVars
<1>1. CASE BeginStep(s)
  BY <1>1 DEF BeginStep, Begin, BeginIndex, BeginSave
<1>2. CASE StartStep(s)
  BY <1>2 DEF StartStep, StartKnown, StartActive, Start, StartShown, StartFailed
<1>3. CASE WaitKnown(s) \/ WaitNew(s) \/ Cancel(s) \/ ChannelFails(s)
  BY <1>3 DEF WaitKnown, WaitNew, Cancel, ChannelFails
<1>4. CASE RestoreStep(s)
  BY <1>4 DEF RestoreStep, RestoreKnown, RestoreRefused, Restore, RestoreIndex, RestoreResult, RestoreEnd
<1> QED
  BY <1>1, <1>2, <1>3, <1>4, HandlerKind

LEMMA RestoreInvControl ==
  ASSUME Timely, Typed, CallerInv, StartInv, FileInv, OpInv, SessionInv, RestoreInv, OutcomeIsReal,
         Control
  PROVE  RestoreInv'
<1>a. UNCHANGED term
  BY ControlEffect
<1>b. (Restoring' => Restoring) /\ \A s \in Slots : at'[s] = "restore_end" => at[s] = "restore_end"
  BY ControlEffect, NewOthers DEF NoCall, NewCall, Restoring, AtRestore
<1>c. ~(ctl' = "restored" /\ reply' = "ok")
  BY ControlEffect DEF NoCall, NewCall, Waiting
<1>1. CASE Opens
  <2>1. Idle /\ op' = NoOp /\ term'.id # rec'.id
    BY <1>1, <1>a, OpensClean DEF Opens, OpInv, Typed, Record, Result
  <2>2. ~RestoredOp(rec.id)' /\ ~CommittedOp(rec.id)'
    BY <2>1 DEF RestoredOp, CommittedOp
  <2>3. ~Restoring' /\ \A s \in Slots : at'[s] # "restore_end"
    BY <2>1, <1>b DEF Idle, Restoring, AtRestore
  <2> QED
    BY <1>c, <2>2, <2>3 DEF RestoreInv
<1>2. CASE ~Opens
  <2>1. (RestoredOp(rec.id)' <=> RestoredOp(rec.id)) /\ (CommittedOp(rec.id)' <=> CommittedOp(rec.id))
    BY <1>2, <1>a, RecSteps DEF RestoredOp, CommittedOp
  <2>2. \/ UNCHANGED op \/ op' = NoOp
        \/ op.phase = "login_started" /\ op.sess = rec.sess
    BY ControlEffect, LookIsMild, InspectEffect DEF IsCandidateOf, SessionInv
  <2>3. rec'.sess = rec.sess \/ ~(Restoring \/ RestoredOp(rec.id))
    BY <1>2, RecSteps DEF StartInv, Idle, Restoring, RestoredOp, AtRestore
  <2>4. rec.cand # None => rec'.cand # None
    <3>1. PolledLogin => rec'.cand # None
      BY PluginAssumption DEF PolledLogin, Answered, Typed, Record
    <3>2. RecoverScan => rec'.cand = rec.cand \/ rec'.cand # None
      BY ScanCandidate, PluginAssumption
    <3> QED
      BY <1>2, <3>1, <3>2, RecSteps
  <2>5. CommittedOp(rec.id) => UNCHANGED op \/ op' = NoOp
    BY <2>2, NoFiles DEF RestoreInv, OpInv
  <2> QED
    BY <1>a, <1>b, <1>c, <2>1, <2>2, <2>3, <2>4, <2>5, NoFiles DEF RestoreInv
<1> QED
  BY <1>1, <1>2

LEMMA RestoreInvHandler ==
  ASSUME Typed, CallerInv, HandlerInv, OpInv, SessionInv, ChosenInv, RestoreInv, CommitInv,
         NEW s \in Slots, Handle(s), UNCHANGED <<rec, ctl, boot>>
  PROVE  RestoreInv'
<1>a. HandlerMove(s) /\ mem[s].id = rec.id /\ rec.id # 0
  BY HandlerEffect DEF HandlerMove, HandlerInv
<1>b. OpMoves(s) /\ TermMoves(s)
  BY HandlerOp, HandlerFiles
<1>c. at'[s] = "restore_index" => op'.phase = "restoring"
  BY RestorePieces
<1>d. Restoring' => Restoring \/ (at[s] = "restore" /\ op'.phase = "restoring")
  BY <1>a, <1>c, MoveOthers DEF HandlerMove, Path, Restoring, AtRestore
<1>1. CASE at[s] = "commit_result" /\ UNCHANGED op /\ term' = [id |-> mem[s].id, outcome |-> "committed"]
  <2>0. rec.cand # None /\ (op.phase = "committing" \/ CommittedOp(rec.id))
    BY <1>1 DEF CommitInv, AtCommit
  <2>1. /\ ~Restoring /\ ~RestoredOp(rec.id) /\ (op.id # 0 => op.phase = "committing")
    BY <2>0 DEF RestoreInv, CommittedOp, RestoredOp
  <2>2. ~Restoring' /\ ~RestoredOp(rec.id)' /\ \A t \in Slots : at'[t] # "restore_end"
    BY <1>1, <1>a, <1>d, <2>1, MoveOthers DEF RestoredOp, Restoring, AtRestore, HandlerMove, Path
  <2>3. ~(ctl = "restored" /\ reply' = "ok")
    <3>1. ~(ctl = "restored" /\ reply = "ok")
      BY <2>1 DEF RestoreInv
    <3>2. ctl = "restored" => caller # s
      BY <1>1, PluginAssumption DEF CallerInv, WaitsFor, AtRestore
    <3> QED
      BY <1>a, <3>1, <3>2 DEF HandlerMove
  <2> QED
    BY <1>1, <2>0, <2>1, <2>2, <2>3 DEF RestoreInv
<1>2. CASE at[s] = "restore_start" /\ UNCHANGED op /\ term' = [id |-> mem[s].id, outcome |-> "restored"]
  <2>1. Restoring
    BY <1>2 DEF Restoring, AtRestore
  <2>2. RestoredOp(rec.id)' /\ ~CommittedOp(rec.id)'
    BY <1>2, <1>a DEF RestoredOp, CommittedOp
  <2> QED
    BY <1>2, <2>1, <2>2 DEF RestoreInv
<1>3. CASE UNCHANGED term
  <2>1. (RestoredOp(rec.id)' <=> RestoredOp(rec.id)) /\ (CommittedOp(rec.id)' <=> CommittedOp(rec.id))
    BY <1>3 DEF RestoredOp, CommittedOp
  <2>2. ASSUME Restoring' \/ RestoredOp(rec.id)'
        PROVE  /\ op'.phase \notin {"candidate_ready", "committing"}
               /\ op'.phase = "login_started" => op'.sess # rec.sess
    <3>1. CASE op'.phase = "restoring"
      BY <3>1
    <3>2. CASE Restoring \/ RestoredOp(rec.id)
      <4>1. op.phase \notin {"candidate_ready", "committing"} /\ (op.phase = "login_started" => op.sess # rec.sess)
        BY <3>2 DEF RestoreInv
      <4>2. sessions + 1 # rec.sess
        BY DEF SessionInv, Typed, Record
      <4> QED
        BY <1>b, <4>1, <4>2, NoFiles DEF OpMoves, OpInv
    <3> QED
      BY <2>1, <2>2, <1>d, <3>1, <3>2
  <2>3. ASSUME CommittedOp(rec.id)
        PROVE  /\ rec.cand # None /\ ~Restoring'
               /\ op'.id # 0 => op'.phase = "committing"
    <3>1. rec.cand # None /\ ~Restoring /\ (op.id # 0 => op.phase = "committing") /\ Chosen(rec.cand)
      BY <2>3 DEF RestoreInv, ChosenInv
    <3>2. op' = op \/ op'.id = 0 \/ op'.phase = "committing"
      BY <1>a, <1>b, <3>1, NoFiles DEF OpMoves, Chosen, OpInv
    <3>3. ~Restoring'
      BY <1>a, <1>b, <1>d, <3>1, NoFiles DEF OpMoves, OpInv
    <3> QED
      BY <3>1, <3>2, <3>3
  <2>4. \A t \in Slots : at'[t] = "restore_end" => RestoredOp(rec.id)
    <3>1. at'[s] = "restore_end" => RestoredOp(rec.id)
      BY <1>a, <1>3, RestorePieces DEF RestoredOp
    <3> QED
      BY <1>a, <3>1, MoveOthers DEF RestoreInv
  <2>5. ctl = "restored" /\ reply' = "ok" => RestoredOp(rec.id)
    <3>1. ctl = "restored" /\ caller = s => at[s] \in AtRestore
      BY PluginAssumption DEF CallerInv, WaitsFor
    <3>2. at[s] \in AtRestore /\ reply # "ok" /\ reply' = "ok" => RestoredOp(rec.id)
      BY <1>a, RestorePieces DEF RestoredOp, RestoreInv
    <3> QED
      BY <1>a, <3>1, <3>2 DEF HandlerMove, RestoreInv
  <2> QED
    BY <2>1, <2>2, <2>3, <2>4, <2>5 DEF RestoreInv
<1> QED
  BY <1>b, <1>1, <1>2, <1>3 DEF TermMoves

LEMMA RestoreInvOutside ==
  ASSUME Typed, OpInv, SessionInv, RestoreInv, Outside
  PROVE  RestoreInv'
<1>1. /\ UNCHANGED <<rec, ctl, term>>
      /\ Restoring' => Restoring
      /\ \A s \in Slots : at'[s] = "restore_end" => at[s] = "restore_end"
      /\ reply' = "ok" => reply = "ok"
  BY OutsideEffect DEF Restoring, AtRestore, Idle, callVars
<1>2. (RestoredOp(rec.id)' <=> RestoredOp(rec.id)) /\ (CommittedOp(rec.id)' <=> CommittedOp(rec.id))
  BY <1>1 DEF RestoredOp, CommittedOp
<1>3. \/ UNCHANGED op
      \/ op.phase = "login_started" /\ op.id # 0 /\ op.sess = rec.sess
  BY OutsideFiles, NoFiles DEF Scanned, OpInv, SessionInv
<1> QED
  BY <1>1, <1>2, <1>3 DEF RestoreInv

\* What is left of an operation that was to be committed tells that it was.
LEMMA ResidueCommitted ==
  ASSUME Typed, OpInv, RestoreInv, Residue(op.id), op.id = rec.id, op.phase = "committing"
  PROVE  CommittedOp(rec.id)
<1>1. rec.id # 0 /\ term.id = rec.id /\ term.outcome \in {"committed", "restored"}
  BY DEF Residue, OpInv, Typed, Result
<1>2. term = [id |-> term.id, outcome |-> term.outcome]
  BY DEF Typed, Result
<1> QED
  BY <1>1, <1>2 DEF RestoreInv, RestoredOp, CommittedOp

LEMMA CommitInvControl ==
  ASSUME Timely, Typed, CallerInv, StartInv, FileInv, OpInv, RestoreInv, CommitInv, Control
  PROVE  CommitInv'
<1>a. UNCHANGED <<term, stored>>
  BY ControlEffect
<1>b. ~(ctl' = "committed" /\ reply' = "ok")
  BY ControlEffect DEF NoCall, NewCall, Waiting
<1>1. CASE NoCall
  <2> SUFFICES ASSUME NEW s \in Slots, at[s] \in AtCommit
               PROVE  /\ rec'.id = rec.id /\ rec'.cand = rec.cand
                      /\ op.phase = "committing" => UNCHANGED op \/ CommittedOp(rec.id)
    BY <1>a, <1>b, <1>1 DEF CommitInv, CommittedOp, NoCall
  <2>1. rec.cand # None
    BY DEF CommitInv
  <2>2. ~Opens
    BY OpensIdle DEF Idle, AtCommit
  <2>3. ~PolledLogin /\ ~RecoverScan
    BY <2>1, ResumedFile DEF PolledLogin, RecoverScan, Answered, FileInv
  <2>4. op.phase = "committing" => UNCHANGED op \/ CommittedOp(rec.id)
    <3>1. op.phase = "committing" => op.id = rec.id
      BY NoFiles DEF OpInv
    <3> QED
      BY <1>1, <3>1, LookIsMild, InspectEffect, ResidueCommitted
  <2> QED
    BY <2>2, <2>3, <2>4, RecSteps
<1>2. ASSUME NEW s \in Slots, NewCall(s)
      PROVE  CommitInv'
  <2>1. UNCHANGED <<rec, op>> /\ (at'[s] \in AtCommit => at'[s] = "commit" /\ rec.cand # None)
    BY <1>2, LookIsMild DEF NewCall, FileInv, AtCommit
  <2> QED
    BY <1>a, <1>b, <1>2, <2>1, NewOthers DEF CommitInv, CommittedOp
<1> QED
  BY <1>1, <1>2, ControlEffect

\* While a handler runs a piece the others wait.
LEMMA HandlerAlone ==
  ASSUME NEW s \in Slots, Handle(s), NEW t \in Slots, t # s
  PROVE  at[t] \in Yielding
<1> USE DEF Runs
<1>1. CASE BeginStep(s)
  BY <1>1 DEF BeginStep, Begin, BeginIndex, BeginSave
<1>2. CASE StartStep(s)
  BY <1>2 DEF StartStep, StartKnown, StartActive, Start, StartShown, StartFailed
<1>3. CASE LoginStep(s)
  BY <1>3 DEF LoginStep, WaitKnown, WaitNew, Cancel
<1>4. CASE CommitStep(s)
  BY <1>4 DEF CommitStep, CommitKnown, CommitRefused, Commit, CommitStore, CommitIndex, CommitClear,
     CommitResult, CommitCandidate, CommitEnd
<1>5. CASE RestoreStep(s)
  BY <1>5 DEF RestoreStep, RestoreKnown, RestoreRefused, Restore, RestoreIndex, RestoreResult, RestoreEnd
<1>6. CASE ChannelFails(s)
  BY <1>6 DEF ChannelFails
<1> QED
  BY <1>1, <1>2, <1>3, <1>4, <1>5, <1>6 DEF Handle

\* A commit that has been carried out stays so.
LEMMA CommittedStays ==
  ASSUME Typed, HandlerInv, RestoreInv, NEW s \in Slots, Handle(s), UNCHANGED <<rec, ctl, boot>>,
         CommittedOp(rec.id)
  PROVE  CommittedOp(rec.id)' /\ UNCHANGED term
<1>1. mem[s].id = rec.id /\ TermMoves(s)
  BY HandlerEffect, HandlerFiles DEF HandlerMove, HandlerInv
<1>2. at[s] # "restore_start"
  BY DEF RestoreInv, Restoring, AtRestore
<1> QED
  BY <1>1, <1>2 DEF TermMoves, CommittedOp

\* The operation that is committed is not touched by what else is under way.
LEMMA CommittingStays ==
  ASSUME Typed, HandlerInv, OpInv, ChosenInv, RestoreInv, CommitInv, NEW s \in Slots, Handle(s),
         rec.cand # None, op.phase = "committing", ~CommittedOp(rec.id)
  PROVE  UNCHANGED op
<1>1. mem[s].id = rec.id /\ OpMoves(s)
  BY HandlerEffect, HandlerOp DEF HandlerMove, HandlerInv
<1>2. op.id = rec.id /\ Chosen(rec.cand) /\ ~Restoring /\ ~RestoredOp(rec.id)
  BY NoFiles DEF OpInv, ChosenInv, RestoreInv
<1>3. ~Residue(op.id)
  BY <1>2, ResidueCommitted
<1>4. at[s] \notin AtBegin \cup {"start_qr", "restore_end", "commit_end"}
  BY <1>2 DEF Chosen, Restoring, AtRestore, AtCommit, CommitInv
<1>5. at[s] = "commit" => UNCHANGED op
  BY <1>3, CommitPieces DEF AtCommit
<1> QED
  BY <1>1, <1>2, <1>3, <1>4, <1>5 DEF OpMoves, RestoredOp, HandlerInv, AtBegin

\* What the invariant says of a handler that commits.
CommitAt(s) ==
  /\ rec.cand # None
  /\ at[s] # "commit" =>
       /\ (op.phase = "committing" /\ mem[s] = op) \/ CommittedOp(rec.id)
       /\ mem[s].account = rec.cand
  /\ at[s] \in {"commit_store", "commit_index"} => ~CommittedOp(rec.id)
  /\ at[s] \notin {"commit", "commit_store"} => rec.cand \in stored
  /\ at[s] \in {"commit_candidate", "commit_end"} => CommittedOp(rec.id)

LEMMA CommitAtOther ==
  ASSUME Typed, HandlerInv, OpInv, ChosenInv, RestoreInv, CommitInv,
         NEW s \in Slots, Handle(s), UNCHANGED <<rec, ctl, boot>>,
         NEW t \in Slots, t # s, at'[t] \in AtCommit
  PROVE  CommitAt(t)'
<1>1. at'[t] = at[t] /\ mem'[t] = mem[t] /\ at[t] \in {"commit", "commit_start"}
  BY HandlerEffect, MoveOthers, HandlerAlone DEF Yielding, AtCommit
<1>2. CommitAt(t)
  BY <1>1 DEF CommitAt, CommitInv, AtCommit
<1>3. rec.cand \in stored => rec.cand \in stored'
  <2>1. CASE at[s] \in AtCommit
    BY <2>1, CommitPieces DEF CommitInv
  <2> QED
    BY <2>1, StoredSteps
<1>4. at[t] = "commit_start" => (op'.phase = "committing" /\ mem'[t] = op') \/ CommittedOp(rec.id)'
  BY <1>1, <1>2, CommittedStays, CommittingStays DEF CommitAt
<1> QED
  BY <1>1, <1>2, <1>3, <1>4 DEF CommitAt

LEMMA CommitAtSelf ==
  ASSUME Typed, HandlerInv, OpInv, ChosenInv, RestoreInv, CommitInv,
         NEW s \in Slots, Handle(s), UNCHANGED <<rec, ctl, boot>>, at'[s] \in AtCommit
  PROVE  CommitAt(s)'
<1>a. HandlerMove(s) /\ mem[s].id = rec.id /\ rec.id # 0 /\ TermMoves(s)
  BY HandlerEffect, HandlerFiles DEF HandlerMove, HandlerInv
<1>b. at[s] \in AtCommit
  BY <1>a DEF HandlerMove, Path, AtCommit
<1>c. CommitAt(s)
  BY <1>b DEF CommitAt, CommitInv
<1>1. CASE at'[s] = "commit_store"
  <2>1. /\ op'.phase = "committing" /\ mem'[s] = op' /\ op'.account = rec.cand
        /\ at[s] = "commit" /\ ~CommittedOp(rec.id)
    BY <1>a, <1>b, <1>c, <1>1, CommitPieces DEF CommittedOp, ChosenInv, Chosen, CommitAt
  <2>2. ~CommittedOp(rec.id)'
    BY <1>a, <2>1 DEF TermMoves, CommittedOp
  <2> QED
    BY <1>1, <1>c, <2>1, <2>2 DEF CommitAt
<1>2. CASE at'[s] # "commit_store"
  <2>1. at[s] # "commit" /\ UNCHANGED <<op, mem>>
    BY <1>2, <1>a, <1>b, CommitPieces DEF HandlerMove, Path, AtCommit
  <2>2. mem[s].account = rec.cand /\ ((op.phase = "committing" /\ mem[s] = op) \/ CommittedOp(rec.id))
    BY <1>c, <2>1 DEF CommitAt
  <2>3. rec.cand \in stored'
    BY <1>b, <1>c, <2>1, <2>2, CommitPieces DEF CommitAt
  <2>4. CommittedOp(rec.id) => CommittedOp(rec.id)'
    BY CommittedStays
  <2>5. at'[s] = "commit_index" => ~CommittedOp(rec.id)'
    <3>1. at'[s] = "commit_index" => at[s] = "commit_store"
      BY <1>a DEF HandlerMove, Path
    <3> QED
      BY <3>1, <1>a, <1>c DEF TermMoves, CommittedOp, CommitAt
  <2>6. at'[s] \in {"commit_candidate", "commit_end"} => CommittedOp(rec.id)'
    <3>1. at'[s] = "commit_candidate" => CommittedOp(rec.id)'
      BY <1>a, <1>b, CommitPieces DEF CommittedOp
    <3>2. at'[s] = "commit_end" => at[s] = "commit_candidate"
      BY <1>a DEF HandlerMove, Path
    <3> QED
      BY <3>1, <3>2, <1>c, <2>4 DEF CommitAt
  <2> QED
    BY <1>2, <1>c, <2>1, <2>2, <2>3, <2>4, <2>5, <2>6 DEF CommitAt
<1> QED
  BY <1>1, <1>2

LEMMA CommitInvHandler ==
  ASSUME Typed, CallerInv, HandlerInv, OpInv, ChosenInv, RestoreInv, CommitInv,
         NEW s \in Slots, Handle(s), UNCHANGED <<rec, ctl, boot>>
  PROVE  CommitInv'
<1>a. HandlerMove(s) /\ mem[s].id = rec.id
  BY HandlerEffect DEF HandlerMove, HandlerInv
<1>1. \A t \in Slots : at'[t] \in AtCommit => CommitAt(t)'
  BY CommitAtOther, CommitAtSelf
<1>2. ctl = "committed" /\ reply' = "ok" => CommittedOp(rec.id)'
  <2>1. CASE reply = "ok" /\ ctl = "committed"
    BY <2>1, CommittedStays DEF CommitInv
  <2>2. CASE reply # "ok" /\ ctl = "committed" /\ reply' = "ok"
    <3>1. at[s] \in AtCommit
      BY <1>a, <2>2, PluginAssumption DEF HandlerMove, CallerInv, WaitsFor
    <3>2. UNCHANGED term /\ (at[s] = "commit_end" \/ term = [id |-> mem[s].id, outcome |-> "committed"])
      BY <2>2, <3>1, CommitPieces
    <3>3. CommittedOp(rec.id)
      BY <1>a, <3>1, <3>2 DEF CommitInv, CommittedOp, HandlerInv, HandlerMove
    <3> QED
      BY <3>3, CommittedStays
  <2> QED
    BY <2>1, <2>2
<1> QED
  BY <1>1, <1>2 DEF CommitInv, CommitAt

LEMMA CommitInvOutside ==
  ASSUME Typed, CommitInv, Outside
  PROVE  CommitInv'
<1>1. /\ UNCHANGED <<rec, ctl, term, stored>>
      /\ UNCHANGED <<at, mem>> \/ Idle'
      /\ reply' = "ok" => reply = "ok"
  BY OutsideEffect DEF callVars
<1>2. UNCHANGED op \/ (op.phase = "login_started" /\ UNCHANGED <<at, mem>> /\ \A t \in Slots : at[t] \in Yielding)
  BY OutsideFiles DEF Scanned, callVars
<1> QED
  BY <1>1, <1>2 DEF CommitInv, CommittedOp, Idle, AtCommit

-----------------------------------------------------------------------------
(* How an operation ends, and what becomes of the accounts. *)

\* The plugin no longer knows an operation because it has ended there.
LEMMA EndedAtPlugin ==
  ASSUME Typed, OpInv, RestoreInv, RecoveredOp.id # rec.id, op.id = rec.id, op.phase = "committing"
  PROVE  CommittedOp(rec.id)
<1>1. Residue(op.id)
  BY DEF RecoveredOp, CleanOp, WithCandidate, Typed, Operation
<1> QED
  BY <1>1, ResidueCommitted

LEMMA OutcomeSwitched ==
  ASSUME ~overtaken, Typed, OpInv, RestoreInv, NoAccountLost, BackInv, Settled({rec.cand}),
         rec.cand # None, RecoveredOp.id # rec.id
  PROVE  CommittedOp(rec.id) \/ rec.back = {rec.cand}
<1>1. rec.back \subseteq {rec.cand} \/ CommittedOp(rec.id) \/ (op.id = rec.id /\ op.phase = "committing")
  BY DEF NoAccountLost, Settled
<1>2. rec.back # {}
  BY DEF BackInv
<1> QED
  BY <1>1, <1>2, EndedAtPlugin

\* An operation is completed by a look that nothing outdates.
LEMMA CompletesMildly ==
  ASSUME Timely, Typed, Completes, rec'.phase = "completed", ~MaySend
  PROVE  Mild /\ Inspect /\ UNCHANGED at /\ ctl' = "idle"
<1>a. rec \in Record /\ Resumed \in Record
  BY ResumedTyped DEF Typed
<1>b. rec.phase # "completed"
  BY DEF MaySend
<1>c. ~Attention("RESTORE_UNSTABLE") /\ ~Attention("RECONNECT_UNSTABLE") /\ ~Attention("COMMIT_INCOMPLETE")
      /\ ~Attention("RESTORE_OPERATION_MISSING") /\ ~Phase("restoring")
  BY <1>a DEF Attention, Phase, Record
<1>d. rec' # [Resumed EXCEPT !.phase = "committing"]
  BY <1>a DEF Record
<1> USE LookIsMild, <1>c, <1>d DEF Release, Consume, callVars
<1>1. CASE RestoreSettled
  BY <1>1 DEF RestoreSettled
<1>2. CASE CommitSettled
  BY <1>2 DEF CommitSettled
<1>3. CASE CommitFailed
  BY <1>3 DEF CommitFailed
<1>4. CASE RecoverCandidate
  BY <1>4 DEF RecoverCandidate
<1>5. CASE UnbegunSettled
  BY <1>5 DEF UnbegunSettled
<1> QED
  BY <1>1, <1>2, <1>3, <1>4, <1>5 DEF Completes

\* What is written down then is so.
LEMMA CompletesTruly ==
  ASSUME Timely, Typed, CallerInv, StartInv, FileInv, BackInv, OpInv, RestoreInv, CommitInv,
         NoAccountLost, Control, ~MaySend, Completes, rec'.phase = "completed"
  PROVE  OutcomeIsReal' /\ op'.id = 0 /\ rec'.outcome \in {"switched", "restored"}
<1>a. UNCHANGED <<term, index, stored>> /\ Inspect
  BY ControlEffect, CompletesMildly
<1>b. rec \in Record /\ Resumed \in Record
  BY ResumedTyped DEF Typed
<1>c. ASSUME Settled(Restorable), Completed("restored"), op'.id = 0, ~CommittedOp(rec.id)
      PROVE  OutcomeIsReal' /\ rec'.outcome \in {"switched", "restored"}
  <2>1. /\ rec'.id = rec.id /\ rec'.back = rec.back /\ rec'.old = rec.old /\ rec'.outcome = "restored"
    BY <1>b, <1>c DEF Completed, Record
  <2> QED
    BY <1>a, <1>c, <2>1 DEF Settled, OutcomeIsReal, SettledAccounts, CommittedOp, Restorable
<1>d. ASSUME Settled({rec.cand}), rec'.outcome = "switched", rec'.cand = rec.cand, rec'.back = rec.back,
             rec'.id = rec.id, op'.id = 0, CommittedOp(rec.id) \/ rec.back = {rec.cand}
      PROVE  OutcomeIsReal' /\ rec'.outcome \in {"switched", "restored"}
  BY <1>a, <1>d DEF Settled, OutcomeIsReal, SettledAccounts, CommittedOp
<1>e. Completed("switched") => /\ rec'.outcome = "switched" /\ rec'.cand = rec.cand
                               /\ rec'.back = rec.back /\ rec'.id = rec.id
  BY <1>b DEF Completed, Record
<1>f. ~Attention("RESTORE_UNSTABLE") /\ ~Attention("RECONNECT_UNSTABLE") /\ ~Attention("COMMIT_INCOMPLETE")
      /\ ~Attention("RESTORE_OPERATION_MISSING") /\ ~Phase("restoring")
  BY <1>b DEF Attention, Phase, Record
<1>g. rec' # [Resumed EXCEPT !.phase = "committing"]
  BY <1>b DEF Record
<1>1. CASE RestoreSettled
  <2>1. RestoredOp(rec.id) /\ Settled(Restorable) /\ Completed("restored")
    BY <1>1, <1>f DEF RestoreSettled, Answered, RestoreInv
  <2>2. op'.id = 0 /\ ~CommittedOp(rec.id)
    BY <1>a, <2>1, InspectEffect, NoFiles DEF RestoredOp, CommittedOp, OpInv, Residue
  <2> QED
    BY <1>c, <2>1, <2>2
<1>2. CASE CommitSettled
  <2>1. CommittedOp(rec.id) /\ Settled({rec.cand}) /\ Completed("switched")
    BY <1>2, <1>f DEF CommitSettled, Answered, CommitInv
  <2>2. op'.id = 0
    BY <1>a, <2>1, InspectEffect, NoFiles DEF CommittedOp, OpInv, Residue
  <2> QED
    BY <1>d, <1>e, <2>1, <2>2
<1>3. CASE CommitFailed
  <2>1. Settled({rec.cand}) /\ RecoveredOp.id # rec.id /\ Completed("switched") /\ rec.cand # None
    BY <1>3, <1>f DEF CommitFailed, Answered, FileInv
  <2> QED
    BY <1>a, <1>d, <1>e, <2>1, NotKnown, OutcomeSwitched DEF Timely
<1>4. CASE RecoverCandidate
  <2>1. /\ Settled({rec.cand}) /\ RecoveredOp.id # rec.id /\ rec.cand # None
        /\ rec' = [Resumed EXCEPT !.phase = "completed", !.outcome = "switched", !.code = "none"]
    BY <1>4, <1>g DEF RecoverCandidate, CandidateSettled, AskedForCandidate, OperationExists
  <2>2. rec'.outcome = "switched" /\ rec'.cand = rec.cand /\ rec'.back = rec.back /\ rec'.id = rec.id
    BY <2>1, <1>b, ResumedSame DEF Record
  <2> QED
    BY <1>a, <1>d, <2>1, <2>2, NotKnown, OutcomeSwitched DEF Timely
<1>5. CASE UnbegunSettled
  <2>1. op.id = 0 /\ rec.cand = None /\ Settled(Restorable) /\ Completed("restored")
    BY <1>5, <1>f DEF UnbegunSettled, StartInv
  <2>2. op'.id = 0 /\ ~CommittedOp(rec.id)
    BY <1>a, <2>1, InspectEffect, NoFiles DEF RestoreInv, OpInv
  <2> QED
    BY <1>c, <2>1, <2>2
<1> QED
  BY <1>1, <1>2, <1>3, <1>4, <1>5 DEF Completes

LEMMA OutcomeControl ==
  ASSUME Timely, Typed, CallerInv, RestInv, StartInv, FileInv, BackInv, OpInv, RestoreInv, CommitInv,
         OutcomeIsReal, NoAccountLost, Control
  PROVE  OutcomeIsReal'
<1> SUFFICES ASSUME rec'.phase = "completed"
             PROVE  OutcomeIsReal'
  BY DEF OutcomeIsReal
<1>1. CASE MaySend
  <2>1. UNCHANGED <<rec, op, term, index, stored>>
    BY <1>1, RestStep, ControlEffect DEF Opens
  <2> QED
    BY <2>1 DEF Timely, OutcomeIsReal, SettledAccounts, Restorable, CommittedOp, Residue
<1>2. CASE ~MaySend
  BY <1>2, CompleteEffect, CompletesTruly DEF MaySend
<1> QED
  BY <1>1, <1>2

LEMMA RestControl ==
  ASSUME Timely, Typed, CallerInv, RestInv, StartInv, FileInv, BackInv, OpInv, RestoreInv, CommitInv,
         OutcomeIsReal, NoAccountLost, Control
  PROVE  RestInv'
<1> SUFFICES ASSUME MaySend'
             PROVE  RestInv'
  BY DEF RestInv, MaySend
<1>1. CASE MaySend
  <2>1. ~Opens
    BY DEF MaySend, Opens
  <2> QED
    BY <1>1, <2>1, RestStep DEF RestInv, Rest
<1>2. CASE ~MaySend
  <2>1. Completes /\ rec'.phase = "completed"
    BY <1>2, CompleteEffect DEF MaySend
  <2>2. Mild /\ UNCHANGED at /\ ctl' = "idle"
    BY <1>2, <2>1, CompletesMildly
  <2>3. op' = NoOp /\ rec'.outcome \in {"switched", "restored"}
    BY <1>2, <2>1, CompletesTruly, OpControl DEF OpInv
  <2> QED
    BY <2>2, <2>3 DEF RestInv, Rest, Mild, AtCommit
<1> QED
  BY <1>1, <1>2

\* What comes late after an operation is over changes nothing that is told.
LEMMA RestHandler ==
  ASSUME ~overtaken, Typed, FileInv, HandlerInv, OpInv, CommitInv, RestInv, OutcomeIsReal, MaySend,
         NEW s \in Slots, Handle(s), UNCHANGED <<rec, ctl, boot>>
  PROVE  op' = NoOp /\ Rest' /\ UNCHANGED <<term, index, stored>>
<1>a. /\ HandlerMove(s) /\ mem[s].id = rec.id /\ rec.id # 0 /\ rec.phase = "completed"
      /\ op = NoOp /\ Rest
  BY HandlerEffect DEF HandlerMove, HandlerInv, FileInv, MaySend, RestInv
<1>b. \A t \in Slots : t # s => at'[t] = at[t]
  BY <1>a, MoveOthers
<1>1. CASE at[s] \in {"start", "wait", "cancel", "commit", "restore"}
  <2>1. at'[s] = "idle" /\ op' = NoOp /\ UNCHANGED <<term, index, stored>>
    BY <1>1, <1>a, NothingDone
  <2> QED
    BY <1>a, <1>b, <2>1 DEF Rest
<1>2. CASE at[s] \in {"commit_start", "commit_result", "commit_candidate", "commit_end"}
  <2>1. CommittedOp(rec.id) /\ mem[s].account = rec.cand
    BY <1>2, <1>a, NoFiles DEF CommitInv, AtCommit
  <2>2. stored = {rec.cand} /\ term = [id |-> mem[s].id, outcome |-> "committed"]
    BY <1>a, <2>1 DEF OutcomeIsReal, SettledAccounts, RestInv, CommittedOp
  <2>3. CommitStep(s) \/ ChannelFails(s)
    BY <1>2, HandlerKind DEF AtBegin, AtStart, AtRestore
  <2>4. op' = NoOp /\ UNCHANGED <<term, index, stored>>
    BY <1>2, <1>a, <2>1, <2>2, <2>3 DEF Runs, CommitStep, CommitKnown, CommitRefused, Commit, CommitStore,
       CommitIndex, CommitClear, CommitResult, CommitCandidate, CommitEnd, ChannelFails, fileVars
  <2>5. at'[s] \in {"idle", "commit_result", "commit_candidate", "commit_end"}
    BY <1>2, <1>a DEF HandlerMove, Path
  <2> QED
    BY <1>a, <1>b, <2>4, <2>5 DEF Rest, AtCommit
<1> QED
  BY <1>1, <1>2, <1>a DEF HandlerMove, Rest, AtCommit

LEMMA RestOthers ==
  ASSUME ~overtaken, Typed, FileInv, HandlerInv, OpInv, CommitInv, RestInv, OutcomeIsReal,
         UNCHANGED <<rec, ctl, boot>>, (\E s \in Slots : Handle(s)) \/ Outside
  PROVE  RestInv' /\ (MaySend => UNCHANGED <<term, index, stored, op>>)
<1> SUFFICES ASSUME MaySend
             PROVE  op' = NoOp /\ Rest' /\ UNCHANGED <<term, index, stored>>
  BY DEF RestInv, MaySend
<1>1. ASSUME NEW s \in Slots, Handle(s)
      PROVE  op' = NoOp /\ Rest' /\ UNCHANGED <<term, index, stored>>
  BY <1>1, RestHandler
<1>2. CASE Outside
  <2>1. op = NoOp /\ Rest
    BY DEF RestInv
  <2> QED
    BY <1>2, <2>1, OutsideEffect, OutsideFiles, NoFiles DEF Scanned, Rest, Idle, callVars
<1> QED
  BY <1>1, <1>2

LEMMA OutcomeOthers ==
  ASSUME Timely, Typed, FileInv, HandlerInv, OpInv, CommitInv, RestInv, OutcomeIsReal,
         UNCHANGED <<rec, ctl, boot>>, (\E s \in Slots : Handle(s)) \/ Outside
  PROVE  OutcomeIsReal'
<1>1. CASE MaySend
  <2>1. UNCHANGED <<term, index, stored, op>>
    BY <1>1, RestOthers DEF Timely
  <2> QED
    BY <2>1 DEF Timely, OutcomeIsReal, SettledAccounts, Restorable, CommittedOp, Residue
<1>2. CASE ~MaySend
  BY <1>2 DEF MaySend, OutcomeIsReal
<1> QED
  BY <1>1, <1>2

LEMMA LostControl ==
  ASSUME Timely, Typed, CallerInv, StartInv, FileInv, OpInv, RestoreInv, NoAccountLost, Control
  PROVE  NoAccountLost'
<1>a. UNCHANGED <<term, stored>>
  BY ControlEffect
<1>1. CASE Opens
  BY <1>1, <1>a DEF Opens, NoAccountLost
<1>2. CASE rec'.id = rec.id /\ rec'.back = rec.back /\ rec.back \subseteq stored
  BY <1>2, <1>a DEF NoAccountLost
<1>3. CASE rec'.id = rec.id /\ ~(rec.back \subseteq stored)
  <2>1. rec.cand \in stored /\ rec.cand # None
    BY <1>3, PluginAssumption DEF Timely, NoAccountLost, Typed
  <2>2. ~PolledLogin /\ ~RecoverScan
    <3>1. ~PolledLogin
      BY <2>1 DEF PolledLogin, Answered, FileInv
    <3>2. Resumed.phase # "awaiting_scan"
      BY <2>1, ResumedFile
    <3> QED
      BY <3>1, <3>2 DEF RecoverScan
  <2>3. Opens \/ rec'.cand = rec.cand
    BY <2>2, RecSteps
  <2>4. CASE CommittedOp(rec.id)
    BY <1>1, <1>3, <1>a, <2>1, <2>3, <2>4 DEF NoAccountLost, CommittedOp
  <2>5. CASE op.id = rec.id /\ op.phase = "committing" /\ ~CommittedOp(rec.id)
    <3>1. RecoveredOp.id = rec.id
      BY <2>5, EndedAtPlugin, NoFiles DEF OpInv
    <3>2. UNCHANGED op
      <4>1. UNCHANGED op \/ Inspect
        BY ControlEffect, LookIsMild
      <4> QED
        BY <2>5, <3>1, <4>1, InspectEffect, NoFiles DEF OpInv
    <3> QED
      BY <1>1, <1>3, <1>a, <2>1, <2>3, <2>5, <3>2 DEF NoAccountLost
  <2> QED
    BY <1>3, <2>4, <2>5 DEF Timely, NoAccountLost
<1> QED
  BY <1>1, <1>2, <1>3, RecSteps

LEMMA LostHandler ==
  ASSUME ~overtaken, Typed, HandlerInv, OpInv, ChosenInv, RestoreInv, CommitInv, NoAccountLost,
         NEW s \in Slots, Handle(s), UNCHANGED <<rec, ctl, boot>>
  PROVE  NoAccountLost'
<1>1. CASE at[s] = "commit_start"
  <2>1. /\ rec.cand \in stored /\ mem[s].account = rec.cand /\ rec.cand # None
        /\ op.phase = "committing" \/ CommittedOp(rec.id)
    BY <1>1 DEF CommitInv, AtCommit
  <2>2. rec.cand \in stored'
    BY <1>1, <2>1, CommitPieces DEF AtCommit
  <2>3. CASE CommittedOp(rec.id)
    BY <2>2, <2>3, CommittedStays DEF NoAccountLost
  <2>4. CASE op.phase = "committing" /\ ~CommittedOp(rec.id)
    <3>1. UNCHANGED op /\ op.id = rec.id
      BY <2>1, <2>4, CommittingStays, NoFiles DEF OpInv
    <3> QED
      BY <2>2, <2>4, <3>1 DEF NoAccountLost
  <2> QED
    BY <2>1, <2>3, <2>4
<1>2. CASE at[s] # "commit_start"
  <2>a. stored \subseteq stored'
    <3>1. CASE at[s] \in AtCommit
      BY <1>2, <3>1, CommitPieces
    <3> QED
      BY <3>1, StoredSteps
  <2>1. CASE rec.back \subseteq stored
    BY <2>1, <2>a DEF NoAccountLost
  <2>2. CASE rec.cand \in stored /\ CommittedOp(rec.id)
    BY <2>2, <2>a, CommittedStays DEF NoAccountLost
  <2>3. CASE rec.cand \in stored /\ op.id = rec.id /\ op.phase = "committing" /\ ~CommittedOp(rec.id)
    <3>1. rec.cand # None
      BY <2>3, PluginAssumption DEF Typed
    <3>2. UNCHANGED op
      BY <2>3, <3>1, CommittingStays
    <3> QED
      BY <2>3, <2>a, <3>2 DEF NoAccountLost
  <2> QED
    BY <2>1, <2>2, <2>3 DEF NoAccountLost
<1> QED
  BY <1>1, <1>2

LEMMA LostOutside ==
  ASSUME ~overtaken, Typed, NoAccountLost, Outside
  PROVE  NoAccountLost'
<1>1. UNCHANGED <<rec, term, stored>>
  BY OutsideEffect
<1>2. UNCHANGED op \/ op.phase = "login_started"
  BY OutsideFiles DEF Scanned
<1> QED
  BY <1>1, <1>2 DEF NoAccountLost, CommittedOp

-----------------------------------------------------------------------------
(* The theorems. *)

Inv ==
  /\ RestInv /\ HandlerInv /\ StartInv /\ FileInv /\ BackInv /\ OpInv /\ SessionInv
  /\ BeginInv /\ ChosenInv /\ RestoreInv /\ CommitInv /\ OutcomeIsReal /\ NoAccountLost

IInv == overtaken \/ Inv

LEMMA InvInit == Init => IInv
<1> SUFFICES ASSUME Init
             PROVE  Inv
  BY DEF IInv
<1>a. /\ op = NoOp /\ cand = NoCand /\ term = NoTerm /\ task = NoTask /\ sessions = 0
      /\ \A s \in Slots : at[s] = "idle"
      /\ caller = None /\ reply = "none" /\ rec = NoRec /\ ctl = "idle"
  BY DEF Init, PluginInit
<1>b. /\ NoRec.id = 0 /\ NoRec.phase = "none" /\ NoRec.code = "none" /\ NoRec.back = {} /\ NoRec.sess = 0
      /\ NoRec.cand = None /\ NoRec.from = "none"
  BY DEF NoRec
<1>1. RestInv
  BY RestInit
<1>2. HandlerInv /\ StartInv /\ BeginInv
  BY <1>a DEF HandlerInv, StartInv, BeginInv, AtBegin
<1>3. FileInv /\ BackInv
  BY <1>a, <1>b DEF FileInv, BackInv
<1>4. OpInv /\ SessionInv
  BY <1>a, <1>b, NoFiles DEF OpInv, SessionInv, NoTerm
<1>5. ChosenInv
  BY <1>a, <1>b, NoFiles, PluginAssumption DEF ChosenInv
<1>6. RestoreInv /\ CommitInv
  BY <1>a, <1>b DEF RestoreInv, CommitInv, Restoring, RestoredOp, CommittedOp, AtRestore, AtCommit
<1>7. OutcomeIsReal /\ NoAccountLost
  BY <1>a, <1>b DEF OutcomeIsReal, NoAccountLost
<1> QED
  BY <1>1, <1>2, <1>3, <1>4, <1>5, <1>6, <1>7 DEF Inv

\* Up to the look that is overtaken every step keeps the invariant.
LEMMA InvTimely ==
  ASSUME Timely, Typed, CallerInv, Inv, [Next]_vars
  PROVE  Inv'
<1> USE DEF Inv
<1>0. ~overtaken
  BY DEF Timely
<1>1. CASE Control
  <2>1. RestInv' /\ HandlerInv' /\ StartInv' /\ FileInv' /\ BackInv'
    BY <1>1, RestControl, HandlerControl, StartControl, FileControl, BackControl
  <2>2. OpInv' /\ SessionInv' /\ BeginInv' /\ ChosenInv'
    BY <1>1, OpControl, SessionControl, BeginControl, ChosenInvControl
  <2>3. RestoreInv' /\ CommitInv' /\ OutcomeIsReal' /\ NoAccountLost'
    BY <1>1, RestoreInvControl, CommitInvControl, OutcomeControl, LostControl
  <2> QED
    BY <2>1, <2>2, <2>3
<1>2. ASSUME NEW s \in Slots, Handle(s), UNCHANGED <<rec, ctl, boot>>
      PROVE  Inv'
  <2>1. RestInv' /\ HandlerInv' /\ StartInv' /\ FileInv' /\ BackInv'
    BY <1>0, <1>2, RestOthers, HandlerHandler, StartHandler DEF FileInv, BackInv
  <2>2. OpInv' /\ SessionInv' /\ BeginInv' /\ ChosenInv'
    BY <1>2, OpHandler, SessionHandler, BeginHandler, ChosenInvHandler
  <2>3. RestoreInv' /\ CommitInv' /\ OutcomeIsReal' /\ NoAccountLost'
    BY <1>0, <1>2, RestoreInvHandler, CommitInvHandler, OutcomeOthers, LostHandler
  <2> QED
    BY <2>1, <2>2, <2>3
<1>3. CASE Outside
  <2>a. UNCHANGED <<rec, ctl, boot>>
    BY <1>3, OutsideEffect
  <2>1. RestInv' /\ HandlerInv' /\ StartInv' /\ FileInv' /\ BackInv'
    BY <1>0, <1>3, <2>a, RestOthers, HandlerOutside, StartOutside DEF FileInv, BackInv
  <2>2. OpInv' /\ SessionInv' /\ BeginInv' /\ ChosenInv'
    BY <1>3, OpOutside, SessionOutside, BeginOutside, ChosenInvOutside
  <2>3. RestoreInv' /\ CommitInv' /\ OutcomeIsReal' /\ NoAccountLost'
    BY <1>0, <1>3, <2>a, RestoreInvOutside, CommitInvOutside, OutcomeOthers, LostOutside
  <2> QED
    BY <2>1, <2>2, <2>3
<1>4. CASE UNCHANGED vars
  <2> USE <1>4 DEF vars, ctlVars, pluginVars, fileVars, loginVars, callVars
  <2>1. RestInv' /\ HandlerInv' /\ StartInv' /\ FileInv' /\ BackInv'
    BY DEF RestInv, MaySend, Rest, Idle, Mild, HandlerInv, StartInv, FileInv, BackInv
  <2>2. OpInv' /\ SessionInv' /\ BeginInv' /\ ChosenInv'
    BY DEF OpInv, SessionInv, BeginInv, ChosenInv, Chosen
  <2>3. RestoreInv' /\ CommitInv'
    BY DEF RestoreInv, Restoring, RestoredOp, CommitInv, CommittedOp
  <2>4. OutcomeIsReal' /\ NoAccountLost'
    BY DEF OutcomeIsReal, SettledAccounts, Restorable, Residue, CommittedOp, NoAccountLost
  <2> QED
    BY <2>1, <2>2, <2>3, <2>4
<1> QED
  BY <1>1, <1>2, <1>3, <1>4, NextCases DEF ctlVars

LEMMA InvNext ==
  ASSUME Typed, CallerInv, IInv, [Next]_vars
  PROVE  IInv'
<1>1. CASE overtaken
  BY <1>1, OvertakenStays DEF IInv
<1>2. CASE ~overtaken /\ ~overtaken'
  BY <1>2, InvTimely DEF Timely, IInv
<1> QED
  BY <1>1, <1>2 DEF IInv

LEMMA InvCorrect == Spec => []IInv
<1>1. Typed /\ CallerInv /\ IInv /\ [Next]_vars => IInv'
  BY InvNext
<1> QED
  BY <1>1, InvInit, TypedCorrect, PTL DEF Spec

\* At every step, a crash of either side included, the credentials of all the old
\* accounts are stored, or those of the candidate are and the commit can only go on
\* (replacement.commit, replacement.restore), unless the controller has decided by a
\* look past a call of its own that was still under way.
THEOREM NoAccountLostCorrect == Spec => []NoAccountLost
<1>1. IInv => NoAccountLost
  BY DEF IInv, Inv, NoAccountLost
<1> QED
  BY <1>1, InvCorrect, PTL

\* Where the controller says that an operation is completed, the plugin has ended it the
\* same way and the accounts are those it says (_complete_switched, _complete_restored),
\* unless it has looked past a call of its own that was still under way.
THEOREM OutcomeIsRealCorrect == Spec => []OutcomeIsReal
<1>1. IInv => OutcomeIsReal
  BY DEF IInv, Inv, OutcomeIsReal
<1> QED
  BY <1>1, InvCorrect, PTL

\* What is said to the delivery of messages is true: while no operation is under way
\* the account the messages go out by does not change (delivery_guard, blocks_delivery),
\* whatever calls, answers and processes are lost meanwhile.
THEOREM ImplementsSendWindowCorrect == Spec => ImplementsSendWindow
<1>1. TheAccount \in Accounts \cup {None}
  BY DEF TheAccount
<1>2. Init => W!WindowInit
  BY <1>1 DEF Init, NoRec, MaySend, W!WindowInit
<1>3. Typed /\ CallerInv /\ IInv /\ [Next]_vars => [W!WindowNext]_(W!window)
  <2> SUFFICES ASSUME Typed, CallerInv, IInv, [Next]_vars
               PROVE  [W!WindowNext]_(W!window)
    OBVIOUS
  <2> DEFINE open == MaySend /\ ~overtaken
  <2>a. open \in BOOLEAN /\ open' \in BOOLEAN
    BY DEF MaySend
  <2>b. UNCHANGED <<index, stored>> => UNCHANGED TheAccount
    BY DEF TheAccount
  <2>c. TheAccount' \in Accounts \cup {None}
    BY DEF TheAccount
  <2> USE DEF W!WindowNext, W!Close, W!Change, W!Reopen, W!window
  <2>1. CASE UNCHANGED vars
    <3>1. UNCHANGED <<open, index, stored>>
      BY <2>1 DEF vars, ctlVars, pluginVars, fileVars, MaySend
    <3> QED
      BY <3>1, <2>b
  <2>2. CASE Control
    BY <2>2, <2>a, <2>b, ControlEffect
  <2>3. CASE UNCHANGED ctlVars /\ ((\E s \in Slots : Handle(s)) \/ Outside)
    <3>1. UNCHANGED open /\ UNCHANGED <<rec, ctl, boot>>
      BY <2>3 DEF MaySend, ctlVars
    <3>2. open => UNCHANGED <<index, stored>>
      BY <2>3, <3>1, RestOthers DEF IInv, Inv
    <3> QED
      BY <2>a, <2>b, <2>c, <3>1, <3>2
  <2>4. Outside => UNCHANGED ctlVars
    BY DEF Outside, User, GatewayFault
  <2> QED
    BY <2>1, <2>2, <2>3, <2>4, NextCases
<1> QED
  BY <1>2, <1>3, TypedCorrect, InvCorrect, PTL DEF Spec, ImplementsSendWindow, W!WindowSpec
============================================================================

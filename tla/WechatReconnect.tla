--------------------------- MODULE WechatReconnect ---------------------------
(***************************************************************************)
(* The controller of a WeChat reconnection: one operation at a time takes  *)
(* the device from its old accounts to the one the user scans with, or     *)
(* back.  The controller keeps a state file of its own and works on it     *)
(* under a lock that is not waited for; what it does to the accounts it    *)
(* asks the plugin (module ReplacementPlugin) to do.  A call may fail, be  *)
(* answered and the answer lost, or go on after its caller has given up;   *)
(* either side may end and start again at any step.                        *)
(***************************************************************************)
EXTENDS ReplacementPlugin

VARIABLES
  rec,   \* the controller's state file
  ctl,   \* what the holder of its lock waits for ("idle": nobody holds it)
  boot,  \* it is the recovery of a process that starts
  overtaken  \* the controller has decided by a look that a call of its own outdates

ctlVars == <<rec, ctl, boot, overtaken>>
vars == <<pluginVars, ctlVars>>

\* What an inspection of the plugin may change.
lookVars == <<op, cand, overtaken>>

-----------------------------------------------------------------------------
(* The state file. *)

\* old: oldAccountIds; back: restorableAccountIds; off: channelWasDisabled;
\* from: recoveryFromPhase.
NoRec == [id |-> 0, phase |-> "none", code |-> "none", old |-> {}, back |-> {}, sess |-> 0,
          cand |-> None, off |-> FALSE, from |-> "none", outcome |-> "none"]

\* _restorable_account_ids
Restorable == IF rec.back # {} THEN rec.back ELSE rec.old

ActivePhases == {"preparing", "awaiting_scan", "committing", "restoring"}

\* Mutant: an operation that needs attention does not hold messages back.
MaySendUnlessActive == rec.phase \notin ActivePhases

\* The last operation is over: messages may be sent.
MaySend == rec.phase \in {"none", "completed"}

Attention(code) == rec' = [rec EXCEPT !.phase = "needs_attention", !.code = code]
Phase(p) == rec' = [rec EXCEPT !.phase = p]
Completed(o) == rec' = [rec EXCEPT !.phase = "completed", !.outcome = o, !.code = "none"]

\* Mutant: the recovery of a start is not marked as over.
ReleaseOnly == ctl' = "idle" /\ UNCHANGED boot

Release == ctl' = "idle" /\ boot' = FALSE
Goto(step) == ctl' = step /\ UNCHANGED boot

\* An exception leaves the operation; a process that starts writes it down.
Raise == IF boot THEN ctl' = "raised" /\ UNCHANGED boot ELSE Release

-----------------------------------------------------------------------------
(* Calls. *)

About == [id |-> rec.id, phase |-> "none", old |-> {}, sess |-> rec.sess, account |-> None]

\* The handler of the next call; which one it is makes no difference.
Free == CHOOSE s \in Slots : at[s] = "idle"

\* The plugin is called, or cannot be reached.
CallWith(method, what) ==
  \/ /\ \E s \in Slots : at[s] = "idle"
     /\ at' = [at EXCEPT ![Free] = method] /\ mem' = [mem EXCEPT ![Free] = what]
     /\ caller' = Free
     /\ reply' = "none"
     /\ UNCHANGED faults
  \/ /\ faults < MaxFaults /\ faults' = faults + 1
     /\ reply' = "error"
     /\ UNCHANGED <<at, mem, caller>>

Call(method) == CallWith(method, About)

Answered(step, answers) ==
  /\ ctl = step /\ caller = None /\ reply \in answers

\* No more of the last answer.
Consume == reply' = "none" /\ UNCHANGED <<at, mem, caller>>

\* The call takes too long; it goes on without its caller.
GiveUp ==
  /\ caller # None
  /\ faults < MaxFaults /\ faults' = faults + 1
  /\ caller' = None /\ reply' = "error"
  /\ UNCHANGED <<fileVars, running, enabled, loginVars, at, mem, ctlVars>>

\* The plugin is inspected, with no handler in the middle of a piece, while some call
\* of before may be in one of these pieces, and go on from there.
LookPast(pieces) ==
  /\ \A s \in Slots : at[s] \in Yielding
  /\ Inspect
  /\ overtaken' = (overtaken \/ \E s \in Slots : at[s] \in pieces)

\* A call that was given up may outlast what its caller does next.  Most calls are
\* refused or repeat what was done when they come late; a begin that has not ended, a
\* login that waits for its QR code and a restore that waits for its channels undo
\* what is decided by the look.
Look == LookPast({"begin", "begin_stop", "start_qr", "restore_start"})

\* A read of the plugin's state fails.
ReadFails == faults < MaxFaults /\ faults' = faults + 1

runtimeVars == <<term, index, stored, running, enabled, loginVars>>

-----------------------------------------------------------------------------
(* begin *)

MayStart ==
  /\ ctl = "idle" /\ rec.id < MaxOps
  /\ \/ MaySend
     \/ rec.code = "INVENTORY_CONFLICT" /\ RecoveredOp.id # rec.id
  /\ LookPast(Yielding \ {"idle"})  \* a new operation outdates all calls of before

Replaceable ==
  /\ index # {} /\ stored # {} /\ stored \subseteq index
  /\ ~ActiveLogin
  /\ running \in {{}, stored}

StartConflict ==
  /\ MayStart /\ ~Replaceable
  /\ rec' = [NoRec EXCEPT !.id = rec.id + 1, !.phase = "needs_attention",
                          !.code = "INVENTORY_CONFLICT", !.old = index, !.back = stored,
                          !.off = ~enabled \/ stored = {}]
  /\ UNCHANGED <<runtimeVars, callVars, faults, ctl, boot>>

BeginOperation ==
  /\ MayStart /\ Replaceable
  /\ rec' = [NoRec EXCEPT !.id = rec.id + 1, !.phase = "preparing",
                          !.old = index, !.back = stored, !.off = ~enabled]
  /\ Goto("begin")
  /\ UNCHANGED <<runtimeVars, callVars, faults>>

CallBegin ==
  /\ ctl = "begin"
  /\ CallWith("begin", [About EXCEPT !.old = rec.old])
  /\ Goto("begun")
  /\ UNCHANGED <<lookVars, runtimeVars, rec>>

StartFails ==
  /\ Answered("begun", {"error"}) \/ Answered("started", {"error"})
  /\ rec' = [rec EXCEPT !.phase = "restoring", !.code = "START_FAILED"]
  /\ Consume /\ Goto("restore")
  /\ UNCHANGED <<lookVars, runtimeVars, faults>>

Begun ==
  /\ Answered("begun", {"ok"})
  /\ Call("start") /\ Goto("started")
  /\ UNCHANGED <<lookVars, runtimeVars, rec>>

Started ==
  /\ Answered("started", {"ok"})
  /\ rec' = [rec EXCEPT !.phase = "awaiting_scan", !.sess = op.sess]
  /\ Consume /\ Release
  /\ UNCHANGED <<lookVars, runtimeVars, faults>>

\* The QR code is asked for again, by a repeated request or by current_state.
ShowAgain ==
  /\ ctl = "idle" /\ rec.phase = "awaiting_scan"
  /\ Call("start") /\ Goto("shown")
  /\ UNCHANGED <<lookVars, runtimeVars, rec>>

Shown ==
  /\ Answered("shown", {"ok", "error"})
  /\ Consume /\ Release
  /\ UNCHANGED <<lookVars, runtimeVars, rec, faults>>

-----------------------------------------------------------------------------
(* poll and cancel *)

Poll ==
  /\ ctl = "idle" /\ rec.phase = "awaiting_scan"
  /\ Call("wait") /\ Goto("polled")
  /\ UNCHANGED <<lookVars, runtimeVars, rec>>

PolledNothing ==
  /\ Answered("polled", {"pending", "error"})
  /\ Consume /\ Release
  /\ UNCHANGED <<lookVars, runtimeVars, rec, faults>>

PolledLogin ==
  /\ Answered("polled", Accounts)
  /\ rec' = [rec EXCEPT !.phase = "committing", !.cand = reply]
  /\ Consume /\ Goto("commit")
  /\ UNCHANGED <<lookVars, runtimeVars, faults>>

PolledEnd ==
  /\ Answered("polled", {"ended"})
  /\ Phase("restoring")
  /\ Consume /\ Goto("cancel")
  /\ UNCHANGED <<lookVars, runtimeVars, faults>>

CancelOperation ==
  /\ ctl = "idle" /\ rec.phase \notin {"none", "completed"}
  /\ Phase("restoring")
  /\ Goto(IF rec.sess = 0 THEN "restore" ELSE "cancel")
  /\ UNCHANGED <<lookVars, runtimeVars, callVars, faults>>

CallCancel ==
  /\ ctl = "cancel"
  /\ Call("cancel") /\ Goto("cancelled")
  /\ UNCHANGED <<lookVars, runtimeVars, rec>>

CancelFails ==
  /\ Answered("cancelled", {"error"})
  /\ Consume /\ Release
  /\ UNCHANGED <<lookVars, runtimeVars, rec, faults>>

Cancelled ==
  /\ Answered("cancelled", {"ok"})
  /\ Consume /\ Goto("restore")
  /\ UNCHANGED <<lookVars, runtimeVars, rec, faults>>

-----------------------------------------------------------------------------
(* _ensure_wechat_enabled, _restore_locked *)

\* The gateway starts the channels of a configuration that enables them.
EnableChannel == enabled' = TRUE /\ running' = index \cap stored

\* The configuration is patched before the plugin is asked to start a channel.
Enable ==
  /\ ctl \in {"restore", "commit"} /\ rec.off
  /\ EnableChannel
  /\ rec' = [rec EXCEPT !.off = FALSE]
  /\ UNCHANGED <<fileVars, loginVars, callVars, faults, ctl, boot, overtaken>>

RestoreAmbiguous ==
  /\ ctl = "restore" /\ Restorable = {}
  /\ Attention("RESTORE_AMBIGUOUS") /\ Release
  /\ UNCHANGED <<lookVars, runtimeVars, callVars, faults>>

CallRestore ==
  /\ ctl = "restore" /\ Restorable # {} /\ ~rec.off
  /\ Call("restore") /\ Goto("restored")
  /\ UNCHANGED <<lookVars, runtimeVars, rec>>

EnableFails ==
  /\ ctl = "restore" /\ Restorable # {} /\ rec.off
  /\ ReadFails
  /\ Attention("RESTORE_FAILED") /\ Release
  /\ UNCHANGED <<lookVars, runtimeVars, callVars>>

RestoreFails ==
  /\ Answered("restored", {"error"})
  /\ Attention("RESTORE_FAILED")
  /\ Consume /\ Release
  /\ UNCHANGED <<lookVars, runtimeVars, faults>>

\* Two snapshots that agree; the channel may not have settled by the second one.
Unsettled(accounts) ==
  IF Settled(accounts) THEN faults < MaxFaults /\ faults' = faults + 1 ELSE UNCHANGED faults

RestoreSettled ==
  /\ Answered("restored", {"ok"}) /\ Look
  /\ \/ Settled(Restorable) /\ Completed("restored") /\ UNCHANGED faults
     \/ Unsettled(Restorable) /\ Attention("RESTORE_UNSTABLE")
  /\ Consume /\ Release
  /\ UNCHANGED runtimeVars

\* A snapshot cannot be taken.
SnapshotFails ==
  /\ Answered("restored", {"ok"}) \/ Answered("committed", {"ok", "error"})
  /\ ReadFails
  /\ Consume /\ Raise
  /\ UNCHANGED <<lookVars, runtimeVars, rec>>

-----------------------------------------------------------------------------
(* _commit_locked *)

CallCommit ==
  /\ ctl = "commit" /\ ~rec.off
  /\ Call("commit") /\ Goto("committed")
  /\ UNCHANGED <<lookVars, runtimeVars, rec>>

\* The configuration cannot be patched: as if the commit had failed.
CommitUnasked ==
  /\ ctl = "commit" /\ rec.off
  /\ ReadFails
  /\ reply' = "error" /\ Goto("committed")
  /\ UNCHANGED <<lookVars, runtimeVars, at, mem, caller, rec>>

CommitSettled ==
  /\ Answered("committed", {"ok"}) /\ Look
  /\ \/ Settled({rec.cand}) /\ Completed("switched") /\ UNCHANGED faults
     \/ Unsettled({rec.cand}) /\ Attention("RECONNECT_UNSTABLE")
  /\ Consume /\ Release
  /\ UNCHANGED runtimeVars

\* The commit failed, or its answer was lost: the plugin is asked what became of it.
CommitFailed ==
  /\ Answered("committed", {"error"}) /\ Look
  /\ \/ /\ Settled({rec.cand}) /\ RecoveredOp.id # rec.id
        /\ Completed("switched") /\ Release
        /\ UNCHANGED faults
     \/ /\ Settled({rec.cand}) /\ RecoveredOp.id = rec.id
        /\ Attention("COMMIT_INCOMPLETE") /\ Release
        /\ UNCHANGED faults
     \/ /\ Unsettled({rec.cand})
        /\ IF RecoveredOp.id = rec.id
              /\ RecoveredOp.phase \in {"candidate_ready", "login_started", "suspended"}
           THEN Phase("restoring") /\ Goto("restore")
           ELSE Attention("COMMIT_INCOMPLETE") /\ Release
     \/ ReadFails /\ Attention("COMMIT_INCOMPLETE") /\ Release  \* the phase is not known
  /\ Consume
  /\ UNCHANGED runtimeVars

-----------------------------------------------------------------------------
(* recover, asked for by the user or by a process that starts *)

Unfinished == rec.phase \notin {"none", "completed"}

Recover ==
  /\ ctl = "idle" /\ Unfinished
  /\ Goto("recover")
  /\ UNCHANGED <<pluginVars, rec, overtaken>>

\* A check that failed before is taken up where it was.
Resumed ==
  IF rec.phase = "needs_attention" /\ rec.code = "RECOVERY_CHECK_FAILED"
     /\ rec.from \in ActivePhases
  THEN [rec EXCEPT !.phase = rec.from, !.from = "none", !.code = "none"]
  ELSE rec

\* Mutant: recovery does not ask the plugin what became of the operation.
OperationUnasked == FALSE

OperationExists == RecoveredOp.id = rec.id

\* A candidate is known: is it, perhaps, what runs by now?
AskedForCandidate == Resumed.phase \in {"committing", "needs_attention"} /\ rec.cand # None

CandidateSettled == AskedForCandidate /\ Settled({rec.cand})

\* The commit is taken up, or it has been carried out and nobody was told.
RecoverCandidate ==
  /\ ctl = "recover" /\ Look /\ AskedForCandidate
  /\ \/ /\ CandidateSettled /\ ~OperationExists
        /\ rec' = [Resumed EXCEPT !.phase = "completed", !.outcome = "switched", !.code = "none"]
        /\ Release
     \/ /\ \/ CandidateSettled /\ OperationExists
           \/ Resumed.phase = "committing"
           \/ ~CandidateSettled /\ OperationExists
              /\ RecoveredOp.phase \in {"candidate_ready", "committing"}
        /\ rec' = [Resumed EXCEPT !.phase = "committing"]
        /\ Goto("commit")
  /\ UNCHANGED <<runtimeVars, callVars, faults>>

\* Nothing of the candidate to take up.
CandidateGone ==
  ~AskedForCandidate
  \/ /\ ~CandidateSettled /\ Resumed.phase = "needs_attention"
     /\ ~(OperationExists /\ RecoveredOp.phase \in {"candidate_ready", "committing"})

\* It is passed over, too, when two snapshots differ or the phase cannot be read.
CandidatePassed ==
  \/ CandidateGone /\ UNCHANGED faults
  \/ AskedForCandidate /\ Resumed.phase = "needs_attention" /\ ReadFails

RestoreCodes == {"RESTORE_AMBIGUOUS", "RESTORE_FAILED", "RESTORE_UNSTABLE"}

RecoverRestore ==
  /\ ctl = "recover" /\ CandidatePassed
  /\ \/ Resumed.phase = "restoring"
     \/ Resumed.phase = "needs_attention" /\ rec.code \in RestoreCodes
  /\ IF AskedForCandidate THEN Look ELSE UNCHANGED lookVars
  /\ rec' = [Resumed EXCEPT !.phase = "restoring"]
  /\ Goto("restore")
  /\ UNCHANGED <<runtimeVars, callVars>>

RecoverScan ==
  /\ ctl = "recover" /\ Look /\ Resumed.phase = "awaiting_scan"
  /\ \/ /\ OperationExists /\ RecoveredOp.phase = "candidate_ready"
        /\ rec' = [Resumed EXCEPT !.phase = "committing", !.cand = RecoveredOp.account]
        /\ Goto("commit")
     \/ /\ ~(OperationExists /\ RecoveredOp.phase = "candidate_ready") /\ ActiveLogin
        /\ rec' = Resumed
        /\ Release
     \/ /\ ~(OperationExists /\ RecoveredOp.phase = "candidate_ready") /\ ~ActiveLogin
        /\ rec' = [Resumed EXCEPT !.phase = "restoring"]
        /\ Goto("restore")
  /\ UNCHANGED <<runtimeVars, callVars, faults>>

\* The plugin was never asked to begin, or a call to begin was never answered.
Preparing ==
  \/ Resumed.phase = "preparing"
  \/ Resumed.phase = "needs_attention" /\ rec.code = "RESTORE_OPERATION_MISSING"

RecoverPreparing ==
  /\ ctl = "recover" /\ Look /\ CandidateGone /\ Preparing /\ OperationExists
  /\ rec' = [Resumed EXCEPT !.phase = "restoring"]
  /\ Goto("restore")
  /\ UNCHANGED <<runtimeVars, callVars, faults>>

RecoverUnbegun ==
  /\ ctl = "recover" /\ Look /\ CandidateGone /\ Preparing /\ ~OperationExists
  /\ IF rec.off THEN EnableChannel ELSE UNCHANGED <<running, enabled>>
  /\ rec' = [Resumed EXCEPT !.phase = "preparing", !.off = FALSE]
  /\ Goto("unbegun")
  /\ UNCHANGED <<term, index, stored, loginVars, callVars, faults>>

EnableUnbegunFails ==
  /\ ctl = "recover" /\ Look /\ CandidateGone /\ Preparing /\ ~OperationExists /\ rec.off
  /\ ReadFails
  /\ rec' = [Resumed EXCEPT !.phase = "needs_attention", !.code = "RESTORE_FAILED"]
  /\ Release
  /\ UNCHANGED <<runtimeVars, callVars>>

UnbegunSettled ==
  /\ ctl = "unbegun" /\ Look
  /\ \/ Restorable # {} /\ Settled(Restorable) /\ Completed("restored") /\ UNCHANGED faults
     \/ Unsettled(Restorable) /\ Attention("RESTORE_OPERATION_MISSING")
  /\ Release
  /\ UNCHANGED <<runtimeVars, callVars>>

\* Nothing recover knows how to go on from.
RecoverNothing ==
  /\ ctl = "recover" /\ CandidatePassed
  /\ Resumed.phase = "needs_attention"
  /\ rec.code \notin RestoreCodes \cup {"RESTORE_OPERATION_MISSING"}
  /\ IF AskedForCandidate THEN Look ELSE UNCHANGED lookVars
  /\ Release
  /\ UNCHANGED <<runtimeVars, callVars, rec>>

\* An inspection fails.
RecoverFails ==
  /\ ctl \in {"recover", "unbegun"}
  /\ ReadFails
  /\ rec' = IF ctl = "recover" THEN Resumed ELSE rec
  /\ Raise
  /\ UNCHANGED <<lookVars, runtimeVars, callVars>>

\* record_recovery_failure
RecordFailure ==
  /\ ctl = "raised"
  /\ rec' = [rec EXCEPT !.phase = "needs_attention", !.code = "RECOVERY_CHECK_FAILED",
                        !.from = IF @ = "none" THEN rec.phase ELSE @]
  /\ Release
  /\ UNCHANGED <<pluginVars, overtaken>>

\* The controller's process ends and starts again; a call it made goes on.
ProcessRestarts ==
  /\ faults < MaxFaults /\ faults' = faults + 1
  /\ caller' = None /\ reply' = "none"
  /\ IF Unfinished THEN ctl' = "recover" /\ boot' = TRUE ELSE Release
  /\ UNCHANGED <<fileVars, running, enabled, loginVars, at, mem, rec, overtaken>>

-----------------------------------------------------------------------------
Init ==
  /\ PluginInit
  /\ rec = NoRec /\ ctl = "idle" /\ boot = FALSE /\ overtaken = FALSE

BeginSteps == CallBegin \/ StartFails \/ Begun \/ Started \/ Shown
PollSteps == PolledNothing \/ PolledLogin \/ PolledEnd
CancelSteps == CallCancel \/ CancelFails \/ Cancelled
RestoreSteps ==
  \/ Enable \/ RestoreAmbiguous \/ CallRestore \/ EnableFails
  \/ RestoreFails \/ RestoreSettled \/ SnapshotFails
CommitSteps == CallCommit \/ CommitUnasked \/ CommitSettled \/ CommitFailed
RecoverSteps ==
  \/ RecoverCandidate \/ RecoverRestore \/ RecoverScan \/ RecoverPreparing \/ RecoverUnbegun
  \/ EnableUnbegunFails \/ UnbegunSettled \/ RecoverNothing \/ RecoverFails \/ RecordFailure

\* The holder of the lock goes on.
Continue ==
  \/ BeginSteps \/ PollSteps \/ CancelSteps
  \/ RestoreSteps \/ CommitSteps \/ RecoverSteps \/ GiveUp

\* A request comes in while nobody holds the lock; others are told it is busy.
Request == StartConflict \/ BeginOperation \/ ShowAgain \/ Poll \/ CancelOperation \/ Recover

Gateway == \E s \in Slots : Handle(s) /\ UNCHANGED ctlVars

User == (LoginOver \/ \E a \in Accounts : Scan(a)) /\ UNCHANGED ctlVars

GatewayFault == (GatewayRestarts \/ \E a \in Accounts : ScanTorn(a)) /\ UNCHANGED ctlVars

Next == Continue \/ Request \/ Gateway \/ User \/ GatewayFault \/ ProcessRestarts

Spec == Init /\ [][Next]_vars

\* The gateway ends the methods it runs, a login expires, the holder of the lock
\* goes on; and the user does not leave an unfinished operation alone: he asks to
\* recover or to cancel it, time and again.
FairSpec ==
  /\ Spec
  /\ WF_vars(Continue) /\ WF_vars(Gateway)
  /\ WF_vars(LoginOver /\ UNCHANGED ctlVars)
  /\ SF_vars(Recover) /\ SF_vars(CancelOperation)

-----------------------------------------------------------------------------
(* Properties. *)

Codes == {"none", "INVENTORY_CONFLICT", "START_FAILED", "RESTORE_OPERATION_MISSING",
          "COMMIT_INCOMPLETE", "RECONNECT_UNSTABLE", "RECOVERY_CHECK_FAILED"} \cup RestoreCodes

Phases == ActivePhases \cup {"none", "needs_attention", "completed"}

Operation ==
  [id : 0 .. MaxOps, old : SUBSET Accounts, sess : 0 .. MaxSessions,
   account : Accounts \cup {None},
   phase : {"none", "beginning", "suspended", "login_started", "candidate_ready",
            "committing", "restoring"}]

TypeOK ==
  /\ op \in Operation /\ mem \in [Slots -> Operation]
  /\ cand \in [id : 0 .. MaxOps, sess : 0 .. MaxSessions, account : Accounts \cup {None}]
  /\ term \in [id : 0 .. MaxOps, outcome : {"none", "committed", "restored"}]
  /\ {index, stored, running} \subseteq SUBSET Accounts
  /\ {qr, sessions} \subseteq 0 .. MaxSessions
  /\ caller \in Slots \cup {None} /\ (caller # None => ctl # "idle" /\ at[caller] # "idle")
  /\ reply \in {"none", "ok", "error", "pending", "ended"} \cup Accounts
  /\ rec \in [id : 0 .. MaxOps, phase : Phases, code : Codes,
              old : SUBSET Accounts, back : SUBSET Accounts,
              sess : 0 .. MaxSessions, cand : Accounts \cup {None}, off : BOOLEAN,
              from : Phases, outcome : {"none", "switched", "restored"}]
  /\ overtaken \in BOOLEAN /\ boot \in BOOLEAN /\ (boot => ctl # "idle")
  /\ faults \in 0 .. MaxFaults

CommittedOp(id) == id # 0 /\ term = [id |-> id, outcome |-> "committed"]

\* The accounts the controller says the device has come to.
SettledAccounts == IF rec.outcome = "switched" THEN {rec.cand} ELSE Restorable

\* Controller and plugin agree on how an operation ended, whatever was lost on the
\* way: the accounts are those the controller says, the plugin has no operation
\* left, and it has committed the candidate or it has not (_complete_switched,
\* _complete_restored).  A candidate that is the old account may pass for a switch.
OutcomeIsReal ==
  rec.phase = "completed" /\ ~overtaken =>
    /\ index = SettledAccounts /\ stored = SettledAccounts
    /\ op.id = 0 \/ Residue(op.id)
    /\ rec.outcome = "switched" => CommittedOp(rec.id) \/ rec.back = {rec.cand}
    /\ rec.outcome = "restored" => ~CommittedOp(rec.id)

\* At every step, a crash of either side included, the credentials of all the old
\* accounts are stored, or those of the candidate are and the commit can only go
\* on (replacement.commit, replacement.restore).
NoAccountLost ==
  \/ overtaken
  \/ rec.back \subseteq stored
  \/ /\ rec.cand \in stored
     /\ CommittedOp(rec.id) \/ (op.id = rec.id /\ op.phase = "committing")

\* The one account that is registered and has credentials.
TheAccount ==
  IF \E a \in Accounts : index = {a} /\ stored = {a}
  THEN CHOOSE a \in Accounts : index = {a} ELSE None

W == INSTANCE SendWindow WITH open <- MaySend /\ ~overtaken, account <- TheAccount

\* Messages may be sent only between operations, and between operations the
\* account stays the same (delivery_guard, blocks_delivery).
ImplementsSendWindow == W!WindowSpec

\* The plugin knows nothing of the operation: it was never begun there, or the
\* inventory was refused.
Orphaned == rec.id \notin {op.id, term.id}

\* The plugin has ended the operation and does no more for it, but a begin that
\* outlived its caller has taken the accounts out again, or their channel has stopped.
Undone == term.id = rec.id /\ (index = {} \/ ~(index \subseteq running))

\* An operation the plugin has begun comes to an end, if the user goes on asking
\* for one: a failure, a lost answer or a crash never leaves it where neither
\* recovering nor cancelling helps (recover, _restore_locked, _commit_locked).
OperationsEnd == Unfinished ~> MaySend \/ Orphaned \/ Undone \/ overtaken

=============================================================================

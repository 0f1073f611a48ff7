-------------------------- MODULE ReplacementPlugin --------------------------
(***************************************************************************)
(* The account replacement of the WeChat plugin, as the patch the project  *)
(* ships makes it: the files it keeps (operation, candidate, last result,  *)
(* account index, credentials), the logins it holds in memory, and the     *)
(* gateway methods that move them.  A method runs in pieces: the gateway   *)
(* is single-threaded, so a piece is interrupted by nothing but the end of *)
(* the gateway, and another method may come in where one awaits a channel  *)
(* or a QR code.  Methods run in the handlers of `Slots'; who called them, *)
(* and whether he still waits, is `caller' and `reply'.                    *)
(***************************************************************************)
EXTENDS Integers, FiniteSets

CONSTANTS
  Accounts,     \* the WeChat accounts
  None,         \* no account, no slot
  Slots,        \* handlers that may be under way at once
  MaxOps,       \* bound on replacement operations
  MaxSessions,  \* bound on login sessions
  MaxFaults     \* bound on failures of the gateway and of calls to it

ASSUME PluginAssumption ==
  /\ None \notin Accounts \cup Slots
  /\ {"none", "ok", "error", "pending", "ended"} \cap Accounts = {}  \* answers of the gateway
  /\ MaxOps \in Nat /\ MaxSessions \in Nat /\ MaxFaults \in Nat

VARIABLES
  op,         \* operation.json
  cand,       \* candidate.json
  term,       \* last-result.json
  index,      \* the registered accounts
  stored,     \* the accounts whose credentials are stored
  running,    \* the accounts whose channel runs
  enabled,    \* the channel is enabled in the configuration
  qr,         \* the session of the login that is active
  task,       \* the wait for a login, as kept in memory
  sessions,   \* login sessions so far
  at,         \* per handler, the piece of a method it is to run next
  mem,        \* per handler, the copy of the operation it works on
  caller,     \* the handler the controller waits for
  reply,      \* what the controller was answered
  faults      \* failures so far

fileVars == <<op, cand, term, index, stored>>
loginVars == <<qr, task, sessions>>
callVars == <<at, mem, caller, reply>>
pluginVars == <<fileVars, running, enabled, loginVars, callVars, faults>>

-----------------------------------------------------------------------------
(* The files. *)

NoOp == [id |-> 0, phase |-> "none", old |-> {}, sess |-> 0, account |-> None]
NoCand == [id |-> 0, sess |-> 0, account |-> None]
NoTerm == [id |-> 0, outcome |-> "none"]
NoTask == [sess |-> 0, state |-> "none", account |-> None]

\* cleanupTerminalResidue: what a crash has left of an operation that has ended.
Residue(id) == id # 0 /\ id = term.id
CleanOp == IF Residue(op.id) THEN NoOp ELSE op
CleanCand ==
  IF Residue(cand.id) /\ (op.id = 0 \/ Residue(op.id)) THEN NoCand ELSE cand

\* recoverPersistedCandidate: the candidate was saved and the operation was not.
IsCandidateOf(c, o) == c.id = o.id /\ c.sess = o.sess /\ o.sess # 0
WithCandidate(o, c) == [o EXCEPT !.phase = "candidate_ready", !.account = c.account]
RecoveredOp ==
  IF CleanOp.phase = "login_started" /\ IsCandidateOf(CleanCand, CleanOp)
  THEN WithCandidate(CleanOp, CleanCand) ELSE CleanOp

\* inspection, when it is asked for: it tidies the files as it reads them.
Inspect == op' = RecoveredOp /\ cand' = CleanCand

ActiveLogin == qr # 0

\* What an inspection and the status of the channel show, taken together, of a
\* gateway that runs exactly these accounts.
Settled(accounts) ==
  /\ index = accounts /\ stored = accounts
  /\ running = accounts /\ enabled
  /\ ~ActiveLogin

-----------------------------------------------------------------------------
(* Handlers. *)

\* A method yields before it begins and where it awaits.
Yielding == {"idle", "begin", "begin_stop", "start", "start_qr", "wait", "cancel",
             "commit", "commit_start", "restore", "restore_start"}

\* Handler s runs its next piece, which nothing interrupts.
Runs(s, piece) ==
  /\ at[s] = piece
  /\ \A t \in Slots \ {s} : at[t] \in Yielding

Next2(s, piece) == at' = [at EXCEPT ![s] = piece] /\ UNCHANGED <<caller, reply>>

\* The method is over; its caller is told, if he still waits.
Respond(s, answer) ==
  /\ at' = [at EXCEPT ![s] = "idle"]
  /\ IF caller = s THEN caller' = None /\ reply' = answer ELSE UNCHANGED <<caller, reply>>

Error(s) == Respond(s, "error")

PluginInit ==
  /\ op = NoOp /\ cand = NoCand /\ term = NoTerm
  /\ index \in SUBSET Accounts
  /\ stored \in SUBSET index
  /\ enabled \in BOOLEAN
  /\ running = IF enabled THEN stored ELSE {}
  /\ qr = 0 /\ task = NoTask /\ sessions = 0
  /\ at = [s \in Slots |-> "idle"] /\ mem = [s \in Slots |-> NoOp]
  /\ caller = None /\ reply = "none"
  /\ faults = 0

-----------------------------------------------------------------------------
(* weixin.replacement.begin.  What a call is about is in mem[s]; an operation
   is begun once. *)

MayBegin(s) == CleanOp.id = 0 /\ index = mem[s].old /\ stored \subseteq index

Begin(s) ==
  /\ Runs(s, "begin")
  /\ cand' = CleanCand
  /\ IF MayBegin(s)
     THEN /\ op' = [mem[s] EXCEPT !.phase = "beginning"]
          /\ mem' = [mem EXCEPT ![s] = op']
          /\ running' = running \ mem[s].old
          /\ Next2(s, "begin_stop")
     ELSE /\ op' = CleanOp
          /\ mem' = [mem EXCEPT ![s] = NoOp]
          /\ UNCHANGED running
          /\ Error(s)
  /\ UNCHANGED <<term, index, stored, enabled, loginVars, faults>>

\* The channels have stopped: the old accounts leave the index.
BeginIndex(s) ==
  /\ Runs(s, "begin_stop")
  /\ index' = index \ mem[s].old
  /\ Next2(s, "begin_save")
  /\ UNCHANGED <<op, cand, term, stored, running, enabled, loginVars, mem, faults>>

BeginSave(s) ==
  /\ Runs(s, "begin_save")
  /\ op' = [mem[s] EXCEPT !.phase = "suspended"]
  /\ mem' = [mem EXCEPT ![s] = NoOp]
  /\ Respond(s, "ok")
  /\ UNCHANGED <<cand, term, index, stored, running, enabled, loginVars, faults>>

-----------------------------------------------------------------------------
(* weixin.replacement.login.start *)

MayLogin(s) ==
  /\ op.id = mem[s].id /\ op.phase \in {"suspended", "login_started"}
  /\ op.sess # 0 \/ sessions < MaxSessions

\* Beyond the bound on sessions there is no QR code.
StartKnown(s) ==
  /\ Runs(s, "start")
  /\ \/ op.id = mem[s].id /\ op.phase = "candidate_ready" /\ Respond(s, "ok")
     \/ ~MayLogin(s) /\ ~(op.id = mem[s].id /\ op.phase = "candidate_ready") /\ Error(s)
  /\ mem' = [mem EXCEPT ![s] = NoOp]
  /\ UNCHANGED <<fileVars, running, enabled, loginVars, faults>>

\* The login of the session is active: its QR code is shown again.
StartActive(s) ==
  /\ Runs(s, "start") /\ MayLogin(s)
  /\ ActiveLogin /\ qr = op.sess
  /\ op' = [op EXCEPT !.phase = "login_started"]
  /\ mem' = [mem EXCEPT ![s] = NoOp]
  /\ Respond(s, "ok")
  /\ UNCHANGED <<cand, term, index, stored, running, enabled, loginVars, faults>>

\* A QR code for the session of before, or for a new one.
Start(s) ==
  /\ Runs(s, "start") /\ MayLogin(s)
  /\ qr = 0 \/ qr # op.sess
  /\ sessions' = IF op.sess = 0 THEN sessions + 1 ELSE sessions
  /\ op' = [op EXCEPT !.phase = "login_started", !.sess = IF @ = 0 THEN sessions' ELSE @]
  /\ mem' = [mem EXCEPT ![s] = op']
  /\ qr' = op'.sess
  /\ Next2(s, "start_qr")
  /\ UNCHANGED <<cand, term, index, stored, running, enabled, task, faults>>

\* A QR code, unless the login was cancelled meanwhile.
StartShown(s) ==
  /\ Runs(s, "start_qr")
  /\ qr = mem[s].sess
  /\ mem' = [mem EXCEPT ![s] = NoOp]
  /\ Respond(s, "ok")
  /\ UNCHANGED <<fileVars, running, enabled, loginVars, faults>>

\* No QR code: the copy of the operation is written back without a session.
StartFailed(s) ==
  /\ Runs(s, "start_qr")
  /\ \/ qr # mem[s].sess /\ UNCHANGED <<qr, faults>>
     \/ qr = mem[s].sess /\ faults < MaxFaults /\ faults' = faults + 1 /\ qr' = 0
  /\ op' = [mem[s] EXCEPT !.phase = "suspended", !.sess = 0]
  /\ mem' = [mem EXCEPT ![s] = NoOp]
  /\ Error(s)
  /\ UNCHANGED <<cand, term, index, stored, running, enabled, task, sessions>>

-----------------------------------------------------------------------------
(* weixin.replacement.login.wait for the session in mem[s], the login itself,
   and weixin.login.cancel *)

\* A login that has ended well is answered with the account.
LoginAnswer(t) ==
  CASE t.state = "connected" -> t.account [] t.state = "ended" -> "ended" [] OTHER -> "pending"

\* A session this process waits for already: its result, once there is one.
WaitKnown(s) ==
  /\ Runs(s, "wait")
  /\ task.sess = mem[s].sess
  /\ Respond(s, LoginAnswer(task))
  /\ mem' = [mem EXCEPT ![s] = NoOp]
  /\ UNCHANGED <<fileVars, running, enabled, loginVars, faults>>

WaitNew(s) ==
  /\ Runs(s, "wait")
  /\ task.sess # mem[s].sess
  /\ \/ op.id = mem[s].id /\ op.sess = mem[s].sess /\ op.phase = "candidate_ready"
        /\ Respond(s, op.account) /\ UNCHANGED task
     \/ op.id = mem[s].id /\ op.sess = mem[s].sess /\ op.phase = "login_started"
        /\ task' = [NoTask EXCEPT !.sess = op.sess,
                                  !.state = IF qr = op.sess THEN "waiting" ELSE "ended"]
        /\ Respond(s, LoginAnswer(task'))
     \/ ~(op.id = mem[s].id /\ op.sess = mem[s].sess
          /\ op.phase \in {"candidate_ready", "login_started"})
        /\ Error(s) /\ UNCHANGED task
  /\ mem' = [mem EXCEPT ![s] = NoOp]
  /\ UNCHANGED <<fileVars, running, enabled, qr, sessions, faults>>

Awaited == op.phase = "login_started" /\ op.sess = task.sess

\* The QR code of the login that is waited for is there to be scanned.
Scannable ==
  /\ \A t \in Slots : at[t] \in Yielding \ {"start_qr"}
  /\ task.state = "waiting" /\ qr = task.sess

\* The user scans with some account: candidate and operation are saved.
Scan(a) ==
  /\ Scannable
  /\ qr' = 0
  /\ \/ /\ Awaited
        /\ cand' = [id |-> op.id, sess |-> op.sess, account |-> a]
        /\ op' = WithCandidate(op, cand')
        /\ task' = [task EXCEPT !.state = "connected", !.account = a]
     \/ /\ ~Awaited
        /\ task' = [task EXCEPT !.state = "ended"]
        /\ UNCHANGED <<op, cand>>
  /\ UNCHANGED <<term, index, stored, running, enabled, sessions, callVars, faults>>

\* The login expires, fails or was aborted.
LoginOver ==
  /\ \A t \in Slots : at[t] \in Yielding \ {"start_qr"}
  /\ task.state = "waiting" \/ ActiveLogin
  /\ task' = IF task.state = "waiting" THEN [task EXCEPT !.state = "ended"] ELSE task
  /\ qr' = 0
  /\ UNCHANGED <<fileVars, running, enabled, sessions, callVars, faults>>

Cancel(s) ==
  /\ Runs(s, "cancel")
  /\ LET mine == op.sess = mem[s].sess /\ op.phase = "login_started"
     IN  /\ op' = IF mine THEN [op EXCEPT !.phase = "suspended", !.sess = 0] ELSE op
         /\ task' = IF mine /\ task.sess # mem[s].sess
                    THEN [NoTask EXCEPT !.sess = mem[s].sess, !.state = "ended"] ELSE task
  /\ qr' = IF qr = mem[s].sess THEN 0 ELSE qr
  /\ mem' = [mem EXCEPT ![s] = NoOp]
  /\ Respond(s, "ok")
  /\ UNCHANGED <<cand, term, index, stored, running, enabled, sessions, faults>>

-----------------------------------------------------------------------------
(* weixin.replacement.commit.  It may be asked for again until it has ended. *)

CommitKnown(s) ==
  /\ Runs(s, "commit")
  /\ term = [id |-> mem[s].id, outcome |-> "committed"]
  /\ op' = CleanOp /\ cand' = IF Residue(cand.id) THEN NoCand ELSE cand
  /\ mem' = [mem EXCEPT ![s] = NoOp]
  /\ Respond(s, "ok")
  /\ UNCHANGED <<term, index, stored, running, enabled, loginVars, faults>>

\* Mutant: a commit that was interrupted is not taken up.
MayCommitOnce(s) ==
  op.id = mem[s].id /\ op.phase = "candidate_ready" /\ IsCandidateOf(cand, op) /\ index = {}

MayCommit(s) ==
  /\ op.id = mem[s].id /\ op.phase \in {"candidate_ready", "committing"}
  /\ IsCandidateOf(cand, op)
  /\ op.phase = "candidate_ready" => index = {}

CommitRefused(s) ==
  /\ Runs(s, "commit")
  /\ term # [id |-> mem[s].id, outcome |-> "committed"] /\ ~MayCommit(s)
  /\ mem' = [mem EXCEPT ![s] = NoOp]
  /\ Error(s)
  /\ UNCHANGED <<fileVars, running, enabled, loginVars, faults>>

Commit(s) ==
  /\ Runs(s, "commit")
  /\ term # [id |-> mem[s].id, outcome |-> "committed"] /\ MayCommit(s)
  /\ op' = [op EXCEPT !.phase = "committing"]
  /\ mem' = [mem EXCEPT ![s] = op']
  /\ Next2(s, "commit_store")
  /\ UNCHANGED <<cand, term, index, stored, running, enabled, loginVars, faults>>

CommitStore(s) ==
  /\ Runs(s, "commit_store")
  /\ stored' = stored \cup {mem[s].account}
  /\ Next2(s, "commit_index")
  /\ UNCHANGED <<op, cand, term, index, running, enabled, loginVars, mem, faults>>

CommitIndex(s) ==
  /\ Runs(s, "commit_index")
  /\ index' = {mem[s].account}
  /\ running' = IF enabled THEN running \cup {mem[s].account} ELSE running
  /\ Next2(s, "commit_start")
  /\ UNCHANGED <<op, cand, term, stored, enabled, loginVars, mem, faults>>

\* The new account runs: the credentials of the old ones go.
CommitClear(s) ==
  /\ Runs(s, "commit_start")
  /\ mem[s].account \in running
  /\ stored' = stored \ (mem[s].old \ {mem[s].account})
  /\ Next2(s, "commit_result")
  /\ UNCHANGED <<op, cand, term, index, running, enabled, loginVars, mem, faults>>

CommitResult(s) ==
  /\ Runs(s, "commit_result")
  /\ IF index = {mem[s].account} /\ stored = {mem[s].account}
     THEN /\ term' = [id |-> mem[s].id, outcome |-> "committed"]
          /\ Next2(s, "commit_candidate")
     ELSE UNCHANGED term /\ Error(s)
  /\ UNCHANGED <<op, cand, index, stored, running, enabled, loginVars, mem, faults>>

CommitCandidate(s) ==
  /\ Runs(s, "commit_candidate")
  /\ cand' = NoCand
  /\ Next2(s, "commit_end")
  /\ UNCHANGED <<op, term, index, stored, running, enabled, loginVars, mem, faults>>

CommitEnd(s) ==
  /\ Runs(s, "commit_end")
  /\ op' = NoOp
  /\ mem' = [mem EXCEPT ![s] = NoOp]
  /\ Respond(s, "ok")
  /\ UNCHANGED <<cand, term, index, stored, running, enabled, loginVars, faults>>

-----------------------------------------------------------------------------
(* weixin.replacement.restore *)

RestoreKnown(s) ==
  /\ Runs(s, "restore")
  /\ term = [id |-> mem[s].id, outcome |-> "restored"]
  /\ op' = CleanOp /\ cand' = IF Residue(cand.id) THEN NoCand ELSE cand
  /\ mem' = [mem EXCEPT ![s] = NoOp]
  /\ Respond(s, "ok")
  /\ UNCHANGED <<term, index, stored, running, enabled, loginVars, faults>>

\* Mutant: a commit under way is rolled back.
MayRestoreAlways(s) == op.id = mem[s].id

MayRestore(s) == op.id = mem[s].id /\ op.phase # "committing"

RestoreRefused(s) ==
  /\ Runs(s, "restore")
  /\ term # [id |-> mem[s].id, outcome |-> "restored"] /\ ~MayRestore(s)
  /\ mem' = [mem EXCEPT ![s] = NoOp]
  /\ Error(s)
  /\ UNCHANGED <<fileVars, running, enabled, loginVars, faults>>

Restore(s) ==
  /\ Runs(s, "restore")
  /\ term # [id |-> mem[s].id, outcome |-> "restored"] /\ MayRestore(s)
  /\ op' = [op EXCEPT !.phase = "restoring"]
  /\ mem' = [mem EXCEPT ![s] = op']
  /\ qr' = IF op.sess # 0 /\ qr = op.sess THEN 0 ELSE qr
  /\ Next2(s, "restore_index")
  /\ UNCHANGED <<cand, term, index, stored, running, enabled, task, sessions, faults>>

\* The candidate goes, and the old accounts that still have credentials return.
RestoreIndex(s) ==
  /\ Runs(s, "restore_index")
  /\ cand' = NoCand
  /\ LET back == mem[s].old \cap stored
     IN  IF back = {}
         THEN Error(s) /\ UNCHANGED <<index, running>>
         ELSE /\ index' = back
              /\ running' = IF enabled THEN running \cup back ELSE running
              /\ Next2(s, "restore_start")
  /\ UNCHANGED <<op, term, stored, enabled, loginVars, mem, faults>>

RestoreResult(s) ==
  /\ Runs(s, "restore_start")
  /\ mem[s].old \cap stored \subseteq running
  /\ term' = [id |-> mem[s].id, outcome |-> "restored"]
  /\ Next2(s, "restore_end")
  /\ UNCHANGED <<op, cand, index, stored, running, enabled, loginVars, mem, faults>>

RestoreEnd(s) ==
  /\ Runs(s, "restore_end")
  /\ op' = NoOp
  /\ mem' = [mem EXCEPT ![s] = NoOp]
  /\ Respond(s, "ok")
  /\ UNCHANGED <<cand, term, index, stored, running, enabled, loginVars, faults>>

-----------------------------------------------------------------------------
(* Failures. *)

\* A channel does not stop, or does not start.
ToRun(s) ==
  CASE at[s] = "commit_start" -> {mem[s].account}
    [] at[s] = "restore_start" -> mem[s].old \cap stored
    [] OTHER -> {}

ChannelFails(s) ==
  /\ at[s] \in {"begin_stop", "commit_start", "restore_start"}
  /\ Runs(s, at[s])
  /\ IF ToRun(s) \subseteq running
     THEN faults < MaxFaults /\ faults' = faults + 1
     ELSE UNCHANGED faults
  /\ running' = running \ ToRun(s)
  /\ mem' = [mem EXCEPT ![s] = NoOp]
  /\ Error(s)
  /\ UNCHANGED <<fileVars, enabled, loginVars>>

\* The gateway ends and starts again: what was in memory is gone, the channels of
\* the registered accounts that have credentials run, and a caller gets an error.
GatewayRestarts ==
  /\ faults < MaxFaults /\ faults' = faults + 1
  /\ qr' = 0 /\ task' = NoTask
  /\ running' = IF enabled THEN index \cap stored ELSE {}
  /\ at' = [s \in Slots |-> "idle"] /\ mem' = [s \in Slots |-> NoOp]
  /\ IF caller = None THEN UNCHANGED <<caller, reply>>
     ELSE caller' = None /\ reply' = "error"
  /\ UNCHANGED <<fileVars, enabled, sessions>>

\* It ends after a scan has saved the candidate, and before the operation is.
ScanTorn(a) ==
  /\ Scannable /\ Awaited
  /\ faults < MaxFaults /\ faults' = faults + 1
  /\ cand' = [id |-> op.id, sess |-> op.sess, account |-> a]
  /\ qr' = 0 /\ task' = NoTask
  /\ running' = IF enabled THEN index \cap stored ELSE {}
  /\ at' = [s \in Slots |-> "idle"] /\ mem' = [s \in Slots |-> NoOp]
  /\ IF caller = None THEN UNCHANGED <<caller, reply>>
     ELSE caller' = None /\ reply' = "error"
  /\ UNCHANGED <<op, term, index, stored, enabled, sessions>>

-----------------------------------------------------------------------------
BeginStep(s) == Begin(s) \/ BeginIndex(s) \/ BeginSave(s)
StartStep(s) == StartKnown(s) \/ StartActive(s) \/ Start(s) \/ StartShown(s) \/ StartFailed(s)
LoginStep(s) == WaitKnown(s) \/ WaitNew(s) \/ Cancel(s)
CommitStep(s) == CommitKnown(s) \/ CommitRefused(s) \/ Commit(s) \/ CommitStore(s)
                 \/ CommitIndex(s) \/ CommitClear(s) \/ CommitResult(s)
                 \/ CommitCandidate(s) \/ CommitEnd(s)
RestoreStep(s) == RestoreKnown(s) \/ RestoreRefused(s) \/ Restore(s) \/ RestoreIndex(s)
                  \/ RestoreResult(s) \/ RestoreEnd(s)

\* The gateway goes on with a method.
Handle(s) == BeginStep(s) \/ StartStep(s) \/ LoginStep(s) \/ CommitStep(s)
             \/ RestoreStep(s) \/ ChannelFails(s)

=============================================================================

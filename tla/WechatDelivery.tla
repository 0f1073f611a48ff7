--------------------------- MODULE WechatDelivery ---------------------------
(***************************************************************************)
(* The outbox of finished reports: an intent per report, kept in a file,   *)
(* and the threads that try to deliver it over WeChat: the queue when a    *)
(* report is finished, a watcher that looks every few seconds, a message   *)
(* that comes in, the user who asks for it again.  Each of them lists      *)
(* records, takes the guard of the reconnect controller, which no one      *)
(* waits for, and works off what it has listed.  A message that was handed *)
(* to the gateway may be received, refused, or received long after the     *)
(* thread, or the process, has gone.  Of the reconnection only SendWindow  *)
(* is assumed, which module WechatReconnect implements.                    *)
(***************************************************************************)
EXTENDS Integers, FiniteSets

CONSTANTS
  Intents,      \* delivery intents, one per report
  Workers,      \* threads that deliver
  Watcher,      \* the one that looks every few seconds
  Requests,     \* ids of requests to send again
  Accounts,     \* WeChat accounts; a recipient is the latest chat of one
  None,         \* no account, worker, intent
  MaxAttempts,  \* _MAX_AUTOMATIC_SEND_ATTEMPTS
  MaxFaults     \* bound on failures of the store and crashes

ASSUME DeliveryAssumption ==
  /\ Watcher \in Workers
  /\ None \notin Intents \cup Workers \cup Accounts
  /\ Requests \cap {"none", "notify", "retry"} = {}
  /\ MaxAttempts \in Nat /\ MaxFaults \in Nat

VARIABLES
  state,    \* per intent, the state of its record
  count,    \* per intent, attempt_count
  to,       \* per intent, delivered_account_id
  req,      \* per request, manual_retry_requests
  run,      \* per intent, what became of the run that writes its report
  origin,   \* per intent, the account it was asked for by
  open,     \* the send window (SendWindow)
  account,  \* the one account of the device (SendWindow)
  guard,    \* who holds the delivery guard, and the account he found
  at,       \* per worker, what it does next
  job,      \* per worker, what it was started for
  notes,    \* per worker, reports it has still to announce
  todo,     \* per worker, records it has listed and not worked off
  cur,      \* per worker, the record it works on
  answer,   \* per worker, what the gateway made of its message
  copies,   \* per intent, messages received
  late,     \* per intent, messages under way that nobody waits for
  handed,   \* per intent, accounts a message was handed out by
  retries,  \* per intent, attempts the user asked for though one might have arrived
  faults    \* failures so far

fileVars == <<state, count, to, req>>
windowVars == <<open, account>>
workVars == <<at, job, notes, todo, cur, answer>>
mailVars == <<copies, late, handed>>
vars == <<fileVars, run, origin, windowVars, guard, workVars, mailVars, retries, faults>>

W == INSTANCE SendWindow

-----------------------------------------------------------------------------
Free == [by |-> None, account |-> None]

Init ==
  /\ state = [i \in Intents |-> "none"] /\ count = [i \in Intents |-> 0]
  /\ to = [i \in Intents |-> None] /\ req = [r \in Requests |-> "none"]
  /\ run = [i \in Intents |-> "none"] /\ origin = [i \in Intents |-> None]
  /\ W!WindowInit
  /\ guard = Free
  /\ at = [w \in Workers |-> "idle"] /\ job = [w \in Workers |-> "none"]
  /\ notes = [w \in Workers |-> {}] /\ todo = [w \in Workers |-> {}]
  /\ cur = [w \in Workers |-> None] /\ answer = [w \in Workers |-> "none"]
  /\ copies = [i \in Intents |-> 0] /\ late = [i \in Intents |-> 0]
  /\ handed = [i \in Intents |-> {}] /\ retries = [i \in Intents |-> 0]
  /\ faults = 0

Goto(w, step) == at' = [at EXCEPT ![w] = step]

Release(w) == guard' = IF guard.by = w THEN Free ELSE guard

\* What w was started for is over; of the watcher's round its retries are left.
EndJob(w) ==
  /\ IF job[w] = "notify" /\ w = Watcher
     THEN Goto(w, "list") /\ job' = [job EXCEPT ![w] = "retry"]
     ELSE Goto(w, "idle") /\ job' = [job EXCEPT ![w] = "none"]
  /\ req' = IF job[w] \in Requests THEN [req EXCEPT ![job[w]] = "completed"] ELSE req

\* Done with the records that were listed: the next report, or the end of the job.
EndList(w) ==
  /\ todo' = [todo EXCEPT ![w] = {}] /\ cur' = [cur EXCEPT ![w] = None]
  /\ Release(w)
  /\ IF notes[w] # {} THEN Goto(w, "notify") /\ UNCHANGED <<job, req>> ELSE EndJob(w)

\* Done with record i: the next one, under the same guard.
NextRecord(w, i) ==
  IF todo[w] = {i} THEN EndList(w)
  ELSE /\ todo' = [todo EXCEPT ![w] = @ \ {i}] /\ cur' = [cur EXCEPT ![w] = None]
       /\ Goto(w, "ready")
       /\ UNCHANGED <<guard, job, req>>

-----------------------------------------------------------------------------
(* The reports. *)

\* A report is asked for over WeChat (create_waiting_report).
CreateIntent(i) ==
  /\ state[i] = "none" /\ account # None
  /\ state' = [state EXCEPT ![i] = "waiting_report"]
  /\ run' = [run EXCEPT ![i] = "going"]
  /\ origin' = [origin EXCEPT ![i] = account]
  /\ UNCHANGED <<count, to, req, windowVars, guard, workVars, mailVars, retries, faults>>

RunEnds(i) ==
  /\ run[i] = "going"
  /\ \E outcome \in {"completed", "failed"} : run' = [run EXCEPT ![i] = outcome]
  /\ UNCHANGED <<fileVars, origin, windowVars, guard, workVars, mailVars, retries, faults>>

\* mark_report_failed, by the queue.
MarkFailed(i) ==
  /\ run[i] = "failed" /\ state[i] \notin {"sent", "failed"}
  /\ state' = [state EXCEPT ![i] = "failed"]
  /\ UNCHANGED <<count, to, req, run, origin, windowVars, guard, workVars, mailVars,
                 retries, faults>>

-----------------------------------------------------------------------------
(* Jobs. *)

Start(w, what, step) ==
  /\ at[w] = "idle"
  /\ job' = [job EXCEPT ![w] = what]
  /\ Goto(w, step)

\* The queue announces a report it has finished (notify_report_completion); where the
\* watcher was first, all that is left of it is a retry.
QueueNotifies(w, i) ==
  /\ w # Watcher /\ run[i] = "completed" /\ state[i] = "waiting_report"
  /\ Start(w, "notify", "notify")
  /\ notes' = [notes EXCEPT ![w] = {i}]
  /\ UNCHANGED <<fileVars, run, origin, windowVars, guard, todo, cur, answer, mailVars,
                 retries, faults>>

Overdue == {i \in Intents : state[i] = "waiting_report" /\ run[i] = "completed"}

\* Mutant: nobody looks for runs that have ended badly.
DoomedUnseen == {}

Doomed == {i \in Intents : state[i] \notin {"none", "sent", "failed"} /\ run[i] = "failed"}

\* The watcher, or a process that starts: the records whose run has ended badly, and
\* those whose report is there and was not announced.
WatcherRound ==
  /\ \E i \in Intents : state[i] \in {"waiting_report", "pending"}
  /\ IF Overdue = {} THEN Start(Watcher, "retry", "list")
                     ELSE Start(Watcher, "notify", "notify")
  /\ notes' = [notes EXCEPT ![Watcher] = Overdue]
  /\ state' = [i \in Intents |-> IF i \in Doomed THEN "failed" ELSE state[i]]
  /\ UNCHANGED <<count, to, req, run, origin, windowVars, guard, todo, cur, answer,
                 mailVars, retries, faults>>

Manual(w) == job[w] \in Requests

Retriable == {i \in Intents : state[i] = "pending" /\ count[i] < MaxAttempts}

\* A recipient is bound, or has written: what is pending is listed to be sent to him.
RetryPending(w) ==
  /\ w # Watcher /\ Retriable # {}
  /\ Start(w, "retry", "guard")
  /\ todo' = [todo EXCEPT ![w] = Retriable]
  /\ UNCHANGED <<fileVars, run, origin, windowVars, guard, notes, cur, answer, mailVars,
                 retries, faults>>

\* The user asks for it; a request that is repeated starts nothing.
ManualRetry(w, r) ==
  /\ w # Watcher /\ req[r] = "none"
  /\ Start(w, r, "list")
  /\ req' = [req EXCEPT ![r] = "in_progress"]
  /\ UNCHANGED <<state, count, to, run, origin, windowVars, guard, notes, todo, cur,
                 answer, mailVars, retries, faults>>

-----------------------------------------------------------------------------
(* What a job does. *)

\* mark_report_pending
Notify(w) ==
  /\ at[w] = "notify"
  /\ \E i \in notes[w] :
       /\ state' = IF state[i] = "waiting_report" THEN [state EXCEPT ![i] = "pending"]
                   ELSE state
       /\ notes' = [notes EXCEPT ![w] = @ \ {i}]
       /\ todo' = [todo EXCEPT ![w] = {i}]
  /\ Goto(w, "check")
  /\ UNCHANGED <<count, to, req, run, origin, windowVars, guard, job, cur, answer,
                 mailVars, retries, faults>>

\* _attempt_delivery looks at the number of attempts before it takes the guard.
Check(w) ==
  /\ at[w] = "check"
  /\ IF \A i \in todo[w] : count[i] < MaxAttempts
     THEN Goto(w, "guard") /\ UNCHANGED <<todo, cur, guard, job, req>>
     ELSE EndList(w)
  /\ UNCHANGED <<state, count, to, run, origin, windowVars, notes, answer, mailVars,
                 retries, faults>>

\* retry_pending lists the records before it takes the guard.
Listed(w) ==
  IF Manual(w) THEN {i \in Intents : state[i] \in {"pending", "unknown"}} ELSE Retriable

List(w) ==
  /\ at[w] = "list"
  /\ IF Listed(w) = {} THEN EndJob(w) /\ UNCHANGED todo
     ELSE /\ todo' = [todo EXCEPT ![w] = Listed(w)]
          /\ Goto(w, "guard")
          /\ UNCHANGED <<job, req>>
  /\ UNCHANGED <<state, count, to, run, origin, windowVars, guard, notes, cur, answer,
                 mailVars, retries, faults>>

\* Mutant: the account is looked up without asking whether a reconnection is on.
MayDeliverAnyTime == guard.by = None /\ account # None

\* The state file says that no reconnection is under way, and there is one account.
MayDeliver == guard.by = None /\ open /\ account # None

TakeGuard(w) ==
  /\ at[w] = "guard" /\ MayDeliver
  /\ guard' = [by |-> w, account |-> account]
  /\ Goto(w, "ready")
  /\ UNCHANGED <<fileVars, run, origin, windowVars, job, notes, todo, cur, answer,
                 mailVars, retries, faults>>

\* Somebody holds the lock, a reconnection is on, the account cannot be told, it has
\* no chat, or the channel is not connected.
Refused(w) ==
  /\ at[w] = "guard"
  /\ EndList(w)
  /\ UNCHANGED <<state, count, to, run, origin, windowVars, notes, answer, mailVars,
                 retries, faults>>

\* Mutant: what may have arrived is sent again without being asked for.
AttemptableAnyway(w, i) == state[i] \in {"pending", "unknown"}

Attemptable(w, i) == state[i] \in IF Manual(w) THEN {"pending", "unknown"} ELSE {"pending"}

\* begin_attempt
BeginAttempt(w, i) ==
  /\ at[w] = "ready" /\ i \in todo[w] /\ Attemptable(w, i)
  /\ state' = [state EXCEPT ![i] = "unknown"]
  /\ count' = [count EXCEPT ![i] = @ + 1]
  /\ retries' = IF Manual(w) /\ state[i] = "unknown"
                THEN [retries EXCEPT ![i] = @ + 1] ELSE retries
  /\ cur' = [cur EXCEPT ![w] = i]
  /\ Goto(w, "text")
  /\ UNCHANGED <<to, req, run, origin, windowVars, guard, job, notes, todo, answer,
                 mailVars, faults>>

Skip(w, i) ==
  /\ at[w] = "ready" /\ i \in todo[w] /\ ~Attemptable(w, i)
  /\ NextRecord(w, i)
  /\ UNCHANGED <<state, count, to, run, origin, windowVars, notes, answer, mailVars,
                 retries, faults>>

\* send_text: the message is with the gateway.
HandOver(w) ==
  /\ at[w] = "text"
  /\ handed' = [handed EXCEPT ![cur[w]] = @ \cup {guard.account}]
  /\ Goto(w, "sending")
  /\ UNCHANGED <<fileVars, run, origin, windowVars, guard, job, notes, todo, cur, answer,
                 copies, late, retries, faults>>

\* send_text fails before that: the result counts as unknown all the same.
NotHandedOver(w) ==
  /\ at[w] = "text"
  /\ NextRecord(w, cur[w])
  /\ UNCHANGED <<state, count, to, run, origin, windowVars, notes, answer, mailVars,
                 retries, faults>>

\* The gateway has sent the message, or has refused to.
Received(w) ==
  /\ at[w] = "sending" /\ answer[w] = "none"
  /\ answer' = [answer EXCEPT ![w] = "sent"]
  /\ copies' = [copies EXCEPT ![cur[w]] = @ + 1]
  /\ UNCHANGED <<fileVars, run, origin, windowVars, guard, at, job, notes, todo, cur,
                 late, handed, retries, faults>>

Rejected(w) ==
  /\ at[w] = "sending" /\ answer[w] = "none"
  /\ answer' = [answer EXCEPT ![w] = "rejected"]
  /\ UNCHANGED <<fileVars, run, origin, windowVars, guard, at, job, notes, todo, cur,
                 mailVars, retries, faults>>

\* Mutant: any answer passes for success.
OutcomeAnyAnswer(w) == [s |-> "sent", account |-> guard.account]

\* mark_sent, mark_known_failure
Outcome(w) ==
  IF answer[w] = "sent" THEN [s |-> "sent", account |-> guard.account]
  ELSE [s |-> "pending", account |-> to[cur[w]]]

Mark(w) ==
  /\ at[w] = "sending" /\ answer[w] # "none"
  /\ state' = [state EXCEPT ![cur[w]] = Outcome(w).s]
  /\ to' = [to EXCEPT ![cur[w]] = Outcome(w).account]
  /\ answer' = [answer EXCEPT ![w] = "none"]
  /\ NextRecord(w, cur[w])
  /\ UNCHANGED <<count, run, origin, windowVars, notes, mailVars, retries, faults>>

\* The answer is lost or cannot be saved, or the call times out: mark_unknown.
Flying(w) == at[w] = "sending" /\ answer[w] = "none"

GiveUp(w) ==
  /\ at[w] = "sending"
  /\ late' = IF Flying(w) THEN [late EXCEPT ![cur[w]] = @ + 1] ELSE late
  /\ answer' = [answer EXCEPT ![w] = "none"]
  /\ NextRecord(w, cur[w])
  /\ UNCHANGED <<state, count, to, run, origin, windowVars, notes, copies, handed,
                 retries, faults>>

-----------------------------------------------------------------------------
(* Failures. *)

Arrives(i) ==
  /\ late[i] > 0
  /\ late' = [late EXCEPT ![i] = @ - 1]
  /\ \/ copies' = [copies EXCEPT ![i] = @ + 1]
     \/ UNCHANGED copies
  /\ UNCHANGED <<fileVars, run, origin, windowVars, guard, workVars, handed, retries, faults>>

\* The store or the text of the report fails: the job is abandoned where it is.
Raise(w) ==
  /\ at[w] \in {"notify", "check", "list", "guard", "ready", "text"}
  /\ faults < MaxFaults /\ faults' = faults + 1
  /\ Release(w)
  /\ Goto(w, "idle") /\ job' = [job EXCEPT ![w] = "none"]
  /\ notes' = [notes EXCEPT ![w] = {}] /\ todo' = [todo EXCEPT ![w] = {}]
  /\ cur' = [cur EXCEPT ![w] = None]
  /\ UNCHANGED <<fileVars, run, origin, windowVars, answer, mailVars, retries>>

\* The process ends and starts again; its runs do not go on.
Crash ==
  /\ faults < MaxFaults /\ faults' = faults + 1
  /\ guard' = Free
  /\ at' = [w \in Workers |-> "idle"] /\ job' = [w \in Workers |-> "none"]
  /\ notes' = [w \in Workers |-> {}] /\ todo' = [w \in Workers |-> {}]
  /\ cur' = [w \in Workers |-> None] /\ answer' = [w \in Workers |-> "none"]
  /\ late' = [i \in Intents |->
                late[i] + IF \E w \in Workers : Flying(w) /\ cur[w] = i THEN 1 ELSE 0]
  /\ run' = [i \in Intents |-> IF run[i] = "going" THEN "lost" ELSE run[i]]
  /\ UNCHANGED <<fileVars, origin, windowVars, copies, handed, retries>>

-----------------------------------------------------------------------------
Report(i) == CreateIntent(i) \/ RunEnds(i) \/ MarkFailed(i) \/ Arrives(i)

Work(w) ==
  \/ Notify(w) \/ Check(w) \/ List(w) \/ TakeGuard(w) \/ Refused(w)
  \/ \E i \in Intents : BeginAttempt(w, i) \/ Skip(w, i)
  \/ HandOver(w) \/ NotHandedOver(w) \/ Received(w) \/ Rejected(w) \/ Mark(w) \/ GiveUp(w)

Job(w) ==
  \/ RetryPending(w)
  \/ \E i \in Intents : QueueNotifies(w, i)
  \/ \E r \in Requests : ManualRetry(w, r)

\* A reconnection works under the lock that is the guard.
Reconnect ==
  /\ guard.by = None
  /\ W!WindowNext
  /\ UNCHANGED <<fileVars, run, origin, guard, workVars, mailVars, retries, faults>>

Next ==
  \/ \E i \in Intents : Report(i)
  \/ \E w \in Workers : Work(w) \/ Job(w) \/ Raise(w)
  \/ WatcherRound \/ Reconnect \/ Crash

Spec == Init /\ [][Next]_vars

\* The watcher's thread goes on, and looks again every few seconds.
FairSpec == Spec /\ WF_vars(WatcherRound \/ Work(Watcher))

-----------------------------------------------------------------------------
(* Properties. *)

TypeOK ==
  /\ state \in [Intents -> {"none", "waiting_report", "pending", "unknown", "sent", "failed"}]
  /\ count \in [Intents -> Nat] /\ to \in [Intents -> Accounts \cup {None}]
  /\ req \in [Requests -> {"none", "in_progress", "completed"}]
  /\ run \in [Intents -> {"none", "going", "completed", "failed", "lost"}]
  /\ origin \in [Intents -> Accounts \cup {None}]
  /\ open \in BOOLEAN /\ account \in Accounts \cup {None}
  /\ guard \in [by : Workers \cup {None}, account : Accounts \cup {None}]
  /\ guard.by = None => guard = Free
  /\ at \in [Workers -> {"idle", "notify", "check", "list", "guard", "ready", "text", "sending"}]
  /\ job \in [Workers -> {"none", "notify", "retry"} \cup Requests]
  /\ notes \in [Workers -> SUBSET Intents] /\ todo \in [Workers -> SUBSET Intents]
  /\ cur \in [Workers -> Intents \cup {None}]
  /\ \A w \in Workers : at[w] \in {"text", "sending"} => cur[w] # None
  /\ answer \in [Workers -> {"none", "sent", "rejected"}]
  /\ copies \in [Intents -> Nat] /\ late \in [Intents -> Nat]
  /\ handed \in [Intents -> SUBSET (Accounts \cup {None})] /\ retries \in [Intents -> Nat]
  /\ faults \in 0 .. MaxFaults

\* Whoever is about to send, or waits for an answer, does so while the send window is
\* open and by the account the device has (wechat_delivery_account, delivery_guard).
SendsInWindow ==
  \A w \in Workers :
    at[w] \in {"ready", "text", "sending"} =>
      guard = [by |-> w, account |-> account] /\ open /\ account # None

\* A report arrives at most once for every time somebody asked for it, however often
\* attempts were interrupted: what may have arrived is never sent again unasked
\* (begin_attempt, retry_pending).
NoUnaskedDuplicate == \A i \in Intents : copies[i] + late[i] <= 1 + retries[i]

\* A record that says "sent" says so for ever, and tells of a message that was
\* received, by the account it names (mark_sent, _update_delivery).
SentIsTrue ==
  [][\A i \in Intents :
       /\ state[i] = "sent" => state'[i] = "sent" /\ to'[i] = to[i]
       /\ state'[i] = "sent" => copies'[i] > 0 /\ to'[i] \in handed'[i]]_vars

Overlooked(i) == state[i] = "waiting_report" /\ run[i] \in {"completed", "failed"}

\* A report that is finished, or will never be, does not leave its intent waiting,
\* whatever failed and whoever crashed when it was to be announced: time and again
\* none is overlooked (_dispatch_wechat_deliveries_once).
WaitingEnds == []<>(\A i \in Intents : ~Overlooked(i))

=============================================================================

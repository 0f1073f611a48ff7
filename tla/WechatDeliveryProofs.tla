------------------------ MODULE WechatDeliveryProofs ------------------------
(***************************************************************************)
(* Proofs about WechatDelivery, for any number of reports, threads,        *)
(* requests and accounts, and any number of failures.                      *)
(***************************************************************************)
EXTENDS WechatDelivery, TLAPS

-----------------------------------------------------------------------------
(* Types, and how a job goes on. *)

Steps == {"idle", "notify", "check", "list", "guard", "ready", "text", "sending"}

WorkTyped ==
  /\ at \in [Workers -> Steps]
  /\ job \in [Workers -> {"none", "notify", "retry"} \cup Requests]
  /\ todo \in [Workers -> SUBSET Intents] /\ cur \in [Workers -> Intents \cup {None}]
  /\ req \in [Requests -> {"none", "in_progress", "completed"}]
  /\ guard \in [by : Workers \cup {None}, account : Accounts \cup {None}]
  /\ guard.by = None => guard = Free

\* What the end of a record may change: nothing of another worker, and of the guard
\* only that of its holder.
Moved(w) ==
  /\ WorkTyped'
  /\ \A u \in Workers \ {w} : at'[u] = at[u] /\ cur'[u] = cur[u]
  /\ at'[w] \in {"idle", "list", "notify", "ready"}
  /\ guard' = guard \/ guard.by = w
  /\ at'[w] = "ready" => guard' = guard

LEMMA EndJobMoves ==
  ASSUME TypeOK, NEW w \in Workers, EndJob(w)
  PROVE  /\ at' \in [Workers -> Steps] /\ at'[w] \in {"idle", "list"}
         /\ \A u \in Workers \ {w} : at'[u] = at[u]
         /\ job' \in [Workers -> {"none", "notify", "retry"} \cup Requests]
         /\ req' \in [Requests -> {"none", "in_progress", "completed"}]
<1>1. /\ at' \in [Workers -> Steps] /\ at'[w] \in {"idle", "list"}
      /\ \A u \in Workers \ {w} : at'[u] = at[u]
  BY DEF TypeOK, EndJob, Goto, Steps
<1>2. job' \in [Workers -> {"none", "notify", "retry"} \cup Requests]
  BY SMTT(30) DEF TypeOK, EndJob
<1>3. req' \in [Requests -> {"none", "in_progress", "completed"}]
  BY DEF TypeOK, EndJob
<1> QED
  BY <1>1, <1>2, <1>3

LEMMA EndListMoves ==
  ASSUME TypeOK, NEW w \in Workers, EndList(w)
  PROVE  Moved(w) /\ at'[w] # "ready"
<1>1. guard' = Free \/ guard' = guard
  BY DEF EndList, Release
<1>2. /\ guard' \in [by : Workers \cup {None}, account : Accounts \cup {None}]
      /\ guard'.by = None => guard' = Free
      /\ guard' = guard \/ guard.by = w
  BY DEF TypeOK, EndList, Release, Free
<1>3. CASE notes[w] # {}
  BY <1>2, <1>3 DEF TypeOK, EndList, Goto, Moved, WorkTyped, Steps
<1>4. CASE notes[w] = {}
  BY <1>2, <1>4, EndJobMoves DEF TypeOK, EndList, Moved, WorkTyped
<1> QED
  BY <1>3, <1>4

LEMMA NextRecordMoves ==
  ASSUME TypeOK, NEW w \in Workers, NEW i, NextRecord(w, i)
  PROVE  Moved(w)
<1>1. CASE todo[w] = {i}
  BY <1>1, EndListMoves DEF NextRecord
<1>2. CASE todo[w] # {i}
  <2>1. /\ at' \in [Workers -> Steps] /\ at'[w] = "ready"
        /\ \A u \in Workers \ {w} : at'[u] = at[u]
    BY <1>2 DEF TypeOK, NextRecord, Goto, Steps
  <2>2. /\ todo' \in [Workers -> SUBSET Intents]
        /\ cur' \in [Workers -> Intents \cup {None}]
        /\ \A u \in Workers \ {w} : cur'[u] = cur[u]
        /\ UNCHANGED <<guard, job, req>>
    BY <1>2, SMTT(30) DEF TypeOK, NextRecord
  <2> QED
    BY <2>1, <2>2 DEF TypeOK, Moved, WorkTyped
<1> QED
  BY <1>1, <1>2

LEMMA CheckMoves ==
  ASSUME TypeOK, NEW w \in Workers, Check(w)
  PROVE  /\ WorkTyped'
         /\ \A u \in Workers \ {w} : at'[u] = at[u] /\ cur'[u] = cur[u]
         /\ at'[w] \in {"idle", "list", "notify", "guard"}
         /\ guard' = guard \/ guard.by = w
<1>1. CASE \A i \in todo[w] : count[i] < MaxAttempts
  BY <1>1 DEF TypeOK, Check, Goto, WorkTyped, Steps
<1>2. CASE ~\A i \in todo[w] : count[i] < MaxAttempts
  BY <1>2, EndListMoves DEF Check, Moved
<1> QED
  BY <1>1, <1>2

LEMMA ListMoves ==
  ASSUME TypeOK, NEW w \in Workers, List(w)
  PROVE  /\ WorkTyped'
         /\ \A u \in Workers \ {w} : at'[u] = at[u] /\ cur'[u] = cur[u]
         /\ at'[w] \in {"idle", "list", "notify", "guard"}
         /\ guard' = guard
<1>1. CASE Listed(w) = {}
  BY <1>1, EndJobMoves DEF List, TypeOK, WorkTyped
<1>2. CASE Listed(w) # {}
  <2>1. Listed(w) \subseteq Intents
    BY DEF Listed, Retriable
  <2> QED
    BY <1>2, <2>1 DEF List, TypeOK, WorkTyped, Goto, Steps
<1> QED
  BY <1>1, <1>2

LEMMA InitTyped == Init => TypeOK
BY DeliveryAssumption DEF Init, TypeOK, Free, W!WindowInit

LEMMA NextTyped ==
  ASSUME TypeOK, [Next]_vars
  PROVE  TypeOK'
<1> USE DEF TypeOK
<1> USE DEF fileVars, windowVars, workVars, mailVars
<1>1. ASSUME NEW i \in Intents, CreateIntent(i) PROVE TypeOK'
  BY <1>1 DEF CreateIntent
<1>2. ASSUME NEW i \in Intents, RunEnds(i) PROVE TypeOK'
  BY <1>2 DEF RunEnds
<1>3. ASSUME NEW i \in Intents, MarkFailed(i) PROVE TypeOK'
  BY <1>3 DEF MarkFailed
<1>4. ASSUME NEW i \in Intents, Arrives(i) PROVE TypeOK'
  BY <1>4 DEF Arrives
<1>5. ASSUME NEW w \in Workers, Notify(w) PROVE TypeOK'
  BY <1>5 DEF Notify, Goto
<1>6. ASSUME NEW w \in Workers, Check(w) PROVE TypeOK'
  BY <1>6, CheckMoves DEF Check, WorkTyped, Steps
<1>7. ASSUME NEW w \in Workers, List(w) PROVE TypeOK'
  BY <1>7, ListMoves DEF List, WorkTyped, Steps
<1>8. ASSUME NEW w \in Workers, TakeGuard(w) PROVE TypeOK'
  BY <1>8, DeliveryAssumption DEF TakeGuard, Goto
<1>9. ASSUME NEW w \in Workers, Refused(w) PROVE TypeOK'
  <2>1. Moved(w)
    BY <1>9, EndListMoves DEF Refused
  <2> QED
    BY <1>9, <2>1 DEF Refused, Moved, WorkTyped, Steps
<1>10. ASSUME NEW w \in Workers, HandOver(w) PROVE TypeOK'
  BY <1>10 DEF HandOver, Goto
<1>11. ASSUME NEW w \in Workers, NotHandedOver(w) PROVE TypeOK'
  <2>1. Moved(w)
    BY <1>11, NextRecordMoves DEF NotHandedOver
  <2> QED
    BY <1>11, <2>1 DEF NotHandedOver, Moved, WorkTyped, Steps
<1>12. ASSUME NEW w \in Workers, Received(w) PROVE TypeOK'
  <2>1. cur[w] \in Intents
    BY <1>12 DEF Received
  <2>2. copies' \in [Intents -> Nat]
    BY <1>12, <2>1 DEF Received
  <2> QED
    BY <1>12, <2>2 DEF Received
<1>13. ASSUME NEW w \in Workers, Rejected(w) PROVE TypeOK'
  BY <1>13 DEF Rejected
<1>14. ASSUME NEW w \in Workers, Mark(w) PROVE TypeOK'
  <2>1. Moved(w)
    BY <1>14, NextRecordMoves DEF Mark
  <2>2. cur[w] \in Intents
    BY <1>14 DEF Mark
  <2>3. CASE answer[w] = "sent"
    <3>1. Outcome(w) = [s |-> "sent", account |-> guard.account]
      BY <2>3 DEF Outcome
    <3>2. state' = [state EXCEPT ![cur[w]] = "sent"] /\ to' = [to EXCEPT ![cur[w]] = guard.account]
      BY <1>14, <3>1 DEF Mark
    <3>3. /\ state' \in [Intents -> {"none", "waiting_report", "pending", "unknown", "sent", "failed"}]
          /\ to' \in [Intents -> Accounts \cup {None}]
      BY <2>2, <3>2
    <3>4. answer' \in [Workers -> {"none", "sent", "rejected"}]
      BY <1>14 DEF Mark
    <3> QED
      BY <1>14, <2>1, <3>3, <3>4, SMTT(30) DEF Mark, Moved, WorkTyped, Steps
  <2>4. CASE answer[w] # "sent"
    <3>1. Outcome(w) = [s |-> "pending", account |-> to[cur[w]]]
      BY <2>4 DEF Outcome
    <3>2. state' = [state EXCEPT ![cur[w]] = "pending"] /\ to' = to
      BY <1>14, <2>2, <3>1 DEF Mark
    <3>3. /\ state' \in [Intents -> {"none", "waiting_report", "pending", "unknown", "sent", "failed"}]
          /\ to' \in [Intents -> Accounts \cup {None}]
      BY <2>2, <3>2
    <3>4. answer' \in [Workers -> {"none", "sent", "rejected"}]
      BY <1>14 DEF Mark
    <3> QED
      BY <1>14, <2>1, <3>3, <3>4, SMTT(30) DEF Mark, Moved, WorkTyped, Steps
  <2> QED
    BY <2>3, <2>4
<1>15. ASSUME NEW w \in Workers, GiveUp(w) PROVE TypeOK'
  <2>1. Moved(w)
    BY <1>15, NextRecordMoves DEF GiveUp
  <2>2. cur[w] \in Intents
    BY <1>15 DEF GiveUp
  <2>3. late' \in [Intents -> Nat]
    BY <1>15, <2>2 DEF GiveUp
  <2> QED
    BY <1>15, <2>1, <2>3 DEF GiveUp, Moved, WorkTyped, Steps
<1>16. ASSUME NEW w \in Workers, NEW i \in Intents, BeginAttempt(w, i) PROVE TypeOK'
  BY <1>16, DeliveryAssumption DEF BeginAttempt, Goto
<1>17. ASSUME NEW w \in Workers, NEW i \in Intents, Skip(w, i) PROVE TypeOK'
  <2>1. Moved(w)
    BY <1>17, NextRecordMoves DEF Skip
  <2> QED
    BY <1>17, <2>1 DEF Skip, Moved, WorkTyped, Steps
<1>18. ASSUME NEW w \in Workers, RetryPending(w) PROVE TypeOK'
  BY <1>18 DEF RetryPending, Start, Goto, Retriable
<1>19. ASSUME NEW w \in Workers, NEW i \in Intents, QueueNotifies(w, i) PROVE TypeOK'
  BY <1>19 DEF QueueNotifies, Start, Goto
<1>20. ASSUME NEW w \in Workers, NEW r \in Requests, ManualRetry(w, r) PROVE TypeOK'
  BY <1>20 DEF ManualRetry, Start, Goto
<1>21. ASSUME NEW w \in Workers, Raise(w) PROVE TypeOK'
  <2>1. /\ guard' \in [by : Workers \cup {None}, account : Accounts \cup {None}]
        /\ guard'.by = None => guard' = Free
    BY <1>21 DEF Raise, Release, Free
  <2>2. at' \in [Workers -> Steps] /\ job' \in [Workers -> {"none", "notify", "retry"} \cup Requests]
    BY <1>21 DEF Raise, Goto, Steps
  <2>3. \A u \in Workers : at'[u] \in {"text", "sending"} => at'[u] = at[u] /\ cur'[u] = cur[u]
    BY <1>21 DEF Raise, Goto
  <2>4. faults' \in 0 .. MaxFaults
    BY <1>21, DeliveryAssumption DEF Raise
  <2> QED
    BY <1>21, <2>1, <2>2, <2>3, <2>4 DEF Raise, Steps
<1>22. ASSUME WatcherRound PROVE TypeOK'
  <2>1. /\ at' \in [Workers -> Steps] /\ at'[Watcher] \in {"list", "notify"}
        /\ \A u \in Workers \ {Watcher} : at'[u] = at[u]
    BY <1>22, DeliveryAssumption, SMTT(30) DEF WatcherRound, Start, Goto, Steps
  <2>2. job' \in [Workers -> {"none", "notify", "retry"} \cup Requests]
    BY <1>22 DEF WatcherRound, Start
  <2>3. notes' \in [Workers -> SUBSET Intents]
    BY <1>22 DEF WatcherRound, Overdue
  <2>4. state' \in [Intents -> {"none", "waiting_report", "pending", "unknown", "sent", "failed"}]
    BY <1>22 DEF WatcherRound
  <2> QED
    BY <1>22, <2>1, <2>2, <2>3, <2>4 DEF WatcherRound, Steps
<1>23. ASSUME Reconnect PROVE TypeOK'
  BY <1>23, ZenonT(60) DEF Reconnect, W!WindowNext, W!Close, W!Change, W!Reopen
<1>24. ASSUME Crash PROVE TypeOK'
  <2>1. late' \in [Intents -> Nat]
    BY <1>24 DEF Crash
  <2>2. guard' = Free /\ Free \in [by : Workers \cup {None}, account : Accounts \cup {None}]
    BY <1>24 DEF Crash, Free
  <2>3. faults' \in 0 .. MaxFaults
    BY <1>24, DeliveryAssumption DEF Crash
  <2>4. run' \in [Intents -> {"none", "going", "completed", "failed", "lost"}]
    BY <1>24 DEF Crash
  <2> QED
    BY <1>24, <2>1, <2>2, <2>3, <2>4 DEF Crash
<1>25. CASE UNCHANGED vars
  BY <1>25 DEF vars
<1> QED
  BY <1>1, <1>2, <1>3, <1>4, <1>5, <1>6, <1>7, <1>8, <1>9, <1>10, <1>11, <1>12, <1>13, <1>14, <1>15, <1>16, <1>17, <1>18, <1>19, <1>20, <1>21, <1>22, <1>23, <1>24, <1>25 DEF Next, Report, Work, Job

-----------------------------------------------------------------------------
(* The inductive invariant. *)

\* An attempt is under way only on a record that says its result is unknown.
Working == \A w \in Workers : at[w] \in {"text", "sending"} => state[cur[w]] = "unknown"

\* Only finished reports are announced.
Announced == \A w \in Workers : \A i \in notes[w] : run[i] = "completed"

\* A record leaves its waiting state for a report that is finished, or has failed.
Finished ==
  \A i \in Intents :
    /\ state[i] = "none" => run[i] = "none"
    /\ state[i] \in {"pending", "unknown", "sent"} => run[i] = "completed"

\* What a worker knows of the message it waits for.
Answers ==
  \A w \in Workers :
    /\ at[w] # "sending" => answer[w] = "none"
    /\ at[w] = "sending" => guard.account \in handed[cur[w]]
    /\ answer[w] = "sent" => copies[cur[w]] > 0

\* A message may be added where the record does not say that one might have arrived,
\* or where the worker's own is the one it tells of.
Budget ==
  /\ NoUnaskedDuplicate
  /\ \A i \in Intents :
       state[i] \in {"none", "waiting_report", "pending"} => copies[i] + late[i] <= retries[i]
  /\ \A w \in Workers :
       at[w] \in {"text", "sending"} /\ answer[w] # "sent" =>
         copies[cur[w]] + late[cur[w]] <= retries[cur[w]]

Truth == \A i \in Intents : state[i] = "sent" => copies[i] > 0 /\ to[i] \in handed[i]

IInv == TypeOK /\ SendsInWindow /\ Working /\ Announced /\ Finished /\ Answers /\ Budget /\ Truth

LEMMA InitIInv == Init => IInv
<1> SUFFICES ASSUME Init PROVE IInv
  OBVIOUS
<1>1. TypeOK
  BY InitTyped
<1>2. SendsInWindow /\ Working /\ Announced /\ Answers
  BY DEF Init, SendsInWindow, Working, Announced, Answers
<1>3. Finished /\ Truth
  BY DEF Init, Finished, Truth
<1>4. Budget
  BY DEF Init, Budget, NoUnaskedDuplicate
<1> QED
  BY <1>1, <1>2, <1>3, <1>4 DEF IInv

LEMMA SendsInWindowKept ==
  ASSUME TypeOK, SendsInWindow, [Next]_vars
  PROVE  SendsInWindow'
<1> USE DeliveryAssumption DEF TypeOK, SendsInWindow, fileVars, windowVars, workVars, mailVars
<1>1. ASSUME NEW i \in Intents, CreateIntent(i) PROVE SendsInWindow'
  BY <1>1 DEF CreateIntent
<1>2. ASSUME NEW i \in Intents, RunEnds(i) PROVE SendsInWindow'
  BY <1>2 DEF RunEnds
<1>3. ASSUME NEW i \in Intents, MarkFailed(i) PROVE SendsInWindow'
  BY <1>3 DEF MarkFailed
<1>4. ASSUME NEW i \in Intents, Arrives(i) PROVE SendsInWindow'
  BY <1>4 DEF Arrives
<1>5. ASSUME NEW w \in Workers, Notify(w) PROVE SendsInWindow'
  BY <1>5 DEF Notify, Goto
<1>6. ASSUME NEW w \in Workers, Check(w) PROVE SendsInWindow'
  BY <1>6, CheckMoves, SMTT(30) DEF Check
<1>7. ASSUME NEW w \in Workers, List(w) PROVE SendsInWindow'
  BY <1>7, ListMoves DEF List
<1>8. ASSUME NEW w \in Workers, TakeGuard(w) PROVE SendsInWindow'
  <2>1. \A u \in Workers : at[u] \notin {"ready", "text", "sending"}
    BY <1>8 DEF TakeGuard, MayDeliver
  <2>2. \A u \in Workers \ {w} : at'[u] = at[u]
    BY <1>8 DEF TakeGuard, Goto
  <2>3. guard' = [by |-> w, account |-> account] /\ open' /\ account' # None /\ account' = account
    BY <1>8 DEF TakeGuard, MayDeliver
  <2> QED
    BY <2>1, <2>2, <2>3
<1>9. ASSUME NEW w \in Workers, Refused(w) PROVE SendsInWindow'
  <2>1. Moved(w) /\ at'[w] # "ready"
    BY <1>9, EndListMoves DEF Refused
  <2> QED
    BY <1>9, <2>1 DEF Refused, Moved
<1>10. ASSUME NEW w \in Workers, HandOver(w) PROVE SendsInWindow'
  BY <1>10 DEF HandOver, Goto
<1>11. ASSUME NEW w \in Workers, NotHandedOver(w) PROVE SendsInWindow'
  <2>1. Moved(w)
    BY <1>11, NextRecordMoves DEF NotHandedOver
  <2> QED
    BY <1>11, <2>1 DEF NotHandedOver, Moved
<1>12. ASSUME NEW w \in Workers, Received(w) PROVE SendsInWindow'
  BY <1>12 DEF Received
<1>13. ASSUME NEW w \in Workers, Rejected(w) PROVE SendsInWindow'
  BY <1>13 DEF Rejected
<1>14. ASSUME NEW w \in Workers, Mark(w) PROVE SendsInWindow'
  <2>1. Moved(w)
    BY <1>14, NextRecordMoves DEF Mark
  <2> QED
    BY <1>14, <2>1 DEF Mark, Moved, Outcome
<1>15. ASSUME NEW w \in Workers, GiveUp(w) PROVE SendsInWindow'
  <2>1. Moved(w)
    BY <1>15, NextRecordMoves DEF GiveUp
  <2> QED
    BY <1>15, <2>1 DEF GiveUp, Moved
<1>16. ASSUME NEW w \in Workers, NEW i \in Intents, BeginAttempt(w, i) PROVE SendsInWindow'
  BY <1>16 DEF BeginAttempt, Goto
<1>17. ASSUME NEW w \in Workers, NEW i \in Intents, Skip(w, i) PROVE SendsInWindow'
  <2>1. Moved(w)
    BY <1>17, NextRecordMoves DEF Skip
  <2> QED
    BY <1>17, <2>1 DEF Skip, Moved
<1>18. ASSUME NEW w \in Workers, RetryPending(w) PROVE SendsInWindow'
  BY <1>18 DEF RetryPending, Start, Goto, Retriable
<1>19. ASSUME NEW w \in Workers, NEW i \in Intents, QueueNotifies(w, i) PROVE SendsInWindow'
  BY <1>19 DEF QueueNotifies, Start, Goto
<1>20. ASSUME NEW w \in Workers, NEW r \in Requests, ManualRetry(w, r) PROVE SendsInWindow'
  BY <1>20 DEF ManualRetry, Start, Goto
<1>21. ASSUME NEW w \in Workers, Raise(w) PROVE SendsInWindow'
  BY <1>21 DEF Raise, Release, Goto, Free
<1>22. ASSUME WatcherRound PROVE SendsInWindow'
  BY <1>22 DEF WatcherRound, Start, Goto, Overdue
<1>23. ASSUME Reconnect PROVE SendsInWindow'
  BY <1>23 DEF Reconnect, W!WindowNext, W!Close, W!Change, W!Reopen
<1>24. ASSUME Crash PROVE SendsInWindow'
  BY <1>24 DEF Crash, Free
<1>25. CASE UNCHANGED vars
  BY <1>25 DEF vars
<1> QED
  BY <1>1, <1>2, <1>3, <1>4, <1>5, <1>6, <1>7, <1>8, <1>9, <1>10, <1>11, <1>12, <1>13, <1>14, <1>15, <1>16, <1>17, <1>18, <1>19, <1>20, <1>21, <1>22, <1>23, <1>24, <1>25 DEF Next, Report, Work, Job

LEMMA WorkingKept ==
  ASSUME TypeOK, SendsInWindow, Working, Finished, [Next]_vars
  PROVE  Working'
<1> USE DeliveryAssumption DEF TypeOK, SendsInWindow, Working, Finished, fileVars, windowVars, workVars, mailVars
<1>1. ASSUME NEW i \in Intents, CreateIntent(i) PROVE Working'
  BY <1>1 DEF CreateIntent
<1>2. ASSUME NEW i \in Intents, RunEnds(i) PROVE Working'
  BY <1>2 DEF RunEnds
<1>3. ASSUME NEW i \in Intents, MarkFailed(i) PROVE Working'
  BY <1>3 DEF MarkFailed
<1>4. ASSUME NEW i \in Intents, Arrives(i) PROVE Working'
  BY <1>4 DEF Arrives
<1>5. ASSUME NEW w \in Workers, Notify(w) PROVE Working'
  BY <1>5 DEF Notify, Goto
<1>6. ASSUME NEW w \in Workers, Check(w) PROVE Working'
  BY <1>6, CheckMoves DEF Check
<1>7. ASSUME NEW w \in Workers, List(w) PROVE Working'
  BY <1>7, ListMoves DEF List
<1>8. ASSUME NEW w \in Workers, TakeGuard(w) PROVE Working'
  BY <1>8 DEF TakeGuard, Goto
<1>9. ASSUME NEW w \in Workers, Refused(w) PROVE Working'
  <2>1. Moved(w) /\ at'[w] # "ready"
    BY <1>9, EndListMoves DEF Refused
  <2> QED
    BY <1>9, <2>1 DEF Refused, Moved
<1>10. ASSUME NEW w \in Workers, HandOver(w) PROVE Working'
  BY <1>10 DEF HandOver, Goto
<1>11. ASSUME NEW w \in Workers, NotHandedOver(w) PROVE Working'
  <2>1. Moved(w)
    BY <1>11, NextRecordMoves DEF NotHandedOver
  <2> QED
    BY <1>11, <2>1 DEF NotHandedOver, Moved
<1>12. ASSUME NEW w \in Workers, Received(w) PROVE Working'
  BY <1>12 DEF Received
<1>13. ASSUME NEW w \in Workers, Rejected(w) PROVE Working'
  BY <1>13 DEF Rejected
<1>14. ASSUME NEW w \in Workers, Mark(w) PROVE Working'
  <2>1. Moved(w)
    BY <1>14, NextRecordMoves DEF Mark
  <2> QED
    BY <1>14, <2>1 DEF Mark, Moved, Outcome
<1>15. ASSUME NEW w \in Workers, GiveUp(w) PROVE Working'
  <2>1. Moved(w)
    BY <1>15, NextRecordMoves DEF GiveUp
  <2> QED
    BY <1>15, <2>1 DEF GiveUp, Moved
<1>16. ASSUME NEW w \in Workers, NEW i \in Intents, BeginAttempt(w, i) PROVE Working'
  BY <1>16 DEF BeginAttempt, Goto
<1>17. ASSUME NEW w \in Workers, NEW i \in Intents, Skip(w, i) PROVE Working'
  <2>1. Moved(w)
    BY <1>17, NextRecordMoves DEF Skip
  <2> QED
    BY <1>17, <2>1 DEF Skip, Moved
<1>18. ASSUME NEW w \in Workers, RetryPending(w) PROVE Working'
  BY <1>18 DEF RetryPending, Start, Goto, Retriable
<1>19. ASSUME NEW w \in Workers, NEW i \in Intents, QueueNotifies(w, i) PROVE Working'
  BY <1>19 DEF QueueNotifies, Start, Goto
<1>20. ASSUME NEW w \in Workers, NEW r \in Requests, ManualRetry(w, r) PROVE Working'
  BY <1>20 DEF ManualRetry, Start, Goto
<1>21. ASSUME NEW w \in Workers, Raise(w) PROVE Working'
  BY <1>21 DEF Raise, Release, Goto, Free
<1>22. ASSUME WatcherRound PROVE Working'
  <2>1. \A w \in Workers : at'[w] \in {"text", "sending"} => at'[w] = at[w] /\ cur'[w] = cur[w]
    BY <1>22 DEF WatcherRound, Start, Goto
  <2>2. \A i \in Intents : state[i] = "unknown" => i \notin Doomed
    BY DEF Doomed
  <2>3. \A i \in Intents : state[i] = "unknown" => state'[i] = "unknown"
    BY <1>22, <2>2 DEF WatcherRound
  <2> QED
    BY <2>1, <2>3
<1>23. ASSUME Reconnect PROVE Working'
  BY <1>23 DEF Reconnect, W!WindowNext, W!Close, W!Change, W!Reopen
<1>24. ASSUME Crash PROVE Working'
  BY <1>24 DEF Crash, Free
<1>25. CASE UNCHANGED vars
  BY <1>25 DEF vars
<1> QED
  BY <1>1, <1>2, <1>3, <1>4, <1>5, <1>6, <1>7, <1>8, <1>9, <1>10, <1>11, <1>12, <1>13, <1>14, <1>15, <1>16, <1>17, <1>18, <1>19, <1>20, <1>21, <1>22, <1>23, <1>24, <1>25 DEF Next, Report, Work, Job

LEMMA FinishedKept ==
  ASSUME TypeOK, Announced, Working, Finished, [Next]_vars
  PROVE  Finished'
<1> USE DeliveryAssumption DEF TypeOK, Announced, Working, Finished, fileVars, windowVars, workVars, mailVars
<1>1. ASSUME NEW i \in Intents, CreateIntent(i) PROVE Finished'
  BY <1>1 DEF CreateIntent
<1>2. ASSUME NEW i \in Intents, RunEnds(i) PROVE Finished'
  BY <1>2 DEF RunEnds
<1>3. ASSUME NEW i \in Intents, MarkFailed(i) PROVE Finished'
  BY <1>3 DEF MarkFailed
<1>4. ASSUME NEW i \in Intents, Arrives(i) PROVE Finished'
  BY <1>4 DEF Arrives
<1>5. ASSUME NEW w \in Workers, Notify(w) PROVE Finished'
  BY <1>5 DEF Notify, Goto
<1>6. ASSUME NEW w \in Workers, Check(w) PROVE Finished'
  BY <1>6, CheckMoves DEF Check
<1>7. ASSUME NEW w \in Workers, List(w) PROVE Finished'
  BY <1>7, ListMoves DEF List
<1>8. ASSUME NEW w \in Workers, TakeGuard(w) PROVE Finished'
  BY <1>8 DEF TakeGuard, Goto
<1>9. ASSUME NEW w \in Workers, Refused(w) PROVE Finished'
  <2>1. Moved(w) /\ at'[w] # "ready"
    BY <1>9, EndListMoves DEF Refused
  <2> QED
    BY <1>9, <2>1 DEF Refused, Moved
<1>10. ASSUME NEW w \in Workers, HandOver(w) PROVE Finished'
  BY <1>10 DEF HandOver, Goto
<1>11. ASSUME NEW w \in Workers, NotHandedOver(w) PROVE Finished'
  <2>1. Moved(w)
    BY <1>11, NextRecordMoves DEF NotHandedOver
  <2> QED
    BY <1>11, <2>1 DEF NotHandedOver, Moved
<1>12. ASSUME NEW w \in Workers, Received(w) PROVE Finished'
  BY <1>12 DEF Received
<1>13. ASSUME NEW w \in Workers, Rejected(w) PROVE Finished'
  BY <1>13 DEF Rejected
<1>14. ASSUME NEW w \in Workers, Mark(w) PROVE Finished'
  <2>1. Moved(w)
    BY <1>14, NextRecordMoves DEF Mark
  <2> QED
    BY <1>14, <2>1 DEF Mark, Moved, Outcome
<1>15. ASSUME NEW w \in Workers, GiveUp(w) PROVE Finished'
  <2>1. Moved(w)
    BY <1>15, NextRecordMoves DEF GiveUp
  <2> QED
    BY <1>15, <2>1 DEF GiveUp, Moved
<1>16. ASSUME NEW w \in Workers, NEW i \in Intents, BeginAttempt(w, i) PROVE Finished'
  BY <1>16 DEF BeginAttempt, Attemptable, Goto
<1>17. ASSUME NEW w \in Workers, NEW i \in Intents, Skip(w, i) PROVE Finished'
  <2>1. Moved(w)
    BY <1>17, NextRecordMoves DEF Skip
  <2> QED
    BY <1>17, <2>1 DEF Skip, Moved
<1>18. ASSUME NEW w \in Workers, RetryPending(w) PROVE Finished'
  BY <1>18 DEF RetryPending, Start, Goto, Retriable
<1>19. ASSUME NEW w \in Workers, NEW i \in Intents, QueueNotifies(w, i) PROVE Finished'
  BY <1>19 DEF QueueNotifies, Start, Goto
<1>20. ASSUME NEW w \in Workers, NEW r \in Requests, ManualRetry(w, r) PROVE Finished'
  BY <1>20 DEF ManualRetry, Start, Goto
<1>21. ASSUME NEW w \in Workers, Raise(w) PROVE Finished'
  BY <1>21 DEF Raise, Release, Goto, Free
<1>22. ASSUME WatcherRound PROVE Finished'
  BY <1>22 DEF WatcherRound, Start, Goto, Overdue
<1>23. ASSUME Reconnect PROVE Finished'
  BY <1>23 DEF Reconnect, W!WindowNext, W!Close, W!Change, W!Reopen
<1>24. ASSUME Crash PROVE Finished'
  BY <1>24 DEF Crash, Free
<1>25. CASE UNCHANGED vars
  BY <1>25 DEF vars
<1> QED
  BY <1>1, <1>2, <1>3, <1>4, <1>5, <1>6, <1>7, <1>8, <1>9, <1>10, <1>11, <1>12, <1>13, <1>14, <1>15, <1>16, <1>17, <1>18, <1>19, <1>20, <1>21, <1>22, <1>23, <1>24, <1>25 DEF Next, Report, Work, Job

LEMMA AnnouncedKept ==
  ASSUME TypeOK, Announced, Finished, [Next]_vars
  PROVE  Announced'
<1> USE DeliveryAssumption DEF TypeOK, Announced, Finished, fileVars, windowVars, workVars, mailVars
<1>1. ASSUME NEW i \in Intents, CreateIntent(i) PROVE Announced'
  BY <1>1 DEF CreateIntent
<1>2. ASSUME NEW i \in Intents, RunEnds(i) PROVE Announced'
  BY <1>2 DEF RunEnds
<1>3. ASSUME NEW i \in Intents, MarkFailed(i) PROVE Announced'
  BY <1>3 DEF MarkFailed
<1>4. ASSUME NEW i \in Intents, Arrives(i) PROVE Announced'
  BY <1>4 DEF Arrives
<1>5. ASSUME NEW w \in Workers, Notify(w) PROVE Announced'
  BY <1>5 DEF Notify, Goto
<1>6. ASSUME NEW w \in Workers, Check(w) PROVE Announced'
  BY <1>6, CheckMoves DEF Check
<1>7. ASSUME NEW w \in Workers, List(w) PROVE Announced'
  BY <1>7, ListMoves DEF List
<1>8. ASSUME NEW w \in Workers, TakeGuard(w) PROVE Announced'
  BY <1>8 DEF TakeGuard, Goto
<1>9. ASSUME NEW w \in Workers, Refused(w) PROVE Announced'
  <2>1. Moved(w) /\ at'[w] # "ready"
    BY <1>9, EndListMoves DEF Refused
  <2> QED
    BY <1>9, <2>1 DEF Refused, Moved
<1>10. ASSUME NEW w \in Workers, HandOver(w) PROVE Announced'
  BY <1>10 DEF HandOver, Goto
<1>11. ASSUME NEW w \in Workers, NotHandedOver(w) PROVE Announced'
  <2>1. Moved(w)
    BY <1>11, NextRecordMoves DEF NotHandedOver
  <2> QED
    BY <1>11, <2>1 DEF NotHandedOver, Moved
<1>12. ASSUME NEW w \in Workers, Received(w) PROVE Announced'
  BY <1>12 DEF Received
<1>13. ASSUME NEW w \in Workers, Rejected(w) PROVE Announced'
  BY <1>13 DEF Rejected
<1>14. ASSUME NEW w \in Workers, Mark(w) PROVE Announced'
  <2>1. Moved(w)
    BY <1>14, NextRecordMoves DEF Mark
  <2> QED
    BY <1>14, <2>1 DEF Mark, Moved, Outcome
<1>15. ASSUME NEW w \in Workers, GiveUp(w) PROVE Announced'
  <2>1. Moved(w)
    BY <1>15, NextRecordMoves DEF GiveUp
  <2> QED
    BY <1>15, <2>1 DEF GiveUp, Moved
<1>16. ASSUME NEW w \in Workers, NEW i \in Intents, BeginAttempt(w, i) PROVE Announced'
  BY <1>16 DEF BeginAttempt, Goto
<1>17. ASSUME NEW w \in Workers, NEW i \in Intents, Skip(w, i) PROVE Announced'
  <2>1. Moved(w)
    BY <1>17, NextRecordMoves DEF Skip
  <2> QED
    BY <1>17, <2>1 DEF Skip, Moved
<1>18. ASSUME NEW w \in Workers, RetryPending(w) PROVE Announced'
  BY <1>18 DEF RetryPending, Start, Goto, Retriable
<1>19. ASSUME NEW w \in Workers, NEW i \in Intents, QueueNotifies(w, i) PROVE Announced'
  BY <1>19 DEF QueueNotifies, Start, Goto
<1>20. ASSUME NEW w \in Workers, NEW r \in Requests, ManualRetry(w, r) PROVE Announced'
  BY <1>20 DEF ManualRetry, Start, Goto
<1>21. ASSUME NEW w \in Workers, Raise(w) PROVE Announced'
  BY <1>21 DEF Raise, Release, Goto, Free
<1>22. ASSUME WatcherRound PROVE Announced'
  BY <1>22 DEF WatcherRound, Start, Goto, Overdue
<1>23. ASSUME Reconnect PROVE Announced'
  BY <1>23 DEF Reconnect, W!WindowNext, W!Close, W!Change, W!Reopen
<1>24. ASSUME Crash PROVE Announced'
  BY <1>24 DEF Crash, Free
<1>25. CASE UNCHANGED vars
  BY <1>25 DEF vars
<1> QED
  BY <1>1, <1>2, <1>3, <1>4, <1>5, <1>6, <1>7, <1>8, <1>9, <1>10, <1>11, <1>12, <1>13, <1>14, <1>15, <1>16, <1>17, <1>18, <1>19, <1>20, <1>21, <1>22, <1>23, <1>24, <1>25 DEF Next, Report, Work, Job

LEMMA AnswersKept ==
  ASSUME TypeOK, SendsInWindow, Answers, [Next]_vars
  PROVE  Answers'
<1> USE DeliveryAssumption DEF TypeOK, SendsInWindow, Answers, fileVars, windowVars, workVars, mailVars
<1>1. ASSUME NEW i \in Intents, CreateIntent(i) PROVE Answers'
  BY <1>1 DEF CreateIntent
<1>2. ASSUME NEW i \in Intents, RunEnds(i) PROVE Answers'
  BY <1>2 DEF RunEnds
<1>3. ASSUME NEW i \in Intents, MarkFailed(i) PROVE Answers'
  BY <1>3 DEF MarkFailed
<1>4. ASSUME NEW i \in Intents, Arrives(i) PROVE Answers'
  BY <1>4 DEF Arrives
<1>5. ASSUME NEW w \in Workers, Notify(w) PROVE Answers'
  BY <1>5 DEF Notify, Goto
<1>6. ASSUME NEW w \in Workers, Check(w) PROVE Answers'
  BY <1>6, CheckMoves DEF Check
<1>7. ASSUME NEW w \in Workers, List(w) PROVE Answers'
  BY <1>7, ListMoves DEF List
<1>8. ASSUME NEW w \in Workers, TakeGuard(w) PROVE Answers'
  BY <1>8 DEF TakeGuard, Goto
<1>9. ASSUME NEW w \in Workers, Refused(w) PROVE Answers'
  <2>1. Moved(w) /\ at'[w] # "ready"
    BY <1>9, EndListMoves DEF Refused
  <2> QED
    BY <1>9, <2>1 DEF Refused, Moved
<1>10. ASSUME NEW w \in Workers, HandOver(w) PROVE Answers'
  BY <1>10 DEF HandOver, Goto
<1>11. ASSUME NEW w \in Workers, NotHandedOver(w) PROVE Answers'
  <2>1. Moved(w)
    BY <1>11, NextRecordMoves DEF NotHandedOver
  <2> QED
    BY <1>11, <2>1 DEF NotHandedOver, Moved
<1>12. ASSUME NEW w \in Workers, Received(w) PROVE Answers'
  BY <1>12 DEF Received
<1>13. ASSUME NEW w \in Workers, Rejected(w) PROVE Answers'
  BY <1>13 DEF Rejected
<1>14. ASSUME NEW w \in Workers, Mark(w) PROVE Answers'
  <2>1. Moved(w)
    BY <1>14, NextRecordMoves DEF Mark
  <2> QED
    BY <1>14, <2>1 DEF Mark, Moved, Outcome
<1>15. ASSUME NEW w \in Workers, GiveUp(w) PROVE Answers'
  <2>1. Moved(w)
    BY <1>15, NextRecordMoves DEF GiveUp
  <2> QED
    BY <1>15, <2>1 DEF GiveUp, Moved
<1>16. ASSUME NEW w \in Workers, NEW i \in Intents, BeginAttempt(w, i) PROVE Answers'
  BY <1>16 DEF BeginAttempt, Goto
<1>17. ASSUME NEW w \in Workers, NEW i \in Intents, Skip(w, i) PROVE Answers'
  <2>1. Moved(w)
    BY <1>17, NextRecordMoves DEF Skip
  <2> QED
    BY <1>17, <2>1 DEF Skip, Moved
<1>18. ASSUME NEW w \in Workers, RetryPending(w) PROVE Answers'
  BY <1>18 DEF RetryPending, Start, Goto, Retriable
<1>19. ASSUME NEW w \in Workers, NEW i \in Intents, QueueNotifies(w, i) PROVE Answers'
  BY <1>19 DEF QueueNotifies, Start, Goto
<1>20. ASSUME NEW w \in Workers, NEW r \in Requests, ManualRetry(w, r) PROVE Answers'
  BY <1>20 DEF ManualRetry, Start, Goto
<1>21. ASSUME NEW w \in Workers, Raise(w) PROVE Answers'
  BY <1>21 DEF Raise, Release, Goto, Free
<1>22. ASSUME WatcherRound PROVE Answers'
  BY <1>22 DEF WatcherRound, Start, Goto, Overdue
<1>23. ASSUME Reconnect PROVE Answers'
  BY <1>23 DEF Reconnect, W!WindowNext, W!Close, W!Change, W!Reopen
<1>24. ASSUME Crash PROVE Answers'
  BY <1>24 DEF Crash, Free
<1>25. CASE UNCHANGED vars
  BY <1>25 DEF vars
<1> QED
  BY <1>1, <1>2, <1>3, <1>4, <1>5, <1>6, <1>7, <1>8, <1>9, <1>10, <1>11, <1>12, <1>13, <1>14, <1>15, <1>16, <1>17, <1>18, <1>19, <1>20, <1>21, <1>22, <1>23, <1>24, <1>25 DEF Next, Report, Work, Job

LEMMA BudgetKept ==
  ASSUME TypeOK, SendsInWindow, Working, Answers, Budget, [Next]_vars
  PROVE  Budget'
<1> USE DeliveryAssumption DEF TypeOK, SendsInWindow, Working, Answers, Budget, NoUnaskedDuplicate, fileVars, windowVars, workVars, mailVars
<1>1. ASSUME NEW i \in Intents, CreateIntent(i) PROVE Budget'
  BY <1>1 DEF CreateIntent
<1>2. ASSUME NEW i \in Intents, RunEnds(i) PROVE Budget'
  BY <1>2 DEF RunEnds
<1>3. ASSUME NEW i \in Intents, MarkFailed(i) PROVE Budget'
  BY <1>3 DEF MarkFailed
<1>4. ASSUME NEW i \in Intents, Arrives(i) PROVE Budget'
  BY <1>4 DEF Arrives
<1>5. ASSUME NEW w \in Workers, Notify(w) PROVE Budget'
  BY <1>5 DEF Notify, Goto
<1>6. ASSUME NEW w \in Workers, Check(w) PROVE Budget'
  BY <1>6, CheckMoves DEF Check
<1>7. ASSUME NEW w \in Workers, List(w) PROVE Budget'
  BY <1>7, ListMoves DEF List
<1>8. ASSUME NEW w \in Workers, TakeGuard(w) PROVE Budget'
  BY <1>8 DEF TakeGuard, Goto
<1>9. ASSUME NEW w \in Workers, Refused(w) PROVE Budget'
  <2>1. Moved(w) /\ at'[w] # "ready"
    BY <1>9, EndListMoves DEF Refused
  <2> QED
    BY <1>9, <2>1 DEF Refused, Moved
<1>10. ASSUME NEW w \in Workers, HandOver(w) PROVE Budget'
  BY <1>10 DEF HandOver, Goto
<1>11. ASSUME NEW w \in Workers, NotHandedOver(w) PROVE Budget'
  <2>1. Moved(w)
    BY <1>11, NextRecordMoves DEF NotHandedOver
  <2> QED
    BY <1>11, <2>1 DEF NotHandedOver, Moved
<1>12. ASSUME NEW w \in Workers, Received(w) PROVE Budget'
  BY <1>12 DEF Received
<1>13. ASSUME NEW w \in Workers, Rejected(w) PROVE Budget'
  BY <1>13 DEF Rejected
<1>14. ASSUME NEW w \in Workers, Mark(w) PROVE Budget'
  <2>1. Moved(w)
    BY <1>14, NextRecordMoves DEF Mark
  <2> QED
    BY <1>14, <2>1 DEF Mark, Moved, Outcome
<1>15. ASSUME NEW w \in Workers, GiveUp(w) PROVE Budget'
  <2>1. Moved(w)
    BY <1>15, NextRecordMoves DEF GiveUp
  <2>2. cur[w] \in Intents /\ state[cur[w]] = "unknown"
    BY <1>15 DEF GiveUp
  <2>3. /\ \A i \in Intents \ {cur[w]} : late'[i] = late[i]
        /\ late'[cur[w]] = late[cur[w]] \/ (answer[w] # "sent" /\ late'[cur[w]] = late[cur[w]] + 1)
    BY <1>15, <2>2 DEF GiveUp, Flying
  <2>4. \A i \in Intents : copies[i] + late'[i] <= 1 + retries[i]
    BY <1>15, <2>2, <2>3 DEF GiveUp
  <2>5. \A u \in Workers : at'[u] \in {"text", "sending"} => u # w /\ guard.by = u /\ guard.by = w
    BY <1>15, <2>1 DEF GiveUp, Moved
  <2> QED
    BY <1>15, <2>2, <2>3, <2>4, <2>5 DEF GiveUp
<1>16. ASSUME NEW w \in Workers, NEW i \in Intents, BeginAttempt(w, i) PROVE Budget'
  <2>1. /\ cur'[w] = i /\ copies[i] + late[i] <= retries'[i]
        /\ \A j \in Intents \ {i} : retries'[j] = retries[j]
        /\ retries'[i] >= retries[i] /\ retries' \in [Intents -> Nat]
    BY <1>16 DEF BeginAttempt, Attemptable
  <2>2. /\ \A j \in Intents \ {i} : state'[j] = state[j]
        /\ state'[i] = "unknown" /\ UNCHANGED <<copies, late, answer>>
    BY <1>16 DEF BeginAttempt
  <2>3. \A u \in Workers : at'[u] \in {"text", "sending"} => u = w
    BY <1>16 DEF BeginAttempt, Goto
  <2> QED
    BY <2>1, <2>2, <2>3
<1>17. ASSUME NEW w \in Workers, NEW i \in Intents, Skip(w, i) PROVE Budget'
  <2>1. Moved(w)
    BY <1>17, NextRecordMoves DEF Skip
  <2> QED
    BY <1>17, <2>1 DEF Skip, Moved
<1>18. ASSUME NEW w \in Workers, RetryPending(w) PROVE Budget'
  BY <1>18 DEF RetryPending, Start, Goto, Retriable
<1>19. ASSUME NEW w \in Workers, NEW i \in Intents, QueueNotifies(w, i) PROVE Budget'
  BY <1>19 DEF QueueNotifies, Start, Goto
<1>20. ASSUME NEW w \in Workers, NEW r \in Requests, ManualRetry(w, r) PROVE Budget'
  BY <1>20 DEF ManualRetry, Start, Goto
<1>21. ASSUME NEW w \in Workers, Raise(w) PROVE Budget'
  BY <1>21 DEF Raise, Release, Goto, Free
<1>22. ASSUME WatcherRound PROVE Budget'
  BY <1>22 DEF WatcherRound, Start, Goto, Overdue
<1>23. ASSUME Reconnect PROVE Budget'
  BY <1>23 DEF Reconnect, W!WindowNext, W!Close, W!Change, W!Reopen
<1>24. ASSUME Crash PROVE Budget'
  <2>1. ASSUME NEW i \in Intents
        PROVE  /\ late'[i] = late[i] \/ (late'[i] = late[i] + 1 /\ copies[i] + late[i] <= retries[i])
               /\ state[i] \in {"none", "waiting_report", "pending"} => late'[i] = late[i]
    <3>1. CASE \E w \in Workers : Flying(w) /\ cur[w] = i
      BY <1>24, <3>1 DEF Crash, Flying
    <3>2. CASE ~\E w \in Workers : Flying(w) /\ cur[w] = i
      BY <1>24, <3>2 DEF Crash
    <3> QED
      BY <3>1, <3>2
  <2>2. UNCHANGED <<copies, retries, state>> /\ \A w \in Workers : at'[w] = "idle"
    BY <1>24 DEF Crash
  <2>3. \A i \in Intents : copies'[i] + late'[i] <= 1 + retries'[i]
    BY <2>1, <2>2
  <2>4. \A i \in Intents : state'[i] \in {"none", "waiting_report", "pending"} =>
          copies'[i] + late'[i] <= retries'[i]
    BY <2>1, <2>2
  <2> QED
    BY <2>2, <2>3, <2>4
<1>25. CASE UNCHANGED vars
  BY <1>25 DEF vars
<1> QED
  BY <1>1, <1>2, <1>3, <1>4, <1>5, <1>6, <1>7, <1>8, <1>9, <1>10, <1>11, <1>12, <1>13, <1>14, <1>15, <1>16, <1>17, <1>18, <1>19, <1>20, <1>21, <1>22, <1>23, <1>24, <1>25 DEF Next, Report, Work, Job

LEMMA TruthKept ==
  ASSUME TypeOK, SendsInWindow, Working, Answers, Truth, [Next]_vars
  PROVE  Truth'
<1> USE DeliveryAssumption DEF TypeOK, SendsInWindow, Working, Answers, Truth, fileVars, windowVars, workVars, mailVars
<1>1. ASSUME NEW i \in Intents, CreateIntent(i) PROVE Truth'
  BY <1>1 DEF CreateIntent
<1>2. ASSUME NEW i \in Intents, RunEnds(i) PROVE Truth'
  BY <1>2 DEF RunEnds
<1>3. ASSUME NEW i \in Intents, MarkFailed(i) PROVE Truth'
  BY <1>3 DEF MarkFailed
<1>4. ASSUME NEW i \in Intents, Arrives(i) PROVE Truth'
  BY <1>4 DEF Arrives
<1>5. ASSUME NEW w \in Workers, Notify(w) PROVE Truth'
  BY <1>5 DEF Notify, Goto
<1>6. ASSUME NEW w \in Workers, Check(w) PROVE Truth'
  BY <1>6, CheckMoves DEF Check
<1>7. ASSUME NEW w \in Workers, List(w) PROVE Truth'
  BY <1>7, ListMoves DEF List
<1>8. ASSUME NEW w \in Workers, TakeGuard(w) PROVE Truth'
  BY <1>8 DEF TakeGuard, Goto
<1>9. ASSUME NEW w \in Workers, Refused(w) PROVE Truth'
  <2>1. Moved(w) /\ at'[w] # "ready"
    BY <1>9, EndListMoves DEF Refused
  <2> QED
    BY <1>9, <2>1 DEF Refused, Moved
<1>10. ASSUME NEW w \in Workers, HandOver(w) PROVE Truth'
  BY <1>10 DEF HandOver, Goto
<1>11. ASSUME NEW w \in Workers, NotHandedOver(w) PROVE Truth'
  <2>1. Moved(w)
    BY <1>11, NextRecordMoves DEF NotHandedOver
  <2> QED
    BY <1>11, <2>1 DEF NotHandedOver, Moved
<1>12. ASSUME NEW w \in Workers, Received(w) PROVE Truth'
  BY <1>12 DEF Received
<1>13. ASSUME NEW w \in Workers, Rejected(w) PROVE Truth'
  BY <1>13 DEF Rejected
<1>14. ASSUME NEW w \in Workers, Mark(w) PROVE Truth'
  <2>1. Moved(w)
    BY <1>14, NextRecordMoves DEF Mark
  <2> QED
    BY <1>14, <2>1 DEF Mark, Moved, Outcome
<1>15. ASSUME NEW w \in Workers, GiveUp(w) PROVE Truth'
  <2>1. Moved(w)
    BY <1>15, NextRecordMoves DEF GiveUp
  <2> QED
    BY <1>15, <2>1 DEF GiveUp, Moved
<1>16. ASSUME NEW w \in Workers, NEW i \in Intents, BeginAttempt(w, i) PROVE Truth'
  BY <1>16 DEF BeginAttempt, Goto
<1>17. ASSUME NEW w \in Workers, NEW i \in Intents, Skip(w, i) PROVE Truth'
  <2>1. Moved(w)
    BY <1>17, NextRecordMoves DEF Skip
  <2> QED
    BY <1>17, <2>1 DEF Skip, Moved
<1>18. ASSUME NEW w \in Workers, RetryPending(w) PROVE Truth'
  BY <1>18 DEF RetryPending, Start, Goto, Retriable
<1>19. ASSUME NEW w \in Workers, NEW i \in Intents, QueueNotifies(w, i) PROVE Truth'
  BY <1>19 DEF QueueNotifies, Start, Goto
<1>20. ASSUME NEW w \in Workers, NEW r \in Requests, ManualRetry(w, r) PROVE Truth'
  BY <1>20 DEF ManualRetry, Start, Goto
<1>21. ASSUME NEW w \in Workers, Raise(w) PROVE Truth'
  BY <1>21 DEF Raise, Release, Goto, Free
<1>22. ASSUME WatcherRound PROVE Truth'
  BY <1>22 DEF WatcherRound, Start, Goto, Overdue
<1>23. ASSUME Reconnect PROVE Truth'
  BY <1>23 DEF Reconnect, W!WindowNext, W!Close, W!Change, W!Reopen
<1>24. ASSUME Crash PROVE Truth'
  BY <1>24 DEF Crash, Free
<1>25. CASE UNCHANGED vars
  BY <1>25 DEF vars
<1> QED
  BY <1>1, <1>2, <1>3, <1>4, <1>5, <1>6, <1>7, <1>8, <1>9, <1>10, <1>11, <1>12, <1>13, <1>14, <1>15, <1>16, <1>17, <1>18, <1>19, <1>20, <1>21, <1>22, <1>23, <1>24, <1>25 DEF Next, Report, Work, Job

-----------------------------------------------------------------------------
(* Theorems. *)

LEMMA Inductive == Spec => []IInv
<1>1. Init => IInv
  BY InitIInv
<1>2. IInv /\ [Next]_vars => IInv'
  <2> SUFFICES ASSUME IInv, [Next]_vars PROVE IInv'
    OBVIOUS
  <2>1. TypeOK' /\ SendsInWindow'
    BY NextTyped, SendsInWindowKept DEF IInv
  <2>2. Working' /\ Announced' /\ Finished'
    BY WorkingKept, AnnouncedKept, FinishedKept DEF IInv
  <2>3. Answers' /\ Budget' /\ Truth'
    BY AnswersKept, BudgetKept, TruthKept DEF IInv
  <2> QED
    BY <2>1, <2>2, <2>3 DEF IInv
<1> QED
  BY <1>1, <1>2, PTL DEF Spec

\* Every state of the outbox and of the threads that deliver is well typed, and
\* nothing is left of a guard that was released.
THEOREM TypeCorrect == Spec => []TypeOK
<1>1. IInv => TypeOK
  BY DEF IInv
<1> QED
  BY <1>1, Inductive, PTL

\* Whoever sends does so while the send window is open and by the account of the
\* device, for any number of threads and reconnections.
THEOREM SendsInWindowCorrect == Spec => []SendsInWindow
<1>1. IInv => SendsInWindow
  BY DEF IInv
<1> QED
  BY <1>1, Inductive, PTL

\* A report arrives at most once for every time it was asked for.
THEOREM NoUnaskedDuplicateCorrect == Spec => []NoUnaskedDuplicate
<1>1. IInv => NoUnaskedDuplicate
  BY DEF IInv, Budget
<1> QED
  BY <1>1, Inductive, PTL

LEMMA SentStays ==
  ASSUME TypeOK, SendsInWindow, Working, [Next]_vars, NEW j \in Intents, state[j] = "sent"
  PROVE  state'[j] = "sent" /\ to'[j] = to[j]
<1> USE DeliveryAssumption DEF TypeOK, SendsInWindow, Working, fileVars, windowVars, workVars, mailVars
<1>1. ASSUME NEW i \in Intents, CreateIntent(i) PROVE state'[j] = "sent" /\ to'[j] = to[j]
  BY <1>1 DEF CreateIntent
<1>2. ASSUME NEW i \in Intents, RunEnds(i) PROVE state'[j] = "sent" /\ to'[j] = to[j]
  BY <1>2 DEF RunEnds
<1>3. ASSUME NEW i \in Intents, MarkFailed(i) PROVE state'[j] = "sent" /\ to'[j] = to[j]
  BY <1>3 DEF MarkFailed
<1>4. ASSUME NEW i \in Intents, Arrives(i) PROVE state'[j] = "sent" /\ to'[j] = to[j]
  BY <1>4 DEF Arrives
<1>5. ASSUME NEW w \in Workers, Notify(w) PROVE state'[j] = "sent" /\ to'[j] = to[j]
  BY <1>5 DEF Notify, Goto
<1>6. ASSUME NEW w \in Workers, Check(w) PROVE state'[j] = "sent" /\ to'[j] = to[j]
  BY <1>6, CheckMoves DEF Check
<1>7. ASSUME NEW w \in Workers, List(w) PROVE state'[j] = "sent" /\ to'[j] = to[j]
  BY <1>7, ListMoves DEF List
<1>8. ASSUME NEW w \in Workers, TakeGuard(w) PROVE state'[j] = "sent" /\ to'[j] = to[j]
  BY <1>8 DEF TakeGuard, Goto
<1>9. ASSUME NEW w \in Workers, Refused(w) PROVE state'[j] = "sent" /\ to'[j] = to[j]
  <2>1. Moved(w) /\ at'[w] # "ready"
    BY <1>9, EndListMoves DEF Refused
  <2> QED
    BY <1>9, <2>1 DEF Refused, Moved
<1>10. ASSUME NEW w \in Workers, HandOver(w) PROVE state'[j] = "sent" /\ to'[j] = to[j]
  BY <1>10 DEF HandOver, Goto
<1>11. ASSUME NEW w \in Workers, NotHandedOver(w) PROVE state'[j] = "sent" /\ to'[j] = to[j]
  <2>1. Moved(w)
    BY <1>11, NextRecordMoves DEF NotHandedOver
  <2> QED
    BY <1>11, <2>1 DEF NotHandedOver, Moved
<1>12. ASSUME NEW w \in Workers, Received(w) PROVE state'[j] = "sent" /\ to'[j] = to[j]
  BY <1>12 DEF Received
<1>13. ASSUME NEW w \in Workers, Rejected(w) PROVE state'[j] = "sent" /\ to'[j] = to[j]
  BY <1>13 DEF Rejected
<1>14. ASSUME NEW w \in Workers, Mark(w) PROVE state'[j] = "sent" /\ to'[j] = to[j]
  <2>1. Moved(w)
    BY <1>14, NextRecordMoves DEF Mark
  <2> QED
    BY <1>14, <2>1 DEF Mark, Moved, Outcome
<1>15. ASSUME NEW w \in Workers, GiveUp(w) PROVE state'[j] = "sent" /\ to'[j] = to[j]
  <2>1. Moved(w)
    BY <1>15, NextRecordMoves DEF GiveUp
  <2> QED
    BY <1>15, <2>1 DEF GiveUp, Moved
<1>16. ASSUME NEW w \in Workers, NEW i \in Intents, BeginAttempt(w, i) PROVE state'[j] = "sent" /\ to'[j] = to[j]
  BY <1>16 DEF BeginAttempt, Attemptable
<1>17. ASSUME NEW w \in Workers, NEW i \in Intents, Skip(w, i) PROVE state'[j] = "sent" /\ to'[j] = to[j]
  <2>1. Moved(w)
    BY <1>17, NextRecordMoves DEF Skip
  <2> QED
    BY <1>17, <2>1 DEF Skip, Moved
<1>18. ASSUME NEW w \in Workers, RetryPending(w) PROVE state'[j] = "sent" /\ to'[j] = to[j]
  BY <1>18 DEF RetryPending, Start, Goto, Retriable
<1>19. ASSUME NEW w \in Workers, NEW i \in Intents, QueueNotifies(w, i) PROVE state'[j] = "sent" /\ to'[j] = to[j]
  BY <1>19 DEF QueueNotifies, Start, Goto
<1>20. ASSUME NEW w \in Workers, NEW r \in Requests, ManualRetry(w, r) PROVE state'[j] = "sent" /\ to'[j] = to[j]
  BY <1>20 DEF ManualRetry, Start, Goto
<1>21. ASSUME NEW w \in Workers, Raise(w) PROVE state'[j] = "sent" /\ to'[j] = to[j]
  BY <1>21 DEF Raise, Release, Goto, Free
<1>22. ASSUME WatcherRound PROVE state'[j] = "sent" /\ to'[j] = to[j]
  <2>1. j \notin Doomed
    BY DEF Doomed
  <2>2. state'[j] = state[j] /\ to' = to
    BY <1>22, <2>1 DEF WatcherRound, Start
  <2> QED
    BY <2>2
<1>23. ASSUME Reconnect PROVE state'[j] = "sent" /\ to'[j] = to[j]
  BY <1>23 DEF Reconnect, W!WindowNext, W!Close, W!Change, W!Reopen
<1>24. ASSUME Crash PROVE state'[j] = "sent" /\ to'[j] = to[j]
  BY <1>24 DEF Crash, Free
<1>25. CASE UNCHANGED vars
  BY <1>25 DEF vars
<1> QED
  BY <1>1, <1>2, <1>3, <1>4, <1>5, <1>6, <1>7, <1>8, <1>9, <1>10, <1>11, <1>12, <1>13, <1>14, <1>15, <1>16, <1>17, <1>18, <1>19, <1>20, <1>21, <1>22, <1>23, <1>24, <1>25 DEF Next, Report, Work, Job

\* A record that says "sent" is never changed and tells of a message that was received.
THEOREM SentIsTrueCorrect == Spec => SentIsTrue
<1>1. IInv /\ IInv' /\ [Next]_vars =>
        [\A i \in Intents :
           /\ state[i] = "sent" => state'[i] = "sent" /\ to'[i] = to[i]
           /\ state'[i] = "sent" => copies'[i] > 0 /\ to'[i] \in handed'[i]]_vars
  BY SentStays DEF IInv, Truth
<1> QED
  BY <1>1, Inductive, PTL DEF Spec, SentIsTrue

=============================================================================

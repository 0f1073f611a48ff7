--------------------------- MODULE OpenClawCalls ---------------------------
(***************************************************************************)
(* The worker calls of one workflow run.  A thread carries out a call by   *)
(* starting a process of the gateway's command line, and waits for it; a   *)
(* cancel of the run, from any other thread, refuses new calls, and for    *)
(* each call that is under way leaves a mark, kills the process it finds   *)
(* and asks the gateway to abort the session.  The gateway's session lives *)
(* on its own: it begins when the request of the process arrives and is    *)
(* not ended by the end of the process.                                    *)
(***************************************************************************)
EXTENDS Naturals, FiniteSets

CONSTANTS
  Calls,      \* call ids of one run; no id is used twice
  Cancellers  \* threads that cancel the run

VARIABLES
  cut,         \* the run is in _cancelled_runs of the client
  active,      \* _active_calls of the client
  marked,      \* _cancel_requested_calls of the runner
  registered,  \* per call, the process in _active_calls of the runner; 0: none
  at,          \* per call, what its thread does next
  tries,       \* per call, the processes started; the last one is process tries[c]
  alive,       \* the calls whose last process lives
  exit,        \* per call, how its last process ended
  session,     \* per call, the session at the gateway
  missed,      \* calls for which the gateway was asked in vain to abort
  cancel,      \* per canceller and call, what is next of cancel_worker
  held         \* per canceller and call, the process it has found

procVars == <<tries, alive, exit>>
clientVars == <<cut, active>>
runnerVars == <<marked, registered>>
gatewayVars == <<session, missed>>
cancelVars == <<cancel, held>>
vars == <<clientVars, runnerVars, at, procVars, gatewayVars, cancelVars>>

Init ==
  /\ cut = FALSE /\ active = {} /\ marked = {} /\ registered = [c \in Calls |-> 0]
  /\ at = [c \in Calls |-> "idle"]
  /\ tries = [c \in Calls |-> 0] /\ alive = {} /\ exit = [c \in Calls |-> "none"]
  /\ session = [c \in Calls |-> "none"] /\ missed = {}
  /\ cancel = [k \in Cancellers |-> [c \in Calls |-> "none"]]
  /\ held = [k \in Cancellers |-> [c \in Calls |-> 0]]

Goto(c, step) == at' = [at EXCEPT ![c] = step]

-----------------------------------------------------------------------------
(* OpenClawClient.run_worker and OpenClawLocalRunner.run_worker. *)

Submit(c) ==
  /\ at[c] = "idle"
  /\ IF cut THEN Goto(c, "done") /\ UNCHANGED active
            ELSE Goto(c, "enter") /\ active' = active \cup {c}
  /\ UNCHANGED <<cut, runnerVars, procVars, gatewayVars, cancelVars>>

\* A mark from before the start is taken back and ends the call.
Enter(c) ==
  /\ at[c] = "enter"
  /\ IF c \in marked THEN Goto(c, "leave") /\ marked' = marked \ {c}
                     ELSE Goto(c, "spawn") /\ UNCHANGED marked
  /\ UNCHANGED <<clientVars, registered, procVars, gatewayVars, cancelVars>>

\* Popen, which may fail.
Spawn(c) ==
  /\ at[c] = "spawn"
  /\ \/ /\ tries' = [tries EXCEPT ![c] = @ + 1] /\ alive' = alive \cup {c}
        /\ exit' = [exit EXCEPT ![c] = "none"]
        /\ Goto(c, "register")
     \/ Goto(c, "except") /\ UNCHANGED procVars
  /\ UNCHANGED <<clientVars, runnerVars, gatewayVars, cancelVars>>

\* Mutant: the process is registered without looking for a mark.
MarkedUnseen(c) == FALSE

CancelledBeforeRegister(c) == c \in marked

Register(c) ==
  /\ at[c] = "register"
  /\ IF CancelledBeforeRegister(c)
     THEN Goto(c, "slay") /\ UNCHANGED registered
     ELSE Goto(c, "wait") /\ registered' = [registered EXCEPT ![c] = tries[c]]
  /\ UNCHANGED <<clientVars, marked, procVars, gatewayVars, cancelVars>>

\* _terminate_process_group of process n of call c, if that is still the last one.
Kill(c, n) ==
  /\ alive' = IF n = tries[c] THEN alive \ {c} ELSE alive
  /\ exit' = IF n = tries[c] /\ c \in alive THEN [exit EXCEPT ![c] = "killed"] ELSE exit
  /\ UNCHANGED tries

Slay(c) ==
  /\ at[c] = "slay"
  /\ Kill(c, tries[c])
  /\ Goto(c, "except")
  /\ UNCHANGED <<clientVars, runnerVars, gatewayVars, cancelVars>>

\* Mutant: a call that takes too long is given up, its process is left alone.
KillNothing(c, n) == UNCHANGED procVars

\* communicate has waited long enough; the process is killed and its output read.
KillOverdue(c, n) == Kill(c, n)

TimeOut(c) ==
  /\ at[c] = "wait" /\ c \in alive
  /\ KillOverdue(c, tries[c])
  /\ Goto(c, "unregister")
  /\ UNCHANGED <<clientVars, runnerVars, gatewayVars, cancelVars>>

\* communicate returns with the end of the process.
Communicate(c) ==
  /\ at[c] = "wait" /\ c \notin alive
  /\ Goto(c, "unregister")
  /\ UNCHANGED <<clientVars, runnerVars, procVars, gatewayVars, cancelVars>>

MayTryAgain(c) == exit[c] = "unpaired" /\ tries[c] = 1

\* A good exit need not bring an answer that can be read; a refusal for want of a scope
\* is answered by approving the scope and starting a second process, once.
Unregister(c) ==
  /\ at[c] = "unregister"
  /\ registered' = [registered EXCEPT ![c] = 0]
  /\ \/ exit[c] = "good" /\ Goto(c, "finally")
     \/ MayTryAgain(c) /\ Goto(c, "spawn")
     \/ Goto(c, "except")
  /\ UNCHANGED <<clientVars, marked, procVars, gatewayVars, cancelVars>>

\* Mutant: whoever has failed relies on others to abort the session.
LeaveToOthers(c) == TRUE

CancellationAlreadyRequested(c) == c \in marked

\* except: a call that was not cancelled from outside is cancelled by its own thread.
Except(c) ==
  /\ at[c] = "except"
  /\ Goto(c, IF CancellationAlreadyRequested(c) THEN "finally" ELSE "mark")
  /\ UNCHANGED <<clientVars, runnerVars, procVars, gatewayVars, cancelVars>>

OwnMark(c) ==
  /\ at[c] = "mark"
  /\ marked' = marked \cup {c}
  /\ Goto(c, "abort")
  /\ UNCHANGED <<clientVars, registered, procVars, gatewayVars, cancelVars>>

\* sessions.abort, bounded by ten seconds; a failure is passed over.
Abort(c) ==
  \/ /\ session[c] = "running"
     /\ session' = [session EXCEPT ![c] = "over"] /\ UNCHANGED missed
  \/ session[c] = "over" /\ UNCHANGED gatewayVars
  \/ session[c] # "over" /\ missed' = missed \cup {c} /\ UNCHANGED session

OwnAbort(c) ==
  /\ at[c] = "abort"
  /\ Abort(c)
  /\ Goto(c, "finally")
  /\ UNCHANGED <<clientVars, runnerVars, procVars, cancelVars>>

Finally(c) ==
  /\ at[c] = "finally"
  /\ marked' = marked \ {c}
  /\ Goto(c, "leave")
  /\ UNCHANGED <<clientVars, registered, procVars, gatewayVars, cancelVars>>

\* The client's own finally; nobody keeps the processes of the call any more.
Leave(c) ==
  /\ at[c] = "leave"
  /\ active' = active \ {c}
  /\ tries' = [tries EXCEPT ![c] = 0] /\ exit' = [exit EXCEPT ![c] = "none"]
  /\ Goto(c, "done")
  /\ UNCHANGED <<cut, runnerVars, alive, gatewayVars, cancelVars>>

-----------------------------------------------------------------------------
(* cancel_run and cancel_worker. *)

Idle(k) == \A c \in Calls : cancel[k][c] = "none"

CancelRun(k) ==
  /\ Idle(k)
  /\ cut' = TRUE
  /\ cancel' = [cancel EXCEPT ![k] = [c \in Calls |-> IF c \in active THEN "mark" ELSE "none"]]
  /\ UNCHANGED <<active, held, runnerVars, at, procVars, gatewayVars>>

CancelMark(k, c) ==
  /\ cancel[k][c] = "mark"
  /\ marked' = marked \cup {c}
  /\ held' = [held EXCEPT ![k][c] = registered[c]]
  /\ cancel' = [cancel EXCEPT ![k][c] = "kill"]
  /\ UNCHANGED <<clientVars, registered, at, procVars, gatewayVars>>

CancelKill(k, c) ==
  /\ cancel[k][c] = "kill"
  /\ IF held[k][c] = 0 THEN UNCHANGED procVars ELSE Kill(c, held[k][c])
  /\ cancel' = [cancel EXCEPT ![k][c] = "abort"]
  /\ UNCHANGED <<clientVars, runnerVars, at, gatewayVars, held>>

CancelAbort(k, c) ==
  /\ cancel[k][c] = "abort"
  /\ Abort(c)
  /\ cancel' = [cancel EXCEPT ![k][c] = "none"] /\ held' = [held EXCEPT ![k][c] = 0]
  /\ UNCHANGED <<clientVars, runnerVars, at, procVars>>

\* The run thread ends when no call is under way (release_run).
Release ==
  /\ cut /\ \A c \in Calls : at[c] \in {"idle", "done"}
  /\ cut' = FALSE /\ active' = {}
  /\ at' = [c \in Calls |-> "done"]
  /\ UNCHANGED <<runnerVars, procVars, gatewayVars, cancelVars>>

-----------------------------------------------------------------------------
(* The process of a call, and the gateway. *)

Arrive(c) ==
  /\ c \in alive /\ session[c] = "none"
  /\ session' = [session EXCEPT ![c] = "running"]
  /\ UNCHANGED <<clientVars, runnerVars, at, procVars, missed, cancelVars>>

\* The session comes to its end and the process brings the answer; or the process ends
\* without one, the session goes on if it has begun.
ProcessExit(c) ==
  /\ c \in alive
  /\ alive' = alive \ {c}
  /\ \/ /\ session[c] = "running"
        /\ session' = [session EXCEPT ![c] = "over"] /\ exit' = [exit EXCEPT ![c] = "good"]
     \/ UNCHANGED session /\ exit' = [exit EXCEPT ![c] = "bad"]
     \/ /\ session[c] = "none"
        /\ UNCHANGED session /\ exit' = [exit EXCEPT ![c] = "unpaired"]
  /\ UNCHANGED <<clientVars, runnerVars, at, tries, missed, cancelVars>>

-----------------------------------------------------------------------------
Proceed(c) ==
  \/ Enter(c) \/ Spawn(c) \/ Register(c) \/ Slay(c) \/ Communicate(c) \/ Unregister(c)
  \/ Except(c) \/ OwnMark(c) \/ OwnAbort(c) \/ Finally(c) \/ Leave(c)

CancelWorker(k, c) == CancelMark(k, c) \/ CancelKill(k, c) \/ CancelAbort(k, c)

Next ==
  \/ \E c \in Calls : Submit(c) \/ Proceed(c) \/ TimeOut(c) \/ Arrive(c) \/ ProcessExit(c)
  \/ \E k \in Cancellers : CancelRun(k) \/ \E c \in Calls : CancelWorker(k, c)
  \/ Release

Spec == Init /\ [][Next]_vars

\* Threads go on.  Nothing makes a call start, a process end or a timeout come soon.
FairSpec ==
  /\ Spec
  /\ \A c \in Calls : WF_vars(Proceed(c))
  /\ \A k \in Cancellers, c \in Calls : WF_vars(CancelWorker(k, c))

-----------------------------------------------------------------------------
(* Properties. *)

TypeOK ==
  /\ cut \in BOOLEAN /\ active \subseteq Calls /\ marked \subseteq Calls
  /\ registered \in [Calls -> 0 .. 2] /\ tries \in [Calls -> 0 .. 2]
  /\ at \in [Calls -> {"idle", "enter", "spawn", "register", "slay", "wait", "unregister",
                       "except", "mark", "abort", "finally", "leave", "done"}]
  /\ alive \subseteq Calls
  /\ exit \in [Calls -> {"none", "good", "bad", "unpaired", "killed"}]
  /\ session \in [Calls -> {"none", "running", "over"}] /\ missed \subseteq Calls
  /\ cancel \in [Cancellers -> [Calls -> {"none", "mark", "kill", "abort"}]]
  /\ held \in [Cancellers -> [Calls -> 0 .. 2]]

\* A process outlives neither its call nor the first of its two attempts: while it lives,
\* its call's thread is about to register it, waits for it or is about to kill it
\* (_run_gateway_process, which every way out of has to leave with the process gone).
NoProcessLeft == \A c \in alive : at[c] \in {"register", "slay", "wait"}

\* A call that was under way when its run was cancelled ends, whatever the gateway does
\* and long before its timeout: the mark is there before or the process is registered
\* after the other (cancel_worker, _run_gateway_process).
CancelledCallEnds == \A c \in Calls : (cut /\ at[c] # "idle") ~> at[c] = "done"

\* A session at the gateway does not go on for a call that has ended, unless the gateway
\* was asked in vain, because it did not answer or the request had not arrived yet
\* (run_worker's except branch, cancel_worker).
SessionEnds ==
  \A c \in Calls : (at[c] = "done" /\ session[c] = "running")
                     ~> (session[c] = "over" \/ c \in missed)

=============================================================================

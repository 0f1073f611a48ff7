---------------------------- MODULE HostOperations ----------------------------
(***************************************************************************)
(* What changes a production host: updates, installed by the web process   *)
(* or by a timer and applied by a root helper; the factory reset; and the  *)
(* watchdog, which restarts an unhealthy control service.  They keep out   *)
(* of each other's way by the host lock, an flock that its holder's death  *)
(* releases, and by three files that outlive a process: updater.lock,      *)
(* maintenance.lock and apply.lock.  Reports hold the report lock shared,  *)
(* data work its own lock.                                                 *)
(*                                                                         *)
(* Any process may die at any point, the web process with all its threads, *)
(* and so may the host.                                                    *)
(***************************************************************************)
EXTENDS Naturals, FiniteSets

CONSTANTS
  Installers,   \* callers of install_checked_update
  Resets,       \* callers of the factory reset, of the web process or the rescue page
  InUi,         \* the callers that are threads of the web process
  Reports,      \* reports that may be running
  DataWork,     \* work under the data work lock
  MaxVersion,   \* releases are numbered 1..MaxVersion; the host starts with 1
  MaxFaults     \* bound on deaths and failed writes

Clients == Installers \cup Resets
Versions == 1..MaxVersion

ASSUME HostAssumption ==
  /\ InUi \subseteq Clients /\ Installers \cap Resets = {}
  /\ {"nobody", "applier", "watchdog"} \cap Clients = {}
  /\ MaxVersion \in Nat \ {0} /\ MaxFaults \in Nat

VARIABLES
  at,           \* per client, the step it is at
  applier,      \* the root helper's step
  watchdog,     \* the watchdog's step
  host,         \* who holds the host lock
  reports,      \* the reports that hold the report lock
  data,         \* the work that holds the data work lock
  updater,      \* who created updater.lock
  maintenance,  \* who created maintenance.lock
  apply,        \* apply.lock: "none", "pending", or "owned": it names a helper, or nothing
  request,      \* the version in apply-request.json; 0: no such file
  current,      \* the release that the link current names
  previous,     \* the helper's copy of it, from before the switch
  present,      \* the directories under releases
  verified,     \* the releases that have been seen healthy
  rescue,       \* the rescue page is on
  attempts,     \* retry.json: the restarts counted; 3 is exhausted
  cool,         \* its next_allowed lies ahead
  read,         \* the watchdog's copy of attempts
  same,         \* control still has the pid the watchdog began with
  restarts,     \* restarts asked for since control was healthy or the host booted
  botched,      \* a helper left a release it had not verified in place
  faults,       \* deaths and failed writes so far
  stranded      \* whoever had to take apply.lock away ended without

fileVars == <<updater, maintenance, apply, request>>
releaseVars == <<current, previous, present, verified, botched>>
workVars == <<reports, data>>
faultVars == <<faults, stranded>>
retryVars == <<attempts, cool, restarts>>
roundVars == <<read, same>>
watchVars == <<watchdog, retryVars, roundVars>>
vars == <<at, applier, host, workVars, fileVars, releaseVars, rescue, watchVars, faultVars>>

Init ==
  /\ at = [c \in Clients |-> "idle"] /\ applier = "idle" /\ watchdog = "idle"
  /\ host = "nobody" /\ reports = {} /\ data = {}
  /\ updater = "nobody" /\ maintenance = "nobody" /\ apply = "none" /\ request = 0
  /\ current = 1 /\ previous = 0 /\ present = {1} /\ verified = {1} /\ botched = FALSE
  /\ rescue = FALSE /\ attempts = 0 /\ cool = FALSE /\ restarts = 0
  /\ read = 0 /\ same = TRUE /\ faults = 0 /\ stranded = FALSE

Goto(c, step) == at' = [at EXCEPT ![c] = step]
Fault == faults < MaxFaults /\ faults' = faults + 1

-----------------------------------------------------------------------------
(* install_checked_update and FactoryResetService.run.  What they write to  *)
(* updater-state.json is for display only.                                  *)

\* Where the rescue page is on, the web process is off.
Serves(c) == c \in InUi => ~rescue

\* The looks at the three files, each of which is looked at again later.
Try(c) ==
  /\ c \in Installers /\ at[c] = "idle" /\ Serves(c)
  /\ updater = "nobody" /\ apply = "none" /\ maintenance = "nobody"
  /\ Goto(c, "updater")
  /\ UNCHANGED <<applier, host, workVars, fileVars, releaseVars, rescue, watchVars, faultVars>>

\* The web process refuses the request while it sees maintenance.lock.
AskReset(c) ==
  /\ c \in Resets /\ at[c] = "idle" /\ Serves(c)
  /\ c \in InUi => maintenance = "nobody"
  /\ Goto(c, "host")
  /\ UNCHANGED <<applier, host, workVars, fileVars, releaseVars, rescue, watchVars, faultVars>>

TakeUpdater(c) ==
  /\ at[c] = "updater"
  /\ IF updater = "nobody" THEN updater' = c /\ Goto(c, "host")
                           ELSE Goto(c, "idle") /\ UNCHANGED updater
  /\ UNCHANGED <<applier, host, workVars, maintenance, apply, request, releaseVars, rescue,
                 watchVars, faultVars>>

\* What is left to do without the host lock.
Outside(c) == IF c \in Installers THEN "free" ELSE "idle"

TakeHost(c) ==
  /\ at[c] = "host"
  /\ IF host = "nobody" THEN host' = c /\ Goto(c, "mark")
                        ELSE Goto(c, Outside(c)) /\ UNCHANGED host
  /\ UNCHANGED <<applier, workVars, fileVars, releaseVars, rescue, watchVars, faultVars>>

TakeMaintenance(c) ==
  /\ at[c] = "mark"
  /\ IF maintenance = "nobody"
     THEN maintenance' = c /\ Goto(c, IF c \in Installers THEN "fetch" ELSE "erase")
     ELSE Goto(c, "unhost") /\ UNCHANGED maintenance
  /\ UNCHANGED <<applier, host, workVars, updater, apply, request, releaseVars, rescue,
                 watchVars, faultVars>>

Erase(c) ==
  /\ at[c] = "erase" /\ Goto(c, "unmark")
  /\ UNCHANGED <<applier, host, workVars, fileVars, releaseVars, rescue, watchVars, faultVars>>

\* Manifest, archive, signatures; an apply that is pending, or a release
\* directory that exists, refuses the update.
Fetch(c) ==
  /\ at[c] = "fetch"
  /\ \/ Goto(c, "unmark")
     \/ apply = "none" /\ Versions \ present # {} /\ Goto(c, "pend")
  /\ UNCHANGED <<applier, host, workVars, fileVars, releaseVars, rescue, watchVars, faultVars>>

CreatePending(c) ==
  /\ at[c] = "pend"
  /\ IF apply = "none" THEN apply' = "pending" /\ Goto(c, "ask")
                       ELSE Goto(c, "unmark") /\ UNCHANGED apply
  /\ UNCHANGED <<applier, host, workVars, updater, maintenance, request, releaseVars, rescue,
                 watchVars, faultVars>>

WriteRequest(c) ==
  /\ at[c] = "ask" /\ Goto(c, "start")
  /\ \E v \in Versions \ present : request' = v
  /\ UNCHANGED <<applier, host, workVars, updater, maintenance, apply, releaseVars, rescue,
                 watchVars, faultVars>>

\* Nothing takes apply.lock back when the pid cannot be written to it, which
\* leaves it empty, or the request or updater-state.json cannot be written.
WriteRequestFails(c) ==
  /\ Goto(c, "unmark") /\ Fault /\ stranded' = TRUE
  /\ \/ at[c] = "pend" /\ apply = "none" /\ apply' = "owned"
     \/ at[c] \in {"ask", "start"} /\ UNCHANGED apply
  /\ UNCHANGED <<applier, host, workVars, updater, maintenance, request, releaseVars, rescue,
                 watchVars>>

\* systemctl start --no-block; a unit that is running is left alone.
StartApplier(c) ==
  /\ at[c] = "start" /\ Goto(c, "unmark")
  /\ applier' = IF applier = "idle" THEN "host" ELSE applier
  /\ UNCHANGED <<host, workVars, fileVars, releaseVars, rescue, watchVars, faultVars>>

\* Mutant: a start that is refused leaves apply.lock behind.
StartRefusedLocked(c) ==
  /\ at[c] = "start" /\ Goto(c, "unmark") /\ request' = 0
  /\ UNCHANGED <<applier, host, workVars, updater, maintenance, apply, releaseVars, rescue,
                 watchVars, faultVars>>

StartRefused(c) ==
  /\ at[c] = "start" /\ Goto(c, "unmark")
  /\ request' = 0 /\ apply' = "none"
  /\ UNCHANGED <<applier, host, workVars, updater, maintenance, releaseVars, rescue, watchVars,
                 faultVars>>

Unmark(c) ==
  /\ at[c] = "unmark" /\ Goto(c, "unhost") /\ maintenance' = "nobody"
  /\ UNCHANGED <<applier, host, workVars, updater, apply, request, releaseVars, rescue,
                 watchVars, faultVars>>

Unhost(c) ==
  /\ at[c] = "unhost" /\ Goto(c, Outside(c)) /\ host' = "nobody"
  /\ UNCHANGED <<applier, workVars, fileVars, releaseVars, rescue, watchVars, faultVars>>

FreeUpdater(c) ==
  /\ at[c] = "free" /\ Goto(c, "idle") /\ updater' = "nobody"
  /\ UNCHANGED <<applier, host, workVars, maintenance, apply, request, releaseVars, rescue,
                 watchVars, faultVars>>

HoldSteps == {"mark", "fetch", "erase", "pend", "ask", "start", "unmark", "unhost"}

ClientStep(c) ==
  \/ TakeUpdater(c) \/ TakeHost(c) \/ TakeMaintenance(c) \/ Erase(c) \/ Fetch(c)
  \/ CreatePending(c) \/ WriteRequest(c) \/ StartApplier(c) \/ StartRefused(c)
  \/ Unmark(c) \/ Unhost(c) \/ FreeUpdater(c)

-----------------------------------------------------------------------------
(* The root helper claw-trade-apply-update. *)

ApplySteps == {"data", "adopt", "read", "files", "switch", "restart", "health", "rollback",
               "restore", "recheck", "rescue", "unask", "unlock", "leave"}

Applied(from, to) == applier = from /\ applier' = to

LockHost ==
  /\ Applied("host", "data") /\ host = "nobody" /\ host' = "applier"
  /\ UNCHANGED <<at, workVars, fileVars, releaseVars, rescue, watchVars, faultVars>>

LockData ==
  /\ Applied("data", "adopt") /\ data = {}
  /\ UNCHANGED <<at, host, workVars, fileVars, releaseVars, rescue, watchVars, faultVars>>

\* An apply.lock that carries a pid is never taken over, dead as its owner may be.
Adopt ==
  /\ IF apply = "owned" THEN Applied("adopt", "leave") /\ UNCHANGED apply
                        ELSE Applied("adopt", "read") /\ apply' = "owned"
  /\ UNCHANGED <<at, host, workVars, updater, maintenance, request, releaseVars, rescue,
                 watchVars, faultVars>>

\* An exception before the try block: a lock file, the layout or the public key
\* is refused.  Neither the request nor a pending apply.lock is taken away.
Barred ==
  /\ applier \in {"host", "data", "adopt"} /\ applier' = "idle"
  /\ host' = IF host = "applier" THEN "nobody" ELSE host
  /\ stranded' = (stranded \/ apply # "none")
  /\ UNCHANGED <<at, workVars, fileVars, releaseVars, rescue, watchVars, faults>>

\* Signatures, extraction, preflight, the host's files: any of them may raise.
Refuse ==
  /\ applier \in {"read", "files"} /\ applier' = "unask"
  /\ UNCHANGED <<at, host, workVars, fileVars, releaseVars, rescue, watchVars, faultVars>>

Place ==
  /\ Applied("read", "files")
  /\ request > current /\ request \notin present
  /\ previous' = current /\ present' = present \cup {request}
  /\ UNCHANGED <<at, host, workVars, fileVars, current, verified, botched, rescue, watchVars,
                 faultVars>>

InstallFiles ==
  /\ Applied("files", "switch")
  /\ UNCHANGED <<at, host, workVars, fileVars, releaseVars, rescue, watchVars, faultVars>>

Switch ==
  /\ Applied("switch", "restart") /\ current' = request
  /\ UNCHANGED <<at, host, workVars, fileVars, previous, present, verified, botched, rescue,
                 watchVars, faultVars>>

\* A restart ends the web process with its threads, and control.
UiEnds ==
  /\ at' = [c \in Clients |-> IF c \in InUi THEN "idle" ELSE at[c]]
  /\ reports' = {}
ServicesRestart == UiEnds /\ same' = (watchdog = "idle")

Restart ==
  /\ \/ Applied("restart", "health")
     \/ Applied("restore", "recheck")
  /\ rescue' = FALSE /\ ServicesRestart
  /\ UNCHANGED <<host, data, fileVars, releaseVars, watchdog, retryVars, read, faultVars>>

\* Control is restarted first, and the web process then may not be reached.
RestartFails ==
  /\ \/ Applied("restart", "rollback")
     \/ Applied("restore", "rescue")
  /\ ServicesRestart \/ UNCHANGED <<at, reports, same>>
  /\ UNCHANGED <<host, data, fileVars, releaseVars, rescue, watchdog, retryVars, read, faultVars>>

Healthy ==
  /\ \/ Applied("health", "unask")
     \/ Applied("recheck", "unask")
  /\ verified' = verified \cup {current}
  /\ UNCHANGED <<at, host, workVars, fileVars, current, previous, present, botched, rescue,
                 watchVars, faultVars>>

Unhealthy ==
  /\ \/ Applied("health", "rollback")
     \/ Applied("recheck", "rescue")
  /\ UNCHANGED <<at, host, workVars, fileVars, releaseVars, rescue, watchVars, faultVars>>

\* Mutant: a rollback that does not put the link back.
RollbackUnswitched ==
  /\ Applied("rollback", "restore")
  /\ UNCHANGED <<at, host, workVars, fileVars, releaseVars, rescue, watchVars, faultVars>>

Rollback ==
  /\ Applied("rollback", "restore") /\ current' = previous
  /\ UNCHANGED <<at, host, workVars, fileVars, previous, present, verified, botched, rescue,
                 watchVars, faultVars>>

\* The rescue page takes the port of the web process.
StartRescue ==
  /\ Applied("rescue", "unask")
  /\ \/ rescue' = TRUE /\ UiEnds
     \/ UNCHANGED rescue /\ UiEnds
     \/ UNCHANGED <<rescue, at, reports>>
  /\ UNCHANGED <<host, data, fileVars, releaseVars, watchVars, faultVars>>

\* An exception once the link is switched: a state that cannot be written, or
\* an answer of the health check that urllib gives up with HTTPException.
Raise ==
  /\ applier \in {"restart", "health", "rollback", "restore", "recheck", "rescue"}
  /\ applier' = "unask" /\ Fault
  /\ botched' = (botched \/ current \notin verified)
  /\ UNCHANGED <<at, host, workVars, fileVars, current, previous, present, verified, rescue,
                 watchVars, stranded>>

Unask ==
  /\ Applied("unask", "unlock") /\ request' = 0
  /\ UNCHANGED <<at, host, workVars, updater, maintenance, apply, releaseVars, rescue,
                 watchVars, faultVars>>

Unlock ==
  /\ Applied("unlock", "leave") /\ apply' = "none"
  /\ UNCHANGED <<at, host, workVars, updater, maintenance, request, releaseVars, rescue,
                 watchVars, faultVars>>

\* The finally block itself raises: a directory or a file cannot be removed.
EndFails ==
  /\ applier \in {"unask", "unlock"} /\ applier' = "leave" /\ Fault /\ stranded' = TRUE
  /\ UNCHANGED <<at, host, workVars, fileVars, releaseVars, rescue, watchVars>>

Leave ==
  /\ Applied("leave", "idle") /\ host' = "nobody" /\ previous' = 0
  /\ UNCHANGED <<at, workVars, fileVars, current, present, verified, botched, rescue,
                 watchVars, faultVars>>

ApplierStep ==
  \/ Adopt \/ Refuse \/ Place \/ InstallFiles \/ Switch \/ Restart \/ RestartFails
  \/ Healthy \/ Unhealthy \/ Rollback \/ StartRescue \/ Unask \/ Unlock \/ Leave

-----------------------------------------------------------------------------
(* The watchdog, a oneshot unit of a timer: one round at a time. *)

\* A unit of type oneshot is "activating" while it runs, which is-active does
\* not count as active: the looks at the update services see nothing.  That
\* control is active and past its grace is left to GiveUp, always possible.
Eligible == ~rescue /\ maintenance = "nobody" /\ apply = "none" /\ same

ReportSteps == {"final", "write", "restart", "leave"}
WatchSteps == {"report"} \cup ReportSteps

Watched(from, to) == watchdog = from /\ watchdog' = to

Begin ==
  /\ Watched("idle", "first") /\ Eligible
  /\ UNCHANGED <<at, applier, host, workVars, fileVars, releaseVars, rescue, retryVars,
                 roundVars, faultVars>>

Clear == attempts' = 0 /\ cool' = FALSE /\ restarts' = 0
EndRound ==
  /\ watchdog' = "idle" /\ read' = 0 /\ same' = TRUE
  /\ host' = IF watchdog \in WatchSteps THEN "nobody" ELSE host

SeesHealthy ==
  /\ watchdog \in {"first", "second", "third", "final"} /\ EndRound
  /\ Eligible
  /\ Clear
  /\ UNCHANGED <<at, applier, workVars, fileVars, releaseVars, rescue, faultVars>>

SeesUnhealthy ==
  /\ \/ Watched("first", "read")
     \/ Watched("second", "third")
     \/ Watched("third", "lock")
     \/ Watched("final", "write")
  /\ Eligible
  /\ UNCHANGED <<at, applier, host, workVars, fileVars, releaseVars, rescue, retryVars,
                 roundVars, faultVars>>

Exhausted == attempts = 3

ReadRetry ==
  /\ Watched("read", "second")
  /\ ~Exhausted /\ ~cool /\ Eligible
  /\ read' = attempts
  /\ UNCHANGED <<at, applier, host, workVars, fileVars, releaseVars, rescue, retryVars, same,
                 faultVars>>

WatchHost ==
  /\ Watched("lock", "report") /\ host = "nobody" /\ host' = "watchdog"
  /\ UNCHANGED <<at, applier, workVars, fileVars, releaseVars, rescue, retryVars, roundVars,
                 faultVars>>

\* Mutant: the report lock is not asked for.
WatchReportsUntested ==
  /\ Watched("report", "final")
  /\ UNCHANGED <<at, applier, host, workVars, fileVars, releaseVars, rescue, retryVars,
                 roundVars, faultVars>>

WatchReports ==
  /\ Watched("report", "final") /\ reports = {}
  /\ UNCHANGED <<at, applier, host, workVars, fileVars, releaseVars, rescue, retryVars,
                 roundVars, faultVars>>

\* Mutant: the restart is not counted before it is asked for.
WriteRetryLost ==
  /\ Watched("write", "restart")
  /\ UNCHANGED <<at, applier, host, workVars, fileVars, releaseVars, rescue, retryVars,
                 roundVars, faultVars>>

WriteRetry ==
  /\ Watched("write", "restart")
  /\ attempts' = read + 1 /\ cool' = (read + 1 < 3)
  /\ UNCHANGED <<at, applier, host, workVars, fileVars, releaseVars, rescue, restarts,
                 roundVars, faultVars>>

\* The web process requires control and may be restarted along with it.
RestartControl ==
  /\ Watched("restart", "leave")
  /\ restarts' = restarts + 1
  /\ UiEnds \/ UNCHANGED <<at, reports>>
  /\ UNCHANGED <<applier, host, data, fileVars, releaseVars, rescue, attempts, cool, roundVars,
                 faultVars>>

\* Early returns: a lock that is held, a count that is exhausted or cooling, a
\* control that is not active or still in its startup grace, an error.
GiveUp ==
  /\ watchdog # "idle" /\ EndRound
  /\ UNCHANGED <<at, applier, workVars, fileVars, releaseVars, rescue, retryVars, faultVars>>

WatchdogStep ==
  \/ SeesHealthy \/ SeesUnhealthy \/ ReadRetry \/ WatchHost \/ WatchReports \/ WriteRetry
  \/ RestartControl \/ GiveUp

-----------------------------------------------------------------------------
(* The rest of the host: reports, data work, time, deaths. *)

StartReport(r) ==
  /\ r \notin reports /\ ~rescue /\ watchdog \notin ReportSteps /\ reports' = reports \cup {r}
  /\ UNCHANGED <<at, applier, host, data, fileVars, releaseVars, rescue, watchVars, faultVars>>

EndReport(r) ==
  /\ r \in reports /\ reports' = reports \ {r}
  /\ UNCHANGED <<at, applier, host, data, fileVars, releaseVars, rescue, watchVars, faultVars>>

StartData(d) ==
  /\ d \notin data /\ applier \notin ApplySteps \ {"data"} /\ data' = data \cup {d}
  /\ UNCHANGED <<at, applier, host, reports, fileVars, releaseVars, rescue, watchVars,
                 faultVars>>

EndData(d) ==
  /\ d \in data /\ data' = data \ {d}
  /\ UNCHANGED <<at, applier, host, reports, fileVars, releaseVars, rescue, watchVars,
                 faultVars>>

TimePasses ==
  /\ cool /\ cool' = FALSE
  /\ UNCHANGED <<at, applier, host, workVars, fileVars, releaseVars, rescue, watchdog, attempts,
                 restarts, roundVars, faultVars>>

\* It has created apply.lock, and the helper is yet to be started.
Pending(c) == at[c] \in {"ask", "start"}

\* The web process dies; systemd restarts it or turns the rescue page on.
UiDies ==
  /\ Fault /\ UiEnds /\ rescue' \in BOOLEAN
  /\ stranded' = (stranded \/ \E c \in InUi : Pending(c))
  /\ host' = IF host \in InUi THEN "nobody" ELSE host
  /\ UNCHANGED <<applier, data, fileVars, releaseVars, watchVars>>

ClientDies(c) ==
  /\ c \notin InUi /\ at[c] # "idle" /\ Fault /\ Goto(c, "idle")
  /\ stranded' = (stranded \/ Pending(c))
  /\ host' = IF host = c THEN "nobody" ELSE host
  /\ UNCHANGED <<applier, workVars, fileVars, releaseVars, rescue, watchVars>>

ApplierDies ==
  /\ applier # "idle" /\ Fault /\ applier' = "idle" /\ previous' = 0
  /\ stranded' = (stranded \/ apply # "none")
  /\ host' = IF host = "applier" THEN "nobody" ELSE host
  /\ UNCHANGED <<at, workVars, fileVars, current, present, verified, botched, rescue, watchVars>>

WatchdogDies ==
  /\ watchdog # "idle" /\ Fault /\ EndRound
  /\ UNCHANGED <<at, applier, workVars, fileVars, releaseVars, rescue, retryVars, stranded>>

\* Files stay, except retry.json, which is under /run.
PowerLoss ==
  /\ Fault /\ stranded' = (stranded \/ apply # "none")
  /\ host' = "nobody" /\ reports' = {} /\ data' = {} /\ rescue' = FALSE
  /\ at' = [c \in Clients |-> "idle"] /\ applier' = "idle" /\ watchdog' = "idle"
  /\ previous' = 0 /\ Clear /\ read' = 0 /\ same' = TRUE
  /\ UNCHANGED <<fileVars, current, present, verified, botched>>

Death == UiDies \/ (\E c \in Clients : ClientDies(c)) \/ ApplierDies \/ WatchdogDies \/ PowerLoss

Next ==
  \/ \E c \in Clients : Try(c) \/ AskReset(c) \/ WriteRequestFails(c) \/ ClientStep(c)
  \/ LockHost \/ LockData \/ Barred \/ ApplierStep \/ Raise \/ EndFails
  \/ Begin \/ WatchdogStep
  \/ \E r \in Reports : StartReport(r) \/ EndReport(r)
  \/ \E d \in DataWork : StartData(d) \/ EndData(d)
  \/ TimePasses \/ Death

Spec == Init /\ [][Next]_vars

\* Processes go on, data work ends, and the helper, which waits for its locks
\* in the kernel, gets a lock that is free again and again.
Fairness ==
  /\ \A c \in Clients : WF_vars(ClientStep(c))
  /\ WF_vars(ApplierStep) /\ WF_vars(WatchdogStep)
  /\ SF_vars(LockHost) /\ SF_vars(LockData)
  /\ \A d \in DataWork : WF_vars(EndData(d))

FairSpec == Spec /\ Fairness

-----------------------------------------------------------------------------
(* Properties. *)

\* The state is well typed, and the host lock is held by whoever is at a step
\* of a section that takes it, and by nobody else.
TypeOK ==
  /\ at \in [Clients -> HoldSteps \cup {"idle", "updater", "host", "free"}]
  /\ applier \in ApplySteps \cup {"idle", "host"}
  /\ watchdog \in WatchSteps \cup {"idle", "first", "read", "second", "third", "lock"}
  /\ reports \subseteq Reports /\ data \subseteq DataWork
  /\ updater \in Installers \cup {"nobody"} /\ maintenance \in Clients \cup {"nobody"}
  /\ apply \in {"none", "pending", "owned"} /\ request \in Versions \cup {0}
  /\ current \in Versions /\ previous \in Versions \cup {0}
  /\ present \subseteq Versions /\ verified \subseteq Versions
  /\ attempts \in 0..3 /\ read \in 0..2 /\ restarts \in Nat /\ faults \in 0..MaxFaults
  /\ rescue \in BOOLEAN /\ cool \in BOOLEAN /\ same \in BOOLEAN
  /\ botched \in BOOLEAN /\ stranded \in BOOLEAN
  /\ host \in Clients \cup {"nobody", "applier", "watchdog"}
  /\ \A c \in Clients : at[c] \in HoldSteps <=> host = c
  /\ applier \in ApplySteps <=> host = "applier"
  /\ watchdog \in WatchSteps <=> host = "watchdog"

\* The watchdog asks for a restart of control only while no report is running,
\* nothing is downloaded, installed, applied or erased, and none of these can
\* begin before it has asked.
RestartsAlone ==
  [][restarts' > restarts =>
       /\ reports = {} /\ applier \notin ApplySteps
       /\ \A c \in Clients : at[c] \notin HoldSteps]_vars

\* Between two healthy observations the watchdog asks for at most three
\* restarts, whichever of its rounds is killed between any two steps.
RestartBudget == restarts <= 3

\* A release that was never seen healthy is in place only under an apply.lock
\* that keeps everybody else away, or after a helper that ended by an exception.
UnverifiedIsFlagged == current \notin verified => apply = "owned" \/ botched

\* An update that was accepted comes to an end that frees the host for the next
\* one, whatever is refused, unhealthy, restarted or killed on the way, unless
\* the one process that had to take apply.lock away died, could not write, or
\* raised before the try block that does it.
UpdateEnds == apply # "none" ~> (apply = "none" \/ stranded)

\* After a power cut the host starts a release that has worked before.
BootsVerified == applier = "idle" => current \in verified
=============================================================================

------------------------ MODULE HostOperationsProofs ------------------------
(***************************************************************************)
(* Proofs about HostOperations, for any number of installers, resets,      *)
(* reports, releases and failures.                                         *)
(***************************************************************************)
EXTENDS HostOperations, TLAPS

USE DEF Goto, Applied, Watched, Fault, fileVars, releaseVars, workVars, retryVars,
        roundVars, watchVars, faultVars, Pending

-----------------------------------------------------------------------------
(* Types, and who holds the host lock.                                      *)

Typed ==
  /\ at \in [Clients -> HoldSteps \cup {"idle", "updater", "host", "free"}]
  /\ applier \in ApplySteps \cup {"idle", "host"}
  /\ watchdog \in WatchSteps \cup {"idle", "first", "read", "second", "third", "lock"}
  /\ reports \subseteq Reports /\ data \subseteq DataWork
  /\ updater \in Installers \cup {"nobody"} /\ maintenance \in Clients \cup {"nobody"}
  /\ apply \in {"none", "pending", "owned"} /\ request \in Versions \cup {0}
  /\ current \in Versions /\ previous \in Versions \cup {0}
  /\ present \subseteq Versions /\ verified \subseteq Versions
  /\ attempts \in 0..3 /\ read \in 0..2 /\ restarts \in Nat /\ faults \in 0..MaxFaults

Flags ==
  /\ rescue \in BOOLEAN /\ cool \in BOOLEAN /\ same \in BOOLEAN
  /\ botched \in BOOLEAN /\ stranded \in BOOLEAN

HostHeld ==
  /\ host \in Clients \cup {"nobody", "applier", "watchdog"}
  /\ \A c \in Clients : at[c] \in HoldSteps <=> host = c
  /\ applier \in ApplySteps <=> host = "applier"
  /\ watchdog \in WatchSteps <=> host = "watchdog"

\* What the types of the next state rest on: only an installer asks for
\* updater.lock, the helper switches to a release that was asked for and back to
\* the one it copied.
Aimed ==
  /\ \A c \in Clients : at[c] = "updater" => c \in Installers
  /\ applier \in {"files", "switch"} => request \in Versions
  /\ applier \in {"files", "switch", "restart", "health", "rollback"} => previous \in Versions

LEMMA HeldStep ==
  ASSUME HostAssumption, Typed, HostHeld, [Next]_vars
  PROVE  HostHeld'
<1>1. ASSUME NEW c \in Clients, TakeHost(c) PROVE HostHeld'
  BY <1>1, HostAssumption DEF Typed, HostHeld, HostAssumption, Clients, HoldSteps,
     ApplySteps, WatchSteps, ReportSteps, TakeHost, Outside
<1>2. ASSUME NEW c \in Clients, TakeMaintenance(c) PROVE HostHeld'
  BY <1>2, HostAssumption DEF Typed, HostHeld, HostAssumption, Clients, HoldSteps,
     ApplySteps, WatchSteps, ReportSteps, TakeMaintenance
<1>3. ASSUME NEW c \in Clients, Unhost(c) PROVE HostHeld'
  BY <1>3, HostAssumption DEF Typed, HostHeld, HostAssumption, Clients, HoldSteps,
     ApplySteps, WatchSteps, ReportSteps, Unhost, Outside
<1>4. ASSUME NEW c \in Clients, ClientDies(c) PROVE HostHeld'
  BY <1>4, HostAssumption DEF Typed, HostHeld, HostAssumption, Clients, HoldSteps,
     ApplySteps, WatchSteps, ReportSteps, ClientDies
<1>5. ASSUME NEW c \in Clients, Try(c) \/ AskReset(c) \/ TakeUpdater(c) \/ Erase(c) \/
      Fetch(c) \/ CreatePending(c) \/ WriteRequest(c) \/ WriteRequestFails(c) \/
      StartApplier(c) \/ StartRefused(c) \/ Unmark(c) \/ FreeUpdater(c) PROVE HostHeld'
  BY <1>5, HostAssumption DEF Typed, HostHeld, HostAssumption, Clients, HoldSteps,
     ApplySteps, WatchSteps, ReportSteps, Try, AskReset, TakeUpdater, Erase, Fetch,
     CreatePending, WriteRequest, WriteRequestFails, StartApplier, StartRefused, Unmark,
     FreeUpdater
<1>6. CASE LockHost
  BY <1>6, HostAssumption DEF Typed, HostHeld, HostAssumption, Clients, HoldSteps,
     ApplySteps, WatchSteps, ReportSteps, LockHost
<1>7. CASE Restart
  BY <1>7, HostAssumption DEF Typed, HostHeld, HostAssumption, Clients, HoldSteps,
     ApplySteps, WatchSteps, ReportSteps, Restart, UiEnds, ServicesRestart
<1>8. CASE RestartFails
  BY <1>8, HostAssumption DEF Typed, HostHeld, HostAssumption, Clients, HoldSteps,
     ApplySteps, WatchSteps, ReportSteps, RestartFails, UiEnds, ServicesRestart
<1>9. CASE StartRescue
  BY <1>9, HostAssumption DEF Typed, HostHeld, HostAssumption, Clients, HoldSteps,
     ApplySteps, WatchSteps, ReportSteps, StartRescue, UiEnds
<1>10. CASE Leave
  BY <1>10, HostAssumption DEF Typed, HostHeld, HostAssumption, Clients, HoldSteps,
     ApplySteps, WatchSteps, ReportSteps, Leave
<1>11. CASE ApplierDies \/ Barred \/ EndFails
  BY <1>11, HostAssumption DEF Typed, HostHeld, HostAssumption, Clients, HoldSteps,
     ApplySteps, WatchSteps, ReportSteps, ApplierDies, Barred, EndFails
<1>12. CASE LockData \/ Adopt \/ Refuse \/ Place \/ InstallFiles \/ Switch \/ Healthy \/
      Unhealthy \/ Rollback \/ Raise \/ Unask \/ Unlock
  BY <1>12, HostAssumption DEF Typed, HostHeld, HostAssumption, Clients, HoldSteps,
     ApplySteps, WatchSteps, ReportSteps, LockData, Adopt, Refuse, Place, InstallFiles,
     Switch, Healthy, Unhealthy, Rollback, Raise, Unask, Unlock
<1>13. CASE SeesHealthy
  BY <1>13, HostAssumption DEF Typed, HostHeld, HostAssumption, Clients, HoldSteps,
     ApplySteps, WatchSteps, ReportSteps, SeesHealthy, EndRound, Clear
<1>14. CASE WatchHost
  BY <1>14, HostAssumption DEF Typed, HostHeld, HostAssumption, Clients, HoldSteps,
     ApplySteps, WatchSteps, ReportSteps, WatchHost
<1>15. CASE RestartControl
  BY <1>15, HostAssumption DEF Typed, HostHeld, HostAssumption, Clients, HoldSteps,
     ApplySteps, WatchSteps, ReportSteps, RestartControl, UiEnds
<1>16. CASE GiveUp
  BY <1>16, HostAssumption DEF Typed, HostHeld, HostAssumption, Clients, HoldSteps,
     ApplySteps, WatchSteps, ReportSteps, GiveUp, EndRound
<1>17. CASE WatchdogDies
  BY <1>17, HostAssumption DEF Typed, HostHeld, HostAssumption, Clients, HoldSteps,
     ApplySteps, WatchSteps, ReportSteps, WatchdogDies, EndRound
<1>18. CASE Begin \/ SeesUnhealthy \/ ReadRetry \/ WatchReports \/ WriteRetry
  BY <1>18, HostAssumption DEF Typed, HostHeld, HostAssumption, Clients, HoldSteps,
     ApplySteps, WatchSteps, ReportSteps, Begin, SeesUnhealthy, ReadRetry, Exhausted,
     WatchReports, WriteRetry
<1>19. ASSUME NEW r \in Reports, StartReport(r) \/ EndReport(r) PROVE HostHeld'
  BY <1>19, HostAssumption DEF Typed, HostHeld, HostAssumption, Clients, HoldSteps,
     ApplySteps, WatchSteps, ReportSteps, StartReport, EndReport
<1>20. ASSUME NEW d \in DataWork, StartData(d) \/ EndData(d) PROVE HostHeld'
  BY <1>20, HostAssumption DEF Typed, HostHeld, HostAssumption, Clients, HoldSteps,
     ApplySteps, WatchSteps, ReportSteps, StartData, EndData
<1>21. CASE TimePasses
  BY <1>21, HostAssumption DEF Typed, HostHeld, HostAssumption, Clients, HoldSteps,
     ApplySteps, WatchSteps, ReportSteps, TimePasses
<1>22. CASE UiDies
  BY <1>22, HostAssumption DEF Typed, HostHeld, HostAssumption, Clients, HoldSteps,
     ApplySteps, WatchSteps, ReportSteps, UiDies, UiEnds
<1>23. CASE PowerLoss
  BY <1>23, HostAssumption DEF Typed, HostHeld, HostAssumption, Clients, HoldSteps,
     ApplySteps, WatchSteps, ReportSteps, PowerLoss, Clear
<1>24. CASE UNCHANGED vars
  BY <1>24 DEF Typed, HostHeld, HostAssumption, Clients, HoldSteps, ApplySteps,
     WatchSteps, ReportSteps, vars
<1> QED
  BY <1>1, <1>2, <1>3, <1>4, <1>5, <1>6, <1>7, <1>8, <1>9, <1>10, <1>11, <1>12, <1>13,
     <1>14, <1>15, <1>16, <1>17, <1>18, <1>19, <1>20, <1>21, <1>22, <1>23, <1>24 DEF
     Next, ClientStep, ApplierStep, WatchdogStep, Death

LEMMA TypedStep ==
  ASSUME HostAssumption, Typed, HostHeld, Aimed, [Next]_vars
  PROVE  Typed'
<1>1. ASSUME NEW c \in Clients, Try(c) PROVE Typed'
  BY <1>1, HostAssumption DEF Typed, HostHeld, Aimed, HostAssumption, Clients,
     HoldSteps, ApplySteps, WatchSteps, ReportSteps, Versions, Try
<1>2. ASSUME NEW c \in Clients, AskReset(c) PROVE Typed'
  BY <1>2, HostAssumption DEF Typed, HostHeld, Aimed, HostAssumption, Clients,
     HoldSteps, ApplySteps, WatchSteps, ReportSteps, Versions, AskReset
<1>3. ASSUME NEW c \in Clients, TakeUpdater(c) PROVE Typed'
  BY <1>3, HostAssumption DEF Typed, HostHeld, Aimed, HostAssumption, Clients,
     HoldSteps, ApplySteps, WatchSteps, ReportSteps, Versions, TakeUpdater
<1>4. ASSUME NEW c \in Clients, TakeHost(c) PROVE Typed'
  BY <1>4, HostAssumption DEF Typed, HostHeld, Aimed, HostAssumption, Clients,
     HoldSteps, ApplySteps, WatchSteps, ReportSteps, Versions, TakeHost, Outside
<1>5. ASSUME NEW c \in Clients, TakeMaintenance(c) PROVE Typed'
  BY <1>5, HostAssumption DEF Typed, HostHeld, Aimed, HostAssumption, Clients,
     HoldSteps, ApplySteps, WatchSteps, ReportSteps, Versions, TakeMaintenance
<1>6. ASSUME NEW c \in Clients, Erase(c) PROVE Typed'
  BY <1>6, HostAssumption DEF Typed, HostHeld, Aimed, HostAssumption, Clients,
     HoldSteps, ApplySteps, WatchSteps, ReportSteps, Versions, Erase
<1>7. ASSUME NEW c \in Clients, Fetch(c) PROVE Typed'
  BY <1>7, HostAssumption DEF Typed, HostHeld, Aimed, HostAssumption, Clients,
     HoldSteps, ApplySteps, WatchSteps, ReportSteps, Versions, Fetch
<1>8. ASSUME NEW c \in Clients, CreatePending(c) PROVE Typed'
  BY <1>8, HostAssumption DEF Typed, HostHeld, Aimed, HostAssumption, Clients,
     HoldSteps, ApplySteps, WatchSteps, ReportSteps, Versions, CreatePending
<1>9. ASSUME NEW c \in Clients, WriteRequest(c) PROVE Typed'
  BY <1>9, HostAssumption DEF Typed, HostHeld, Aimed, HostAssumption, Clients,
     HoldSteps, ApplySteps, WatchSteps, ReportSteps, Versions, WriteRequest
<1>10. ASSUME NEW c \in Clients, WriteRequestFails(c) PROVE Typed'
  BY <1>10, HostAssumption DEF Typed, HostHeld, Aimed, HostAssumption, Clients,
     HoldSteps, ApplySteps, WatchSteps, ReportSteps, Versions, WriteRequestFails
<1>11. ASSUME NEW c \in Clients, StartApplier(c) PROVE Typed'
  BY <1>11, HostAssumption DEF Typed, HostHeld, Aimed, HostAssumption, Clients,
     HoldSteps, ApplySteps, WatchSteps, ReportSteps, Versions, StartApplier
<1>12. ASSUME NEW c \in Clients, StartRefused(c) PROVE Typed'
  BY <1>12, HostAssumption DEF Typed, HostHeld, Aimed, HostAssumption, Clients,
     HoldSteps, ApplySteps, WatchSteps, ReportSteps, Versions, StartRefused
<1>13. ASSUME NEW c \in Clients, Unmark(c) PROVE Typed'
  BY <1>13, HostAssumption DEF Typed, HostHeld, Aimed, HostAssumption, Clients,
     HoldSteps, ApplySteps, WatchSteps, ReportSteps, Versions, Unmark
<1>14. ASSUME NEW c \in Clients, Unhost(c) PROVE Typed'
  BY <1>14, HostAssumption DEF Typed, HostHeld, Aimed, HostAssumption, Clients,
     HoldSteps, ApplySteps, WatchSteps, ReportSteps, Versions, Unhost, Outside
<1>15. ASSUME NEW c \in Clients, FreeUpdater(c) PROVE Typed'
  BY <1>15, HostAssumption DEF Typed, HostHeld, Aimed, HostAssumption, Clients,
     HoldSteps, ApplySteps, WatchSteps, ReportSteps, Versions, FreeUpdater
<1>16. ASSUME NEW c \in Clients, ClientDies(c) PROVE Typed'
  BY <1>16, HostAssumption DEF Typed, HostHeld, Aimed, HostAssumption, Clients,
     HoldSteps, ApplySteps, WatchSteps, ReportSteps, Versions, ClientDies
<1>17. CASE LockHost
  BY <1>17, HostAssumption DEF Typed, HostHeld, Aimed, HostAssumption, Clients,
     HoldSteps, ApplySteps, WatchSteps, ReportSteps, Versions, LockHost
<1>18. CASE Adopt
  BY <1>18, HostAssumption DEF Typed, HostHeld, Aimed, HostAssumption, Clients,
     HoldSteps, ApplySteps, WatchSteps, ReportSteps, Versions, Adopt
<1>19. CASE Refuse
  BY <1>19, HostAssumption DEF Typed, HostHeld, Aimed, HostAssumption, Clients,
     HoldSteps, ApplySteps, WatchSteps, ReportSteps, Versions, Refuse
<1>20. CASE Place
  BY <1>20, HostAssumption DEF Typed, HostHeld, Aimed, HostAssumption, Clients,
     HoldSteps, ApplySteps, WatchSteps, ReportSteps, Versions, Place
<1>21. CASE Switch
  BY <1>21, HostAssumption DEF Typed, HostHeld, Aimed, HostAssumption, Clients,
     HoldSteps, ApplySteps, WatchSteps, ReportSteps, Versions, Switch
<1>22. CASE Restart
  BY <1>22, HostAssumption DEF Typed, HostHeld, Aimed, HostAssumption, Clients,
     HoldSteps, ApplySteps, WatchSteps, ReportSteps, Versions, Restart, UiEnds,
     ServicesRestart
<1>23. CASE RestartFails
  BY <1>23, HostAssumption DEF Typed, HostHeld, Aimed, HostAssumption, Clients,
     HoldSteps, ApplySteps, WatchSteps, ReportSteps, Versions, RestartFails, UiEnds,
     ServicesRestart
<1>24. CASE Rollback
  BY <1>24, HostAssumption DEF Typed, HostHeld, Aimed, HostAssumption, Clients,
     HoldSteps, ApplySteps, WatchSteps, ReportSteps, Versions, Rollback
<1>25. CASE StartRescue
  BY <1>25, HostAssumption DEF Typed, HostHeld, Aimed, HostAssumption, Clients,
     HoldSteps, ApplySteps, WatchSteps, ReportSteps, Versions, StartRescue, UiEnds
<1>26. CASE Raise
  BY <1>26, HostAssumption DEF Typed, HostHeld, Aimed, HostAssumption, Clients,
     HoldSteps, ApplySteps, WatchSteps, ReportSteps, Versions, Raise
<1>27. CASE Unask
  BY <1>27, HostAssumption DEF Typed, HostHeld, Aimed, HostAssumption, Clients,
     HoldSteps, ApplySteps, WatchSteps, ReportSteps, Versions, Unask
<1>28. CASE Unlock
  BY <1>28, HostAssumption DEF Typed, HostHeld, Aimed, HostAssumption, Clients,
     HoldSteps, ApplySteps, WatchSteps, ReportSteps, Versions, Unlock
<1>29. CASE Leave
  BY <1>29, HostAssumption DEF Typed, HostHeld, Aimed, HostAssumption, Clients,
     HoldSteps, ApplySteps, WatchSteps, ReportSteps, Versions, Leave
<1>30. CASE ApplierDies
  BY <1>30, HostAssumption DEF Typed, HostHeld, Aimed, HostAssumption, Clients,
     HoldSteps, ApplySteps, WatchSteps, ReportSteps, Versions, ApplierDies
<1>31. CASE LockData \/ InstallFiles \/ Healthy \/ Unhealthy
  BY <1>31, HostAssumption, ZenonT(60) DEF Typed, HostHeld, Aimed, HostAssumption, Clients,
     HoldSteps, ApplySteps, WatchSteps, ReportSteps, Versions, LockData, InstallFiles,
     Healthy, Unhealthy
<1>32. CASE SeesHealthy
  BY <1>32, HostAssumption DEF Typed, HostHeld, Aimed, HostAssumption, Clients,
     HoldSteps, ApplySteps, WatchSteps, ReportSteps, Versions, SeesHealthy, EndRound,
     Clear
<1>33. CASE ReadRetry
  BY <1>33, HostAssumption DEF Typed, HostHeld, Aimed, HostAssumption, Clients,
     HoldSteps, ApplySteps, WatchSteps, ReportSteps, Versions, ReadRetry, Exhausted
<1>34. CASE WriteRetry
  BY <1>34, HostAssumption DEF Typed, HostHeld, Aimed, HostAssumption, Clients,
     HoldSteps, ApplySteps, WatchSteps, ReportSteps, Versions, WriteRetry
<1>35. CASE RestartControl
  BY <1>35, HostAssumption DEF Typed, HostHeld, Aimed, HostAssumption, Clients,
     HoldSteps, ApplySteps, WatchSteps, ReportSteps, Versions, RestartControl, UiEnds
<1>36. CASE GiveUp
  BY <1>36, HostAssumption DEF Typed, HostHeld, Aimed, HostAssumption, Clients,
     HoldSteps, ApplySteps, WatchSteps, ReportSteps, Versions, GiveUp, EndRound
<1>37. CASE WatchdogDies
  BY <1>37, HostAssumption DEF Typed, HostHeld, Aimed, HostAssumption, Clients,
     HoldSteps, ApplySteps, WatchSteps, ReportSteps, Versions, WatchdogDies, EndRound
<1>38. CASE Begin \/ SeesUnhealthy \/ WatchHost \/ WatchReports
  BY <1>38, HostAssumption, ZenonT(60) DEF Typed, HostHeld, Aimed, HostAssumption, Clients,
     HoldSteps, ApplySteps, WatchSteps, ReportSteps, Versions, Begin, SeesUnhealthy,
     WatchHost, WatchReports
<1>39. ASSUME NEW r \in Reports, StartReport(r) PROVE Typed'
  BY <1>39, HostAssumption DEF Typed, HostHeld, Aimed, HostAssumption, Clients,
     HoldSteps, ApplySteps, WatchSteps, ReportSteps, Versions, StartReport
<1>40. ASSUME NEW r \in Reports, EndReport(r) PROVE Typed'
  BY <1>40, HostAssumption DEF Typed, HostHeld, Aimed, HostAssumption, Clients,
     HoldSteps, ApplySteps, WatchSteps, ReportSteps, Versions, EndReport
<1>41. ASSUME NEW d \in DataWork, StartData(d) PROVE Typed'
  BY <1>41, HostAssumption DEF Typed, HostHeld, Aimed, HostAssumption, Clients,
     HoldSteps, ApplySteps, WatchSteps, ReportSteps, Versions, StartData
<1>42. ASSUME NEW d \in DataWork, EndData(d) PROVE Typed'
  BY <1>42, HostAssumption DEF Typed, HostHeld, Aimed, HostAssumption, Clients,
     HoldSteps, ApplySteps, WatchSteps, ReportSteps, Versions, EndData
<1>43. CASE TimePasses
  BY <1>43, HostAssumption DEF Typed, HostHeld, Aimed, HostAssumption, Clients,
     HoldSteps, ApplySteps, WatchSteps, ReportSteps, Versions, TimePasses
<1>44. CASE UiDies
  BY <1>44, HostAssumption DEF Typed, HostHeld, Aimed, HostAssumption, Clients,
     HoldSteps, ApplySteps, WatchSteps, ReportSteps, Versions, UiDies, UiEnds
<1>45. CASE PowerLoss
  BY <1>45, HostAssumption DEF Typed, HostHeld, Aimed, HostAssumption, Clients,
     HoldSteps, ApplySteps, WatchSteps, ReportSteps, Versions, PowerLoss, Clear
<1>46. CASE UNCHANGED vars
  BY <1>46 DEF Typed, HostHeld, Aimed, HostAssumption, Clients, HoldSteps, ApplySteps,
     WatchSteps, ReportSteps, Versions, vars
<1>47. CASE Barred
  BY <1>47, HostAssumption DEF Typed, HostHeld, Aimed, HostAssumption, Clients,
     HoldSteps, ApplySteps, WatchSteps, ReportSteps, Versions, Barred
<1>48. CASE EndFails
  BY <1>48, HostAssumption DEF Typed, HostHeld, Aimed, HostAssumption, Clients,
     HoldSteps, ApplySteps, WatchSteps, ReportSteps, Versions, EndFails
<1> QED
  BY <1>1, <1>2, <1>3, <1>4, <1>5, <1>6, <1>7, <1>8, <1>9, <1>10, <1>11, <1>12, <1>13,
     <1>14, <1>15, <1>16, <1>17, <1>18, <1>19, <1>20, <1>21, <1>22, <1>23, <1>24, <1>25,
     <1>26, <1>27, <1>28, <1>29, <1>30, <1>31, <1>32, <1>33, <1>34, <1>35, <1>36, <1>37,
     <1>38, <1>39, <1>40, <1>41, <1>42, <1>43, <1>44, <1>45, <1>46, <1>47, <1>48
     DEF Next, ClientStep, ApplierStep, WatchdogStep, Death

LEMMA FlagsStep ==
  ASSUME Flags, [Next]_vars
  PROVE  Flags'
<1>1. ASSUME NEW c \in Clients, Try(c) \/ AskReset(c) \/ TakeUpdater(c) \/ TakeHost(c)
      \/ TakeMaintenance(c) \/ Erase(c) \/ Fetch(c) \/ CreatePending(c) \/
      WriteRequest(c) \/ WriteRequestFails(c) \/ StartApplier(c) \/ StartRefused(c) \/
      Unmark(c) \/ Unhost(c) \/ FreeUpdater(c) \/ ClientDies(c) PROVE Flags'
  BY <1>1 DEF Flags, Try, AskReset, TakeUpdater, TakeHost, Outside, TakeMaintenance,
     Erase, Fetch, CreatePending, WriteRequest, WriteRequestFails, StartApplier,
     StartRefused, Unmark, Unhost, FreeUpdater, ClientDies
<1>2. CASE Restart
  BY <1>2 DEF Flags, Restart, UiEnds, ServicesRestart
<1>3. CASE RestartFails
  BY <1>3 DEF Flags, RestartFails, UiEnds, ServicesRestart
<1>4. CASE StartRescue
  BY <1>4 DEF Flags, StartRescue, UiEnds
<1>5. CASE Raise
  BY <1>5 DEF Flags, Raise
<1>6. CASE LockHost \/ LockData \/ Adopt \/ Refuse \/ Place \/ InstallFiles \/ Switch \/
      Healthy \/ Unhealthy \/ Rollback \/ Unask \/ Unlock \/ Leave \/
      ApplierDies \/ Barred \/ EndFails
  BY <1>6 DEF Flags, LockHost, LockData, Adopt, Refuse, Place, InstallFiles, Switch,
     Healthy, Unhealthy, Rollback, Unask, Unlock, Leave, ApplierDies, Barred, EndFails
<1>7. CASE WriteRetry
  BY <1>7 DEF Flags, WriteRetry
<1>8. CASE Begin \/ SeesHealthy \/ SeesUnhealthy \/ ReadRetry \/ WatchHost \/
      WatchReports \/ RestartControl \/ GiveUp \/ WatchdogDies
  BY <1>8 DEF Flags, Begin, SeesHealthy, EndRound, Clear, SeesUnhealthy, ReadRetry,
     Exhausted, WatchHost, WatchReports, RestartControl, UiEnds, GiveUp, WatchdogDies
<1>9. ASSUME NEW r \in Reports, StartReport(r) \/ EndReport(r) PROVE Flags'
  BY <1>9 DEF Flags, StartReport, EndReport
<1>10. ASSUME NEW d \in DataWork, StartData(d) \/ EndData(d) PROVE Flags'
  BY <1>10 DEF Flags, StartData, EndData
<1>11. CASE TimePasses
  BY <1>11 DEF Flags, TimePasses
<1>12. CASE UiDies
  BY <1>12 DEF Flags, UiDies, UiEnds
<1>13. CASE PowerLoss
  BY <1>13 DEF Flags, PowerLoss, Clear
<1>14. CASE UNCHANGED vars
  BY <1>14 DEF Flags, vars
<1> QED
  BY <1>1, <1>2, <1>3, <1>4, <1>5, <1>6, <1>7, <1>8, <1>9, <1>10, <1>11, <1>12, <1>13,
     <1>14 DEF Next, ClientStep, ApplierStep, WatchdogStep, Death

LEMMA AimedStep ==
  ASSUME HostAssumption, Typed, HostHeld, Aimed, [Next]_vars
  PROVE  Aimed'
<1>1. ASSUME NEW c \in Clients, Try(c) PROVE Aimed'
  BY <1>1, HostAssumption DEF Typed, HostHeld, Aimed, HostAssumption, Clients,
     HoldSteps, ApplySteps, WatchSteps, ReportSteps, Versions, Try
<1>2. ASSUME NEW c \in Clients, WriteRequest(c) PROVE Aimed'
  BY <1>2, HostAssumption DEF Typed, HostHeld, Aimed, HostAssumption, Clients,
     HoldSteps, ApplySteps, WatchSteps, ReportSteps, Versions, WriteRequest
<1>3. ASSUME NEW c \in Clients, StartApplier(c) PROVE Aimed'
  BY <1>3, HostAssumption DEF Typed, HostHeld, Aimed, HostAssumption, Clients,
     HoldSteps, ApplySteps, WatchSteps, ReportSteps, Versions, StartApplier
<1>4. ASSUME NEW c \in Clients, StartRefused(c) PROVE Aimed'
  BY <1>4, HostAssumption DEF Typed, HostHeld, Aimed, HostAssumption, Clients,
     HoldSteps, ApplySteps, WatchSteps, ReportSteps, Versions, StartRefused
<1>5. ASSUME NEW c \in Clients, AskReset(c) \/ TakeUpdater(c) \/ TakeHost(c) \/
      TakeMaintenance(c) \/ Erase(c) \/ Fetch(c) \/ CreatePending(c) \/
      WriteRequestFails(c) \/ Unmark(c) \/ Unhost(c) \/ FreeUpdater(c) \/ ClientDies(c)
      PROVE Aimed'
  BY <1>5, HostAssumption DEF Typed, HostHeld, Aimed, HostAssumption, Clients,
     HoldSteps, ApplySteps, WatchSteps, ReportSteps, Versions, AskReset, TakeUpdater,
     TakeHost, Outside, TakeMaintenance, Erase, Fetch, CreatePending, WriteRequestFails,
     Unmark, Unhost, FreeUpdater, ClientDies
<1>6. CASE Place
  BY <1>6, HostAssumption DEF Typed, HostHeld, Aimed, HostAssumption, Clients,
     HoldSteps, ApplySteps, WatchSteps, ReportSteps, Versions, Place
<1>7. CASE Switch
  BY <1>7, HostAssumption DEF Typed, HostHeld, Aimed, HostAssumption, Clients,
     HoldSteps, ApplySteps, WatchSteps, ReportSteps, Versions, Switch
<1>8. CASE Restart
  BY <1>8, HostAssumption DEF Typed, HostHeld, Aimed, HostAssumption, Clients,
     HoldSteps, ApplySteps, WatchSteps, ReportSteps, Versions, Restart, UiEnds,
     ServicesRestart
<1>9. CASE RestartFails
  BY <1>9, HostAssumption DEF Typed, HostHeld, Aimed, HostAssumption, Clients,
     HoldSteps, ApplySteps, WatchSteps, ReportSteps, Versions, RestartFails, UiEnds,
     ServicesRestart
<1>10. CASE StartRescue
  BY <1>10, HostAssumption DEF Typed, HostHeld, Aimed, HostAssumption, Clients,
     HoldSteps, ApplySteps, WatchSteps, ReportSteps, Versions, StartRescue, UiEnds
<1>11. CASE Unask
  BY <1>11, HostAssumption DEF Typed, HostHeld, Aimed, HostAssumption, Clients,
     HoldSteps, ApplySteps, WatchSteps, ReportSteps, Versions, Unask
<1>12. CASE ApplierDies \/ Barred \/ EndFails
  BY <1>12, HostAssumption DEF Typed, HostHeld, Aimed, HostAssumption, Clients,
     HoldSteps, ApplySteps, WatchSteps, ReportSteps, Versions, ApplierDies, Barred, EndFails
<1>13. CASE LockHost \/ LockData \/ Adopt \/ Refuse \/ InstallFiles \/ Healthy \/
      Unhealthy \/ Rollback \/ Raise \/ Unlock \/ Leave
  BY <1>13, HostAssumption DEF Typed, HostHeld, Aimed, HostAssumption, Clients,
     HoldSteps, ApplySteps, WatchSteps, ReportSteps, Versions, LockHost, LockData,
     Adopt, Refuse, InstallFiles, Healthy, Unhealthy, Rollback, Raise, Unlock, Leave
<1>14. CASE RestartControl
  BY <1>14, HostAssumption DEF Typed, HostHeld, Aimed, HostAssumption, Clients,
     HoldSteps, ApplySteps, WatchSteps, ReportSteps, Versions, RestartControl, UiEnds
<1>15. CASE Begin \/ SeesHealthy \/ SeesUnhealthy \/ ReadRetry \/ WatchHost \/
      WatchReports \/ WriteRetry \/ GiveUp \/ WatchdogDies
  BY <1>15, HostAssumption DEF Typed, HostHeld, Aimed, HostAssumption, Clients,
     HoldSteps, ApplySteps, WatchSteps, ReportSteps, Versions, Begin, SeesHealthy,
     EndRound, Clear, SeesUnhealthy, ReadRetry, Exhausted, WatchHost, WatchReports,
     WriteRetry, GiveUp, WatchdogDies
<1>16. ASSUME NEW r \in Reports, StartReport(r) \/ EndReport(r) PROVE Aimed'
  BY <1>16, HostAssumption DEF Typed, HostHeld, Aimed, HostAssumption, Clients,
     HoldSteps, ApplySteps, WatchSteps, ReportSteps, Versions, StartReport, EndReport
<1>17. ASSUME NEW d \in DataWork, StartData(d) \/ EndData(d) PROVE Aimed'
  BY <1>17, HostAssumption DEF Typed, HostHeld, Aimed, HostAssumption, Clients,
     HoldSteps, ApplySteps, WatchSteps, ReportSteps, Versions, StartData, EndData
<1>18. CASE UiDies
  BY <1>18, HostAssumption DEF Typed, HostHeld, Aimed, HostAssumption, Clients,
     HoldSteps, ApplySteps, WatchSteps, ReportSteps, Versions, UiDies, UiEnds
<1>19. CASE PowerLoss
  BY <1>19, HostAssumption DEF Typed, HostHeld, Aimed, HostAssumption, Clients,
     HoldSteps, ApplySteps, WatchSteps, ReportSteps, Versions, PowerLoss, Clear
<1>20. CASE TimePasses
  BY <1>20, HostAssumption DEF Typed, HostHeld, Aimed, HostAssumption, Clients,
     HoldSteps, ApplySteps, WatchSteps, ReportSteps, Versions, TimePasses
<1>21. CASE UNCHANGED vars
  BY <1>21 DEF Typed, HostHeld, Aimed, HostAssumption, Clients, HoldSteps, ApplySteps,
     WatchSteps, ReportSteps, Versions, vars
<1> QED
  BY <1>1, <1>2, <1>3, <1>4, <1>5, <1>6, <1>7, <1>8, <1>9, <1>10, <1>11, <1>12, <1>13,
     <1>14, <1>15, <1>16, <1>17, <1>18, <1>19, <1>20, <1>21 DEF Next, ClientStep,
     ApplierStep, WatchdogStep, Death

-----------------------------------------------------------------------------
(* The watchdog's count.                                                    *)

Counted ==
  /\ restarts <= attempts
  /\ watchdog \in {"second", "third", "lock", "report", "final", "write"} =>
       read = attempts /\ attempts < 3
  /\ watchdog = "restart" => restarts < attempts

LEMMA CountedStep ==
  ASSUME Typed, Counted, [Next]_vars
  PROVE  Counted'
<1>1. ASSUME NEW c \in Clients, Try(c) \/ AskReset(c) \/ TakeUpdater(c) \/ TakeHost(c)
      \/ TakeMaintenance(c) \/ Erase(c) \/ Fetch(c) \/ CreatePending(c) \/
      WriteRequest(c) \/ WriteRequestFails(c) \/ StartApplier(c) \/ StartRefused(c) \/
      Unmark(c) \/ Unhost(c) \/ FreeUpdater(c) \/ ClientDies(c) PROVE Counted'
  BY <1>1 DEF Typed, Counted, ReportSteps, WatchSteps, Try, AskReset, TakeUpdater,
     TakeHost, Outside, TakeMaintenance, Erase, Fetch, CreatePending, WriteRequest,
     WriteRequestFails, StartApplier, StartRefused, Unmark, Unhost, FreeUpdater,
     ClientDies
<1>2. CASE LockHost \/ LockData \/ Adopt \/ Refuse \/ Place \/ InstallFiles \/ Switch \/
      Restart \/ RestartFails \/ Healthy \/ Unhealthy \/ Rollback \/ StartRescue \/
      Raise \/ Unask \/ Unlock \/ Leave \/
      ApplierDies \/ Barred \/ EndFails
  BY <1>2 DEF Typed, Counted, ReportSteps, WatchSteps, LockHost, LockData, Adopt,
     Refuse, Place, InstallFiles, Switch, Restart, UiEnds, ServicesRestart,
     RestartFails, Healthy, Unhealthy, Rollback, StartRescue, Raise, Unask, Unlock,
     Leave, ApplierDies, Barred, EndFails
<1>3. CASE Begin
  BY <1>3 DEF Typed, Counted, ReportSteps, WatchSteps, Begin
<1>4. CASE SeesHealthy
  BY <1>4 DEF Typed, Counted, ReportSteps, WatchSteps, SeesHealthy, EndRound, Clear
<1>5. CASE SeesUnhealthy
  BY <1>5 DEF Typed, Counted, ReportSteps, WatchSteps, SeesUnhealthy
<1>6. CASE ReadRetry
  BY <1>6 DEF Typed, Counted, ReportSteps, WatchSteps, ReadRetry, Exhausted
<1>7. CASE WatchHost
  BY <1>7 DEF Typed, Counted, ReportSteps, WatchSteps, WatchHost
<1>8. CASE WatchReports
  BY <1>8 DEF Typed, Counted, ReportSteps, WatchSteps, WatchReports
<1>9. CASE WriteRetry
  BY <1>9 DEF Typed, Counted, ReportSteps, WatchSteps, WriteRetry
<1>10. CASE RestartControl
  BY <1>10 DEF Typed, Counted, ReportSteps, WatchSteps, RestartControl, UiEnds
<1>11. CASE GiveUp
  BY <1>11 DEF Typed, Counted, ReportSteps, WatchSteps, GiveUp, EndRound
<1>12. CASE WatchdogDies
  BY <1>12 DEF Typed, Counted, ReportSteps, WatchSteps, WatchdogDies, EndRound
<1>13. ASSUME NEW r \in Reports, StartReport(r) \/ EndReport(r) PROVE Counted'
  BY <1>13 DEF Typed, Counted, ReportSteps, WatchSteps, StartReport, EndReport
<1>14. ASSUME NEW d \in DataWork, StartData(d) \/ EndData(d) PROVE Counted'
  BY <1>14 DEF Typed, Counted, ReportSteps, WatchSteps, StartData, EndData
<1>15. CASE TimePasses
  BY <1>15 DEF Typed, Counted, ReportSteps, WatchSteps, TimePasses
<1>16. CASE UiDies
  BY <1>16 DEF Typed, Counted, ReportSteps, WatchSteps, UiDies, UiEnds
<1>17. CASE PowerLoss
  BY <1>17 DEF Typed, Counted, ReportSteps, WatchSteps, PowerLoss, Clear
<1>18. CASE UNCHANGED vars
  BY <1>18 DEF Typed, Counted, ReportSteps, WatchSteps, vars
<1> QED
  BY <1>1, <1>2, <1>3, <1>4, <1>5, <1>6, <1>7, <1>8, <1>9, <1>10, <1>11, <1>12, <1>13,
     <1>14, <1>15, <1>16, <1>17, <1>18 DEF Next, ClientStep, ApplierStep, WatchdogStep,
     Death

\* From its look at the report lock on, the watchdog keeps reports out.
Quiet == watchdog \in {"final", "write", "restart"} => reports = {}

LEMMA QuietStep ==
  ASSUME Typed, Quiet, [Next]_vars
  PROVE  Quiet'
<1>1. ASSUME NEW c \in Clients, Try(c) \/ AskReset(c) \/ TakeUpdater(c) \/ TakeHost(c)
      \/ TakeMaintenance(c) \/ Erase(c) \/ Fetch(c) \/ CreatePending(c) \/
      WriteRequest(c) \/ WriteRequestFails(c) \/ StartApplier(c) \/ StartRefused(c) \/
      Unmark(c) \/ Unhost(c) \/ FreeUpdater(c) \/ ClientDies(c) PROVE Quiet'
  BY <1>1 DEF Typed, Quiet, ReportSteps, WatchSteps, Try, AskReset, TakeUpdater,
     TakeHost, Outside, TakeMaintenance, Erase, Fetch, CreatePending, WriteRequest,
     WriteRequestFails, StartApplier, StartRefused, Unmark, Unhost, FreeUpdater,
     ClientDies
<1>2. CASE Restart
  BY <1>2 DEF Typed, Quiet, ReportSteps, WatchSteps, Restart, UiEnds, ServicesRestart
<1>3. CASE RestartFails
  BY <1>3 DEF Typed, Quiet, ReportSteps, WatchSteps, RestartFails, UiEnds,
     ServicesRestart
<1>4. CASE StartRescue
  BY <1>4 DEF Typed, Quiet, ReportSteps, WatchSteps, StartRescue, UiEnds
<1>5. CASE LockHost \/ LockData \/ Adopt \/ Refuse \/ Place \/ InstallFiles \/ Switch \/
      Healthy \/ Unhealthy \/ Rollback \/ Raise \/ Unask \/ Unlock \/ Leave \/
      ApplierDies \/ Barred \/ EndFails
  BY <1>5 DEF Typed, Quiet, ReportSteps, WatchSteps, LockHost, LockData, Adopt, Refuse,
     Place, InstallFiles, Switch, Healthy, Unhealthy, Rollback, Raise, Unask, Unlock,
     Leave, ApplierDies, Barred, EndFails
<1>6. CASE Begin
  BY <1>6 DEF Typed, Quiet, ReportSteps, WatchSteps, Begin
<1>7. CASE SeesHealthy
  BY <1>7 DEF Typed, Quiet, ReportSteps, WatchSteps, SeesHealthy, EndRound, Clear
<1>8. CASE SeesUnhealthy
  BY <1>8 DEF Typed, Quiet, ReportSteps, WatchSteps, SeesUnhealthy
<1>9. CASE ReadRetry
  BY <1>9 DEF Typed, Quiet, ReportSteps, WatchSteps, ReadRetry, Exhausted
<1>10. CASE WatchHost
  BY <1>10 DEF Typed, Quiet, ReportSteps, WatchSteps, WatchHost
<1>11. CASE WatchReports
  BY <1>11 DEF Typed, Quiet, ReportSteps, WatchSteps, WatchReports
<1>12. CASE WriteRetry
  BY <1>12 DEF Typed, Quiet, ReportSteps, WatchSteps, WriteRetry
<1>13. CASE RestartControl
  BY <1>13 DEF Typed, Quiet, ReportSteps, WatchSteps, RestartControl, UiEnds
<1>14. CASE GiveUp
  BY <1>14 DEF Typed, Quiet, ReportSteps, WatchSteps, GiveUp, EndRound
<1>15. CASE WatchdogDies
  BY <1>15 DEF Typed, Quiet, ReportSteps, WatchSteps, WatchdogDies, EndRound
<1>16. ASSUME NEW r \in Reports, StartReport(r) PROVE Quiet'
  BY <1>16 DEF Typed, Quiet, ReportSteps, WatchSteps, StartReport
<1>17. ASSUME NEW r \in Reports, EndReport(r) PROVE Quiet'
  BY <1>17 DEF Typed, Quiet, ReportSteps, WatchSteps, EndReport
<1>18. ASSUME NEW d \in DataWork, StartData(d) \/ EndData(d) PROVE Quiet'
  BY <1>18 DEF Typed, Quiet, ReportSteps, WatchSteps, StartData, EndData
<1>19. CASE TimePasses
  BY <1>19 DEF Typed, Quiet, ReportSteps, WatchSteps, TimePasses
<1>20. CASE UiDies
  BY <1>20 DEF Typed, Quiet, ReportSteps, WatchSteps, UiDies, UiEnds
<1>21. CASE PowerLoss
  BY <1>21 DEF Typed, Quiet, ReportSteps, WatchSteps, PowerLoss, Clear
<1>22. CASE UNCHANGED vars
  BY <1>22 DEF Typed, Quiet, ReportSteps, WatchSteps, vars
<1> QED
  BY <1>1, <1>2, <1>3, <1>4, <1>5, <1>6, <1>7, <1>8, <1>9, <1>10, <1>11, <1>12, <1>13,
     <1>14, <1>15, <1>16, <1>17, <1>18, <1>19, <1>20, <1>21, <1>22 DEF Next, ClientStep,
     ApplierStep, WatchdogStep, Death

-----------------------------------------------------------------------------
(* Releases.  Under the host lock apply.lock is changed by its holder alone. *)

OwnSteps == ApplySteps \ {"data", "adopt", "leave"}

Marked ==
  /\ applier \in OwnSteps => apply = "owned"
  /\ \A c \in Clients : at[c] \in {"ask", "start"} => apply = "pending"

LEMMA MarkedStep ==
  ASSUME HostAssumption, Typed, HostHeld, Marked, [Next]_vars
  PROVE  Marked'
<1>1. ASSUME NEW c \in Clients, CreatePending(c) PROVE Marked'
  BY <1>1, HostAssumption DEF Typed, HostHeld, Marked, OwnSteps, HostAssumption,
     Clients, HoldSteps, ApplySteps, WatchSteps, ReportSteps, CreatePending
<1>2. ASSUME NEW c \in Clients, WriteRequest(c) PROVE Marked'
  BY <1>2, HostAssumption DEF Typed, HostHeld, Marked, OwnSteps, HostAssumption,
     Clients, HoldSteps, ApplySteps, WatchSteps, ReportSteps, WriteRequest
<1>3. ASSUME NEW c \in Clients, StartApplier(c) PROVE Marked'
  BY <1>3, HostAssumption DEF Typed, HostHeld, Marked, OwnSteps, HostAssumption,
     Clients, HoldSteps, ApplySteps, WatchSteps, ReportSteps, StartApplier
<1>4. ASSUME NEW c \in Clients, StartRefused(c) PROVE Marked'
  BY <1>4, HostAssumption DEF Typed, HostHeld, Marked, OwnSteps, HostAssumption,
     Clients, HoldSteps, ApplySteps, WatchSteps, ReportSteps, StartRefused
<1>5. ASSUME NEW c \in Clients, ClientDies(c) PROVE Marked'
  BY <1>5, HostAssumption DEF Typed, HostHeld, Marked, OwnSteps, HostAssumption,
     Clients, HoldSteps, ApplySteps, WatchSteps, ReportSteps, ClientDies
<1>6. ASSUME NEW c \in Clients, Try(c) \/ AskReset(c) \/ TakeUpdater(c) \/ TakeHost(c)
      \/ TakeMaintenance(c) \/ Erase(c) \/ Fetch(c) \/ WriteRequestFails(c) \/ Unmark(c)
      \/ Unhost(c) \/ FreeUpdater(c) PROVE Marked'
  BY <1>6, HostAssumption DEF Typed, HostHeld, Marked, OwnSteps, HostAssumption,
     Clients, HoldSteps, ApplySteps, WatchSteps, ReportSteps, Try, AskReset,
     TakeUpdater, TakeHost, Outside, TakeMaintenance, Erase, Fetch, WriteRequestFails,
     Unmark, Unhost, FreeUpdater
<1>7. CASE LockHost
  BY <1>7, HostAssumption DEF Typed, HostHeld, Marked, OwnSteps, HostAssumption,
     Clients, HoldSteps, ApplySteps, WatchSteps, ReportSteps, LockHost
<1>8. CASE Adopt
  BY <1>8, HostAssumption DEF Typed, HostHeld, Marked, OwnSteps, HostAssumption,
     Clients, HoldSteps, ApplySteps, WatchSteps, ReportSteps, Adopt
<1>9. CASE Restart
  BY <1>9, HostAssumption DEF Typed, HostHeld, Marked, OwnSteps, HostAssumption,
     Clients, HoldSteps, ApplySteps, WatchSteps, ReportSteps, Restart, UiEnds,
     ServicesRestart
<1>10. CASE RestartFails
  BY <1>10, HostAssumption DEF Typed, HostHeld, Marked, OwnSteps, HostAssumption,
     Clients, HoldSteps, ApplySteps, WatchSteps, ReportSteps, RestartFails, UiEnds,
     ServicesRestart
<1>11. CASE StartRescue
  BY <1>11, HostAssumption DEF Typed, HostHeld, Marked, OwnSteps, HostAssumption,
     Clients, HoldSteps, ApplySteps, WatchSteps, ReportSteps, StartRescue, UiEnds
<1>12. CASE Unlock
  BY <1>12, HostAssumption DEF Typed, HostHeld, Marked, OwnSteps, HostAssumption,
     Clients, HoldSteps, ApplySteps, WatchSteps, ReportSteps, Unlock
<1>13. CASE ApplierDies \/ Barred \/ EndFails
  BY <1>13, HostAssumption DEF Typed, HostHeld, Marked, OwnSteps, HostAssumption,
     Clients, HoldSteps, ApplySteps, WatchSteps, ReportSteps, ApplierDies, Barred, EndFails
<1>14. CASE LockData \/ Refuse \/ Place \/ InstallFiles \/ Switch \/ Healthy \/
      Unhealthy \/ Rollback \/ Raise \/ Unask \/ Leave
  BY <1>14, HostAssumption DEF Typed, HostHeld, Marked, OwnSteps, HostAssumption,
     Clients, HoldSteps, ApplySteps, WatchSteps, ReportSteps, LockData, Refuse, Place,
     InstallFiles, Switch, Healthy, Unhealthy, Rollback, Raise, Unask, Leave
<1>15. CASE RestartControl
  BY <1>15, HostAssumption DEF Typed, HostHeld, Marked, OwnSteps, HostAssumption,
     Clients, HoldSteps, ApplySteps, WatchSteps, ReportSteps, RestartControl, UiEnds
<1>16. CASE Begin \/ SeesHealthy \/ SeesUnhealthy \/ ReadRetry \/ WatchHost \/
      WatchReports \/ WriteRetry \/ GiveUp \/ WatchdogDies
  BY <1>16, HostAssumption DEF Typed, HostHeld, Marked, OwnSteps, HostAssumption,
     Clients, HoldSteps, ApplySteps, WatchSteps, ReportSteps, Begin, SeesHealthy,
     EndRound, Clear, SeesUnhealthy, ReadRetry, Exhausted, WatchHost, WatchReports,
     WriteRetry, GiveUp, WatchdogDies
<1>17. ASSUME NEW r \in Reports, StartReport(r) \/ EndReport(r) PROVE Marked'
  BY <1>17, HostAssumption DEF Typed, HostHeld, Marked, OwnSteps, HostAssumption,
     Clients, HoldSteps, ApplySteps, WatchSteps, ReportSteps, StartReport, EndReport
<1>18. ASSUME NEW d \in DataWork, StartData(d) \/ EndData(d) PROVE Marked'
  BY <1>18, HostAssumption DEF Typed, HostHeld, Marked, OwnSteps, HostAssumption,
     Clients, HoldSteps, ApplySteps, WatchSteps, ReportSteps, StartData, EndData
<1>19. CASE UiDies
  BY <1>19, HostAssumption DEF Typed, HostHeld, Marked, OwnSteps, HostAssumption,
     Clients, HoldSteps, ApplySteps, WatchSteps, ReportSteps, UiDies, UiEnds
<1>20. CASE PowerLoss
  BY <1>20, HostAssumption DEF Typed, HostHeld, Marked, OwnSteps, HostAssumption,
     Clients, HoldSteps, ApplySteps, WatchSteps, ReportSteps, PowerLoss, Clear
<1>21. CASE TimePasses
  BY <1>21, HostAssumption DEF Typed, HostHeld, Marked, OwnSteps, HostAssumption,
     Clients, HoldSteps, ApplySteps, WatchSteps, ReportSteps, TimePasses
<1>22. CASE UNCHANGED vars
  BY <1>22 DEF Typed, HostHeld, Marked, OwnSteps, HostAssumption, Clients, HoldSteps,
     ApplySteps, WatchSteps, ReportSteps, vars
<1> QED
  BY <1>1, <1>2, <1>3, <1>4, <1>5, <1>6, <1>7, <1>8, <1>9, <1>10, <1>11, <1>12, <1>13,
     <1>14, <1>15, <1>16, <1>17, <1>18, <1>19, <1>20, <1>21, <1>22 DEF Next, ClientStep,
     ApplierStep, WatchdogStep, Death

\* A release that was seen healthy, or that a helper left behind.
Known(v) == v \in verified \/ botched

\* The helper begins with a known release, keeps it in previous while the link
\* names another, and is back at a known one before it gives apply.lock away.
Guarded ==
  /\ apply # "owned" => Known(current)
  /\ applier \in OwnSteps \ {"restart", "health", "rollback"} => Known(current)
  /\ applier \in {"files", "switch", "restart", "health", "rollback"} => Known(previous)

LEMMA GuardedStep ==
  ASSUME HostAssumption, Typed, HostHeld, Marked, Guarded, [Next]_vars
  PROVE  Guarded'
<1>1. ASSUME NEW c \in Clients, CreatePending(c) PROVE Guarded'
  BY <1>1, HostAssumption DEF Typed, HostHeld, Marked, Guarded, Known, OwnSteps,
     HostAssumption, Clients, HoldSteps, ApplySteps, WatchSteps, ReportSteps,
     CreatePending
<1>2. ASSUME NEW c \in Clients, StartApplier(c) PROVE Guarded'
  BY <1>2, HostAssumption DEF Typed, HostHeld, Marked, Guarded, Known, OwnSteps,
     HostAssumption, Clients, HoldSteps, ApplySteps, WatchSteps, ReportSteps,
     StartApplier
<1>3. ASSUME NEW c \in Clients, StartRefused(c) PROVE Guarded'
  BY <1>3, HostAssumption DEF Typed, HostHeld, Marked, Guarded, Known, OwnSteps,
     HostAssumption, Clients, HoldSteps, ApplySteps, WatchSteps, ReportSteps,
     StartRefused
<1>4. ASSUME NEW c \in Clients, Try(c) \/ AskReset(c) \/ TakeUpdater(c) \/ TakeHost(c)
      \/ TakeMaintenance(c) \/ Erase(c) \/ Fetch(c) \/ WriteRequest(c) \/
      WriteRequestFails(c) \/ Unmark(c) \/ Unhost(c) \/ FreeUpdater(c) \/ ClientDies(c)
      PROVE Guarded'
  BY <1>4, HostAssumption DEF Typed, HostHeld, Marked, Guarded, Known, OwnSteps,
     HostAssumption, Clients, HoldSteps, ApplySteps, WatchSteps, ReportSteps, Try,
     AskReset, TakeUpdater, TakeHost, Outside, TakeMaintenance, Erase, Fetch,
     WriteRequest, WriteRequestFails, Unmark, Unhost, FreeUpdater, ClientDies
<1>5. CASE LockHost
  BY <1>5, HostAssumption DEF Typed, HostHeld, Marked, Guarded, Known, OwnSteps,
     HostAssumption, Clients, HoldSteps, ApplySteps, WatchSteps, ReportSteps, LockHost
<1>6. CASE Adopt
  BY <1>6, HostAssumption DEF Typed, HostHeld, Marked, Guarded, Known, OwnSteps,
     HostAssumption, Clients, HoldSteps, ApplySteps, WatchSteps, ReportSteps, Adopt
<1>7. CASE Place
  BY <1>7, HostAssumption DEF Typed, HostHeld, Marked, Guarded, Known, OwnSteps,
     HostAssumption, Clients, HoldSteps, ApplySteps, WatchSteps, ReportSteps, Place
<1>8. CASE Switch
  BY <1>8, HostAssumption DEF Typed, HostHeld, Marked, Guarded, Known, OwnSteps,
     HostAssumption, Clients, HoldSteps, ApplySteps, WatchSteps, ReportSteps, Switch
<1>9. CASE Healthy
  BY <1>9, HostAssumption DEF Typed, HostHeld, Marked, Guarded, Known, OwnSteps,
     HostAssumption, Clients, HoldSteps, ApplySteps, WatchSteps, ReportSteps, Healthy
<1>10. CASE Unhealthy
  BY <1>10, HostAssumption DEF Typed, HostHeld, Marked, Guarded, Known, OwnSteps,
     HostAssumption, Clients, HoldSteps, ApplySteps, WatchSteps, ReportSteps, Unhealthy
<1>11. CASE Rollback
  BY <1>11, HostAssumption DEF Typed, HostHeld, Marked, Guarded, Known, OwnSteps,
     HostAssumption, Clients, HoldSteps, ApplySteps, WatchSteps, ReportSteps, Rollback
<1>12. CASE Raise
  BY <1>12, HostAssumption DEF Typed, HostHeld, Marked, Guarded, Known, OwnSteps,
     HostAssumption, Clients, HoldSteps, ApplySteps, WatchSteps, ReportSteps, Raise
<1>13. CASE Unlock
  BY <1>13, HostAssumption DEF Typed, HostHeld, Marked, Guarded, Known, OwnSteps,
     HostAssumption, Clients, HoldSteps, ApplySteps, WatchSteps, ReportSteps, Unlock
<1>14. CASE ApplierDies \/ Barred \/ EndFails
  BY <1>14, HostAssumption DEF Typed, HostHeld, Marked, Guarded, Known, OwnSteps,
     HostAssumption, Clients, HoldSteps, ApplySteps, WatchSteps, ReportSteps,
     ApplierDies, Barred, EndFails
<1>15. CASE LockData \/ Refuse \/ InstallFiles \/ Restart \/ RestartFails \/ StartRescue
      \/ Unask \/ Leave
  BY <1>15, HostAssumption DEF Typed, HostHeld, Marked, Guarded, Known, OwnSteps,
     HostAssumption, Clients, HoldSteps, ApplySteps, WatchSteps, ReportSteps, LockData,
     Refuse, InstallFiles, Restart, UiEnds, ServicesRestart, RestartFails, StartRescue,
     Unask, Leave
<1>16. CASE Begin \/ SeesHealthy \/ SeesUnhealthy \/ ReadRetry \/ WatchHost \/
      WatchReports \/ WriteRetry \/ RestartControl \/ GiveUp \/ WatchdogDies
  BY <1>16, HostAssumption DEF Typed, HostHeld, Marked, Guarded, Known, OwnSteps,
     HostAssumption, Clients, HoldSteps, ApplySteps, WatchSteps, ReportSteps, Begin,
     SeesHealthy, EndRound, Clear, SeesUnhealthy, ReadRetry, Exhausted, WatchHost,
     WatchReports, WriteRetry, RestartControl, UiEnds, GiveUp, WatchdogDies
<1>17. ASSUME NEW r \in Reports, StartReport(r) \/ EndReport(r) PROVE Guarded'
  BY <1>17, HostAssumption DEF Typed, HostHeld, Marked, Guarded, Known, OwnSteps,
     HostAssumption, Clients, HoldSteps, ApplySteps, WatchSteps, ReportSteps,
     StartReport, EndReport
<1>18. ASSUME NEW d \in DataWork, StartData(d) \/ EndData(d) PROVE Guarded'
  BY <1>18, HostAssumption DEF Typed, HostHeld, Marked, Guarded, Known, OwnSteps,
     HostAssumption, Clients, HoldSteps, ApplySteps, WatchSteps, ReportSteps, StartData,
     EndData
<1>19. CASE PowerLoss
  BY <1>19, HostAssumption DEF Typed, HostHeld, Marked, Guarded, Known, OwnSteps,
     HostAssumption, Clients, HoldSteps, ApplySteps, WatchSteps, ReportSteps, PowerLoss,
     Clear
<1>20. CASE TimePasses \/ UiDies
  BY <1>20, HostAssumption DEF Typed, HostHeld, Marked, Guarded, Known, OwnSteps,
     HostAssumption, Clients, HoldSteps, ApplySteps, WatchSteps, ReportSteps,
     TimePasses, UiDies, UiEnds
<1>21. CASE UNCHANGED vars
  BY <1>21 DEF Typed, HostHeld, Marked, Guarded, Known, OwnSteps, HostAssumption,
     Clients, HoldSteps, ApplySteps, WatchSteps, ReportSteps, vars
<1> QED
  BY <1>1, <1>2, <1>3, <1>4, <1>5, <1>6, <1>7, <1>8, <1>9, <1>10, <1>11, <1>12, <1>13,
     <1>14, <1>15, <1>16, <1>17, <1>18, <1>19, <1>20, <1>21 DEF Next, ClientStep,
     ApplierStep, WatchdogStep, Death

-----------------------------------------------------------------------------
(* The inductive invariant, and the theorems.                               *)

Inv == Typed /\ Flags /\ HostHeld /\ Aimed /\ Counted /\ Quiet /\ Marked /\ Guarded

LEMMA InvInit == HostAssumption /\ Init => Inv
<1> SUFFICES ASSUME HostAssumption, Init PROVE Inv
  OBVIOUS
<1>1. Typed /\ HostHeld /\ Aimed
  BY DEF Init, Typed, HostHeld, Aimed, HostAssumption, Clients, Versions, HoldSteps,
         ApplySteps, WatchSteps, ReportSteps
<1>2. Flags
  BY DEF Init, Flags
<1>3. Counted /\ Quiet /\ Marked /\ Guarded
  BY DEF Init, Counted, Quiet, Marked, Guarded, Known, OwnSteps, ApplySteps, Clients
<1> QED
  BY <1>1, <1>2, <1>3 DEF Inv

LEMMA InvStep == HostAssumption /\ Inv /\ [Next]_vars => Inv'
  BY HeldStep, TypedStep, FlagsStep, AimedStep, CountedStep, QuietStep, MarkedStep,
     GuardedStep DEF Inv

LEMMA Invariant == Spec => []Inv
<1>1. Init => Inv
  BY InvInit, HostAssumption
<1>2. Inv /\ [Next]_vars => Inv'
  BY InvStep, HostAssumption
<1> QED
  BY <1>1, <1>2, PTL DEF Spec

\* Every reachable state is well typed, and the host lock is held by whoever is at a
\* step of a section that takes it, and by nobody else.
THEOREM TypeCorrect == Spec => []TypeOK
<1>1. Inv => TypeOK
  BY DEF Inv, Typed, Flags, HostHeld, TypeOK
<1> QED
  BY <1>1, Invariant, PTL

\* However often the watchdog is killed, and at whatever step, it asks for at most
\* three restarts of control (claw-trade-watchdog, run) until control is healthy.
THEOREM RestartBudgetCorrect == Spec => []RestartBudget
<1>1. Inv => RestartBudget
  BY DEF Inv, Typed, Counted, RestartBudget
<1> QED
  BY <1>1, Invariant, PTL

\* A release that was never seen healthy is in place only under apply.lock, or after a
\* helper (claw-trade-apply-update, run_locked) that ended by an exception.
THEOREM UnverifiedIsFlaggedCorrect == Spec => []UnverifiedIsFlagged
<1>1. Inv => UnverifiedIsFlagged
  BY DEF Inv, Guarded, Known, UnverifiedIsFlagged
<1> QED
  BY <1>1, Invariant, PTL

\* The watchdog's restart of control (run) meets no report, no update and no reset.
THEOREM RestartsAloneCorrect == Spec => RestartsAlone
<1> DEFINE Alone == /\ reports = {} /\ applier \notin ApplySteps
                    /\ \A c \in Clients : at[c] \notin HoldSteps
<1>1. ASSUME Inv, RestartControl PROVE Alone
  BY <1>1, HostAssumption DEF Inv, HostHeld, Quiet, RestartControl, HostAssumption,
     Clients, WatchSteps, ReportSteps
<1>2. ASSUME Inv, [Next]_vars, restarts' > restarts PROVE RestartControl
  <2> USE DEF Clear
  <2>1. ASSUME NEW c \in Clients, Try(c) \/ AskReset(c) \/ TakeUpdater(c) \/ TakeHost(c)
        \/ TakeMaintenance(c) \/ Erase(c) \/ Fetch(c) \/ CreatePending(c) \/
        WriteRequest(c) \/ WriteRequestFails(c) \/ StartApplier(c) \/ StartRefused(c) \/
        Unmark(c) \/ Unhost(c) \/ FreeUpdater(c) \/ ClientDies(c) PROVE ~(restarts' >
        restarts)
    BY <1>2, <2>1 DEF Inv, Typed, Try, AskReset, TakeUpdater, TakeHost, Outside,
       TakeMaintenance, Erase, Fetch, CreatePending, WriteRequest, WriteRequestFails,
       StartApplier, StartRefused, Unmark, Unhost, FreeUpdater, ClientDies
  <2>2. ASSUME LockHost \/ LockData \/ Adopt \/ Refuse \/ Place \/ InstallFiles \/
        Switch \/ Restart \/ RestartFails \/ Healthy \/ Unhealthy \/ Rollback \/
        StartRescue \/ Raise \/ Unask \/ Unlock \/ Leave \/ ApplierDies \/ Barred \/ EndFails PROVE
        ~(restarts' > restarts)
    BY <1>2, <2>2 DEF Inv, Typed, LockHost, LockData, Adopt, Refuse, Place,
       InstallFiles, Switch, Restart, UiEnds, ServicesRestart, RestartFails, Healthy,
       Unhealthy, Rollback, StartRescue, Raise, Unask, Unlock, Leave, ApplierDies, Barred, EndFails
  <2>3. ASSUME Begin \/ SeesHealthy \/ SeesUnhealthy \/ ReadRetry \/ WatchHost \/
        WatchReports \/ WriteRetry \/ GiveUp \/ WatchdogDies PROVE ~(restarts' >
        restarts)
    BY <1>2, <2>3 DEF Inv, Typed, Begin, SeesHealthy, EndRound, Clear, SeesUnhealthy,
       ReadRetry, Exhausted, WatchHost, WatchReports, WriteRetry, GiveUp, WatchdogDies
  <2>4. ASSUME NEW r \in Reports, StartReport(r) \/ EndReport(r) PROVE ~(restarts' >
        restarts)
    BY <1>2, <2>4 DEF Inv, Typed, StartReport, EndReport
  <2>5. ASSUME NEW d \in DataWork, StartData(d) \/ EndData(d) PROVE ~(restarts' >
        restarts)
    BY <1>2, <2>5 DEF Inv, Typed, StartData, EndData
  <2>6. ASSUME TimePasses \/ UiDies \/ PowerLoss PROVE ~(restarts' > restarts)
    BY <1>2, <2>6 DEF Inv, Typed, TimePasses, UiDies, UiEnds, PowerLoss, Clear
  <2>7. CASE UNCHANGED vars
    BY <1>2, <2>7 DEF Inv, Typed, vars
  <2> QED
    BY <1>2, <2>1, <2>2, <2>3, <2>4, <2>5, <2>6, <2>7
       DEF Next, ClientStep, ApplierStep, WatchdogStep, Death
<1>3. Inv /\ [Next]_vars => (restarts' > restarts => Alone)
  BY <1>1, <1>2
<1>4. Inv /\ [Next]_vars => [restarts' > restarts => Alone]_vars
  BY <1>3
<1> QED
  BY <1>4, Invariant, PTL DEF Spec, RestartsAlone
=============================================================================

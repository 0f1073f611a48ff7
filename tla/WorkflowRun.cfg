SPECIFICATION FairSpec
CONSTANTS
  c1 = c1
  c2 = c2
  Frontline = 3
  DebateRounds = 2
  RiskRounds = 2
  Sections = 2
  Parallel = TRUE
  AssetsMayFail = TRUE
  Canceller = {c1, c2}
  MayRaise = TRUE
INVARIANTS
  TypeOK
  UpstreamApproved
  CompletedReport
  EndedIsTerminal
PROPERTIES
  CancelStopsCalls
  CancelEndsRun
  ImplementsRunThread
CHECK_DEADLOCK FALSE

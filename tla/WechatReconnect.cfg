SPECIFICATION FairSpec
CONSTANTS
  Accounts = {a, b}
  None = None
  Slots = {s1, s2}
  MaxOps = 2
  MaxSessions = 2
  MaxFaults = 2
CONSTRAINT NotOvertaken
INVARIANTS TypeOK OutcomeIsReal NoAccountLost
PROPERTIES OperationsEnd ImplementsSendWindow
CHECK_DEADLOCK FALSE

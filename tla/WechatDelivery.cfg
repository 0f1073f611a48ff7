SPECIFICATION FairSpec
CONSTANTS
  Intents = {i1, i2}
  Workers = {watcher, w1}
  Watcher = watcher
  Requests = {r1}
  Accounts = {a}
  None = None
  MaxAttempts = 2
  MaxFaults = 1
INVARIANTS SendsInWindow NoUnaskedDuplicate
PROPERTIES SentIsTrue WaitingEnds
CHECK_DEADLOCK FALSE

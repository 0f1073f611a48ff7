SPECIFICATION FairSpec
CONSTANTS
  u1 = u1
  u2 = u2
  r1 = r1
  r2 = r2
  r3 = r3
  User = {u1}
  MaxTasks = 1
  Request = {r1, r2}
  Key <- KindKey
  Manual <- KindManual
  Notify <- KindNotify
  QueueLimit = 1
  StoreFaults = FALSE
  RunMayDie = FALSE
PROPERTIES
  CancelEnds
  RunsAreRunThreads

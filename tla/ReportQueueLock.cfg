SPECIFICATION Spec
CONSTANTS
  u1 = u1
  u2 = u2
  r1 = r1
  r2 = r2
  r3 = r3
  User = {u1, u2}
  MaxTasks = 2
  Request = {r1, r3}
  Key <- KindKey
  Manual <- KindManual
  Notify <- KindNotify
  QueueLimit = 2
  StoreFaults = FALSE
  RunMayDie = FALSE
INVARIANT
  ExclusiveExcludesRuns

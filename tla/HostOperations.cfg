SPECIFICATION FairSpec
CONSTANTS
  Installers = {i1}
  Resets = {z1}
  InUi = {i1}
  Reports = {q1}
  DataWork = {d1}
  MaxVersion = 2
  MaxFaults = 1
INVARIANTS
  RestartBudget
  UnverifiedIsFlagged
PROPERTIES
  RestartsAlone
  UpdateEnds
CHECK_DEADLOCK FALSE

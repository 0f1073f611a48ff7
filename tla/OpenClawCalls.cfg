SPECIFICATION FairSpec
CONSTANTS
  Calls = {c1}
  Cancellers = {k1, k2}
INVARIANTS NoProcessLeft
PROPERTIES CancelledCallEnds SessionEnds
CHECK_DEADLOCK FALSE

CONSTANTS
  Half = 8
  MaxDrift = 1
  OverflowChecks = FALSE
  Callers = {c1, c2}
  Users = {u}
  Nonces = {n1, n2}
  MaxClock = 3
  Timestamps <- MCTimestamps
  NoCall = NoCall
  LockWaitSpansSeconds = TRUE
  ClockStepsBack = FALSE
  Restarts = FALSE
SPECIFICATION Spec
SYMMETRY Symmetry
PROPERTY EachProofOnce

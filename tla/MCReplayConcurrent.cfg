CONSTANTS
  Half = 8
  MaxDrift = 1
  OverflowChecks = FALSE
  Callers = {c1, c2}
  Users = {u}
  Nonces = {n1, n2}
  MaxClock = 3
  Timestamps <- MCTimestamps
  NoCall = NoCall
  LockWaitSpansSeconds = TRUE
  ClockStepsBack = TRUE
  Restarts = FALSE
SPECIFICATION Spec
SYMMETRY Symmetry
INVARIANT TypeOK
INVARIANT RememberedWhileFresh
PROPERTY NonceReusedOnlyAfterExpiry
PROPERTY ReplayVerdictJustified

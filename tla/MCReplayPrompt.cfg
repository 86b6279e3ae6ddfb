CONSTANTS
  Half = 8
  MaxDrift = 1
  OverflowChecks = TRUE
  Callers = {c1, c2}
  Users = {u}
  Nonces = {n1, n2}
  MaxClock = 2
  Timestamps <- MCTimestamps
  NoCall = NoCall
  LockWaitSpansSeconds = FALSE
  ClockStepsBack = FALSE
  Restarts = TRUE
SPECIFICATION Spec
SYMMETRY Symmetry
INVARIANT TableHoldsOneWindow
PROPERTY EachProofOnce
PROPERTY RestartForgetsOnlyTheWindow
PROPERTY ImplementsGuard

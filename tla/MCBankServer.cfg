CONSTANTS
  u = u
  k1 = k1
  k2 = k2
  n1 = n1
  n2 = n2
  long = long
  c1 = c1
  c2 = c2
  Users = {u}
  Keys = {k1, k2}
  Nonces = {n1, n2}
  Timestamps <- RaceTimestamps
  NoKey = NoKey
  Half = 8
  MaxDrift = 0
  OverflowChecks = FALSE
  NoCall = NoCall
  MaxClock = 1
  LockWaitSpansSeconds = FALSE
  ClockStepsBack = FALSE
  Conns = {c1, c2}
  Requests <- RaceRequests
  Garbage = Garbage
  LongUsers = {}
  MaxSends <- OneSend
SPECIFICATION Spec
SYMMETRY Symmetry
INVARIANT BankTypeOK
INVARIANT SuccessIsEarned
INVARIANT RefusalIsEarned
PROPERTY ImplementsService
PROPERTY NonceSpentUnderHeldKey

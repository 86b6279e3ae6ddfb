CONSTANTS
  u = u
  k = k
  n1 = n1
  n2 = n2
  p1 = p1
  Users = {u}
  Keys = {k}
  Nonces = {n1, n2}
  Timestamps <- MCTimestamps
  NoKey = NoKey
  Half = 8
  MaxDrift = 0
  OverflowChecks = FALSE
  NoCall = NoCall
  MaxClock = 0
  LockWaitSpansSeconds = FALSE
  Worker = Worker
  Provers = {p1}
  UserOf <- MCUserOf
  KeyOf <- MCKeyOf
  NonceOf <- MCNonceOf
  Foreign <- PanicForeign
  Other = Other
  Junk = Junk
  OffsetErrors = FALSE
  SignalErrors = FALSE
  MaxLog = 3
  MaxLives = 1
SPECIFICATION Spec
INVARIANT ReplayReportTruthful

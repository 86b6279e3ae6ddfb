CONSTANTS
  u = u
  k = k
  n1 = n1
  n2 = n2
  p1 = p1
  Users = {u}
  Keys = {k}
  Nonces = {n1, n2}
  Timestamps <- MCTimestamps
  NoKey = NoKey
  Half = 8
  MaxDrift = 0
  OverflowChecks = FALSE
  NoCall = NoCall
  MaxClock = 1
  LockWaitSpansSeconds = FALSE
  Worker = Worker
  Provers = {}
  UserOf <- MCUserOf
  KeyOf <- MCKeyOf
  NonceOf <- MCNonceOf
  Foreign <- BothForeign
  Other = Other
  Junk = Junk
  OffsetErrors = TRUE
  SignalErrors = TRUE
  MaxLog = 2
  MaxLives = 2
SPECIFICATION FairSpec
INVARIANT VerifiedOncePerLife
PROPERTY ImplementsService
PROPERTY EveryRequestAnswered

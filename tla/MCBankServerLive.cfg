CONSTANTS
  u = u
  k1 = k1
  k2 = k2
  n1 = n1
  n2 = n2
  long = long
  c1 = c1
  c2 = c2
  Users = {u, long}
  Keys = {k1}
  Nonces = {n1}
  Timestamps <- LiveTimestamps
  NoKey = NoKey
  Half = 8
  MaxDrift = 0
  OverflowChecks = TRUE
  NoCall = NoCall
  MaxClock = 1
  LockWaitSpansSeconds = TRUE
  ClockStepsBack = TRUE
  Conns = {c1, c2}
  Requests <- LiveRequests
  Garbage = Garbage
  LongUsers = {long}
  MaxSends <- LiveSends
SPECIFICATION FairSpec
INVARIANT AnswersInStep
INVARIANT UnansweredHasCause
PROPERTY EveryRequestAnswered
PROPERTY BacklogDrains

CONSTANTS
  HeaderLen = 2
  Base = 2
  SendMax = 3
  RecvMax = 2
  Payloads <- MCPayloads
  Known <- MCKnown
  Refused = Refused
  MaxItems = 3
SPECIFICATION FairSpec
INVARIANT NeverWaitsInVain
PROPERTY ImplementsChannel
PROPERTY EveryFrameYielded
PROPERTY StreamEnds
CHECK_DEADLOCK FALSE

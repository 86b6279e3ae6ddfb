CONSTANTS
  Half = 16
  MaxDrift = 2
  Order = 5
  Hash <- MCHash
  Nonces <- MCNonces
SPECIFICATION Spec
INVARIANT IsFreshExact

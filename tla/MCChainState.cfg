SPECIFICATION FairSpec
CONSTANTS
  g = g
  a1 = a1
  a2 = a2
  a3 = a3
  b1 = b1
  b2 = b2
  c2 = c2
  none = none
  Blocks = {g, a1, a2, a3, b1, b2}
  Genesis = g
  NoBlock = none
  Parent <- MCParent
  Height <- MCHeight
  Chain <- MCChain
  Work <- MCWork
  Address <- MCAddress
  Malformed = {a3}
  Invalid = {b2}
  Unapplicable = {}
  KeepBlocks = 1
  MinimumWork = 0
  Invalidated = {}
  Reconsidered = {}
  Precious = {}
  MaxPrecious = 0
  Restarts = TRUE
  Crashes = TRUE
INVARIANT TypeOK
INVARIANT UnlinkedComplete
INVARIANT Settled
PROPERTY ActivationEnds
CHECK_DEADLOCK FALSE

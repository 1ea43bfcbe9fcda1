SPECIFICATION Spec
CONSTANTS
  g = g
  a1 = a1
  a2 = a2
  a3 = a3
  b1 = b1
  b2 = b2
  c2 = c2
  none = none
  Blocks = {g, a1, a2, a3, b1, b2}
  Genesis = g
  NoBlock = none
  Parent <- MCParent
  Height <- MCHeight
  Chain <- MCChain
  Work <- MCWork
  Address <- MCAddress
  Malformed = {}
  Invalid = {}
  Unapplicable = {b2}
  KeepBlocks = 2
  MinimumWork = 0
  Invalidated = {a1}
  Reconsidered = {a1}
  Precious = {b2}
  MaxPrecious = 2
  Restarts = FALSE
  Crashes = FALSE
INVARIANT CandidatesExact
INVARIANT FailuresAgree
INVARIANT CandidatesLeft
INVARIANT ActiveChainValid
CHECK_DEADLOCK FALSE

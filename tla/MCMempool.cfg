SPECIFICATION Spec
CONSTANTS
  Order <- MCOrder
  Spends <- MCSpends
  Creates <- MCCreates
  Fee <- MCFee
  Mweb = {"P", "M"}
  MwebOnly = {"M"}
  MwebOutputs = {"m1"}
  KernelOrder <- MCKernelOrder
  Foreign = {}
  BlockOnly = {"K"}
  TimeLocked = {"B", "R"}
  Replaceable = {"A"}
  Prioritised = {"B"}
  Genesis = {"o0", "o1"}
  LimitAncestors = 3
  LimitDescendants = 3
  MaxPool = 4
  MaxQueue = 3
  IncrementalFee = 1
  MaxHeight = 2
  MaxBlock = 3
  MaxDelta = 1
  MaxExpired = 1
  Nobody = Nobody
INVARIANTS
  TypeOK
  LinksExact
  TotalsExact
  PoolFollowsChain
  QueueUnconfirmed

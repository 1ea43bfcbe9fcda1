\* the index beside a wallet: reorganisations, stops and crashes
SPECIFICATION FairSpec
CONSTANTS
  Subscribers = {"index", "wallet", "rpc"}
  Callers = {"queue", "messages"}
  Idx = "index"
  Queue = "queue"
  Blocks <- MCBlocks
  Genesis = "G"
  Parent <- MCParent
  Height <- MCHeight
  None = None
  Rare = {}
  MaxQueue = 2
  Scopes <- MCScopes
INVARIANT CountExact
INVARIANT EveryoneCalled
INVARIANT CaughtUp
INVARIANT FailsOnlyInSync
INVARIANT IndexExact
PROPERTY CatchesUp
CHECK_DEADLOCK FALSE

SPECIFICATION FairSpec

CONSTANTS
    g = g
    a1 = a1
    a2 = a2
    b1 = b1
    o1 = o1
    o2 = o2
    NoBlock = NoBlock
    Spent = Spent
    NotCached = NotCached
    Genesis = g
    Outpoints = {o1, o2}
    Blocks <- MCBlocks
    Parent <- MCParent
    Height <- MCHeight
    Chain <- MCChain
    Creates <- MCCreates
    Spends <- MCSpends
    UtxoAt <- MCUtxoAt
    MwebHeight = 5
    KeepBlocks = 3
    PowerLoss = TRUE
    MaxMmrIndex = 1

INVARIANT DatabaseInTransit
INVARIANT ViewIsChain
INVARIANT NeverRefused
PROPERTY ReplayEnds

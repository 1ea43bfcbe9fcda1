SPECIFICATION Spec

CONSTANTS
    g = g
    a1 = a1
    a2 = a2
    b1 = b1
    o1 = o1
    o2 = o2
    NoBlock = NoBlock
    Spent = Spent
    NotCached = NotCached
    Genesis = g
    Outpoints = {o1, o2}
    Blocks <- MCBlocks
    Parent <- MCParent
    Height <- MCHeight
    Chain <- MCChain
    Creates <- MCCreates
    Spends <- MCSpends
    UtxoAt <- MCUtxoAt
    MwebHeight = 1
    KeepBlocks = 1
    PowerLoss = FALSE
    MaxMmrIndex = 2

INVARIANT IndexNamesFiles
INVARIANT MmrFilesMatch

CHECK_DEADLOCK FALSE

SPECIFICATION Spec
CONSTANTS
    o1 = o1
    o2 = o2
    Outpoints = {o1, o2}
    small = small
    large = large
    burned = burned
    Coins = {small, large, burned}
    Unspendable = {burned}
    Spent = Spent
    b1 = b1
    b2 = b2
    Blocks = {b1, b2}
    NullBlock = NullBlock
    NotCached = NotCached
    CoinUsage <- MCUsage
INVARIANTS
    CachesCoherent
    UsageExact
PROPERTIES
    ImplementsUtxoSet

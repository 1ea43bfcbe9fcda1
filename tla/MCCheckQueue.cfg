CONSTANTS
    Workers = {w1, w2}
    Masters = {m1, m2}
    NoMaster = none
    c1 = c1
    c2 = c2
    c3 = c3
    c4 = c4
    Checks <- MCChecks
    Good <- MCGood
    nBatchSize = 2
SPECIFICATION FairSpec
INVARIANT ResultExact
PROPERTY WaitReturns

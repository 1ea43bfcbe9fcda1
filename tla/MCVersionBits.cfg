CONSTANTS
    NoBlock = none
    Blocks <- MCBlocks
    Parent <- MCParent
    Height <- MCHeight
    Chain <- MCChain
    MedianTime <- MCMedianTime
    Voters <- MCVoters
    Deployments <- MCDeployments
    nPeriod = 2
    nThreshold = 2
SPECIFICATION Spec
INVARIANTS AnswerExact SinceHeightExact

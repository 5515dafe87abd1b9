SPECIFICATION FairSpec
CONSTANTS
    Workers = {w1, w2}
    Master = m
    nBatchSize = 2
    MaxChecks = 4
    MaxBlocks = 2
INVARIANTS
    TypeOK
    IdleBetweenBlocks
    VerdictCorrect
    NoDanglingCheck
PROPERTIES
    WaitReturns
CHECK_DEADLOCK FALSE

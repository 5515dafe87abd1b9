SPECIFICATION Spec
CONSTANTS
    Tx <- MCTx
    Weight <- MCWeight
    Coinbase <- MCCoinbase
    Prevouts <- MCPrevouts
    Nullifiers <- MCNullifiers
    Anchor <- MCAnchor
    Shielded = {"shield"}
    Expiry <- MCExpiry
    Branch <- MCBranch
    TimeLocked = {"pay"}
    UpgradeHeight = 8
    Maturity = 2
    ExpiringSoon = 1
    Capacity = 3
    EvictionMemory = 2
    MaxOrphans = 2
    Peers = {"p1", "p2"}
    MaxHeight = 7
    MaxSteps = 5
    NoTx = NoTx
INVARIANTS
    PoolConsistent
    PoolFitsTip
    DrawByWeight
    EvictedStaysOut

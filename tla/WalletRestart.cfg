SPECIFICATION SpecOnDisk
CONSTANTS
    Blocks <- MCBlocks
    Genesis = "g"
    Parent <- MCParent
    Txs = {"old", "moved"}
    Commitments <- MCCommitments
    Depth = 3
    Uncommitted = Uncommitted
    Conflicts <- MCConflicts
    MaxReorg = 1
    MaxMoves = 3
    MaxCrashes = 1
    None = None
INVARIANT
    WalletComplete
CHECK_DEADLOCK FALSE

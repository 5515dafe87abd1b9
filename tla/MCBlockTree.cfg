SPECIFICATION FairSpec
CONSTANTS
    g = g
    a1 = a1
    a2 = a2
    a3 = a3
    b1 = b1
    b2 = b2
    b3 = b3
    t1 = t1
    t2 = t2
    None = None
    Genesis = g
    Blocks = {g, a1, a2, a3, b1, b2}
    Parent <- MCParent
    Proof <- UnitProof
    Address <- MCAddress
    BadBlocks = {b2}
    Malformed = {a3}
    Announced = {b1}
    Requests = {TRUE, FALSE}
    Threads = {t1, t2}
    Invalidates = {a1}
    Reconsiders = {a1}
    MAX_REORG_LENGTH = 1
    MIN_BLOCKS_TO_KEEP = 1
    MaxSequenceId = 5
    MaxUnlinked = 1
INVARIANTS
    CheckBlockIndex
    BestChainActive
    ActiveChainValid
PROPERTIES
    ActivationReturns
CHECK_DEADLOCK FALSE

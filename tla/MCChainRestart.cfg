SPECIFICATION RestartSpec
CONSTANTS
    g = g
    a1 = a1
    a2 = a2
    a3 = a3
    b1 = b1
    b2 = b2
    t1 = t1
    None = None
    Genesis = g
    Blocks = {g, a1, a2, a3, b1, b2}
    Parent <- MCParent
    Proof <- UnitProof
    Address <- MCAddress
    Epoch <- MCEpoch
    BadBlocks = {}
    Malformed = {}
    Announced = {a3}
    Requests = {TRUE}
    Threads = {t1}
    Invalidates = {}
    Reconsiders = {}
    Activations = {1, 2}
    FirstActivation = 2
    MAX_REORG_LENGTH = 2
    MIN_BLOCKS_TO_KEEP = 1
    MaxSequenceId = 4
    MaxUnlinked = 1
    Prunable = {a1, a2}
    MaxStarts = 2
INVARIANTS
    DiskConsistent
    IndexSurvives
    BestChainRestored
    RulesOfSoftware
    KeysStable
PROPERTIES
    NoNeedlessRewind
CHECK_DEADLOCK FALSE

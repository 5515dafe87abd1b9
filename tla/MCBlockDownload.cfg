SPECIFICATION Spec
CONSTANTS
    Block <- MCBlock
    Genesis = "g"
    Parent <- MCParent
    Bad = {"b2"}
    Peers = {"h", "d", "w"}
    Honest = {"h"}
    Preferred = {"h", "w"}
    Whitelisted = {"w"}
    Offers <- MCOffers
    Window = 1
    MaxTransit = 2
    MIN_BLOCKS_TO_KEEP = 1
    MaxInbound = 1
    MaxConnects = 2
    None = None
INVARIANTS
    InFlightConsistent
    CommonIsHeld
PROPERTIES
    Synced

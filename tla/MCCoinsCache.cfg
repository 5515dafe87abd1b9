SPECIFICATION OneKindSpec
CONSTANTS
    t1 = t1
    n1 = n1
    sapling = sapling
    r0 = r0
    r1 = r1
    b0 = b0
    b1 = b1
    None = None
    Outs = {1, 2}
    MaxHeight = 1
    Txids = {t1}
    Nullifiers = {n1}
    Pools = {sapling}
    Roots = {r0, r1}
    EmptyRoot = r0
    Blocks = {b0, b1}
INVARIANTS
    TypeOK
    FlagsSound
PROPERTIES
    StateRefined

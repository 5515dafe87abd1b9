SPECIFICATION Spec
CONSTANTS
    cb1 = cb1
    cb2 = cb2
    cb3 = cb3
    cb4 = cb4
    fund = fund
    all = all
    one = one
    rest = rest
    next = next
    again = again
    deep = deep
    n1 = n1
    heartwood = heartwood
    canopy = canopy
    n2 = n2
    None = None
    Outs = {1, 2}
    MaxHeight = 4
    Txids = {cb1, cb2, cb3, cb4, fund, all, one, rest, next, again, deep}
    Appends = {fund, again, deep}
    LookedUp = {fund, one}
    Inputs <- MCInputs
    Outputs <- MCOutputs
    Spends <- MCSpends
    AnchorOf <- MCAnchorOf
    EpochOf <- MCEpochOf
    Blocks <- MCBlocks
INVARIANTS
    ChainStateIsReplay
    HistoryIsReplay
    NoDoubleSpend
    NeverUnclean

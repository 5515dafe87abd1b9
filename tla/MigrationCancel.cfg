SPECIFICATION Spec
CONSTANTS
    Sends = {}
    Shields = {}
    Merges = {}
    Migrations = {m1, m2}
    Workers = {w1}
    Coins = {}
    NoOp = none
    MaxBatch = 2
INVARIANT PendingOfCurrentBatch
CHECK_DEADLOCK FALSE

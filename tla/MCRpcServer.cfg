SPECIFICATION FairSpec
CONSTANTS
    Sends = {s}
    Shields = {k1}
    Merges = {k2}
    Migrations = {}
    Workers = {w1}
    Coins = {c1, c2}
    NoOp = none
    Requests = {r1, r2}
    HttpWorkers = {h1, h2}
    NoRequest = none
    maxDepth = 1
INVARIANTS
    NoneForgotten
    InputsReserved
    ShutdownSettles
    OneOwner
PROPERTIES
    OperationsSettle
    ShutdownReturns
CHECK_DEADLOCK FALSE

SPECIFICATION FairSpec
CONSTANTS
    p = p
    g = g
    c1 = c1
    c2 = c2
    Names <- MCNames
    Clients = {c1}
    Scans <- MCScans
    ClientOf <- MCClientOf
    Stated <- MCStated
    None = None
    Concurrency = 2
    Window = 1
    CheckCap = 1
    MaxTime = 2
    MaxChanges = 1
    MaxLookups = 2
INVARIANTS
    AnswersAreTrue
    LimitHolds
PROPERTIES
    StoreGoesForward
    EverySettlementEnds
CHECK_DEADLOCK FALSE

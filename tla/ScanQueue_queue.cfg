SPECIFICATION FairSpec
CONSTANTS
    r1 = r1
    r2 = r2
    p1 = p1
    rootA = rootA
    Requests = {r1, r2}
    Projects = {p1}
    Roots = {rootA}
    RootOf <- MCRootOf
    Sweep = Sweep
    NoScope = NoScope
    MaxBoots = 2
    MaxRebuilds = 1
    MayExceedGrace = FALSE
CHECK_DEADLOCK FALSE
INVARIANTS
    RunningIsOwned
PROPERTIES
    StatusOnlyAdvances
    ResetOnlyOrphans
    EveryRequestSettles

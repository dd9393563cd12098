SPECIFICATION FairSpec
CONSTANTS
    p1 = p1
    p2 = p2
    rootA = rootA
    rootB = rootB
    f1 = f1
    f2 = f2
    high = high
    low = low
    t1 = t1
    t2 = t2
    l1 = l1
    l2 = l2
    ProjectOf <- MCProjectOf
    RootOf <- MCRootOf
    Filters <- MCFilters
    Grades = {high, low}
    None = None
    Free = Free
    NoTarget = NoTarget
    Findings = {f1}
    Silent = {f1}
    Projects = {p1}
    Roots = {rootA}
    Scopes <- MCEverywhere
    Targets = {t1}
    Lanes = {l1, l2}
    MaxFaults = 1
    MaxEdits = 2
INVARIANTS OnlyToldIsDone FewDuplicates NoBackflood
PROPERTIES EveryEventIsTold

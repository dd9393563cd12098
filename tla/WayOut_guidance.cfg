SPECIFICATION Spec
CONSTANTS
    app = app
    lib = lib
    vuln = vuln
    heir = heir
    cve1 = cve1
    cve2 = cve2
    None = None
    Name <- MCNames
    Version <- MCVersions
    Target <- MCTargets
    Worlds <- MCWorlds
    Requests <- MCRequests
    Node <- MCNodes
    MaxChains = 2
    MaxPaths = 4
    MaxExpansions = 20
INVARIANTS
    ReachIsTrue
    GuidanceIsTrue
    PathsAreRight
PROPERTIES
    EveryRequestEnds
CHECK_DEADLOCK FALSE

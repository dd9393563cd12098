SPECIFICATION FairSpec
CONSTANTS
    a1 = a1
    a2 = a2
    h1 = h1
    h2 = h2
    Advisories = {a1, a2}
    MaxTime = 3
    Handles = {h1}
    NoHandle = NoHandle
    Hidden = Hidden
    IdLimits = {1, 2}
    MaxFaults = 2
    MaxBuild = 2
INVARIANTS
    NothingMissed
PROPERTIES
    SnapshotsOnly
    CatchesUp

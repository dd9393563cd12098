SPECIFICATION GemFairSpec
CONSTANTS
    a1 = a1
    a2 = a2
    Advisories = {a1, a2}
    MaxRevision = 2
    MaxCommit = 3
    Slots = {1}
    MaxBreaks = 2
    MaxBuild = 2
INVARIANTS
    RowsMatchSha
    LiveAdvisoriesHaveRows
PROPERTIES
    CatchesUp

SPECIFICATION FairSpec
CONSTANTS
    f1 = f1
    f2 = f2
    p1 = p1
    p2 = p2
    t1 = t1
    t2 = t2
    s1 = s1
    s2 = s2
    ProjectOf <- MCProjectOf
    Policies <- MCPolicies
    Absent = Absent
    Findings = {f1}
    Projects = {p1}
    Targets = {t1, t2}
    Sweeps = {s1, s2}
    MaxAttempts = 2
    MaxFaults = 1
    MaxEdits = 1
INVARIANTS OldNewsIsSilent
PROPERTIES OneSummary BaselineEnds

SPECIFICATION Spec
CONSTANTS
    None = None
    LastDay = 3
    Sessions = {1, 2, 3}
    Lag = 1
    MaxBehind = 1
    MissingPct = 2
    MovePct = 20
    StaleRun = 2
    HeadGap = 0
    Jobs = {j1, j2}
    Worlds <- MCWorlds
    Restatements <- MCRestatements
    Flaws <- MCFlaws
    Overlap = 0
    CacheTicks = 1
    MinHistory = 2
    MaxClock = 9
    MaxJobs = 2
    MaxFlaws = 1
    MaxRevisions = 1
SYMMETRY MCSymmetry
INVARIANTS VersionsAreLinear CompleteWhenRetrieved ReplayIsExact ReturnsAreAHolders
CHECK_DEADLOCK FALSE

SPECIFICATION Spec
CONSTANTS
    None = None
    LastDay = 3
    Sessions = {1, 2, 3}
    Lag = 1
    MaxBehind = 1
    MissingPct = 2
    MovePct = 20
    StaleRun = 2
    HeadGap = 0
    Jobs = {j1}
    Worlds <- DividendThenSplit
    Restatements = {}
    Flaws = {}
    Overlap = 0
    CacheTicks = 1
    MinHistory = 2
    MaxClock = 9
    MaxJobs = 2
    MaxFlaws = 0
    MaxRevisions = 0
INVARIANTS AdjustedReturnsAreAHolders
CHECK_DEADLOCK FALSE

SPECIFICATION AdminSpec
CONSTANTS
    j1 = j1
    t1 = t1
    t2 = t2
    p1 = p1
    p2 = p2
    a1 = a1
    a2 = a2
    NoJob = NoJob
    Jobs = {j1}
    Tasks = {t1, t2}
    Procs = {p1, p2}
    Host <- HostApart
    UnknownJobs = {}
    MaxAttempts <- Budget
    Backoff <- UnitBackoff
    DeadLetterCap = 2
    MaxLag = 1
    MaxFaults = 1
    MaxResends = 0
    MaxStops = 1
    MaxRuns = 6
    Admins = {a1, a2}
    MaxRetries = 2
SYMMETRY Symmetry
INVARIANTS
    RetriesLoseNothing
    RetryBudget
\* every job may be finished and every poll empty: the worker then idles
CHECK_DEADLOCK FALSE

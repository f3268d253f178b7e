SPECIFICATION FairSpec
CONSTANTS
    j1 = j1
    j2 = j2
    t1 = t1
    t2 = t2
    p1 = p1
    p2 = p2
    NoJob = NoJob
    Jobs = {j1, j2}
    Tasks = {t1, t2}
    Procs = {p1}
    Host <- HostTogether
    UnknownJobs = {j2}
    MaxAttempts <- EqualBudgets
    Backoff <- UnitBackoff
    DeadLetterCap = 2
    MaxLag = 1
    MaxFaults = 2
    MaxResends = 0
    MaxStops = 2
    MaxRuns = 3
PROPERTIES
    Finishes
    ImplementsLifecycle
\* every job may be finished and every poll empty: the worker then idles
CHECK_DEADLOCK FALSE

SPECIFICATION Spec
CONSTANTS
    j1 = j1
    j2 = j2
    t1 = t1
    t2 = t2
    p1 = p1
    p2 = p2
    NoJob = NoJob
    Jobs = {j1, j2}
    Tasks = {t1, t2}
    Procs = {p1, p2}
    Host <- HostApart
    UnknownJobs = {}
    MaxAttempts <- TwoBudgets
    Backoff <- UnitBackoff
    DeadLetterCap = 1
    MaxLag = 1
    MaxFaults = 1
    MaxResends = 1
    MaxStops = 1
    MaxRuns = 3
INVARIANTS
    Exclusive
    Recoverable
    BudgetRespected
    DeadMeansExhausted
    NotStranded
\* every job may be finished and every poll empty: the worker then idles
CHECK_DEADLOCK FALSE

SPECIFICATION AccountsSpec
CONSTANTS
    r1 = r1
    r2 = r2
    c1 = c1
    s1 = s1
    x1 = x1
    x2 = x2
    t1 = t1
    t2 = t2
    t3 = t3
    Requests = {r1, r2}
    Challenges = {c1}
    States = {s1}
    Codes = {x1, x2}
    MaxSecrets = 2
    MaxConfirms = 2
    MaxFaults = 1
    None = None
    Mailers = {r1, r2}
    Links = {t1, t2, t3}
    MaxMailFaults = 1
    NoLink = NoLink
SYMMETRY Alike
INVARIANTS
    EnabledHasSecret
    GrantOnce
    SecondFactorHonoured
    LinkUsedOnce
    OneLink
    ResetRevokes
CHECK_DEADLOCK FALSE

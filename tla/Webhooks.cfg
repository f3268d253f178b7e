SPECIFICATION OrgSpec
CONSTANTS
    h1 = h1
    e1 = e1
    e2 = e2
    a1 = a1
    a2 = a2
    Hooks = {h1}
    Events = {e1, e2}
    Admins = {a1, a2}
    MaxAttempts = 2
    Inline = {e2}
    MaxFaults = 1
    MaxUpdates = 2
    NoRow = NoRow
    t1 = t1
    t2 = t2
    acme = acme
    acme7 = acme7
    id1 = id1
    Tenants = {t1, t2}
    Editors = {a1, a2}
    Names = {name, name2}
    Slugs = {acme, acme7, id1}
    SlugOf <- MCSlugOf
    Suffixed <- MCSuffixed
    ReadsAs <- MCReadsAs
    SlugTries = 2
    MaxEdits = 4
    NoOrg = NoOrg
    NotAnId = NotAnId
    Same = Same
SYMMETRY Alike
INVARIANTS
    StatusIsTrue
    AttemptsHonest
    EndsSettled
    KeyIsLastShown
    AnswerStands
PROPERTIES
    TerminalIsFinal
CHECK_DEADLOCK FALSE

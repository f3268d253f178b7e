SPECIFICATION GatewaySpec
CONSTANTS
    p1 = p1
    p2 = p2
    b1 = b1
    b2 = b2
    u1 = u1
    u2 = u2
    o1 = o1
    o2 = o2
    k1 = k1
    Slots = {p1, p2}
    Buckets = {b1, b2}
    BurstSize = 2
    RequestsPerMinute = 1
    Unit = 2
    IdleLimit = 2
    Window = 3
    Horizon = 6
    MaxRequests = 4
    NoBucket = NoBucket
    People = {u1, u2}
    Orgs = {o1, o2}
    Keys = {k1}
    Calls = {p1, p2}
    MaxChanges = 1
    MaxCalls = 3
    Nobody = Nobody
SYMMETRY Alike
INVARIANTS
    BucketBudget
    WindowBudget
    Entitled
PROPERTIES
    RevokedStays
CHECK_DEADLOCK FALSE

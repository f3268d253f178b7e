SPECIFICATION FairSpec
CONSTANTS
    Users = {u1}
    Registered = {u1}
    e1 = e1
    E1 = E1
    Emails = {e1, e2}
    Keys = {e1, e2, E1}
    Norm <- MCNorm
    Requests = {p1, p2}
    MaxWrites = 1
    MaxFaults = 1
    None = None
PROPERTIES
    Converges

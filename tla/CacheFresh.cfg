SPECIFICATION Spec
CONSTANTS
    Users = {u1, u2}
    Registered = {u1}
    e1 = e1
    E1 = E1
    Emails = {e1, e2}
    Keys = {e1, e2}
    Norm <- MCNorm
    Requests = {p1, p2}
    MaxWrites = 2
    MaxFaults = 1
    None = None
SYMMETRY Symmetry
INVARIANTS
    Genuine
    Fresh
PROPERTIES
    SaveIsPartial

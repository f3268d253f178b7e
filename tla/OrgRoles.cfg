SPECIFICATION Spec
CONSTANTS
    Users = {c, u1}
    Creator = c
    Addresses = {a1, a2, a3}
    Invitations = {i1, i2}
    Requests = {p1, p2}
    MaxMoves = 1
    None = None
SYMMETRY Symmetry
INVARIANTS
    SoleOwner
    Earned
PROPERTIES
    NeverDemoted
\* every account may be gone: nobody is left to send a request
CHECK_DEADLOCK FALSE

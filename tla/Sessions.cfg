SPECIFICATION Spec
CONSTANTS
    u1 = u1
    None = None
    Users = {u1}
    Sessions = {s1, s2, s3}
    Owner <- OneOwner
    ResetTokens = {r1, r2}
    ResetOwner <- OneResetOwner
    Requests = {p1, p2}
SYMMETRY Symmetry
INVARIANTS
    OneValidToken
    RotatedHasSuccessor
    SweptStayRevoked
    NoFalseAlarm
PROPERTIES
    RevokedIsFinal

SPECIFICATION Spec
CONSTANTS
    u1 = u1
    u2 = u2
    c1 = c1
    None = None
    ConfigOwner <- MCConfigOwner
    Guests = {u2}
    Configs = {c1}
    Callers = {k1}
    Users = {u1, u2}
    Paths = {p1, p2}
    Backends = {b1, b2, b3}
    Modes = {"unset", "on-failure"}
    StartResults = {"ok", "error", "late"}
    MaxRetries = 2
SYMMETRY MCSymmetry
INVARIANTS
    TypeOK
    TokenKnown
    PathOrigin
    BackendBinding
    OwnerKept
    OneRunningPerPath
CHECK_DEADLOCK FALSE

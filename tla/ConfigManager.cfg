SPECIFICATION MCSpec
CONSTANTS
    Users = {root, ovpn, u1}
    Root = root
    OpenVPN = ovpn
    Workers = {w1, w2}
    Paths = {p1}
    Keys = {k1}
    Tags = {t1}
    Contents <- MCContents
    None = None
    Broken = Broken
    StateDir = TRUE
    MaxCalls = 4
    CommandPaths = {pa, pb}
    CommandKeys = {ka, kb}
    Owner = u1
    People = {u1, u2}
    Fronts = {1, 2}
    Lines <- MCLines
INVARIANTS
    SavedWhenQuiet
    RemovedStaysRemoved
    OutcomeTold
PROPERTIES
    SealedStaysSealed
CHECK_DEADLOCK FALSE
SYMMETRY MCSymmetry

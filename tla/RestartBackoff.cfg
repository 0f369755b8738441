SPECIFICATION MCSpec
CONSTANTS
    MaxRetries = 10
    Uptimes <- MCUptimes
    MaxRuns = 13
    None = None
    Texts <- MCTexts
    LogLevels <- MCLogLevels
    Uids = {openvpn, other}
    ProcessUid = openvpn
    MaxEdits = 1
    Programs = {m1, m2, m3}
    Privileged = {m1, m2}
    Empty = Empty
    System = System
INVARIANTS
    BoundedRestarts
    StaticIdentity
PROPERTIES
    ConnectsAsChosen
    
CHECK_DEADLOCK FALSE

SPECIFICATION FairSpec
CONSTANTS
    None = None
    Callers = {k1, k2}
    Profiles <- MCPassword
    Kinds = {"connecting", "connected", "reconnecting", "dynamic", "fails", "timeout", "ends"}
    Blanks = TRUE
    MaxClients = 3
    MaxSlots = 3
INVARIANT OneConnection
INVARIANT RunningIsReachable
INVARIANT EndIsReported
 
CHECK_DEADLOCK FALSE

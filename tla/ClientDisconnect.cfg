SPECIFICATION FairSpec
CONSTANTS
    None = None
    Callers = {k1, k2}
    Profiles <- MCPassword
    Kinds = {"connecting", "connected"}
    Blanks = TRUE
    MaxClients = 3
    MaxSlots = 1
PROPERTY DisconnectEndsProcess
CHECK_DEADLOCK FALSE

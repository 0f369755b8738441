SPECIFICATION Spec
CONSTANTS
    None = None
    Callers = {k1}
    Profiles <- MCProfiles
    Kinds = {"connecting", "dynamic", "proxy", "pending", "url", "auth_failed", "fatal", "setup"}
    Blanks = FALSE
    MaxClients = 3
    MaxSlots = 4
INVARIANT CredentialsComplete
PROPERTY ReadyMeansConnect
CHECK_DEADLOCK FALSE

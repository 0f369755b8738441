SPECIFICATION ServicesSpec
CONSTANTS
    Sessions = {s1}
    Receivers = {owner, other}
    Owner = owner
    ProfileOwner = other
    Grantees = {other}
    MaxProcs = 2
    MaxProxies = 2
    MaxCalls = 1
    None = None
    Absent = Absent
    Workers = {w1}
    Admins = {a1, a2}
    CommandLine <- MCCommandLine
    Commands <- MCCommands
    Levels = {"5"}
    Unknown = {"bad"}
    MaxCommands = 2
    MaxKills = 1
    MaxWords = 3
SYMMETRY MCSymmetry
INVARIANTS
    RunningIsAssigned
    ListedReceives
    FileStaysUsable
    SettingsKept
    CompletedAsMeant
CHECK_DEADLOCK FALSE

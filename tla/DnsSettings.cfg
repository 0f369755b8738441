SPECIFICATION Spec
CONSTANTS
    sys = sys
    a = a
    b = b
    None = None
    Devices = {1, 2}
    Servers = {sys, a, b}
    Pushed <- MCPushed
    SysServers <- MCSysServers
    Backends = {"resolv.conf", "resolved"}
    Scopes = {"global"}
    Transports = {"dot"}
    Workers = {w1, w2}
    MaxReuse = 1
    MaxBacklog = 0
    MaxFaults = 1
SYMMETRY MCSymmetry
INVARIANTS
    ResolvConfFollows
PROPERTIES
    NewestLinkConfigured
CHECK_DEADLOCK FALSE

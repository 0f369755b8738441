SPECIFICATION CommandsSpec
CONSTANTS
    Fronts = {1, 2}
    Sessions = {1, 2}
    Slots = {1}
    MaxLoops = 1
    MaxEvents = 1
    MaxFaults = 1
    Root = root
    OpenVPN = ovpn
    None = None
    Owner = u1
    People = {u1, u2}
    Paths = {1, 2}
    Names = {1, 2}
    Lines <- SessionLines
INVARIANTS
    
    SharedAsAsked
PROPERTIES
    CommandEnds
CHECK_DEADLOCK FALSE

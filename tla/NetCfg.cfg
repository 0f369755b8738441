SPECIFICATION MCSpec
CONSTANTS
    None = None
    p1 = p1
    p2 = p2
    Clients = {p1, p2}
    DcoClients = {p1}
    Subscribers = {s1, s2}
    Root = {s2}
    Masks <- MCMasks
    RouteLists <- MCRouteLists
    Faults <- MCFaults
    MaxBuilders <- MCMaxBuilders
    MaxDevices <- MCMaxDevices
    MaxLate = 1
    AwsDevices = {d1, d2}
    AwsRouteSet = {r1, r2}
    MaxChanges = 3
    MaxFaults = 2
INVARIANT HeldDeviceExists
INVARIANT NothingLeft
INVARIANT SubscriberViewExact
INVARIANT TableFollows
PROPERTY DeadClientTornDown
CHECK_DEADLOCK FALSE

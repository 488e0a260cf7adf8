SPECIFICATION FairWatchSpec
CONSTANTS
    calc = calc
    math = math
    adder = adder
    absent = absent
    ServiceId = {s1}
    Description <- MCDescription
    Target = {calc}
    Health = {unknown}
    UnknownHealth = unknown
    Absent = absent
    BatchSize = {1}
    Failed = {TRUE}
    HeartbeatInterval = 1
    TimeoutMultiplier = 3
    IdleTimeout = 0
    UnknownEdgeTimeout = 0
    NodeUpdateThrottle = 1
    MaxPending = 1
    MaxTotal = 0
    MaxEdges = 1
    Browser = {b1}
    MaxInFlight = 1
INVARIANT MirrorsStore
PROPERTY SilentServiceLeavesView
